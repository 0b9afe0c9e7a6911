CONSTANTS
  Code <- MCCode
  Entry = "main"
  Arity <- MCArity
  Fields <- MCFields
  Consts <- MCConsts
  InitStatics <- MCNoStatics
  Obj = {o1, o2}
  NativeResults <- MCNoNatives
  NativeAllocates = {}
  Breakpoints = {}
  Debugging = FALSE
  Slack = 3
  InitCap = 6
  MaxCap = 12
  MaxGC = 1
  ClassId <- MCNoClasses
  DispatchTable <- MCNoTable
  Vtable <- MCNoTable
  Resolve <- MCNoResolve
  Responds <- MCNoResponds
  CacheSize = 1
  ForeignResult <- MCForeignResult
  ForeignAddrs <- MCLowAddrs

SPECIFICATION Spec

PROPERTY ForeignRoundTrip
