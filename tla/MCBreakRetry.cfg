CONSTANTS
  Code <- MCCode
  Entry = "main"
  Arity <- MCArity
  Fields <- MCFields
  Consts <- MCConsts
  InitStatics <- MCStatics
  Obj = {o1, o2, o3, o4}
  NativeResults <- MCNativeResults
  NativeAllocates = {"SmiAdd", "Send"}
  Breakpoints <- MCRetryBreakpoints
  Debugging = TRUE
  Slack = 3
  InitCap = 6
  MaxCap = 16
  MaxGC = 2
  ClassId <- MCNoClasses
  DispatchTable <- MCNoTable
  Vtable <- MCNoTable
  Resolve <- MCNoResolve
  Responds <- MCNoResponds
  CacheSize = 1
  ForeignAddrs = {}
  ForeignResult <- MCNoForeign

SPECIFICATION Spec

PROPERTY NoRepeatedBreak
