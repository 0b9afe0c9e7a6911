CONSTANTS
  Code <- MCCode
  Entry = "main"
  Arity <- MCArity
  Fields <- MCFields
  Consts <- MCNoConsts
  InitStatics <- MCNoConsts
  Obj = {o1, o2, o3}
  NativeResults <- MCNativeResults
  NativeAllocates = {}
  Breakpoints = {}
  Debugging = FALSE
  Slack = 3
  InitCap = 6
  MaxCap = 24
  MaxGC = 0
  ClassId <- MCClassId
  DispatchTable <- MCDispatchTable
  Vtable <- MCVtable
  Resolve <- MCResolve
  Responds <- MCResponds
  CacheSize = 2
  ForeignAddrs = {}
  ForeignResult <- MCNoForeign

SPECIFICATION Spec







PROPERTY NsmSeesSelector
