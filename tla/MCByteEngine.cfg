CONSTANTS
  Code <- MCCode
  Entry = "main"
  EntryArgs <- MCArgs
  Fields <- MCFields
  DispatchTable <- MCTable
  Resolve <- MCResolve
  VtableFn <- MCVtable
  NativeResults <- MCResults

SPECIFICATION Spec

PROPERTY ControlRefined
