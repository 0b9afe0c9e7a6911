CONSTANTS
  Coros = {m, c1, c2}
  Main = m
  MaxStack = 5

SPECIFICATION Spec

INVARIANT RegistersOwned
PROPERTY CoroutinesRefined
