CONSTANTS
  Threads = {"t1", "t2"}
  Libs = {"exe", "libA", "libB", "libC"}
  Syms = {"f", "g"}
  Defines <- MCDefines
  Missing = {"libC"}
  CloseFails = {}
  Preloaded = {"exe"}
  Script <- MCScript
  NoThread = NoThread
  NoAddr = NoAddr

SPECIFICATION Spec

INVARIANT HeldMapped
