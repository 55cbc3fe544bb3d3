CONSTANTS
  s1 = s1
  s2 = s2
  s3 = s3
  a1 = a1
  a2 = a2
  NoThread = NoThread
  NoArg = NoArg
  Threads = {t1, t2}
  Signals <- MCSignals
  Args <- MCArgs
  CallGraph <- MCCallGraph
  BadScripts <- MCBad
  MinAuth <- MCMinAuth
  Flags = {0, 1}
  MaxCalls = 2
  MaxDepth = 3
  MaxRaised = 1
SPECIFICATION Spec
CHECK_DEADLOCK FALSE
INVARIANT NoRecursion
