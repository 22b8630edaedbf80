SPECIFICATION Spec
CONSTANTS
  Cpus = {c1, c2}
  Boot = c1
  Nobody = Nobody
  BufSize = 4
  MaxSaid = 7
CHECK_DEADLOCK FALSE
INVARIANT IoBaseCurrent
INVARIANT NewestKept
INVARIANT OneBehind
INVARIANT CrBeforeLf
PROPERTY ImplementsQueue
