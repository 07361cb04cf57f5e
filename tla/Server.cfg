\* One worker, one script, two changes of the file; main waits three rounds.
CONSTANTS
  Workers = {w1}
  Scripts = {x1}
  Files = {f1, f2, bad}
  FirstFile = f1
  BadFile = bad
  MaxEdits = 2
  Total = 3
SPECIFICATION Spec
PROPERTIES ServerStops ReloadReaches ZombiesReaped
\* The server may have ended.
CHECK_DEADLOCK FALSE
