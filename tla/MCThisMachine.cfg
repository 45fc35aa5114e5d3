SPECIFICATION LiveSpec
CONSTANTS
  None = None
  c1 = c1
  c2 = c2
  c3 = c3
  p1 = p1
  p2 = p2
  Commands = {c1, c2, c3}
  Does <- MCDoes
  Pids = {p1, p2}
  Faults = {"listing", "write", "kill"}
 
 
 
PROPERTY CommandsEnd
CHECK_DEADLOCK FALSE
