\* Two projects whose paths hash to the same, busy port; a command may be killed.
CONSTANTS
  c1 = c1  c2 = c2  c3 = c3  p1 = p1  p2 = p2
  Cli = {c1, c2, c3}
  NoCli = NoCli
  Project <- TwoProjects
  ProjectOf <- TwoOnFirst
  NPorts = 3
  Outside = {7}
  NoPort = NoPort
  DefaultPort <- SameDefault
  Busy = {2}
  Request = {NoPort, 0}
  Expect = {NoCli}
  Faults = {"cli_crash"}
SPECIFICATION Spec
INVARIANT DistinctProfiles
CHECK_DEADLOCK FALSE
