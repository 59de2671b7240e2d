\* One project, every fault, fair scheduling.
CONSTANTS
  c1 = c1  c2 = c2  c3 = c3  p1 = p1  p2 = p2
  Cli = {c1, c2}
  NoCli = NoCli
  Project <- OneProject
  ProjectOf <- AllOnOne
  NPorts = 2
  Outside = {}
  NoPort = NoPort
  DefaultPort <- OneDefault
  Busy = {1}
  Request = {NoPort}
  Expect = {NoCli, c1}
  Faults = {"cli_crash", "pid_reuse", "ps_timeout", "popen_interrupt"}
SPECIFICATION FairSpec
INVARIANT RunningWasHealthy
PROPERTIES CommandsEnd ClaimsEnd
CHECK_DEADLOCK FALSE
