\* One project, three commands, crashes and reused pids.
CONSTANTS
  c1 = c1  c2 = c2  c3 = c3  p1 = p1  p2 = p2
  Cli = {c1, c2, c3}
  NoCli = NoCli
  Project <- OneProject
  ProjectOf <- AllOnOne
  NPorts = 2
  Outside = {}
  NoPort = NoPort
  DefaultPort <- OneDefault
  Busy = {1}
  Request = {NoPort}
  Expect = {NoCli}
  Faults = {"cli_crash", "pid_reuse"}
SYMMETRY CliSymmetry
SPECIFICATION Spec
INVARIANTS TypeOK LiveIsRecorded RunningIsPersisted RunningWasHealthy StoppedIsQuiet ReturnsSettled ChildHasToken
PROPERTIES ImplementsPromise TokenKept
CHECK_DEADLOCK FALSE
