\* One project on a host where ps may time out.
CONSTANTS
  c1 = c1  c2 = c2  c3 = c3  p1 = p1  p2 = p2
  Cli = {c1, c2, c3}
  NoCli = NoCli
  Project <- OneProject
  ProjectOf <- AllOnOne
  NPorts = 2
  Outside = {}
  NoPort = NoPort
  DefaultPort <- OneDefault
  Busy = {1}
  Request = {NoPort}
  Expect = {NoCli}
  Faults = {"ps_timeout"}
SYMMETRY CliSymmetry
SPECIFICATION Spec
INVARIANT LiveIsRecorded
CHECK_DEADLOCK FALSE
