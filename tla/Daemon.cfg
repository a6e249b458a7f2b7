CONSTANTS
  Ids = {e1, e2}
  Ifaces <- MCIfaces
  Args <- MCArgs
  MCRpcs = {"netem", "ebpf", "partition", "dns", "http-abort", "http-delay", "stress", "node-partition", "node-stress"}
  Requests <- MCRequests
  MayFail = {"tc", "iptables", "stress-ng"}
  MaxRestarts = 1
SPECIFICATION Spec
SYMMETRY IdSymmetry
CHECK_DEADLOCK FALSE
INVARIANTS
  NothingStolen
  HostIsExact
  ProgramsAreExact
PROPERTIES
  ImplementsService
