SPECIFICATION Spec
CONSTANTS
  Ifaces = {1, 2}
  Macs = {m1}
  Rates = {r1}
  Slots = {s1}
  RuleIds = {0, 1}
  Absent = Absent
  Handlers = {h1, h2}
  Topologies <- MCTopologies
  NotOwed = NotOwed
  MaxRequests = 4
SYMMETRY HandlerSymmetry
INVARIANTS
  TypeOK
  AckedSurvives
  SavedWhenQuiet
PROPERTIES
  RestartInventsNothing
  ImplementsDurable
