SPECIFICATION PartSpec
CONSTANTS
  Proposal = {p1, p2}
  Worker = {w1, w2}
  MaxEntries = 2
  TTL = 2
  MaxApprovals = 3
  MaxBack = 1
  Caller = {c1, c2}
  RunProposal = {p1, p2}
  RunWorker = {v1}
  MaxGrants = 1
  RestartMax = 1
  RestartWindow = 1
  Kinds = {"immediate"}
  MaxFailures = 1
INVARIANTS
  ActionsArePaid
  RestartBudget
  FinishedIsStopped
PROPERTIES
  ActsInTime
  LiveApprovalsKept
  ImplementsApprovalGate
SYMMETRY IdSymmetry
CHECK_DEADLOCK FALSE
