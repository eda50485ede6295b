SPECIFICATION PlanSpec
CONSTANTS
  a = a
  b = b
  r1 = r1
  r2 = r2
  Sessions = {a, b}
  NsIds = {0, 1}
  Ops = {"ping", "bad", "namespace", "select", "facts", "transact"}
  Faults = {"disconnect", "error", "signal"}
  Readers = {r1, r2}
  Slots = 2
  MaxReq = 3
  MaxTx = 2
SYMMETRY Symmetric
INVARIANTS
  OneInFlight
  RepliesInOrder
  EventsComplete
  CommitsAnswered
  AnswersFresh
  SelectTakesEffect
  EndedLeave
CHECK_DEADLOCK FALSE
