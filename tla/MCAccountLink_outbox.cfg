SPECIFICATION FairSpec
CONSTANTS
  r1 = r1
  r2 = r2
  Links = {l1}
  Requests = {r1, r2}
  Timer = Timer
  NoLink = NoLink
  Calls <- ReadsAndWrites
INVARIANTS CompletedIsRevoked LateRefused ApprovalWaits
PROPERTIES PendingDelivered ProjectionRefreshed PromiseKept
