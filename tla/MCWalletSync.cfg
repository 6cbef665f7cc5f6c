SPECIFICATION SyncSpec
CONSTANTS
    I1 = I1  p1 = p1  p2 = p2  c1 = c1  a = a  r = r
    Procs = {a}
    Intents = {I1}
    Proofs = {p1, p2, c1}
    Change <- OneChange
    Selections <- Plans
    Exact <- ExactPlans
    None = None
    ReadCommitted = FALSE
    LateDelivery = FALSE
    Readers = {r}
    Token = {p2}
    NoBackup = NoBackup
INVARIANTS SyncTypeOK OwnReservation OwnBalanceReal
PROPERTY AuditSound
CHECK_DEADLOCK FALSE
