SPECIFICATION Spec
CONSTANTS
    I1 = I1  I2 = I2  p1 = p1  p2 = p2  c1 = c1  c2 = c2
    a = a  b = b  c = c
    Procs = {a, b}
    Intents = {I1}
    Proofs = {p1, p2, c1}
    Change <- OneChange
    Selections <- OnePlan
    Exact <- NoPlan
    None = None
    ReadCommitted = TRUE
    LateDelivery = FALSE
INVARIANT ExpiredNeverExecuted
CHECK_DEADLOCK FALSE
