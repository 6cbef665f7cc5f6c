SPECIFICATION Spec
CONSTANTS
    I1 = I1  I2 = I2  p1 = p1  p2 = p2  c1 = c1  c2 = c2
    a = a  b = b  c = c
    Procs = {a}
    Intents = {I1, I2}
    Proofs = {p1, p2, c1, c2}
    Change <- TwoChange
    Selections <- ChangePlans
    Exact <- ExactPlans
    None = None
    ReadCommitted = FALSE
    LateDelivery = FALSE
INVARIANTS ReservationIntegrity NoPhantomBalance ExpiredNeverExecuted
PROPERTY DecidedForever
CHECK_DEADLOCK FALSE
