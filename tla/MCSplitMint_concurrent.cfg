SPECIFICATION Spec
CONSTANTS
    I1 = I1  I2 = I2  a = a  b = b  c = c
    Procs = {a, b, c}
    Intents = {I1}
    Amount <- Amounts
    MaxBalance <- Limit
    None = None
    ReadCommitted = TRUE
    LateDelivery = TRUE
SYMMETRY Symmetric
INVARIANTS TypeOK ApprovedOnce IssuedIsReal
PROPERTY ImplementsOneShot
CHECK_DEADLOCK FALSE
