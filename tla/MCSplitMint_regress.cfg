SPECIFICATION Spec
CONSTANTS
    I1 = I1  I2 = I2  a = a  b = b  c = c
    Procs = {a, b}
    Intents = {I1}
    Amount <- Amounts
    MaxBalance <- Limit
    None = None
    ReadCommitted = FALSE
    LateDelivery = FALSE
PROPERTY IssuedForever
CHECK_DEADLOCK FALSE
