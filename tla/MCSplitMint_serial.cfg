SPECIFICATION FairSpec
CONSTANTS
    I1 = I1  I2 = I2  a = a  b = b  c = c
    Procs = {a}
    Intents = {I1, I2}
    Amount <- Amounts
    MaxBalance <- Limit
    None = None
    ReadCommitted = FALSE
    LateDelivery = TRUE
INVARIANTS BalanceCap Recoverable
PROPERTY IssuedIsRecorded
CHECK_DEADLOCK FALSE
