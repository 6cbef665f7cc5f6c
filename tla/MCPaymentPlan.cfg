SPECIFICATION Spec
CONSTANTS
    Sums <- Cents
    MaxPay = 4
    MaxBoundaryAmount = 5
    MaxFunds = 8
    NoLimit = NoLimit
INVARIANTS TypeOK SpendIsApproved LimitsHold BalanceAccounts
CHECK_DEADLOCK FALSE
