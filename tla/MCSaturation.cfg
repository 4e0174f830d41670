SPECIFICATION FairSpec
CONSTANTS
    Root <- MCRoot
    Conclusion <- MCConclusion
    Dest <- MCDest
    InitOf <- MCInitOf
    Dispatch <- MCDispatch
    NoRoot = NoRoot
    NoConclusion = NoConclusion
    Unlimited = Unlimited
    Key = {k1}
    MaxBudget = 1
    MaxFaults = 2
INVARIANTS
    TypeOK
    NoStrandedWork
    RetryFirst
    ReturnedIsFixedPoint
    NothingUnderivable
    IInv
PROPERTIES
    WorkIsMonotone
    ImplementsClosure
    Converges
