CONSTANTS
    r1 = r1
    r2 = r2
    w1 = w1
    w2 = w2
    c1 = c1
    c2 = c2
    id = id
    None = None
    Odd = Odd
    Runs <- MCRuns
    Trees <- MCTrees
    TreeOf <- MCTreeOf
    Names = {1, 2}
    Contents = {c1, c2}
    Ids = {id}
    Claims <- MCClaims
    Initial <- MCInitial
    MaxChanges = 1
    MaxFaults = 1
SPECIFICATION FairSpec
INVARIANT ReceiptsVerify
PROPERTIES NeverOverwritten EventuallySafe
