CONSTANTS
    t1 = t1
    t2 = t2
    m1 = m1
    m2 = m2
    Tokens = {t1, t2}
    Mints = {m1, m2}
    MintOf <- MCMintOf
    Pages = {p1, p2}
    None = None
SPECIFICATION FairSpec
INVARIANTS
    OneSparkAccount
    SuccessIsCredit
PROPERTIES
    AnnouncedIsCredited
