CONSTANTS
    Quotes = {q1}
    Invoices = {i1}
    Proofs = {p1}
    Callers = {c1, c2}
    Pollers = {s1, s2}
    Storages = {"supabase", "inMemory"}
    None = None
SPECIFICATION FairSpec
CHECK_DEADLOCK FALSE
PROPERTIES
    QuotesResolve
    PaymentsAreNoticed
