CONSTANTS
    Quotes = {q1, q2}
    Invoices = {i1, i2}
    Proofs = {p1, p2}
    Callers = {c1, c2}
    Pollers = {s1}
    Storages = {"supabase", "inMemory"}
    None = None
SYMMETRY Symmetry
SPECIFICATION Spec
CHECK_DEADLOCK FALSE
INVARIANTS
    OnePaymentPerInvoice
    ExpiredNeverPaid
    FailedOnlyByRace
    ProofsFollowTheRow
