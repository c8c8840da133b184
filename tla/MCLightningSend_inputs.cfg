CONSTANTS
    Quotes = {q1}
    Invoices = {i1}
    Proofs = {p1}
    Callers = {c1}
    Pollers = {s1}
    Storages = {"supabase"}
    None = None
SPECIFICATION Spec
CHECK_DEADLOCK FALSE
INVARIANTS
    MeltsCarryInputs
