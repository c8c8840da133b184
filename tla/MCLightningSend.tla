--------------------------- MODULE MCLightningSend ------------------------
(* Model-checking instances of LightningSend.                              *)
EXTENDS LightningSend, TLC

\* Calls, rows and proofs are interchangeable.
Symmetry == Permutations(Callers) \cup Permutations(Quotes) \cup Permutations(Proofs) \cup
            Permutations(Invoices)

=============================================================================
