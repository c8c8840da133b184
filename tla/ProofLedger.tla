---------------------------- MODULE ProofLedger ---------------------------
(***************************************************************************)
(* What a wallet promises about each of its ecash proofs, whatever rows,   *)
(* workers and crashes are behind it:                                      *)
(*                                                                         *)
(*   absent ---> pending ---> available ---> held ---> gone                *)
(*                  \_________________________^                            *)
(*                                                                         *)
(* absent: not signed by the mint; pending: signed, not yet recorded;      *)
(* available: part of the balance; held: set aside for a payment; gone:    *)
(* spent at the mint.  A proof of the balance is never spent without being *)
(* set aside first, an unrecorded one is never lost, and nothing that is   *)
(* gone comes back.                                                        *)
(***************************************************************************)
CONSTANTS Proofs, Initial

VARIABLE status

Status == {"absent", "pending", "available", "held", "gone"}

LedgerInit ==
    status = [p \in Proofs |-> IF p \in Initial THEN "available" ELSE "absent"]

With(st) == {p \in Proofs : status[p] = st}

\* A payment sets proofs P of the balance aside.
Hold(P) ==
    /\ P \subseteq With("available")
    /\ status' = [p \in Proofs |-> IF p \in P THEN "held" ELSE status[p]]

\* The mint takes held proofs P (none, when new value comes in) and signs
\* outputs Q (none, when somebody else swaps), which are still to be recorded.
Swap(P, Q) ==
    /\ P \subseteq With("held") /\ Q \subseteq With("absent")
    /\ status' = [p \in Proofs |-> IF p \in P THEN "gone"
                                   ELSE IF p \in Q THEN "pending" ELSE status[p]]

\* The outputs P of a swap are recorded: Q are set aside, the others balance.
Record(P, Q) ==
    /\ Q \subseteq P /\ P \subseteq With("pending")
    /\ status' = [p \in Proofs |-> IF p \in Q THEN "held"
                                   ELSE IF p \in P THEN "available" ELSE status[p]]

LedgerNext ==
    \/ \E P \in SUBSET With("available") : Hold(P)
    \/ \E P \in SUBSET With("held"), Q \in SUBSET With("absent") : Swap(P, Q)
    \/ \E P \in SUBSET With("pending") : \E Q \in SUBSET P : Record(P, Q)

LedgerSpec == LedgerInit /\ [][LedgerNext]_status

=============================================================================
