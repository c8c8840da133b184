-------------------------- MODULE TokenSwapsLiveness ----------------------
(***************************************************************************)
(* TokenSwaps with the fairness of the resumption driver: the sweep comes  *)
(* back to every unresolved row and its calls go on.  Other processes may  *)
(* crash, lose replies for ever, or stop between two awaits.  A caller     *)
(* may also use CashuSendSwapService::fail on a DRAFT, which no code does  *)
(* outside the tests of the service, so the path behind an empty restore   *)
(* is taken.                                                               *)
(*                                                                         *)
(* What the shipped storage cannot promise is due to what its rows come    *)
(* back without: see ReadInputs and ReadToken.                             *)
(***************************************************************************)
EXTENDS TokenSwaps

CONSTANT Steady     \* the worker that does not crash

ASSUME SteadyAssumption == Steady \in Workers

\* A caller that has stored nothing yet may always give up.
GiveUp(w) == pc[w] \in {"createSend", "createReversal"} /\ Crash(w)

Step(w) == SendStep(w) \/ RecvStep(w) \/ GiveUp(w)

LiveNext ==
    \/ \E w \in Workers : Step(w)
    \/ \E w \in Workers \ {Steady} : Crash(w)
    \/ \E k \in Tokens : ClaimElsewhere(k)
    \/ \E s \in Sends : AbortDraft(s)

\* handle_send_swap and handle_receive_swap of the sweep: one call per row.
SweepSend(s) == ResumeDraft(Steady, s) \/ CheckClaimed(Steady, s)

SweepRecv(k) == ResumeReceive(Steady, k)

\* WF: every await of a call ends, with a result or an error; other processes
\* may stop at any of theirs.  SF: the driver sweeps for ever, so a row that is
\* unresolved again and again is picked up.
LiveSpec ==
    /\ Init
    /\ [][LiveNext]_vars
    /\ WF_vars(pc[Steady] # "idle" /\ Step(Steady))
    /\ \A s \in Sends : SF_vars(SweepSend(s))
    /\ \A k \in Tokens : SF_vars(SweepRecv(k))

-----------------------------------------------------------------------------

\* A DRAFT does not keep its inputs reserved for ever: the sweep commits it,
\* restores it, or fails it when the mint has nothing to restore.  With the
\* Supabase storage that is only so for the call that made the row, if it gets
\* through: a resumed one has no inputs to post.
DraftsResolve ==
    \A s \in Sends :
        (/\ sState[s] = "DRAFT"
         /\ storage # "supabase" \/ (key[Steady] = s /\ sel[Steady] # {}))
            ~> sState[s] \in {"PENDING", "FAILED"}

\* A PENDING receive ends with its proofs stored or with a failure, also when
\* it reverses a send that is being claimed and completed at the same time.
ReceivesResolve ==
    \A k \in Tokens : rState[k] = "PENDING" ~> rState[k] \in {"COMPLETED", "FAILED"}

\* No row of either kind is left for ever in a state the sweep resumes.
SwapsResolve == DraftsResolve /\ ReceivesResolve

\* Once a token is spent its send row ends, whoever spent it and whether or
\* not a reversal has to fail first ("Reversal in progress"); with the Supabase
\* storage, when a swap made the token.
ClaimsAreNoticed ==
    \A s \in Sends :
        (/\ sState[s] = "PENDING" /\ sTok[s] \subseteq spent
         /\ storage # "supabase" \/ sOut[s] # {})
            ~> sState[s] \in {"COMPLETED", "REVERSED"}

=============================================================================
