----------------------------- MODULE MintQuote ----------------------------
(***************************************************************************)
(* Receiving over Lightning (NUT-04 mint): quote_receive_lightning,        *)
(* poll_receive_lightning, complete_receive_lightning and                  *)
(* expire_mint_quote of the facade, CashuMintQuoteService, the rows of     *)
(* cashu_receive_quotes and the mint that issues the ecash.                *)
(*                                                                         *)
(* A call is a sequence of awaits.  Before each of them other calls, the   *)
(* sweep, the payer and the mint may act, and at each of them the call may *)
(* end with an error.  The ecash of a quote is Width outputs of a keyset,  *)
(* derived from consecutive values of its counter, so that the same row    *)
(* always asks for the same outputs.                                       *)
(*                                                                         *)
(* A definition marked (mutant) is not part of the model: it is what a     *)
(* plausible mistake would make of the definition that follows.            *)
(***************************************************************************)
EXTENDS Naturals, FiniteSets

CONSTANTS
    Quotes,      \* rows of cashu_receive_quotes, also the mint's quotes
    Workers,     \* shells and sweeps
    Steady,      \* workers whose calls fail only when post_mint times out
    Keysets,     \* keysets of the mint for the unit of the account
    Width,       \* outputs a quote is split into
    MaxCounter,  \* bound on keyset_counters
    None

VARIABLES
    \* Postgres
    qState,     \* state of the row, "NONE" when there is none
    qPlan,      \* its keyset_id and keyset_counter
    counter,    \* accounts.details.keyset_counters
    proofs,     \* outputs recorded in cashu_proofs
    late,       \* quotes whose expires_at has passed
    \* the mint and the network
    reqs,       \* post_mint requests on their way
    mState,     \* the mint's state of the quote
    signed,     \* outputs it has signed
    lost,       \* quotes whose signatures it can no longer restore
    retired,    \* keysets it has deactivated
    \* the workers
    pc, key, plan

rows   == <<qState, qPlan, counter, proofs>>
mint   == <<mState, signed, lost, retired>>
worker == <<pc, key, plan>>
vars   == <<rows, late, reqs, mint, worker>>

RowState == {"NONE", "UNPAID", "PAID", "COMPLETED", "EXPIRED", "FAILED"}
Label    == {"idle", "status", "process", "post", "awaiting", "restore",
             "record", "fail", "expire"}
Plans    == [keyset : Keysets, from : 0 .. MaxCounter]
Items    == Keysets \X (0 .. MaxCounter)

ASSUME MintQuoteAssumption ==
    /\ Steady \subseteq Workers
    /\ None \notin Quotes \cup Plans
    /\ Width \in Nat \ {0} /\ MaxCounter \in Nat

TypeOK ==
    /\ qState \in [Quotes -> RowState]
    /\ qPlan \in [Quotes -> Plans \cup {None}]
    /\ counter \in [Keysets -> 0 .. MaxCounter]
    /\ proofs \in SUBSET Items
    /\ late \in SUBSET Quotes
    /\ reqs \in SUBSET [by : Workers, quote : Quotes, plan : Plans]
    /\ mState \in [Quotes -> {"UNPAID", "PAID", "ISSUED"}]
    /\ signed \in SUBSET Items
    /\ lost \in SUBSET Quotes
    /\ retired \in SUBSET Keysets
    /\ pc \in [Workers -> Label]
    /\ key \in [Workers -> Quotes \cup {None}]
    /\ plan \in [Workers -> Plans \cup {None}]

Init ==
    /\ qState = [q \in Quotes |-> "NONE"]
    /\ qPlan = [q \in Quotes |-> None]
    /\ counter = [k \in Keysets |-> 0]
    /\ proofs = {} /\ late = {}
    /\ reqs = {}
    /\ mState = [q \in Quotes |-> "UNPAID"]
    /\ signed = {} /\ lost = {} /\ retired = {}
    /\ pc = [w \in Workers |-> "idle"]
    /\ key = [w \in Workers |-> None]
    /\ plan = [w \in Workers |-> None]

-----------------------------------------------------------------------------
(* Helpers.                                                                *)

\* The outputs PreMintSecrets derives for keyset and counter.
Outputs(p) == {<<p.keyset, i>> : i \in p.from .. p.from + Width - 1}

MoveTo(w, l) == pc' = [pc EXCEPT ![w] = l] /\ UNCHANGED <<key, plan>>

Stop(w) ==
    /\ pc' = [pc EXCEPT ![w] = "idle"]
    /\ key' = [key EXCEPT ![w] = None]
    /\ plan' = [plan EXCEPT ![w] = None]

\* The call of w goes on at label l with quote q and plan p.
Enter(w, l, q, p) ==
    /\ pc' = [pc EXCEPT ![w] = l]
    /\ key' = [key EXCEPT ![w] = q]
    /\ plan' = [plan EXCEPT ![w] = p]

Set(q, st) == qState' = [qState EXCEPT ![q] = st]

-----------------------------------------------------------------------------
(* The calls.  A call that reads a row in a state it has nothing to do in  *)
(* returns at once, and is not shown.                                      *)

\* create_quote: post_mint_quote, then create_cashu_receive_quote.  Only then
\* does anybody see the invoice.
CreateQuote(q) ==
    /\ qState[q] = "NONE"
    /\ Set(q, "UNPAID")
    /\ UNCHANGED <<qPlan, counter, proofs, late, reqs, mint, worker>>

\* poll_receive_lightning reads an UNPAID row.
StartPoll(w, q) ==
    /\ pc[w] = "idle" /\ qState[q] = "UNPAID"
    /\ Enter(w, "status", q, None)
    /\ UNCHANGED <<rows, late, reqs, mint>>

\* complete_receive_lightning reads a PAID row, with its keyset and counter.
StartComplete(w, q) ==
    /\ pc[w] = "idle" /\ qState[q] = "PAID"
    /\ Enter(w, "post", q, qPlan[q])
    /\ UNCHANGED <<rows, late, reqs, mint>>

\* expire_mint_quote reads an UNPAID row that the clock of the device calls
\* expired; the clock of the database may differ.
StartExpire(w, q) ==
    /\ pc[w] = "idle" /\ qState[q] = "UNPAID"
    /\ Enter(w, "expire", q, None)
    /\ UNCHANGED <<rows, late, reqs, mint>>

\* QuoteState::Paid and QuoteState::Issued are both a payment.
SeemsPaid(q) == mState[q] # "UNPAID"

\* poll_until_paid with a zero time-out: one look at the mint and, on a
\* payment, at the keysets.  Without an active one the call fails.
AskStatus(w) ==
    /\ pc[w] = "status"
    /\ \/ /\ SeemsPaid(key[w])
          /\ \E k \in Keysets \ retired :
                Enter(w, "process", key[w], [keyset |-> k, from |-> 0])
       \/ /\ ~ SeemsPaid(key[w]) \/ retired = Keysets
          /\ Stop(w)
    /\ UNCHANGED <<rows, late, reqs, mint>>

\* (mutant)
ProcessableAgain(q) == qState[q] \in {"UNPAID", "PAID"}

Processable(q) == qState[q] = "UNPAID"

\* (mutant)
TakeNothing(k, n) == UNCHANGED counter

\* The account row gives away n values of the counter of keyset k.
Take(k, n) == counter' = [counter EXCEPT ![k] = @ + n]

\* process_cashu_receive_quote_payment: a PAID or COMPLETED row is returned
\* unchanged, any other state but UNPAID is an error.
ProcessPayment(w) ==
    /\ pc[w] = "process"
    /\ LET q == key[w]
           k == plan[w].keyset IN
          IF Processable(q)
          THEN /\ counter[k] + Width <= MaxCounter
               /\ Take(k, Width)
               /\ Set(q, "PAID")
               /\ qPlan' = [qPlan EXCEPT ![q] = [keyset |-> k, from |-> counter[k]]]
          ELSE UNCHANGED <<counter, qState, qPlan>>
    /\ Stop(w)
    /\ UNCHANGED <<proofs, late, reqs, mint>>

\* The keys have been fetched and the outputs derived: post_mint is sent.
PostMint(w) ==
    /\ pc[w] = "post"
    /\ reqs' = reqs \cup {[by |-> w, quote |-> key[w], plan |-> plan[w]]}
    /\ MoveTo(w, "awaiting")
    /\ UNCHANGED <<rows, late, mint>>

\* An error that does not say "already issued": the row stays PAID.
TimeOut(w) ==
    /\ pc[w] = "awaiting"
    /\ Stop(w)
    /\ UNCHANGED <<rows, late, reqs, mint>>

\* attempt_restore: what the mint returns of the outputs.
Restore(w) ==
    /\ pc[w] = "restore"
    /\ \/ /\ Outputs(plan[w]) \subseteq signed /\ key[w] \notin lost
          /\ MoveTo(w, "record")
       \/ /\ Outputs(plan[w]) \cap signed = {} \/ key[w] \in lost
          /\ MoveTo(w, "fail")
    /\ UNCHANGED <<rows, late, reqs, mint>>

Completable(q) == qState[q] = "PAID"

\* complete_cashu_receive_quote with the proofs; a COMPLETED row is returned
\* as it is, and every other state but PAID is an error.
RecordProofs(w) ==
    /\ pc[w] = "record"
    /\ IF Completable(key[w])
       THEN /\ Set(key[w], "COMPLETED")
            /\ proofs' = proofs \cup Outputs(plan[w])
       ELSE UNCHANGED <<qState, proofs>>
    /\ Stop(w)
    /\ UNCHANGED <<qPlan, counter, late, reqs, mint>>

\* fail_cashu_receive_quote after an empty restore.
FailRow(w) ==
    /\ pc[w] = "fail"
    /\ IF qState[key[w]] = "UNPAID" THEN Set(key[w], "FAILED") ELSE UNCHANGED qState
    /\ Stop(w)
    /\ UNCHANGED <<qPlan, counter, proofs, late, reqs, mint>>

\* (mutant)
ExpirableWhenPaid(q) == qState[q] \in {"UNPAID", "PAID"} /\ q \in late

\* The guards of expire_cashu_receive_quote.
Expirable(q) == qState[q] = "UNPAID" /\ q \in late

ExpireRow(w) ==
    /\ pc[w] = "expire"
    /\ IF Expirable(key[w]) THEN Set(key[w], "EXPIRED") ELSE UNCHANGED qState
    /\ Stop(w)
    /\ UNCHANGED <<qPlan, counter, proofs, late, reqs, mint>>

\* A process stops, or an await ends with an error.
Crash(w) ==
    /\ pc[w] # "idle"
    /\ Stop(w)
    /\ UNCHANGED <<rows, late, reqs, mint>>

-----------------------------------------------------------------------------
(* The payer, the mint, other payments of the account and time.            *)

\* The invoice is paid; the mint may accept that after expires_at too.
Pay(q) ==
    /\ qState[q] # "NONE" /\ mState[q] = "UNPAID"
    /\ mState' = [mState EXCEPT ![q] = "PAID"]
    /\ UNCHANGED <<rows, late, reqs, signed, lost, retired, worker>>

Awaited(r) == pc[r.by] = "awaiting" /\ key[r.by] = r.quote

\* The mint answers a request with outcome l for the call that waits for it.
Answer(r, l) ==
    /\ reqs' = reqs \ {r}
    /\ IF ~ Awaited(r) THEN UNCHANGED worker
       ELSE IF l = "idle" THEN Stop(r.by) ELSE MoveTo(r.by, l)

\* NUT-04: an unpaid quote, or a keyset that signs no more.
Refused(r) == mState[r.quote] = "UNPAID" \/ r.plan.keyset \in retired

\* It signs the outputs of a paid quote, once ...
Issue(r) ==
    /\ r \in reqs
    /\ mState[r.quote] = "PAID" /\ Outputs(r.plan) \cap signed = {} /\ ~ Refused(r)
    /\ mState' = [mState EXCEPT ![r.quote] = "ISSUED"]
    /\ signed' = signed \cup Outputs(r.plan)
    /\ Answer(r, "record")
    /\ UNCHANGED <<rows, late, lost, retired>>

\* (mutant)
UnrecognisedError == "idle"

\* is_already_issued_error.
IssuedError == "restore"

\* ... says that the quote is issued or an output is signed already ...
AlreadyIssued(r) ==
    /\ r \in reqs
    /\ mState[r.quote] = "ISSUED" \/ Outputs(r.plan) \cap signed # {}
    /\ Answer(r, IssuedError)
    /\ UNCHANGED <<rows, late, mint>>

\* ... or refuses.
Refuse(r) ==
    /\ r \in reqs
    /\ mState[r.quote] # "ISSUED" /\ Refused(r)
    /\ Answer(r, "idle")
    /\ UNCHANGED <<rows, late, mint>>

\* The mint deactivates a keyset.
Retire(k) ==
    /\ k \notin retired
    /\ retired' = retired \cup {k}
    /\ UNCHANGED <<rows, late, reqs, mState, signed, lost, worker>>

\* The mint loses the signatures of a quote it has issued.
Lose(q) ==
    /\ mState[q] = "ISSUED" /\ q \notin lost
    /\ lost' = lost \cup {q}
    /\ UNCHANGED <<rows, late, reqs, mState, signed, retired, worker>>

\* A swap of the account takes one output, which the mint signs.  The bound
\* leaves room for the quotes that are still to be paid.
OtherSwap(k) ==
    /\ k \notin retired /\ counter[k] < MaxCounter
    /\ counter[k] + Width * Cardinality({q \in Quotes : qState[q] \in {"NONE", "UNPAID"}})
          < MaxCounter
    /\ Take(k, 1)
    /\ signed' = signed \cup {<<k, counter[k]>>}
    /\ proofs' = proofs \cup {<<k, counter[k]>>}
    /\ UNCHANGED <<qState, qPlan, late, reqs, mState, lost, retired, worker>>

\* expires_at passes.
TimePasses(q) ==
    /\ qState[q] # "NONE" /\ q \notin late
    /\ late' = late \cup {q}
    /\ UNCHANGED <<rows, reqs, mint, worker>>

-----------------------------------------------------------------------------

\* The rest of a call, once it has read its row.
CallStep(w) ==
    \/ AskStatus(w)
    \/ ProcessPayment(w)
    \/ PostMint(w)
    \/ Restore(w)
    \/ RecordProofs(w)
    \/ FailRow(w)
    \/ ExpireRow(w)

MintStep == \E r \in reqs : Issue(r) \/ AlreadyIssued(r) \/ Refuse(r)

Next ==
    \/ \E q \in Quotes : CreateQuote(q) \/ Pay(q) \/ Lose(q) \/ TimePasses(q)
    \/ \E w \in Workers, q \in Quotes :
          StartPoll(w, q) \/ StartComplete(w, q) \/ StartExpire(w, q)
    \/ \E w \in Workers : CallStep(w) \/ TimeOut(w)
    \/ \E w \in Workers \ Steady : Crash(w)
    \/ \E k \in Keysets : Retire(k) \/ OtherSwap(k)
    \/ MintStep

Spec == Init /\ [][Next]_vars

-----------------------------------------------------------------------------
(* Safety.                                                                 *)

\* The row and the mint agree, whatever was lost between them.  PAID and
\* COMPLETED mean that the invoice was paid, and COMPLETED that all its ecash is
\* in the balance, where nothing lacks a signature.  Ecash the mint has issued,
\* or has been asked to issue, is never out of reach: the row is PAID or
\* COMPLETED and names the very outputs, so that any later call restores what a
\* lost answer, a crash or a race left behind.
RowAndMintAgree ==
    /\ \A q \in Quotes : qState[q] \in {"PAID", "COMPLETED"} => mState[q] # "UNPAID"
    /\ \A q \in Quotes : qState[q] = "COMPLETED" => Outputs(qPlan[q]) \subseteq proofs
    /\ proofs \subseteq signed
    /\ \A q \in Quotes : mState[q] = "ISSUED" =>
          qState[q] \in {"PAID", "COMPLETED"} /\ Outputs(qPlan[q]) \subseteq signed
    /\ \A r \in reqs :
          qState[r.quote] \in {"PAID", "COMPLETED"} /\ r.plan = qPlan[r.quote]

\* Whatever else takes outputs of the keyset meanwhile, those of a paid quote
\* are its own and stay unsigned until it is issued.  Otherwise the mint would
\* call them already signed, and the restore would find somebody else's.
OutputsAreReserved ==
    \A q \in Quotes : qState[q] = "PAID" =>
        /\ mState[q] = "PAID" => Outputs(qPlan[q]) \cap signed = {}
        /\ \A r \in Quotes \ {q} :
              qPlan[r] = None \/ Outputs(qPlan[q]) \cap Outputs(qPlan[r]) = {}

\* COMPLETED, EXPIRED and FAILED are final, and a payment once recorded is not
\* taken back: a late expiry, failure or second poll leaves the row alone.
PaymentsStayRecorded ==
    [][\A q \in Quotes :
          /\ qState[q] \in {"COMPLETED", "EXPIRED", "FAILED"} => qState'[q] = qState[q]
          /\ qState[q] = "PAID" =>
                qState'[q] \in {"PAID", "COMPLETED"} /\ qPlan'[q] = qPlan[q]]_vars

-----------------------------------------------------------------------------
(* Liveness: calls go on, the mint answers, expiry times pass, and a steady*)
(* worker, the sweep, comes back to every UNPAID and PAID row.  Its        *)
(* post_mint may time out, but not every time; other workers may crash for *)
(* ever.                                                                   *)

FairSpec ==
    /\ Spec
    /\ \A w \in Steady : WF_vars(CallStep(w))
    /\ \A q \in Quotes :
          /\ SF_vars(\E w \in Steady : StartPoll(w, q) \/ StartExpire(w, q))
          /\ SF_vars(\E w \in Steady : StartComplete(w, q))
          /\ SF_vars(\E r \in {a \in reqs : a.by \in Steady /\ a.quote = q /\ Awaited(a)} :
                        Issue(r) \/ AlreadyIssued(r))
          /\ WF_vars(TimePasses(q))
    /\ WF_vars(MintStep)

\* A payment is recorded, unless its row expires first (by the clock, without a
\* look at the mint) or the mint is left without an active keyset.
PaymentsAreNoticed ==
    \A q \in Quotes :
        qState[q] = "UNPAID" /\ mState[q] # "UNPAID" ~>
            qState[q] \in {"PAID", "COMPLETED", "EXPIRED"} \/ retired = Keysets

\* A recorded payment becomes ecash, through lost answers, races and crashes,
\* unless the mint retires the keyset before it issues, or loses signatures.
PaidRowsComplete ==
    \A q \in Quotes :
        qState[q] = "PAID" ~>
            \/ qState[q] = "COMPLETED" \/ q \in lost
            \/ qState[q] = "PAID" /\ mState[q] = "PAID" /\ qPlan[q].keyset \in retired

\* What the payer has paid becomes ecash of the wallet, but for these cases:
\* no crash, lost answer or late call of another process is one of them.
PaymentsBecomeEcash == PaymentsAreNoticed /\ PaidRowsComplete

=============================================================================
