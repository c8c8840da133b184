--------------------------- MODULE LightningSend --------------------------
(***************************************************************************)
(* Paying Lightning invoices with ecash (NUT-05 melt): begin_send_lightning*)
(* and poll_send_lightning of the facade, CashuMeltQuoteService, the rows  *)
(* of cashu_send_quotes and the mint that pays.                            *)
(*                                                                         *)
(* A call is a sequence of awaits; other calls, the sweep and the mint run *)
(* between any two of them.  post_melt is a message: it may still be on    *)
(* its way when its caller has timed out or crashed.  The change of a      *)
(* quote is one proof, named by the quote.  Amounts, fees and times are    *)
(* left out: a quote may be found expired at any moment.                   *)
(*                                                                         *)
(* A definition marked (mutant) is not part of the model: it is what a     *)
(* plausible mistake would make of the definition that follows.            *)
(***************************************************************************)
EXTENDS Naturals

CONSTANTS
    Quotes,     \* rows of cashu_send_quotes, also the mint's melt quotes
    Invoices,   \* invoices (payment hashes)
    Proofs,     \* proofs the account owns at the start
    Callers,    \* calls of begin_send_lightning that may run concurrently
    Pollers,    \* sweeps and shells that reconcile with poll_send_lightning
    Storages,   \* implementations of CashuMeltQuoteStorage
    None

Workers == Callers \cup Pollers
Items   == Proofs \cup Quotes

ASSUME NamesAssumption ==
    /\ None \notin Quotes \cup Invoices \cup Workers
    /\ Quotes \cap Proofs = {} /\ Callers \cap Pollers = {}
    /\ Storages \subseteq {"supabase", "inMemory"}

VARIABLES
    \* Postgres
    db,         \* state of each proof row, "NONE" when there is no row
    spender,    \* cashu_proofs.spending_cashu_send_quote_id
    qState,     \* state of the quote row, "NONE" when there is no row
    qInv, qIn,  \* its payment hash and its reserved proofs
    \* the mint and the network
    reqs,       \* post_melt requests on their way: <<caller, quote, inputs>>
    mState,     \* the mint's state of the melt quote
    mBy,        \* the caller whose request the mint accepted
    spent,      \* proofs the mint has recorded as spent
    change,     \* quotes the mint has signed change for
    \* the workers
    pc, key, inv,
    sel,        \* the proofs a call has listed, then those of its quote
    raced,      \* history: quotes failed while another call was paying them
    storage     \* the implementation the program was built with

rows   == <<db, spender, qState, qInv, qIn>>
mint   == <<mState, mBy, spent, change>>
worker == <<pc, key, inv, sel>>
vars   == <<rows, reqs, mint, worker, raced, storage>>

QuoteState == {"NONE", "UNPAID", "PENDING", "PAID", "FAILED", "EXPIRED"}
Active     == {"UNPAID", "PENDING", "PAID"}
Label == {"idle", "find", "insert", "mark", "post", "posted", "awaiting",
          "poll", "complete", "fail"}

TypeOK ==
    /\ db \in [Items -> {"NONE", "UNSPENT", "RESERVED", "SPENT"}]
    /\ spender \in [Items -> Quotes \cup {None}]
    /\ qState \in [Quotes -> QuoteState]
    /\ qInv \in [Quotes -> Invoices \cup {None}]
    /\ qIn \in [Quotes -> SUBSET Items]
    /\ reqs \in SUBSET (Callers \X Quotes \X SUBSET Items)
    /\ mState \in [Quotes -> {"UNPAID", "PENDING", "PAID"}]
    /\ mBy \in [Quotes -> Callers \cup {None}]
    /\ spent \in SUBSET Items
    /\ change \in SUBSET Quotes
    /\ pc \in [Workers -> Label]
    /\ key \in [Workers -> Quotes \cup {None}]
    /\ inv \in [Workers -> Invoices \cup {None}]
    /\ sel \in [Workers -> SUBSET Items]
    /\ raced \in SUBSET Quotes
    /\ storage \in Storages

Init ==
    /\ db = [i \in Items |-> IF i \in Proofs THEN "UNSPENT" ELSE "NONE"]
    /\ spender = [i \in Items |-> None]
    /\ qState = [q \in Quotes |-> "NONE"]
    /\ qInv = [q \in Quotes |-> None]
    /\ qIn = [q \in Quotes |-> {}]
    /\ reqs = {}
    /\ mState = [q \in Quotes |-> "UNPAID"]
    /\ mBy = [q \in Quotes |-> None]
    /\ spent = {} /\ change = {}
    /\ pc = [w \in Workers |-> "idle"]
    /\ key = [w \in Workers |-> None]
    /\ inv = [w \in Workers |-> None]
    /\ sel = [w \in Workers |-> {}]
    /\ raced = {}
    /\ storage \in Storages

-----------------------------------------------------------------------------
(* Helpers.                                                                *)

Unspent == {i \in Items : db[i] = "UNSPENT"}

MoveTo(w, l) == pc' = [pc EXCEPT ![w] = l]

Stop(w) ==
    /\ pc' = [pc EXCEPT ![w] = "idle"]
    /\ key' = [key EXCEPT ![w] = None]
    /\ inv' = [inv EXCEPT ![w] = None]
    /\ sel' = [sel EXCEPT ![w] = {}]

\* Proofs with spending id q and state RESERVED.
ReservedBy(q) == {i \in Items : spender[i] = q /\ db[i] = "RESERVED"}

\* The rows of the payment hash i that are not FAILED or EXPIRED.
ActiveFor(i) == {q \in Quotes : qInv[q] = i /\ qState[q] \in Active}

\* Proofs of payments the mint is making.
Locked == UNION {qIn[q] : q \in {p \in Quotes : mState[p] = "PENDING"}}

\* A request of the call w to pay q is on its way.
Sent(w, q) == \E r \in reqs : r[1] = w /\ r[2] = q

\* Some call other than w has a payment of q under way.
OthersPay(q, w) ==
    \/ mState[q] # "UNPAID" /\ mBy[q] # w
    \/ \E v \in Callers \ {w} : Sent(v, q) \/ (pc[v] = "post" /\ key[v] = q)

-----------------------------------------------------------------------------
(* begin_send_lightning.                                                   *)

\* get_quote: the unspent proofs are listed and some of them selected; which, is
\* left open until the insert.
GetQuote(w, i) ==
    /\ pc[w] = "idle"
    /\ Unspent # {}
    /\ sel' = [sel EXCEPT ![w] = Unspent]
    /\ inv' = [inv EXCEPT ![w] = i]
    /\ MoveTo(w, "find")
    /\ UNCHANGED <<rows, reqs, mint, key, raced, storage>>

\* The proofs of a quote as create, get and find_active return it: the Supabase
\* storage rebuilds it without them (to_cashu_melt_quote).
QuoteProofs(I) == IF storage = "supabase" THEN {} ELSE I

\* The call goes on to initiate_melt with the row q, which has reserved I.
Proceed(w, q, I) ==
    /\ MoveTo(w, "mark")
    /\ key' = [key EXCEPT ![w] = q]
    /\ inv' = [inv EXCEPT ![w] = None]
    /\ sel' = [sel EXCEPT ![w] = QuoteProofs(I)]

\* find_active_by_payment_hash: the call attaches itself to an UNPAID row,
\* and returns at once for a row that is PENDING or PAID.
FindActive(w) ==
    /\ pc[w] = "find"
    /\ \/ /\ ActiveFor(inv[w]) = {}
          /\ MoveTo(w, "insert") /\ UNCHANGED <<key, inv, sel>>
       \/ \E q \in ActiveFor(inv[w]) :
             /\ qState[q] = "UNPAID"
             /\ Proceed(w, q, qIn[q])
       \/ /\ \E q \in ActiveFor(inv[w]) : qState[q] # "UNPAID"
          /\ Stop(w)
    /\ UNCHANGED <<rows, reqs, mint, raced, storage>>

\* (mutant)
MayInsertUnpaidOnly(w, I) ==
    /\ \A q \in ActiveFor(inv[w]) : qState[q] = "PAID"
    /\ I \subseteq Unspent

\* (mutant)
MayInsertUnchecked(w, I) == ActiveFor(inv[w]) = {}

\* The payment-hash index and the reservation both have to succeed.
MayInsert(w, I) == ActiveFor(inv[w]) = {} /\ I \subseteq Unspent

\* create_cashu_send_quote, with the proofs I of those listed.
InsertQuote(w, q, I) ==
    /\ pc[w] = "insert"
    /\ qState[q] = "NONE"
    /\ MayInsert(w, I)
    /\ qState' = [qState EXCEPT ![q] = "UNPAID"]
    /\ qInv' = [qInv EXCEPT ![q] = inv[w]]
    /\ qIn' = [qIn EXCEPT ![q] = I]
    /\ db' = [i \in Items |-> IF i \in I THEN "RESERVED" ELSE db[i]]
    /\ spender' = [i \in Items |-> IF i \in I THEN q ELSE spender[i]]
    /\ Proceed(w, q, I)
    /\ UNCHANGED <<reqs, mint, raced, storage>>

\* DuplicatePayment or CONCURRENCY_ERROR.
InsertRejected(w, I) ==
    /\ pc[w] = "insert"
    /\ ~ MayInsert(w, I)
    /\ Stop(w)
    /\ UNCHANGED <<rows, reqs, mint, raced, storage>>

\* mark_cashu_send_quote_as_pending accepts UNPAID and, unchanged, PENDING.
Markable(q) == qState[q] \in {"UNPAID", "PENDING"}

MarkPending(w) ==
    /\ pc[w] = "mark"
    /\ IF Markable(key[w])
       THEN /\ qState' = [qState EXCEPT ![key[w]] = "PENDING"]
            /\ MoveTo(w, "post") /\ UNCHANGED <<key, inv, sel>>
       ELSE UNCHANGED qState /\ Stop(w)
    /\ UNCHANGED <<db, spender, qInv, qIn, reqs, mint, raced, storage>>

\* The keysets have been fetched and the blanks built: post_melt is sent.
PostMelt(w) ==
    /\ pc[w] = "post"
    /\ reqs' = reqs \cup {<<w, key[w], sel[w]>>}
    /\ MoveTo(w, "posted")
    /\ sel' = [sel EXCEPT ![w] = {}]
    /\ UNCHANGED <<rows, mint, key, inv, raced, storage>>

\* (mutant)
FailOnTimeout(w) ==
    /\ pc[w] \in {"posted", "awaiting"}
    /\ MoveTo(w, "fail")
    /\ UNCHANGED <<rows, reqs, mint, key, inv, sel, raced, storage>>

\* An ambiguous error (timeout, connection, 5xx): the row stays PENDING.
TimeOut(w) ==
    /\ pc[w] \in {"posted", "awaiting"}
    /\ Stop(w)
    /\ UNCHANGED <<rows, reqs, mint, raced, storage>>

\* (mutant)
VerdictPendingFails(st) == IF st = "PAID" THEN "complete" ELSE "fail"

\* (mutant)
VerdictUnpaidWaits(st) == IF st = "PAID" THEN "complete" ELSE "idle"

\* What a call does with the state the mint reports for the quote.
Verdict(st) ==
    IF st = "PAID" THEN "complete" ELSE IF st = "UNPAID" THEN "fail" ELSE "idle"

Follow(w, l) ==
    IF l = "idle" THEN Stop(w) ELSE MoveTo(w, l) /\ UNCHANGED <<key, inv, sel>>

\* The response of post_melt arrives.
Respond(w) ==
    /\ pc[w] = "awaiting"
    /\ Follow(w, Verdict(mState[key[w]]))
    /\ UNCHANGED <<rows, reqs, mint, raced, storage>>

\* complete_cashu_send_quote with the change; a row that is neither UNPAID
\* nor PENDING is left alone.
CompleteQuote(w) ==
    /\ pc[w] = "complete"
    /\ LET q == key[w] IN
          IF qState[q] \in {"UNPAID", "PENDING"}
          THEN /\ qState' = [qState EXCEPT ![q] = "PAID"]
               /\ db' = [i \in Items |->
                            IF i \in ReservedBy(q) THEN "SPENT"
                            ELSE IF i = q /\ q \in change THEN "UNSPENT" ELSE db[i]]
          ELSE UNCHANGED <<qState, db>>
    /\ Stop(w)
    /\ UNCHANGED <<spender, qInv, qIn, reqs, mint, raced, storage>>

\* Release the proofs of q under a new state of the row.
Release(q, st) ==
    /\ qState' = [qState EXCEPT ![q] = st]
    /\ db' = [i \in Items |-> IF i \in ReservedBy(q) THEN "UNSPENT" ELSE db[i]]

Failable(q) == qState[q] \in {"UNPAID", "PENDING"}

\* fail_cashu_send_quote after a definitive error or an UNPAID report.
FailQuote(w) ==
    /\ pc[w] = "fail"
    /\ LET q == key[w] IN
          IF Failable(q)
          THEN /\ Release(q, "FAILED")
               /\ raced' = IF OthersPay(q, w) THEN raced \cup {q} ELSE raced
          ELSE UNCHANGED <<qState, db, raced>>
    /\ Stop(w)
    /\ UNCHANGED <<spender, qInv, qIn, reqs, mint, storage>>

-----------------------------------------------------------------------------
(* poll_send_lightning and expire_melt_quote.                              *)

\* The poll reads a PENDING row ...
StartPoll(w, q) ==
    /\ pc[w] = "idle"
    /\ qState[q] = "PENDING"
    /\ MoveTo(w, "poll")
    /\ key' = [key EXCEPT ![w] = q]
    /\ UNCHANGED <<rows, reqs, mint, inv, sel, raced, storage>>

\* ... and then asks the mint for the state of the melt quote.
PollRead(w) ==
    /\ pc[w] = "poll"
    /\ Follow(w, Verdict(mState[key[w]]))
    /\ UNCHANGED <<rows, reqs, mint, raced, storage>>

\* (mutant)
ExpirableUnchecked(q) == qState[q] \in {"UNPAID", "PENDING"}

Expirable(q) == qState[q] = "UNPAID"

\* expire_cashu_send_quote, once expires_at has passed.
Expire(q) ==
    /\ Expirable(q)
    /\ Release(q, "EXPIRED")
    /\ UNCHANGED <<spender, qInv, qIn, reqs, mint, worker, raced, storage>>

-----------------------------------------------------------------------------
(* The mint, the network, crashes.                                         *)

\* The mint takes a request with inputs, and starts to pay.
Accept(w, q, I) ==
    /\ <<w, q, I>> \in reqs
    /\ reqs' = reqs \ {<<w, q, I>>}
    /\ mState[q] = "UNPAID" /\ I # {} /\ I \cap (spent \cup Locked) = {}
    /\ mState' = [mState EXCEPT ![q] = "PENDING"]
    /\ mBy' = [mBy EXCEPT ![q] = w]
    /\ IF pc[w] = "posted" /\ key[w] = q THEN MoveTo(w, "awaiting") ELSE UNCHANGED pc
    /\ UNCHANGED <<rows, spent, change, key, inv, sel, raced, storage>>

\* The mint refuses the request, a definitive failure for its caller: the
\* quote is pending or paid already, its proofs are or there are none, or it
\* has expired.
Reject(w, q, I) ==
    /\ <<w, q, I>> \in reqs
    /\ reqs' = reqs \ {<<w, q, I>>}
    /\ IF pc[w] = "posted" /\ key[w] = q THEN MoveTo(w, "fail") ELSE UNCHANGED pc
    /\ UNCHANGED <<rows, mint, key, inv, sel, raced, storage>>

\* The payment succeeds; what is left of the fee reserve may come as change.
PaySucceeds(q) ==
    /\ mState[q] = "PENDING"
    /\ mState' = [mState EXCEPT ![q] = "PAID"]
    /\ spent' = spent \cup qIn[q]
    /\ change' \in {change, change \cup {q}}
    /\ UNCHANGED <<rows, reqs, mBy, worker, raced, storage>>

PayFails(q) ==
    /\ mState[q] = "PENDING"
    /\ mState' = [mState EXCEPT ![q] = "UNPAID"]
    /\ UNCHANGED <<rows, reqs, mBy, spent, change, worker, raced, storage>>

\* A process stops, or a call other than post_melt fails.
Crash(w) ==
    /\ pc[w] # "idle"
    /\ Stop(w)
    /\ UNCHANGED <<rows, reqs, mint, raced, storage>>

CallStep(w) ==
    \/ \E i \in Invoices : GetQuote(w, i)
    \/ FindActive(w)
    \/ \E I \in (SUBSET sel[w]) \ {{}} :
          InsertRejected(w, I) \/ \E q \in Quotes : InsertQuote(w, q, I)
    \/ MarkPending(w)
    \/ PostMelt(w)
    \/ TimeOut(w)
    \/ Respond(w)

SettleStep(w) == CompleteQuote(w) \/ FailQuote(w)

PollStep(w) == (\E q \in Quotes : StartPoll(w, q)) \/ PollRead(w)

MintStep ==
    \/ \E r \in reqs : Accept(r[1], r[2], r[3]) \/ Reject(r[1], r[2], r[3])
    \/ \E q \in Quotes : PaySucceeds(q) \/ PayFails(q)

Next ==
    \/ \E w \in Callers : CallStep(w)
    \/ \E w \in Pollers : PollStep(w)
    \/ \E w \in Workers : SettleStep(w) \/ Crash(w)
    \/ \E q \in Quotes : Expire(q)
    \/ MintStep

Spec == Init /\ [][Next]_vars

-----------------------------------------------------------------------------
(* Safety.                                                                 *)

\* The proofs follow their row.  A quote that is being paid holds exactly those
\* it will be paid with: no other payment, and not the balance, can take one of
\* them.  It completes only for a payment that was made, with its change
\* recorded, and a proof is written off only when the mint has taken it.
ProofsFollowTheRow ==
    /\ \A q \in Quotes : qState[q] \in {"UNPAID", "PENDING"} =>
          qIn[q] # {} /\ ReservedBy(q) = qIn[q]
    /\ \A q \in Quotes : qState[q] = "PAID" =>
          mState[q] = "PAID" /\ (q \in change <=> db[q] # "NONE")
    /\ \A i \in Items : db[i] = "SPENT" => i \in spent

\* One invoice has one row that is unpaid, being paid or paid, also when two
\* calls pass the friendly pre-check together (the payment-hash index).
OneActiveQuote ==
    \A q, r \in Quotes :
        q # r /\ qState[q] \in Active /\ qState[r] \in Active => qInv[q] # qInv[r]

\* EXPIRED is a promise: no payment of an expired quote is ever made, in
\* whatever order expiry, mark_as_pending and post_melt run.
ExpiredNeverPaid ==
    \A q \in Quotes : qState[q] = "EXPIRED" =>
        mState[q] = "UNPAID" /\ \A w \in Callers : ~ Sent(w, q)

\* A payment whose row is FAILED moves money only when another call was
\* paying the same quote at that moment: a response, an ambiguous error, a
\* crash or an expiry alone never releases the proofs of a payment under way
\* (initiate_melt: only when "the mint provably did not move funds").
FailedOnlyByRace ==
    \A q \in Quotes :
        qState[q] = "FAILED" /\ q \notin raced =>
            mState[q] = "UNPAID" /\ \A w \in Callers : ~ Sent(w, q)

\* An invoice is paid twice only after such a race.
PaidTwiceOnlyByRace ==
    \A q, r \in Quotes :
        q # r /\ qInv[q] = qInv[r] /\ mState[q] = "PAID" /\ mState[r] = "PAID"
            => q \in raced \/ r \in raced

\* An invoice is being paid by one row at a time, and is paid by one row but
\* for that race.
OnePaymentPerInvoice == OneActiveQuote /\ PaidTwiceOnlyByRace

\* A payment is paid for: every request to the mint carries the proofs reserved
\* for its quote (CashuMeltQuote.proofs, "Proofs reserved for the melt").
MeltsCarryInputs == \A r \in reqs : r[3] = qIn[r[2]]

-----------------------------------------------------------------------------
(* Liveness: calls go on or fail, the mint settles what it accepted, expiry*)
(* times pass and the sweep comes back to every PENDING row.  Processes may*)
(* crash again and again, only not at the same step of one row every time. *)

\* The mint takes or refuses what the call w has sent it for q.
Answer(w, q) ==
    \E r \in reqs : r[1] = w /\ r[2] = q /\ (Accept(w, q, r[3]) \/ Reject(w, q, r[3]))

FairSpec ==
    /\ Spec
    /\ \A w \in Callers : WF_vars(pc[w] # "idle" /\ CallStep(w))
    /\ \A w \in Workers, q \in Quotes :
          SF_vars(key[w] = q /\ PollRead(w)) /\ SF_vars(key[w] = q /\ SettleStep(w))
    /\ \A w \in Callers, q \in Quotes : WF_vars(Answer(w, q))
    /\ \A q \in Quotes : WF_vars(PaySucceeds(q) \/ PayFails(q))
    /\ \A q \in Quotes : WF_vars(Expire(q))
    /\ \A q \in Quotes : SF_vars(\E w \in Pollers : StartPoll(w, q))

\* No quote keeps its proofs reserved for ever.
QuotesResolve ==
    \A q \in Quotes :
        qState[q] \in {"UNPAID", "PENDING"} ~> qState[q] \in {"PAID", "FAILED", "EXPIRED"}

\* A payment the mint has made becomes PAID, with its change, unless a race
\* has failed its row before.
PaymentsAreNoticed ==
    \A q \in Quotes :
        mState[q] = "PAID" ~> qState[q] = "PAID" \/ q \in raced

=============================================================================
