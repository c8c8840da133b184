------------------------ MODULE LightningSend_proofs ----------------------
(***************************************************************************)
(* Proofs about LightningSend, for any number of quotes, invoices, proofs  *)
(* and calls.                                                              *)
(***************************************************************************)
EXTENDS LightningSend, TLAPS

Open == {"UNPAID", "PENDING"}

\* States of a row whose payment somebody has begun.
Begun == {"PENDING", "PAID", "FAILED"}

\* A payment of q may be begun, or requests sent for it be taken by the mint.
MayBePaid(q) == qState[q] \in Begun /\ (qState[q] = "FAILED" => q \in raced)

\* A row against its proofs and the mint.
RowInv(q) ==
    /\ qState[q] = "NONE" => \A i \in Items : spender[i] # q
    /\ qState[q] \in Open => qIn[q] # {} /\ ReservedBy(q) = qIn[q]
    /\ mState[q] # "UNPAID" => MayBePaid(q)
    /\ mState[q] = "PAID" => qIn[q] \subseteq spent
    /\ qState[q] = "PAID" => mState[q] = "PAID" /\ (q \in change <=> db[q] # "NONE")
    /\ db[q] # "NONE" => qState[q] = "PAID"

\* A call sends one request for a quote at most.
ReqInv ==
    /\ \A r \in reqs : MayBePaid(r[2])
    /\ \A r, s \in reqs : r[1] = s[1] /\ r[2] = s[2] => r = s

\* What a call between two awaits knows of its row.  A caller has attached
\* itself to the row before anybody had sent a request, so it has sent one only
\* in this very call.
WorkerInv(w) ==
    /\ w \in Pollers => pc[w] \in {"idle", "poll", "complete", "fail"}
    /\ pc[w] \in {"find", "insert"} => inv[w] \in Invoices
    /\ pc[w] \notin {"idle", "find", "insert"} =>
          key[w] \in Quotes /\ qState[key[w]] # "NONE"
    /\ pc[w] \in {"post", "posted", "awaiting", "poll", "complete", "fail"} =>
          qState[key[w]] \in Begun
    /\ pc[w] = "post" => MayBePaid(key[w])
    /\ pc[w] = "complete" => mState[key[w]] = "PAID"
    /\ pc[w] \in {"mark", "post", "posted", "fail"} =>
          mState[key[w]] = "UNPAID" \/ mBy[key[w]] # w
    /\ pc[w] \in {"mark", "post", "awaiting", "fail"} => ~ Sent(w, key[w])

IInv ==
    /\ TypeOK
    /\ \A q \in Quotes : RowInv(q)
    /\ \A i \in Items : db[i] = "SPENT" => i \in spent
    /\ OneActiveQuote
    /\ ReqInv
    /\ \A w \in Workers : WorkerInv(w)

-----------------------------------------------------------------------------
(* Steps that leave a part of the state alone.                             *)

\* Initially there is nothing.
LEMMA InitInv == Init => IInv
<1> SUFFICES ASSUME Init PROVE IInv
    OBVIOUS
<1>1. TypeOK
    BY DEF Init, TypeOK, QuoteState, Label, Items
<1>2. \A q \in Quotes : RowInv(q)
    BY NamesAssumption DEF Init, RowInv, Open, Items
<1>3. (\A i \in Items : db[i] = "SPENT" => i \in spent) /\ OneActiveQuote
    BY DEF Init, OneActiveQuote, Active
<1>4. ReqInv /\ \A w \in Workers : WorkerInv(w)
    BY DEF Init, ReqInv, WorkerInv
<1> QED BY <1>1, <1>2, <1>3, <1>4 DEF IInv

\* No poller has a request under way, and nobody has one for a row that no
\* payment has been begun for.
LEMMA NothingSent ==
    ASSUME IInv, NEW w \in Workers, NEW q \in Quotes,
           w \in Pollers \/ ~ MayBePaid(q)
    PROVE  ~ Sent(w, q)
<1> SUFFICES ASSUME NEW r \in reqs, r[1] = w, r[2] = q PROVE FALSE
    BY DEF Sent
<1>1. r[1] \in Callers /\ MayBePaid(r[2])
    BY DEF IInv, TypeOK, ReqInv
<1> QED BY <1>1, NamesAssumption

\* A worker whose own state does not change keeps what it knows of its row.
LEMMA WorkerKeeps ==
    ASSUME IInv, NEW v \in Workers,
           pc'[v] = pc[v], key'[v] = key[v], inv'[v] = inv[v],
           \A q \in Quotes : key[v] = q =>
                /\ qState[q] # "NONE" => qState'[q] # "NONE"
                /\ qState[q] \in Begun => qState'[q] \in Begun
                /\ pc[v] = "post" /\ MayBePaid(q) => MayBePaid(q)'
                /\ mState[q] = "PAID" => mState'[q] = "PAID"
                /\ Sent(v, q)' => Sent(v, q)
                /\ \/ mState'[q] = "UNPAID" \/ mBy'[q] # v
                   \/ mState[q] # "UNPAID" /\ mBy[q] = v
                   \/ pc[v] \notin {"mark", "post", "posted", "fail"}
    PROVE  WorkerInv(v)'
<1>1. WorkerInv(v)
    BY DEF IInv
<1>2. pc[v] \in Label
    BY DEF IInv, TypeOK
<1>3. CASE pc[v] \in {"idle", "find", "insert"}
    BY <1>1, <1>3 DEF WorkerInv
<1>4. CASE pc[v] \notin {"idle", "find", "insert"}
    <2>1. key[v] \in Quotes
        BY <1>1, <1>4 DEF WorkerInv
    <2>2. PICK p \in Quotes : p = key[v] /\ p = key'[v]
        BY <2>1
    <2> HIDE DEF Sent, MayBePaid, Begun
    <2>3. /\ pc[v] \in {"post", "posted", "awaiting", "poll", "complete", "fail"} =>
                qState[p] \in Begun
          /\ qState[p] # "NONE"
          /\ pc[v] = "post" => MayBePaid(p)
          /\ pc[v] = "complete" => mState[p] = "PAID"
          /\ pc[v] \in {"mark", "post", "posted", "fail"} =>
                mState[p] = "UNPAID" \/ mBy[p] # v
          /\ pc[v] \in {"mark", "post", "awaiting", "fail"} => ~ Sent(v, p)
        BY <1>1, <1>4, <2>2 DEF WorkerInv
    <2>4. /\ pc[v] \in {"post", "posted", "awaiting", "poll", "complete", "fail"} =>
                qState'[p] \in Begun
          /\ qState'[p] # "NONE"
          /\ pc[v] = "post" => MayBePaid(p)'
          /\ pc[v] = "complete" => mState'[p] = "PAID"
          /\ pc[v] \in {"mark", "post", "posted", "fail"} =>
                mState'[p] = "UNPAID" \/ mBy'[p] # v
          /\ pc[v] \in {"mark", "post", "awaiting", "fail"} => ~ Sent(v, p)'
        BY <2>2, <2>3
    <2>5. MayBePaid(p)' => MayBePaid(key[v])'
        BY <2>2 DEF MayBePaid
    <2>6. Sent(v, key[v])' => Sent(v, p)'
        BY <2>2 DEF Sent
    <2> QED BY <1>1, <1>4, <2>2, <2>4, <2>5, <2>6 DEF WorkerInv
<1> QED BY <1>3, <1>4

\* A worker that has stopped knows nothing.
LEMMA StoppedWorker ==
    ASSUME IInv, NEW w \in Workers, Stop(w) PROVE WorkerInv(w)'
    BY DEF IInv, TypeOK, WorkerInv, Stop

\* Steps of one worker that only change its own state.
LEMMA LocalKeepsInv ==
    ASSUME IInv, TypeOK', NEW w \in Workers, WorkerInv(w)',
           UNCHANGED <<rows, reqs, mint, raced>>,
           \A v \in Workers \ {w} :
              pc'[v] = pc[v] /\ key'[v] = key[v] /\ inv'[v] = inv[v]
    PROVE  IInv'
<1>1. \A q \in Quotes : RowInv(q)'
    BY DEF IInv, RowInv, MayBePaid, ReservedBy, rows, mint
<1>2. (\A i \in Items : db[i] = "SPENT" => i \in spent)' /\ OneActiveQuote' /\ ReqInv'
    BY DEF IInv, OneActiveQuote, ReqInv, MayBePaid, rows, mint
<1>3. ASSUME NEW v \in Workers \ {w} PROVE WorkerInv(v)'
    BY <1>3, WorkerKeeps DEF MayBePaid, Sent, rows, mint
<1> QED BY <1>1, <1>2, <1>3 DEF IInv

-----------------------------------------------------------------------------
(* Steps of one call or poll that only change its own state.               *)

LEMMA StopKeepsInv ==
    ASSUME IInv, NEW w \in Workers, Stop(w), UNCHANGED <<rows, reqs, mint, raced, storage>>
    PROVE  IInv'
<1>1. TypeOK'
    BY DEF IInv, TypeOK, Stop, rows, mint, Label
<1>2. WorkerInv(w)'
    BY StoppedWorker
<1>3. \A v \in Workers \ {w} : pc'[v] = pc[v] /\ key'[v] = key[v] /\ inv'[v] = inv[v]
    BY DEF IInv, TypeOK, Stop
<1> QED BY <1>1, <1>2, <1>3, LocalKeepsInv

\* The proofs are listed: the call has its invoice.
LEMMA GetQuoteInv ==
    ASSUME IInv, NEW w \in Callers, NEW i \in Invoices, GetQuote(w, i) PROVE IInv'
<1>1. TypeOK'
    BY DEF IInv, TypeOK, GetQuote, MoveTo, Unspent, rows, mint, Workers, Label
<1>2. WorkerInv(w)'
    BY NamesAssumption DEF IInv, TypeOK, GetQuote, MoveTo, WorkerInv, Workers
<1>3. \A v \in Workers \ {w} : pc'[v] = pc[v] /\ key'[v] = key[v] /\ inv'[v] = inv[v]
    BY DEF IInv, TypeOK, GetQuote, MoveTo
<1> QED BY <1>1, <1>2, <1>3, LocalKeepsInv DEF GetQuote, Workers

\* A row a call attaches itself to has not been begun: nothing is sent for it.
LEMMA FindActiveInv ==
    ASSUME IInv, NEW w \in Callers, FindActive(w) PROVE IInv'
<1> w \in Workers
    BY DEF Workers
<1> USE DEF FindActive
<1>1. CASE Stop(w)
    BY <1>1, StopKeepsInv
<1>2. CASE MoveTo(w, "insert") /\ UNCHANGED <<key, inv, sel>>
    <2>1. TypeOK'
        BY <1>2 DEF IInv, TypeOK, MoveTo, rows, mint, Label
    <2>2. WorkerInv(w)'
        BY <1>2, NamesAssumption DEF IInv, TypeOK, MoveTo, WorkerInv
    <2>3. \A v \in Workers \ {w} : pc'[v] = pc[v] /\ key'[v] = key[v] /\ inv'[v] = inv[v]
        BY <1>2 DEF IInv, TypeOK, MoveTo
    <2> QED BY <2>1, <2>2, <2>3, LocalKeepsInv
<1>3. ASSUME NEW q \in ActiveFor(inv[w]), qState[q] = "UNPAID", Proceed(w, q, qIn[q])
      PROVE  IInv'
    <2>1. q \in Quotes
        BY DEF ActiveFor
    <2>2. TypeOK'
        BY <1>3, <2>1 DEF IInv, TypeOK, Proceed, MoveTo, QuoteProofs, rows, mint, Label
    <2>3. ~ Sent(w, q) /\ mState[q] = "UNPAID"
        BY <1>3, <2>1, NothingSent DEF IInv, RowInv, MayBePaid, Begun
    <2>4. pc'[w] = "mark" /\ key'[w] = q
        BY <1>3 DEF IInv, TypeOK, Proceed, MoveTo
    <2>5. ~ Sent(w, key[w])'
        BY <2>3, <2>4 DEF Sent
    <2>6. WorkerInv(w)'
        BY <1>3, <2>1, <2>3, <2>4, <2>5, NamesAssumption DEF WorkerInv, rows, mint
    <2>7. \A v \in Workers \ {w} : pc'[v] = pc[v] /\ key'[v] = key[v] /\ inv'[v] = inv[v]
        BY <1>3 DEF IInv, TypeOK, Proceed, MoveTo
    <2> QED BY <2>2, <2>6, <2>7, LocalKeepsInv
<1> QED BY <1>1, <1>2, <1>3

\* A call or a poll follows what the mint has reported at this moment.
LEMMA FollowInv ==
    ASSUME IInv, NEW w \in Workers, pc[w] \in {"awaiting", "poll"},
           pc[w] = "poll" => w \in Pollers,
           Follow(w, Verdict(mState[key[w]])), UNCHANGED <<rows, reqs, mint, raced, storage>>
    PROVE  IInv'
<1> DEFINE l == Verdict(mState[key[w]])
<1>1. CASE l = "idle"
    BY <1>1, StopKeepsInv DEF Follow
<1>2. CASE l # "idle"
    <2>1. MoveTo(w, l) /\ UNCHANGED <<key, inv, sel>> /\ l \in {"complete", "fail"}
        BY <1>2 DEF Follow, Verdict
    <2>2. WorkerInv(w) /\ key[w] \in Quotes
        BY DEF IInv, WorkerInv
    <2>3. l = "complete" => mState[key[w]] = "PAID"
        BY DEF Verdict
    <2>4. l = "fail" => mState[key[w]] = "UNPAID"
        BY <1>2, <2>2 DEF Verdict, IInv, TypeOK
    <2> HIDE DEF l
    <2>5. TypeOK'
        BY <2>1 DEF IInv, TypeOK, MoveTo, rows, mint, Label
    <2>6. ~ Sent(w, key[w])
        BY <2>2, NothingSent DEF WorkerInv
    <2>7. ~ Sent(w, key[w])'
        BY <2>1, <2>6 DEF Sent
    <2>8. pc'[w] = l
        BY <2>1 DEF MoveTo, IInv, TypeOK
    <2>9. WorkerInv(w)'
        BY <2>1, <2>2, <2>3, <2>4, <2>7, <2>8 DEF WorkerInv, rows, mint
    <2>10. \A v \in Workers \ {w} : pc'[v] = pc[v] /\ key'[v] = key[v] /\ inv'[v] = inv[v]
        BY <2>1 DEF IInv, TypeOK, MoveTo
    <2> QED BY <2>5, <2>9, <2>10, LocalKeepsInv
<1> QED BY <1>1, <1>2

\* The poll has read a PENDING row.
LEMMA StartPollInv ==
    ASSUME IInv, NEW w \in Pollers, NEW q \in Quotes, StartPoll(w, q) PROVE IInv'
<1> w \in Workers
    BY DEF Workers
<1>1. TypeOK'
    BY DEF IInv, TypeOK, StartPoll, MoveTo, rows, mint, Label
<1>2. WorkerInv(w)'
    BY DEF IInv, TypeOK, StartPoll, MoveTo, WorkerInv, Begun, rows
<1>3. \A v \in Workers \ {w} : pc'[v] = pc[v] /\ key'[v] = key[v] /\ inv'[v] = inv[v]
    BY DEF IInv, TypeOK, StartPoll, MoveTo
<1> QED BY <1>1, <1>2, <1>3, LocalKeepsInv DEF StartPoll

-----------------------------------------------------------------------------
(* Steps that write rows.                                                  *)

\* A new row is named by nobody yet, and what it reserves was nobody's.
LEMMA InsertQuoteInv ==
    ASSUME IInv, NEW w \in Callers, NEW q \in Quotes, NEW I \in (SUBSET sel[w]) \ {{}},
           InsertQuote(w, q, I)
    PROVE  IInv'
<1> w \in Workers
    BY DEF Workers
<1> USE DEF InsertQuote
<1>1. WorkerInv(w) /\ inv[w] \in Invoices /\ I # {} /\ I \subseteq Items
    <2>1. WorkerInv(w)
        BY DEF IInv
    <2>2. inv[w] \in Invoices
        BY <2>1 DEF WorkerInv
    <2>3. sel[w] \subseteq Items
        BY DEF IInv, TypeOK
    <2>4. I \subseteq sel[w] /\ I # {}
        OBVIOUS
    <2> QED BY <2>1, <2>2, <2>3, <2>4
<1>2. \A i \in I : db[i] = "UNSPENT"
    BY DEF MayInsert, Unspent
<1>3. \A r \in Quotes \ {q} : qState'[r] = qState[r] /\ qInv'[r] = qInv[r] /\ qIn'[r] = qIn[r]
    BY DEF IInv, TypeOK
<1>4. qState'[q] = "UNPAID" /\ qInv'[q] = inv[w] /\ qIn'[q] = I
    BY DEF IInv, TypeOK
<1>5. TypeOK'
    BY <1>1 DEF IInv, TypeOK, Proceed, MoveTo, QuoteProofs, mint, Label, QuoteState
<1>6. ~ MayBePaid(q) /\ mState[q] = "UNPAID" /\ ~ Sent(w, q)
    <2>1. ~ MayBePaid(q)
        BY DEF MayBePaid, Begun
    <2> QED BY <2>1, NothingSent DEF IInv, RowInv
<1>7. \A r \in Quotes \ {q} : ReservedBy(r)' = ReservedBy(r)
    BY <1>2 DEF ReservedBy
<1>8. ReservedBy(q)' = I
    BY <1>1 DEF ReservedBy, IInv, RowInv
<1>9. ASSUME NEW r \in Quotes PROVE RowInv(r)'
    <2>1. RowInv(r)
        BY DEF IInv
    <2>2. CASE r = q
        BY <1>1, <1>2, <1>4, <1>6, <1>8, <2>1, <2>2 DEF RowInv, Open, Items, mint
    <2>3. CASE r # q
        <3>1. db'[r] # "NONE" <=> db[r] # "NONE"
            BY <1>2 DEF Items
        <3>2. \A i \in Items : spender'[i] = r => spender[i] = r
            BY <2>3
        <3>3. MayBePaid(r)' <=> MayBePaid(r)
            BY <1>3, <2>3 DEF MayBePaid
        <3> QED BY <1>3, <1>7, <2>1, <2>3, <3>1, <3>2, <3>3 DEF RowInv, mint
    <2> QED BY <2>2, <2>3
<1>10. (\A i \in Items : db[i] = "SPENT" => i \in spent)'
    BY DEF IInv, mint
<1>11. OneActiveQuote'
    <2>1. \A r \in Quotes \ {q} : qState[r] \in Active => qInv[r] # inv[w]
        BY DEF MayInsert, ActiveFor
    <2> QED BY <1>3, <1>4, <2>1 DEF IInv, OneActiveQuote
<1>12. ReqInv'
    <2>1. \A r \in reqs : r[2] \in Quotes \ {q}
        BY <1>6 DEF IInv, TypeOK, ReqInv
    <2> QED BY <1>3, <2>1 DEF IInv, ReqInv, MayBePaid
<1>13. WorkerInv(w)'
    <2>1. pc'[w] = "mark" /\ key'[w] = q
        BY DEF IInv, TypeOK, Proceed, MoveTo
    <2>2. ~ Sent(w, key[w])'
        BY <1>6, <2>1 DEF Sent
    <2> QED BY <1>4, <1>6, <2>1, <2>2, NamesAssumption DEF WorkerInv, mint
<1>14. ASSUME NEW v \in Workers \ {w} PROVE WorkerInv(v)'
    <2>1. pc'[v] = pc[v] /\ key'[v] = key[v] /\ inv'[v] = inv[v]
        BY DEF IInv, TypeOK, Proceed, MoveTo
    <2>2. CASE key[v] = q
        <3>1. pc[v] \in {"idle", "find", "insert"}
            BY <2>2 DEF IInv, WorkerInv
        <3> QED BY <2>1, <3>1 DEF IInv, WorkerInv
    <2>3. CASE key[v] # q
        BY <1>3, <2>1, <2>3, WorkerKeeps DEF MayBePaid, Sent, mint
    <2> QED BY <2>2, <2>3
<1> QED BY <1>5, <1>9, <1>10, <1>11, <1>12, <1>13, <1>14 DEF IInv

\* Steps that change the state of one row q and release or write off what it
\* has reserved, while its worker stops or goes on.
LEMMA RowStep ==
    ASSUME IInv, TypeOK', NEW q \in Quotes, qState[q] \in Open,
           \A r \in Quotes \ {q} : qState'[r] = qState[r],
           qState'[q] # "NONE", qState'[q] \in Active => qState[q] \in Active,
           qState[q] \in Begun => qState'[q] \in Begun,
           RowInv(q)',
           \A r \in Quotes \ {q} : r \in raced' <=> r \in raced,
           \A i \in Items \ ReservedBy(q) : db'[i] = db[i] \/ i = q,
           \A i \in ReservedBy(q) : db'[i] # "NONE" /\ (db'[i] = "SPENT" => i \in spent),
           q \in Items => db'[q] \notin {"SPENT", "RESERVED"},
           UNCHANGED <<spender, qInv, qIn, reqs, mint, storage>>,
           MayBePaid(q) /\ ~ MayBePaid(q)' => \A r \in reqs : r[2] # q,
           \A v \in Workers :
              \/ WorkerInv(v)'
              \/ /\ pc'[v] = pc[v] /\ key'[v] = key[v] /\ inv'[v] = inv[v]
                 /\ MayBePaid(q) /\ ~ MayBePaid(q)' => ~ (pc[v] = "post" /\ key[v] = q)
    PROVE  IInv'
<1>1. ASSUME NEW r \in Quotes \ {q} PROVE RowInv(r)' /\ (MayBePaid(r)' <=> MayBePaid(r))
    <2>1. RowInv(r) /\ RowInv(q)
        BY DEF IInv
    <2>2. MayBePaid(r)' <=> MayBePaid(r)
        BY DEF MayBePaid
    <2>3. ReservedBy(r)' = ReservedBy(r)
        <3>1. q \notin ReservedBy(r) /\ (q \in Items => db[q] = "NONE")
            BY <2>1, NamesAssumption DEF RowInv, ReservedBy, Open
        <3>2. \A i \in Items : spender[i] = r => i \notin ReservedBy(q)
            BY DEF ReservedBy
        <3>3. q \in Items => spender[q] # r \/ db'[q] # "RESERVED"
            OBVIOUS
        <3> QED BY <3>1, <3>2, <3>3 DEF ReservedBy
    <2>4. db'[r] # "NONE" <=> db[r] # "NONE"
        BY DEF ReservedBy, Items
    <2> QED BY <2>1, <2>2, <2>3, <2>4 DEF RowInv, mint
<1>2. \A r \in Quotes : RowInv(r)'
    BY <1>1
<1>3. (\A i \in Items : db[i] = "SPENT" => i \in spent)'
    BY DEF IInv, mint
<1>4. OneActiveQuote'
    BY DEF IInv, OneActiveQuote
<1>5. ReqInv'
    BY <1>1 DEF IInv, TypeOK, ReqInv
<1>6. ASSUME NEW v \in Workers PROVE WorkerInv(v)'
    BY <1>1, WorkerKeeps DEF Sent, mint
<1> QED BY <1>2, <1>3, <1>4, <1>5, <1>6 DEF IInv

\* Marking begins the payment of a row nobody had begun, or repeats it.
LEMMA MarkPendingInv ==
    ASSUME IInv, NEW w \in Callers, MarkPending(w) PROVE IInv'
<1> w \in Workers
    BY DEF Workers
<1> DEFINE q == key[w]
<1>1. q \in Quotes /\ WorkerInv(w)
    BY DEF IInv, WorkerInv, MarkPending
<1>2. CASE ~ Markable(q)
    BY <1>2, StopKeepsInv DEF MarkPending, rows
<1>3. CASE Markable(q)
    <2>1. /\ qState' = [qState EXCEPT ![q] = "PENDING"]
          /\ MoveTo(w, "post") /\ UNCHANGED <<key, inv, sel>>
          /\ UNCHANGED <<db, spender, qInv, qIn, reqs, mint, raced, storage>>
          /\ pc[w] = "mark" /\ qState[q] \in Open
        BY <1>3 DEF MarkPending, Markable, Open
    <2>2. TypeOK'
        BY <1>1, <2>1 DEF IInv, TypeOK, MoveTo, mint, QuoteState, Label
    <2>3. qState'[q] = "PENDING" /\ \A r \in Quotes \ {q} : qState'[r] = qState[r]
        BY <1>1, <2>1 DEF IInv, TypeOK
    <2>4. PICK p \in Quotes : p = q /\ p = key'[w]
        BY <1>1, <2>1
    <2>5. RowInv(p)' /\ MayBePaid(p)'
        BY <2>1, <2>3, <2>4 DEF IInv, RowInv, MayBePaid, ReservedBy, Open, Begun, mint
    <2>6. WorkerInv(w)'
        <3>1. pc'[w] = "post"
            BY <2>1 DEF IInv, TypeOK, MoveTo
        <3>2. ~ Sent(w, key[w])' /\ (mState[q] = "UNPAID" \/ mBy[q] # w)
            BY <1>1, <2>1 DEF WorkerInv, Sent
        <3>3. MayBePaid(key[w])'
            BY <2>4, <2>5 DEF MayBePaid
        <3>4. w \notin Pollers
            BY NamesAssumption
        <3> QED BY <1>1, <2>1, <2>3, <3>1, <3>2, <3>3, <3>4 DEF WorkerInv, Begun, mint
    <2>7. \A v \in Workers \ {w} : pc'[v] = pc[v] /\ key'[v] = key[v] /\ inv'[v] = inv[v]
        BY <2>1 DEF IInv, TypeOK, MoveTo
    <2>8. qState[p] \in Open /\ qState'[p] = "PENDING" /\ RowInv(p)
        BY <2>1, <2>3, <2>4 DEF IInv
    <2>9. p \in Items => db'[p] = "NONE"
        BY <2>1, <2>8 DEF RowInv, Open
    <2>10. \A i \in ReservedBy(p) : db'[i] = "RESERVED"
        BY <2>1 DEF ReservedBy
    <2> QED
        BY <2>1, <2>2, <2>3, <2>4, <2>5, <2>6, <2>7, <2>8, <2>9, <2>10, RowStep
           DEF Active, Open, Begun
<1> QED BY <1>2, <1>3

\* The mint has made the payment: what the row reserved is spent.
LEMMA CompleteQuoteInv ==
    ASSUME IInv, NEW w \in Workers, CompleteQuote(w) PROVE IInv'
<1> PICK q \in Quotes : q = key[w]
    BY DEF IInv, WorkerInv, CompleteQuote
<1>1. WorkerInv(w) /\ RowInv(q) /\ mState[q] = "PAID" /\ pc[w] = "complete"
    BY DEF IInv, WorkerInv, CompleteQuote
<1>2. CASE qState[q] \notin {"UNPAID", "PENDING"}
    BY <1>2, StopKeepsInv DEF CompleteQuote, rows
<1>3. CASE qState[q] \in {"UNPAID", "PENDING"}
    <2>1. /\ qState' = [qState EXCEPT ![q] = "PAID"]
          /\ db' = [i \in Items |->
                       IF i \in ReservedBy(q) THEN "SPENT"
                       ELSE IF i = q /\ q \in change THEN "UNSPENT" ELSE db[i]]
          /\ Stop(w)
          /\ UNCHANGED <<spender, qInv, qIn, reqs, mint, raced, storage>>
        BY <1>3 DEF CompleteQuote
    <2>2. TypeOK'
        BY <2>1 DEF IInv, TypeOK, Stop, mint, QuoteState, Label, Items
    <2>3. qState'[q] = "PAID" /\ \A r \in Quotes \ {q} : qState'[r] = qState[r]
        BY <2>1 DEF IInv, TypeOK
    <2>4. ReservedBy(q) = qIn[q] /\ qIn[q] \subseteq spent /\ db[q] = "NONE"
        BY <1>1, <1>3 DEF RowInv, Open
    <2>5. q \in Items /\ q \notin ReservedBy(q)
        BY <2>4 DEF Items, ReservedBy
    <2>6. db'[q] = IF q \in change THEN "UNSPENT" ELSE "NONE"
        BY <2>1, <2>4, <2>5
    <2>7. RowInv(q)'
        BY <1>1, <2>1, <2>3, <2>6 DEF RowInv, MayBePaid, Open, Begun, mint
    <2>8. MayBePaid(q)'
        BY <2>3 DEF MayBePaid, Begun
    <2>9. WorkerInv(w)'
        BY <2>1, StoppedWorker
    <2>10. \A v \in Workers \ {w} : pc'[v] = pc[v] /\ key'[v] = key[v] /\ inv'[v] = inv[v]
        BY <2>1 DEF IInv, TypeOK, Stop
    <2>11. /\ \A i \in Items \ ReservedBy(q) : db'[i] = db[i] \/ i = q
           /\ \A i \in ReservedBy(q) : db'[i] = "SPENT" /\ i \in spent
        BY <2>1, <2>4 DEF ReservedBy
    <2>12. UNCHANGED <<spender, qInv, qIn, reqs, mint, raced, storage>>
        BY <2>1
    <2>13. qState[q] \in Open /\ q \in Items /\ db'[q] \notin {"SPENT", "RESERVED"}
        BY <1>3, <2>5, <2>6 DEF Open
    <2> QED
        BY <2>2, <2>3, <2>7, <2>8, <2>9, <2>10, <2>11, <2>12, <2>13, RowStep
           DEF Active, Open, Begun
<1> QED BY <1>2, <1>3

\* A failure releases the proofs of a row; unless another call is paying it,
\* nothing has been sent for it that the mint could still take.
LEMMA FailQuoteInv ==
    ASSUME IInv, NEW w \in Workers, FailQuote(w) PROVE IInv'
<1> PICK q \in Quotes : q = key[w]
    BY DEF IInv, WorkerInv, FailQuote
<1>1. WorkerInv(w) /\ RowInv(q) /\ pc[w] = "fail"
    BY DEF IInv, FailQuote
<1>2. CASE ~ Failable(q)
    BY <1>2, StopKeepsInv DEF FailQuote, rows
<1>3. CASE Failable(q)
    <2>1. /\ qState' = [qState EXCEPT ![q] = "FAILED"]
          /\ db' = [i \in Items |-> IF i \in ReservedBy(q) THEN "UNSPENT" ELSE db[i]]
          /\ raced' = IF OthersPay(q, w) THEN raced \cup {q} ELSE raced
          /\ Stop(w)
          /\ UNCHANGED <<spender, qInv, qIn, reqs, mint, storage>>
          /\ qState[q] \in Open
        BY <1>3 DEF FailQuote, Failable, Release, Open
    <2>2. TypeOK'
        BY <2>1 DEF IInv, TypeOK, Stop, mint, QuoteState, Label, Items
    <2>3. qState'[q] = "FAILED" /\ \A r \in Quotes \ {q} : qState'[r] = qState[r]
        BY <2>1 DEF IInv, TypeOK
    <2>4. db[q] = "NONE"
        BY <1>1, <2>1 DEF RowInv, Open
    <2>5. q \in Items /\ q \notin ReservedBy(q)
        BY <2>4 DEF Items, ReservedBy
    <2>6. db'[q] = "NONE"
        BY <2>1, <2>4, <2>5
    <2>7. WorkerInv(w)' /\ \A v \in Workers \ {w} :
             pc'[v] = pc[v] /\ key'[v] = key[v] /\ inv'[v] = inv[v]
        BY <2>1, StoppedWorker DEF IInv, TypeOK, Stop
    <2>8. qState[q] \in Open /\ UNCHANGED <<spender, qInv, qIn, reqs, mint, storage>>
        BY <2>1
    <2>9. CASE OthersPay(q, w)
        <3>1. MayBePaid(q)'
            BY <2>1, <2>3, <2>9 DEF MayBePaid, Begun
        <3>2. RowInv(q)'
            BY <1>1, <2>1, <2>3, <2>6, <3>1 DEF RowInv, Open, mint
        <3>3. /\ \A i \in Items \ ReservedBy(q) : db'[i] = db[i] \/ i = q
              /\ \A i \in ReservedBy(q) : db'[i] = "UNSPENT"
              /\ \A r \in Quotes \ {q} : r \in raced' <=> r \in raced
            BY <2>1 DEF ReservedBy
        <3> QED
            BY <2>2, <2>3, <2>6, <2>7, <2>8, <3>1, <3>2, <3>3, RowStep
               DEF Active, Open, Begun
    <2>10. CASE ~ OthersPay(q, w)
        <3>1. mState[q] = "UNPAID"
            BY <1>1, <2>10 DEF OthersPay, WorkerInv
        <3>2. \A v \in Workers : ~ Sent(v, q)
            BY <1>1, <2>10, NothingSent DEF OthersPay, WorkerInv, Workers
        <3>3. \A r \in reqs : r[2] # q
            BY <3>2 DEF Sent, IInv, TypeOK, Workers
        <3>4. \A v \in Workers \ {w} : pc[v] = "post" => key[v] # q
            BY <2>10 DEF OthersPay, IInv, WorkerInv, Workers
        <3>5. RowInv(q)'
            BY <1>1, <2>1, <2>3, <2>6, <3>1 DEF RowInv, Open, mint
        <3>6. /\ \A i \in Items \ ReservedBy(q) : db'[i] = db[i] \/ i = q
              /\ \A i \in ReservedBy(q) : db'[i] = "UNSPENT"
              /\ \A r \in Quotes \ {q} : r \in raced' <=> r \in raced
            BY <2>1, <2>10 DEF ReservedBy
        <3> QED
            BY <2>2, <2>3, <2>6, <2>7, <2>8, <3>3, <3>4, <3>5, <3>6, RowStep
               DEF Active, Open, Begun
    <2> QED BY <2>9, <2>10
<1> QED BY <1>2, <1>3

\* A row that expires is UNPAID: its payment has not been begun.
LEMMA ExpireInv ==
    ASSUME IInv, NEW q \in Quotes, Expire(q) PROVE IInv'
<1>1. /\ qState' = [qState EXCEPT ![q] = "EXPIRED"]
      /\ db' = [i \in Items |-> IF i \in ReservedBy(q) THEN "UNSPENT" ELSE db[i]]
      /\ UNCHANGED <<spender, qInv, qIn, reqs, mint, worker, raced, storage>>
      /\ qState[q] = "UNPAID"
    BY DEF Expire, Expirable, Release
<1>2. TypeOK'
    BY <1>1 DEF IInv, TypeOK, mint, worker, QuoteState, Items
<1>3. qState'[q] = "EXPIRED" /\ \A r \in Quotes \ {q} : qState'[r] = qState[r]
    BY <1>1 DEF IInv, TypeOK
<1>4. RowInv(q) /\ db[q] = "NONE" /\ ~ MayBePaid(q)
    BY <1>1 DEF IInv, RowInv, MayBePaid, Begun
<1>5. q \in Items /\ q \notin ReservedBy(q)
    BY <1>4 DEF Items, ReservedBy
<1>6. db'[q] = "NONE"
    BY <1>1, <1>4, <1>5
<1>7. RowInv(q)'
    BY <1>1, <1>3, <1>4, <1>6 DEF RowInv, Open, mint
<1>8. /\ \A i \in Items \ ReservedBy(q) : db'[i] = db[i] \/ i = q
      /\ \A i \in ReservedBy(q) : db'[i] = "UNSPENT"
    BY <1>1 DEF ReservedBy
<1>9. \A v \in Workers : pc'[v] = pc[v] /\ key'[v] = key[v] /\ inv'[v] = inv[v]
    BY <1>1 DEF worker
<1> QED
    BY <1>1, <1>2, <1>3, <1>4, <1>6, <1>7, <1>8, <1>9, RowStep DEF Active, Open, Begun

-----------------------------------------------------------------------------
(* Requests, and the mint.                                                 *)

\* The first and only request of this call for its quote.
LEMMA PostMeltInv ==
    ASSUME IInv, NEW w \in Callers, PostMelt(w) PROVE IInv'
<1> w \in Workers
    BY DEF Workers
<1> USE DEF PostMelt
<1>1. PICK q \in Quotes : q = key[w]
    BY DEF IInv, WorkerInv
<1>2. MayBePaid(q) /\ ~ Sent(w, q) /\ (mState[q] = "UNPAID" \/ mBy[q] # w)
    BY <1>1 DEF IInv, WorkerInv
<1>3. TypeOK'
    <2>1. <<w, q, sel[w]>> \in Callers \X Quotes \X SUBSET Items
        BY DEF IInv, TypeOK
    <2> QED BY <1>1, <2>1 DEF IInv, TypeOK, MoveTo, rows, mint, Label
<1>4. \A r \in Quotes : RowInv(r)' /\ (MayBePaid(r)' <=> MayBePaid(r))
    BY DEF IInv, RowInv, MayBePaid, ReservedBy, rows, mint
<1>5. (\A i \in Items : db[i] = "SPENT" => i \in spent)' /\ OneActiveQuote'
    BY DEF IInv, OneActiveQuote, rows, mint
<1>6. ReqInv'
    <2>1. \A r \in reqs : r[2] \in Quotes /\ MayBePaid(r[2])
        BY DEF IInv, TypeOK, ReqInv
    <2>2. \A r \in reqs' : r = <<w, q, sel[w]>> \/ r \in reqs
        BY <1>1
    <2>3. \A r \in reqs : ~ (r[1] = w /\ r[2] = q)
        BY <1>2 DEF Sent
    <2>4. \A r \in reqs' : MayBePaid(r[2])'
        <3> SUFFICES ASSUME NEW r \in reqs' PROVE MayBePaid(r[2])'
            OBVIOUS
        <3>1. PICK p \in Quotes : p = r[2] /\ MayBePaid(p)
            BY <1>2, <2>1, <2>2
        <3> QED BY <1>4, <3>1 DEF MayBePaid
    <2>5. \A r, s \in reqs' : r[1] = s[1] /\ r[2] = s[2] => r = s
        BY <2>2, <2>3 DEF IInv, ReqInv
    <2> QED BY <2>4, <2>5 DEF ReqInv
<1>7. WorkerInv(w)'
    <2>1. pc'[w] = "posted" /\ key'[w] = q /\ w \notin Pollers
        BY <1>1, NamesAssumption DEF IInv, TypeOK, MoveTo
    <2> QED BY <1>1, <1>2, <2>1 DEF WorkerInv, MayBePaid, Begun, rows, mint
<1>8. ASSUME NEW v \in Workers \ {w} PROVE WorkerInv(v)'
    <2>1. pc'[v] = pc[v] /\ key'[v] = key[v] /\ inv'[v] = inv[v]
        BY DEF IInv, TypeOK, MoveTo
    <2>2. ASSUME NEW p \in Quotes PROVE Sent(v, p)' => Sent(v, p)
        BY DEF Sent
    <2> QED BY <1>4, <2>1, <2>2, WorkerKeeps DEF rows, mint
<1> QED BY <1>3, <1>4, <1>5, <1>6, <1>7, <1>8 DEF IInv

\* Steps of the mint: rows stay, requests are only taken.
LEMMA MintKeepsInv ==
    ASSUME IInv, TypeOK', reqs' \subseteq reqs, UNCHANGED <<rows, raced>>, spent \subseteq spent',
           \A q \in Quotes : RowInv(q)',
           \A w \in Workers : WorkerInv(w)'
    PROVE  IInv'
<1>1. (\A i \in Items : db[i] = "SPENT" => i \in spent)' /\ OneActiveQuote'
    BY DEF IInv, OneActiveQuote, rows
<1>2. ReqInv'
    BY DEF IInv, ReqInv, MayBePaid, rows
<1> QED BY <1>1, <1>2 DEF IInv

\* What is left of the requests when one of them has been taken.
LEMMA RequestTaken ==
    ASSUME IInv, NEW r \in reqs, reqs' = reqs \ {r}
    PROVE  /\ r[1] \in Callers /\ r[2] \in Quotes /\ r[3] \in SUBSET Items
           /\ r = <<r[1], r[2], r[3]>> /\ r[1] \notin Pollers
           /\ Sent(r[1], r[2]) /\ MayBePaid(r[2])
           /\ \A s \in reqs' : ~ (s[1] = r[1] /\ s[2] = r[2])
           /\ \A v \in Workers, p \in Quotes : Sent(v, p)' => Sent(v, p)
<1>1. r \in Callers \X Quotes \X SUBSET Items
    BY DEF IInv, TypeOK
<1>2. r[1] \notin Pollers
    BY <1>1, NamesAssumption
<1> QED BY <1>1, <1>2 DEF IInv, ReqInv, Sent

\* The mint takes a request: its caller, if it still waits, goes on waiting.
LEMMA AcceptInv ==
    ASSUME IInv, NEW r \in reqs, Accept(r[1], r[2], r[3]) PROVE IInv'
<1> DEFINE w == r[1]
           q == r[2]
<1>1. /\ w \in Callers /\ q \in Quotes /\ r[3] \in SUBSET Items /\ w \in Workers
      /\ w \notin Pollers /\ Sent(w, q) /\ MayBePaid(q)
      /\ reqs' = reqs \ {r}
      /\ \A s \in reqs' : ~ (s[1] = w /\ s[2] = q)
      /\ \A v \in Workers, p \in Quotes : Sent(v, p)' => Sent(v, p)
    <2>1. r = <<r[1], r[2], r[3]>>
        BY DEF IInv, TypeOK
    <2> QED BY <2>1, RequestTaken DEF Accept, Workers
<1>2. /\ mState[q] = "UNPAID"
      /\ mState' = [mState EXCEPT ![q] = "PENDING"] /\ mBy' = [mBy EXCEPT ![q] = w]
      /\ IF pc[w] = "posted" /\ key[w] = q THEN MoveTo(w, "awaiting") ELSE UNCHANGED pc
      /\ UNCHANGED <<rows, spent, change, key, inv, sel, raced, storage>>
    BY DEF Accept
<1> HIDE DEF w, q
<1>3. TypeOK'
    BY <1>1, <1>2 DEF IInv, TypeOK, MoveTo, rows, Label
<1>4. /\ mState'[q] = "PENDING" /\ mBy'[q] = w
      /\ \A p \in Quotes \ {q} : mState'[p] = mState[p] /\ mBy'[p] = mBy[p]
    BY <1>1, <1>2 DEF IInv, TypeOK
<1>5. ASSUME NEW p \in Quotes PROVE RowInv(p)' /\ (MayBePaid(p)' <=> MayBePaid(p))
    BY <1>1, <1>2, <1>4 DEF IInv, RowInv, MayBePaid, ReservedBy, rows
<1>6. ASSUME NEW v \in Workers, ~ (v = w /\ pc[w] = "posted" /\ key[w] = q)
      PROVE  WorkerInv(v)'
    <2>1. pc'[v] = pc[v] /\ key'[v] = key[v] /\ inv'[v] = inv[v]
        BY <1>2, <1>6 DEF IInv, TypeOK, MoveTo
    <2>2. key[v] = q /\ pc[v] \in {"mark", "post", "posted", "fail"} => w # v
        BY <1>1, <1>6 DEF IInv, WorkerInv
    <2> QED BY <1>1, <1>2, <1>4, <1>5, <2>1, <2>2, WorkerKeeps DEF rows
<1>7. CASE pc[w] = "posted" /\ key[w] = q
    <2>1. pc'[w] = "awaiting" /\ key'[w] = q
        BY <1>1, <1>2, <1>7 DEF IInv, TypeOK, MoveTo
    <2>2. ~ Sent(w, key[w])' /\ qState[q] \in Begun
        BY <1>1, <2>1 DEF Sent, MayBePaid
    <2>3. WorkerInv(w)'
        BY <1>1, <1>2, <2>1, <2>2 DEF WorkerInv, Begun, rows
    <2> QED BY <1>1, <1>2, <1>3, <1>5, <1>6, <2>3, MintKeepsInv
<1> QED BY <1>1, <1>2, <1>3, <1>5, <1>6, <1>7, MintKeepsInv

\* A refused request is a failure for its caller, if it still waits.
LEMMA RejectInv ==
    ASSUME IInv, NEW r \in reqs, Reject(r[1], r[2], r[3]) PROVE IInv'
<1> DEFINE w == r[1]
           q == r[2]
<1>1. /\ w \in Callers /\ q \in Quotes /\ r[3] \in SUBSET Items /\ w \in Workers
      /\ w \notin Pollers /\ Sent(w, q) /\ MayBePaid(q)
      /\ reqs' = reqs \ {r}
      /\ \A s \in reqs' : ~ (s[1] = w /\ s[2] = q)
      /\ \A v \in Workers, p \in Quotes : Sent(v, p)' => Sent(v, p)
    <2>1. r = <<r[1], r[2], r[3]>>
        BY DEF IInv, TypeOK
    <2> QED BY <2>1, RequestTaken DEF Reject, Workers
<1>2. /\ IF pc[w] = "posted" /\ key[w] = q THEN MoveTo(w, "fail") ELSE UNCHANGED pc
      /\ UNCHANGED <<rows, mint, key, inv, sel, raced, storage>>
    BY DEF Reject
<1> HIDE DEF w, q
<1>3. TypeOK'
    BY <1>1, <1>2 DEF IInv, TypeOK, MoveTo, rows, mint, Label
<1>4. ASSUME NEW p \in Quotes PROVE RowInv(p)' /\ (MayBePaid(p)' <=> MayBePaid(p))
    BY <1>2 DEF IInv, RowInv, MayBePaid, ReservedBy, rows, mint
<1>5. ASSUME NEW v \in Workers, ~ (v = w /\ pc[w] = "posted" /\ key[w] = q)
      PROVE  WorkerInv(v)'
    <2>1. pc'[v] = pc[v] /\ key'[v] = key[v] /\ inv'[v] = inv[v]
        BY <1>2, <1>5 DEF IInv, TypeOK, MoveTo
    <2> QED BY <1>1, <1>2, <1>4, <2>1, WorkerKeeps DEF rows, mint
<1>6. CASE pc[w] = "posted" /\ key[w] = q
    <2>1. pc'[w] = "fail" /\ key'[w] = q
        BY <1>1, <1>2, <1>6 DEF IInv, TypeOK, MoveTo
    <2>2. ~ Sent(w, key[w])' /\ qState[q] \in Begun /\ (mState[q] = "UNPAID" \/ mBy[q] # w)
        BY <1>1, <1>6, <2>1 DEF Sent, MayBePaid, IInv, WorkerInv
    <2>3. WorkerInv(w)'
        BY <1>1, <1>2, <2>1, <2>2 DEF WorkerInv, Begun, rows, mint
    <2> QED BY <1>1, <1>2, <1>3, <1>4, <1>5, <2>3, MintKeepsInv DEF mint
<1> QED BY <1>1, <1>2, <1>3, <1>4, <1>5, <1>6, MintKeepsInv DEF mint

\* A payment the mint has accepted is made, or fails.
LEMMA PaymentEnds ==
    ASSUME IInv, NEW q \in Quotes, PaySucceeds(q) \/ PayFails(q) PROVE IInv'
<1>1. /\ mState[q] = "PENDING" /\ mState'[q] \in {"PAID", "UNPAID"}
      /\ \A p \in Quotes \ {q} : mState'[p] = mState[p]
      /\ mState'[q] = "PAID" => qIn[q] \subseteq spent'
      /\ spent \subseteq spent' /\ \A p \in Quotes \ {q} : p \in change' <=> p \in change
      /\ UNCHANGED <<rows, reqs, mBy, worker, raced, storage>>
    BY DEF PaySucceeds, PayFails, IInv, TypeOK
<1>2. TypeOK'
    <2>1. qIn[q] \subseteq Items
        BY DEF IInv, TypeOK
    <2> QED BY <2>1 DEF IInv, TypeOK, PaySucceeds, PayFails, rows, worker
<1>3. ASSUME NEW p \in Quotes PROVE RowInv(p)' /\ (MayBePaid(p)' <=> MayBePaid(p))
    <2>1. RowInv(p)
        BY DEF IInv
    <2>2. MayBePaid(p)' <=> MayBePaid(p)
        BY <1>1 DEF MayBePaid, rows
    <2>3. ReservedBy(p)' = ReservedBy(p)
        BY <1>1 DEF ReservedBy, rows
    <2> QED BY <1>1, <2>1, <2>2, <2>3 DEF RowInv, rows
<1>4. ASSUME NEW v \in Workers PROVE WorkerInv(v)'
    <2>1. pc'[v] = pc[v] /\ key'[v] = key[v] /\ inv'[v] = inv[v]
        BY <1>1 DEF worker
    <2> QED BY <1>1, <1>3, <2>1, WorkerKeeps DEF Sent, rows
<1> QED BY <1>1, <1>2, <1>3, <1>4, MintKeepsInv

-----------------------------------------------------------------------------
(* Every step, and what follows.                                           *)

\* Every step keeps the invariant.
LEMMA NextInv == IInv /\ [Next]_vars => IInv'
<1> SUFFICES ASSUME IInv, [Next]_vars PROVE IInv'
    OBVIOUS
<1>1. ASSUME NEW w \in Callers, CallStep(w) PROVE IInv'
    <2>1. w \in Workers
        BY DEF Workers
    <2>2. ASSUME NEW I \in (SUBSET sel[w]) \ {{}}, InsertRejected(w, I) PROVE IInv'
        BY <2>1, <2>2, StopKeepsInv DEF InsertRejected
    <2>3. CASE TimeOut(w)
        BY <2>1, <2>3, StopKeepsInv DEF TimeOut
    <2>4. CASE Respond(w)
        BY <2>1, <2>4, FollowInv DEF Respond
    <2> QED
        BY <1>1, <2>2, <2>3, <2>4, GetQuoteInv, FindActiveInv, InsertQuoteInv,
           MarkPendingInv, PostMeltInv DEF CallStep
<1>2. ASSUME NEW w \in Pollers, PollStep(w) PROVE IInv'
    <2>1. CASE PollRead(w)
        BY <2>1, FollowInv DEF PollRead, Workers
    <2> QED BY <1>2, <2>1, StartPollInv DEF PollStep
<1>3. ASSUME NEW w \in Workers, SettleStep(w) \/ Crash(w) PROVE IInv'
    BY <1>3, CompleteQuoteInv, FailQuoteInv, StopKeepsInv DEF SettleStep, Crash
<1>4. CASE MintStep
    BY <1>4, AcceptInv, RejectInv, PaymentEnds DEF MintStep
<1>5. CASE UNCHANGED vars
    <2>1. TypeOK' /\ OneActiveQuote' /\ (\A i \in Items : db[i] = "SPENT" => i \in spent)'
        BY <1>5 DEF IInv, TypeOK, OneActiveQuote, vars, rows, mint, worker
    <2>2. \A q \in Quotes : RowInv(q)'
        BY <1>5 DEF IInv, RowInv, MayBePaid, ReservedBy, vars, rows, mint
    <2>3. \A w \in Workers : WorkerInv(w)'
        BY <1>5 DEF IInv, WorkerInv, MayBePaid, Sent, vars, rows, mint, worker
    <2> QED BY <1>5, <2>1, <2>2, <2>3, MintKeepsInv DEF vars, mint
<1> QED BY <1>1, <1>2, <1>3, <1>4, <1>5, ExpireInv DEF Next

\* The inductive invariant: each row against its proofs and the mint, one open
\* or paid row for an invoice, and what a call between two awaits knows of its
\* row.  In particular a call has at most one request for a quote under way, and
\* a call that is about to fail a quote has none.
THEOREM Invariance == Spec => []IInv
<1> QED BY InitInv, NextInv, PTL DEF Spec

\* Every variable keeps its type.
THEOREM TypeCorrect == Spec => []TypeOK
<1>1. IInv => TypeOK
    BY DEF IInv
<1> QED BY <1>1, Invariance, PTL

\* The proofs a quote has reserved stay its own until it ends, it is PAID only
\* for a payment the mint has made, and no proof is written off before the mint
\* has taken it (cashu_send_quotes, complete_cashu_send_quote).
THEOREM ProofsFollow == Spec => []ProofsFollowTheRow
<1>1. IInv => ProofsFollowTheRow
    BY DEF IInv, ProofsFollowTheRow, RowInv, Open
<1> QED BY <1>1, Invariance, PTL

\* The mint never pays a quote that has expired (expire_cashu_send_quote
\* refuses a PENDING row, mark_as_pending an EXPIRED one).
THEOREM ExpiredStaysUnpaid == Spec => []ExpiredNeverPaid
<1>1. IInv => ExpiredNeverPaid
    <2> SUFFICES ASSUME IInv, NEW q \in Quotes, qState[q] = "EXPIRED"
                 PROVE  mState[q] = "UNPAID" /\ \A w \in Callers : ~ Sent(w, q)
        BY DEF ExpiredNeverPaid
    <2>1. ~ MayBePaid(q)
        BY DEF MayBePaid, Begun
    <2> QED BY <2>1, NothingSent DEF IInv, RowInv, Workers
<1> QED BY <1>1, Invariance, PTL

\* Only a failure that races another call's payment of the same quote leaves a
\* FAILED row whose payment can move money (initiate_melt).
THEOREM FailureIsDefinitive == Spec => []FailedOnlyByRace
<1>1. IInv => FailedOnlyByRace
    <2> SUFFICES ASSUME IInv, NEW q \in Quotes, qState[q] = "FAILED", q \notin raced
                 PROVE  mState[q] = "UNPAID" /\ \A w \in Callers : ~ Sent(w, q)
        BY DEF FailedOnlyByRace
    <2>1. ~ MayBePaid(q)
        BY DEF MayBePaid
    <2> QED BY <2>1, NothingSent DEF IInv, RowInv, Workers
<1> QED BY <1>1, Invariance, PTL

\* One row of an invoice is open or paid at a time, and the mint pays two rows
\* of one invoice only after such a race (the index on the payment hash).
THEOREM InvoicePaidOnce == Spec => []OnePaymentPerInvoice
<1>1. IInv => OnePaymentPerInvoice
    <2> SUFFICES ASSUME IInv PROVE OneActiveQuote /\ PaidTwiceOnlyByRace
        BY DEF OnePaymentPerInvoice
    <2>1. OneActiveQuote
        BY DEF IInv
    <2>2. ASSUME NEW q \in Quotes, mState[q] = "PAID", q \notin raced
          PROVE  qState[q] \in Active
        BY <2>2 DEF IInv, RowInv, MayBePaid, Begun, Active
    <2> QED BY <2>1, <2>2 DEF OneActiveQuote, PaidTwiceOnlyByRace
<1> QED BY <1>1, Invariance, PTL

=============================================================================
