-------------------------- MODULE MintQuote_proofs ------------------------
(***************************************************************************)
(* Proofs about MintQuote, for any number of quotes, workers and keysets.  *)
(***************************************************************************)
EXTENDS MintQuote, TLAPS

Recorded(q) == qState[q] \in {"PAID", "COMPLETED"}

\* An output derived from a value the counter of its keyset has passed.
Below(x) == x[2] < counter[x[1]]

\* Outputs that are signed or planned come from passed counter values, and no
\* two rows plan the same one.
CounterInv ==
    /\ \A x \in signed : Below(x)
    /\ \A q \in Quotes : qPlan[q] # None => \A x \in Outputs(qPlan[q]) : Below(x)
    /\ \A q, r \in Quotes :
          q # r /\ qPlan[q] # None /\ qPlan[r] # None
              => Outputs(qPlan[q]) \cap Outputs(qPlan[r]) = {}

\* A row against the mint and the balance.
RowInv(q) ==
    /\ Recorded(q) <=> qPlan[q] # None
    /\ Recorded(q) => mState[q] # "UNPAID"
    /\ Recorded(q) /\ mState[q] = "PAID" => Outputs(qPlan[q]) \cap signed = {}
    /\ mState[q] = "ISSUED" => Recorded(q) /\ Outputs(qPlan[q]) \subseteq signed
    /\ qState[q] = "COMPLETED" =>
          mState[q] = "ISSUED" /\ Outputs(qPlan[q]) \subseteq proofs

ReqInv(r) == Recorded(r.quote) /\ r.plan = qPlan[r.quote]

\* What a worker in the middle of a call knows of its row.
WorkerInv(w) ==
    /\ pc[w] # "idle" => key[w] \in Quotes
    /\ pc[w] = "process" => plan[w] \in Plans /\ mState[key[w]] # "UNPAID"
    /\ pc[w] \in {"post", "awaiting", "restore", "record", "fail"} =>
          Recorded(key[w]) /\ plan[w] = qPlan[key[w]]
    /\ pc[w] = "record" => mState[key[w]] = "ISSUED"

IInv ==
    /\ TypeOK
    /\ CounterInv
    /\ proofs \subseteq signed
    /\ \A q \in Quotes : RowInv(q)
    /\ \A r \in reqs : ReqInv(r)
    /\ \A w \in Workers : WorkerInv(w)

-----------------------------------------------------------------------------

\* The outputs of a plan are a non-empty set of pairs of its keyset.
LEMMA OutputsOfPlan ==
    ASSUME NEW p \in Plans
    PROVE  /\ Outputs(p) # {}
           /\ \A x \in Outputs(p) : /\ x = <<x[1], x[2]>> /\ x[1] = p.keyset
                                    /\ x[2] \in Nat /\ p.from <= x[2]
                                    /\ x[2] < p.from + Width
<1>1. p.from \in Nat /\ Width \in Nat \ {0}
    BY MintQuoteAssumption DEF Plans
<1>2. <<p.keyset, p.from>> \in Outputs(p)
    BY <1>1 DEF Outputs
<1>3. ASSUME NEW x \in Outputs(p)
      PROVE  /\ x = <<x[1], x[2]>> /\ x[1] = p.keyset
             /\ x[2] \in Nat /\ p.from <= x[2] /\ x[2] < p.from + Width
    <2>1. PICK i \in p.from .. p.from + Width - 1 : x = <<p.keyset, i>>
        BY <1>3 DEF Outputs
    <2> QED BY <1>1, <2>1
<1> QED BY <1>2, <1>3

\* Outputs of a plan within the bound are items.
LEMMA OutputsAreItems ==
    ASSUME NEW p \in Plans, p.from + Width <= MaxCounter
    PROVE  Outputs(p) \subseteq Items
<1>1. p.from \in Nat /\ p.keyset \in Keysets /\ Width \in Nat /\ MaxCounter \in Nat
    BY MintQuoteAssumption DEF Plans
<1>2. ASSUME NEW x \in Outputs(p) PROVE x \in Items
    <2>1. x = <<x[1], x[2]>> /\ x[1] = p.keyset /\ x[2] \in Nat /\ x[2] < p.from + Width
        BY OutputsOfPlan
    <2>2. x[2] \in 0 .. MaxCounter
        BY <1>1, <2>1
    <2> QED BY <1>1, <2>1, <2>2 DEF Items
<1> QED BY <1>2

\* Initially there is nothing.
LEMMA InitInv == Init => IInv
<1> SUFFICES ASSUME Init PROVE IInv
    OBVIOUS
<1>1. TypeOK
    BY MintQuoteAssumption DEF Init, TypeOK, RowState, Label
<1>2. CounterInv /\ proofs \subseteq signed
    BY DEF Init, CounterInv
<1>3. \A q \in Quotes : RowInv(q)
    BY DEF Init, RowInv, Recorded
<1>4. (\A r \in reqs : ReqInv(r)) /\ (\A w \in Workers : WorkerInv(w))
    BY DEF Init, WorkerInv
<1> QED BY <1>1, <1>2, <1>3, <1>4 DEF IInv

\* Steps of calls that leave rows and the mint's signatures alone: what is
\* left to show is what the worker knows and what it asks for.
LEMMA CallKeepsInv ==
    ASSUME IInv, TypeOK', UNCHANGED <<rows, mState, signed>>,
           \A r \in reqs' : ReqInv(r),
           \A w \in Workers : WorkerInv(w)'
    PROVE  IInv'
<1>1. CounterInv' /\ (proofs \subseteq signed)'
    BY DEF IInv, CounterInv, Below, rows, Outputs
<1>2. \A q \in Quotes : RowInv(q)'
    BY DEF IInv, RowInv, Recorded, rows, Outputs
<1>3. \A r \in reqs' : ReqInv(r)'
    BY DEF ReqInv, Recorded, rows
<1> QED BY <1>1, <1>2, <1>3 DEF IInv

\* A worker whose local state does not change, when rows only gain plans and
\* the mint's states only advance.
LEMMA WorkerKeeps ==
    ASSUME NEW v \in Workers, IInv,
           pc'[v] = pc[v], key'[v] = key[v], plan'[v] = plan[v],
           \A q \in Quotes : /\ mState[q] # "UNPAID" => mState'[q] # "UNPAID"
                             /\ mState[q] = "ISSUED" => mState'[q] = "ISSUED"
                             /\ Recorded(q) => Recorded(q)' /\ qPlan'[q] = qPlan[q]
    PROVE  WorkerInv(v)'
<1>1. WorkerInv(v)
    BY DEF IInv
<1> QED BY <1>1 DEF WorkerInv, Recorded

\* A worker that has stopped knows nothing.
LEMMA StoppedWorker ==
    ASSUME NEW w \in Workers, IInv, Stop(w) PROVE WorkerInv(w)'
    BY DEF IInv, TypeOK, WorkerInv, Stop

-----------------------------------------------------------------------------
(* Steps of calls.                                                         *)

\* A call begins: the row it has read is in the state it needs.
LEMMA StartSteps ==
    ASSUME IInv, NEW w \in Workers, NEW q \in Quotes,
           StartPoll(w, q) \/ StartComplete(w, q) \/ StartExpire(w, q)
    PROVE  IInv'
<1> USE DEF IInv
<1>1. CASE StartPoll(w, q) \/ StartExpire(w, q)
    <2> DEFINE l == pc'[w]
    <2>1. l \in {"status", "expire"} /\ Enter(w, l, q, None)
        BY <1>1 DEF StartPoll, StartExpire, Enter, TypeOK, Label
    <2>2. TypeOK'
        BY <1>1, <2>1 DEF StartPoll, StartExpire, Enter, TypeOK, Label, rows, mint
    <2>3. ASSUME NEW v \in Workers PROVE WorkerInv(v)'
        BY <1>1, <2>1 DEF StartPoll, StartExpire, Enter, WorkerInv, TypeOK, Recorded,
                          rows, mint
    <2> QED BY <1>1, <2>2, <2>3, CallKeepsInv DEF StartPoll, StartExpire, rows, mint
<1>2. CASE StartComplete(w, q)
    <2>1. Recorded(q) /\ qPlan[q] \in Plans
        BY <1>2, MintQuoteAssumption DEF StartComplete, RowInv, Recorded, TypeOK
    <2>2. TypeOK'
        BY <1>2, <2>1 DEF StartComplete, Enter, TypeOK, Label, rows, mint
    <2>3. ASSUME NEW v \in Workers PROVE WorkerInv(v)'
        BY <1>2, <2>1 DEF StartComplete, Enter, WorkerInv, TypeOK, Recorded, rows, mint
    <2> QED BY <1>2, <2>2, <2>3, CallKeepsInv DEF StartComplete, rows, mint
<1> QED BY <1>1, <1>2

\* A call that has seen the payment takes it from there; any other ends.
LEMMA AskStatusStep ==
    ASSUME IInv, NEW w \in Workers, AskStatus(w) PROVE IInv'
<1> USE DEF IInv
<1>1. UNCHANGED <<rows, late, reqs, mint>> /\ key[w] \in Quotes
    BY DEF AskStatus, WorkerInv
<1>2. CASE Stop(w)
    <2>1. TypeOK'
        BY <1>1, <1>2 DEF Stop, TypeOK, Label, rows, mint
    <2>2. ASSUME NEW v \in Workers PROVE WorkerInv(v)'
        BY <1>1, <1>2 DEF Stop, WorkerInv, TypeOK, Recorded, rows, mint
    <2> QED BY <1>1, <2>1, <2>2, CallKeepsInv DEF mint
<1>3. ASSUME NEW k \in Keysets, SeemsPaid(key[w]),
             Enter(w, "process", key[w], [keyset |-> k, from |-> 0])
      PROVE IInv'
    <2>1. [keyset |-> k, from |-> 0] \in Plans
        BY MintQuoteAssumption DEF Plans
    <2>2. TypeOK'
        BY <1>1, <1>3, <2>1 DEF Enter, TypeOK, Label, rows, mint
    <2>3. ASSUME NEW v \in Workers PROVE WorkerInv(v)'
        BY <1>1, <1>3, <2>1 DEF Enter, SeemsPaid, WorkerInv, TypeOK, Recorded, rows, mint
    <2> QED BY <1>1, <2>2, <2>3, CallKeepsInv DEF mint
<1> QED BY <1>2, <1>3 DEF AskStatus

\* Sending a request, giving it up, and a crash.
LEMMA PostSteps ==
    ASSUME IInv, NEW w \in Workers, PostMint(w) \/ TimeOut(w) \/ Crash(w)
    PROVE  IInv'
<1> USE DEF IInv
<1>1. CASE PostMint(w)
    <2> DEFINE r == [by |-> w, quote |-> key[w], plan |-> plan[w]]
    <2>1. /\ key[w] \in Quotes /\ Recorded(key[w]) /\ plan[w] = qPlan[key[w]]
          /\ plan[w] \in Plans
        BY <1>1, MintQuoteAssumption DEF PostMint, WorkerInv, RowInv, TypeOK
    <2>2. TypeOK'
        BY <1>1, <2>1 DEF PostMint, MoveTo, TypeOK, Label, rows, mint
    <2>3. ASSUME NEW v \in Workers PROVE WorkerInv(v)'
        BY <1>1, <2>1 DEF PostMint, MoveTo, WorkerInv, TypeOK, Recorded, rows, mint
    <2>4. ReqInv(r)
        BY <2>1 DEF ReqInv
    <2>5. \A a \in reqs' : ReqInv(a)
        BY <1>1, <2>4 DEF PostMint
    <2> QED BY <1>1, <2>2, <2>3, <2>5, CallKeepsInv DEF PostMint, mint
<1>2. CASE TimeOut(w) \/ Crash(w)
    <2>1. UNCHANGED <<rows, late, reqs, mint>> /\ Stop(w)
        BY <1>2 DEF TimeOut, Crash
    <2>2. TypeOK'
        BY <2>1 DEF Stop, TypeOK, Label, rows, mint
    <2>3. ASSUME NEW v \in Workers PROVE WorkerInv(v)'
        BY <2>1 DEF Stop, WorkerInv, TypeOK, Recorded, rows, mint
    <2> QED BY <2>1, <2>2, <2>3, CallKeepsInv DEF mint
<1> QED BY <1>1, <1>2

\* Signed outputs of a recorded row are those of an issued quote.
LEMMA RestoreStep ==
    ASSUME IInv, NEW w \in Workers, Restore(w) PROVE IInv'
<1> USE DEF IInv
<1>1. /\ key[w] \in Quotes /\ Recorded(key[w]) /\ plan[w] = qPlan[key[w]]
      /\ plan[w] \in Plans
    BY MintQuoteAssumption DEF Restore, WorkerInv, RowInv, TypeOK
<1>2. Outputs(plan[w]) # {}
    BY <1>1, OutputsOfPlan
<1>3. Outputs(plan[w]) \subseteq signed => mState[key[w]] = "ISSUED"
    BY <1>1, <1>2 DEF RowInv, TypeOK
<1>4. TypeOK'
    BY DEF Restore, MoveTo, TypeOK, Label, rows, mint
<1>5. ASSUME NEW v \in Workers PROVE WorkerInv(v)'
    BY <1>1, <1>3 DEF Restore, MoveTo, WorkerInv, TypeOK, Recorded, rows, mint
<1> QED BY <1>4, <1>5, CallKeepsInv DEF Restore, mint

-----------------------------------------------------------------------------
(* Steps of the mint, the payer and time.                                  *)

\* An answer moves only the call that waits for it, which has recorded the
\* payment before it asked; "record" is the answer to an issue alone.
LEMMA AnsweredWorkers ==
    ASSUME IInv, NEW r \in reqs, NEW l \in {"idle", "restore", "record"}, Answer(r, l),
           UNCHANGED rows,
           \A q \in Quotes : /\ mState[q] # "UNPAID" => mState'[q] # "UNPAID"
                             /\ mState[q] = "ISSUED" => mState'[q] = "ISSUED",
           l = "record" => mState'[r.quote] = "ISSUED"
    PROVE  /\ pc' \in [Workers -> Label]
           /\ key' \in [Workers -> Quotes \cup {None}]
           /\ plan' \in [Workers -> Plans \cup {None}]
           /\ \A v \in Workers : WorkerInv(v)'
<1>1. r.by \in Workers /\ r.quote \in Quotes
    BY DEF IInv, TypeOK
<1>2. CASE ~ Awaited(r)
    <2>1. UNCHANGED worker
        BY <1>2 DEF Answer
    <2>2. ASSUME NEW v \in Workers PROVE WorkerInv(v)'
        BY <2>1, WorkerKeeps DEF worker, rows, Recorded
    <2> QED BY <2>1, <2>2 DEF worker, IInv, TypeOK
<1>3. CASE Awaited(r)
    <2>1. /\ pc' = [pc EXCEPT ![r.by] = l]
          /\ l # "idle" => UNCHANGED <<key, plan>>
          /\ l = "idle" => Stop(r.by)
        BY <1>3 DEF Answer, Stop, MoveTo
    <2>2. /\ pc[r.by] = "awaiting" /\ key[r.by] = r.quote
          /\ Recorded(r.quote) /\ plan[r.by] = qPlan[r.quote]
        BY <1>1, <1>3 DEF Awaited, IInv, WorkerInv
    <2>3. \A v \in Workers \ {r.by} :
              pc'[v] = pc[v] /\ key'[v] = key[v] /\ plan'[v] = plan[v]
        BY <1>1, <2>1 DEF Stop, IInv, TypeOK
    <2>4. ASSUME NEW v \in Workers \ {r.by} PROVE WorkerInv(v)'
        BY <2>3, WorkerKeeps DEF rows, Recorded
    <2>5. WorkerInv(r.by)'
        BY <1>1, <2>1, <2>2 DEF WorkerInv, IInv, TypeOK, Recorded, rows, Stop
    <2>6. /\ pc' \in [Workers -> Label] /\ key' \in [Workers -> Quotes \cup {None}]
          /\ plan' \in [Workers -> Plans \cup {None}]
        BY <1>1, <2>1 DEF Stop, IInv, TypeOK, Label
    <2> QED BY <2>4, <2>5, <2>6
<1> QED BY <1>2, <1>3

\* Answers that sign nothing.
LEMMA UnsignedAnswers ==
    ASSUME IInv, NEW r \in reqs, AlreadyIssued(r) \/ Refuse(r) PROVE IInv'
<1>1. /\ UNCHANGED <<rows, late, mint>> /\ reqs' \subseteq reqs
      /\ Answer(r, "restore") \/ Answer(r, "idle")
    BY DEF AlreadyIssued, Refuse, Answer, IssuedError
<1>2. PICK l \in {"idle", "restore"} : Answer(r, l)
    BY <1>1
<1>3. UNCHANGED rows /\ UNCHANGED mState
    BY <1>1 DEF mint
<1>4. /\ pc' \in [Workers -> Label] /\ key' \in [Workers -> Quotes \cup {None}]
      /\ plan' \in [Workers -> Plans \cup {None}]
      /\ \A v \in Workers : WorkerInv(v)'
    <2>1. l \in {"idle", "restore", "record"} /\ (l = "record" => FALSE)
        BY <1>2
    <2>2. \A q \in Quotes : /\ mState[q] # "UNPAID" => mState'[q] # "UNPAID"
                            /\ mState[q] = "ISSUED" => mState'[q] = "ISSUED"
        BY <1>3
    <2> QED BY <1>2, <1>3, <2>1, <2>2, AnsweredWorkers
<1>5. TypeOK'
    BY <1>1, <1>4 DEF IInv, TypeOK, rows, mint
<1> QED BY <1>1, <1>4, <1>5, CallKeepsInv DEF IInv, mint

\* The mint's keysets, lost signatures and time do not touch a row.
LEMMA OutsideSteps ==
    ASSUME IInv, \/ \E k \in Keysets : Retire(k)
                 \/ \E q \in Quotes : Lose(q) \/ TimePasses(q)
    PROVE  IInv'
<1>1. UNCHANGED <<rows, reqs, mState, signed, worker>>
    BY DEF Retire, Lose, TimePasses, mint
<1>2. TypeOK'
    BY <1>1 DEF Retire, Lose, TimePasses, IInv, TypeOK, rows, mint, worker
<1>3. ASSUME NEW v \in Workers PROVE WorkerInv(v)'
    BY <1>1, WorkerKeeps DEF rows, worker, Recorded
<1> QED BY <1>1, <1>2, <1>3, CallKeepsInv DEF IInv

\* A payment advances the mint's state of one quote.
LEMMA PayStep ==
    ASSUME IInv, NEW q \in Quotes, Pay(q) PROVE IInv'
<1>1. /\ UNCHANGED <<rows, late, reqs, signed, lost, retired, worker>>
      /\ mState[q] = "UNPAID" /\ mState' = [mState EXCEPT ![q] = "PAID"]
    BY DEF Pay
<1>2. TypeOK'
    BY <1>1 DEF IInv, TypeOK, rows, worker
<1>3. CounterInv' /\ (proofs \subseteq signed)'
    BY <1>1 DEF IInv, CounterInv, Below, Outputs, rows
<1>4. ASSUME NEW p \in Quotes PROVE RowInv(p)'
    BY <1>1 DEF IInv, TypeOK, RowInv, Recorded, Outputs, rows
<1>5. \A r \in reqs' : ReqInv(r)'
    BY <1>1 DEF IInv, ReqInv, Recorded, rows
<1>6. ASSUME NEW v \in Workers PROVE WorkerInv(v)'
    BY <1>1, WorkerKeeps DEF IInv, TypeOK, Recorded, rows, worker
<1> QED BY <1>2, <1>3, <1>4, <1>5, <1>6 DEF IInv

\* An issue signs exactly the outputs its row plans, which no other row plans.
LEMMA IssueStep ==
    ASSUME IInv, NEW r \in reqs, Issue(r) PROVE IInv'
<1> DEFINE q == r.quote
<1>1. /\ mState[q] = "PAID" /\ UNCHANGED <<rows, late, lost, retired>>
      /\ mState' = [mState EXCEPT ![q] = "ISSUED"]
      /\ signed' = signed \cup Outputs(r.plan)
      /\ reqs' \subseteq reqs /\ Answer(r, "record")
    BY DEF Issue, Answer
<1>2. q \in Quotes /\ Recorded(q) /\ r.plan = qPlan[q] /\ r.plan \in Plans /\ qPlan[q] # None
    BY MintQuoteAssumption DEF IInv, TypeOK, ReqInv
<1>3. \A x \in Outputs(r.plan) : x \in Items
    <2>1. \A x \in Outputs(r.plan) : Below(x)
        BY <1>2 DEF IInv, CounterInv
    <2>2. r.plan.keyset \in Keysets /\ r.plan.from \in Nat /\ MaxCounter \in Nat
        BY <1>2, MintQuoteAssumption DEF Plans
    <2>3. ASSUME NEW x \in Outputs(r.plan) PROVE x \in Items
        <3>1. /\ x = <<x[1], x[2]>> /\ x[1] \in Keysets /\ x[2] \in Nat
            BY <1>2, <2>2, OutputsOfPlan
        <3>2. x[2] < counter[x[1]] /\ counter[x[1]] \in 0 .. MaxCounter
            BY <2>1, <3>1 DEF Below, IInv, TypeOK
        <3>3. x[2] \in 0 .. MaxCounter
            BY <2>2, <3>1, <3>2
        <3> QED BY <3>1, <3>3 DEF Items
    <2> QED BY <2>3
<1>4. \A p \in Quotes : /\ mState[p] # "UNPAID" => mState'[p] # "UNPAID"
                        /\ mState[p] = "ISSUED" => mState'[p] = "ISSUED"
    BY <1>1, <1>2 DEF IInv, TypeOK
<1>5. /\ pc' \in [Workers -> Label] /\ key' \in [Workers -> Quotes \cup {None}]
      /\ plan' \in [Workers -> Plans \cup {None}]
      /\ \A v \in Workers : WorkerInv(v)'
    <2>1. mState'[q] = "ISSUED" /\ "record" \in {"idle", "restore", "record"}
        BY <1>1, <1>2 DEF IInv, TypeOK
    <2> QED BY <1>1, <1>4, <2>1, AnsweredWorkers
<1>6. TypeOK'
    BY <1>1, <1>2, <1>3, <1>5 DEF IInv, TypeOK, rows
<1>7. CounterInv' /\ (proofs \subseteq signed)'
    BY <1>1, <1>2 DEF IInv, CounterInv, Below, Outputs, rows
<1>8. ASSUME NEW p \in Quotes PROVE RowInv(p)'
    <2>1. RowInv(p) /\ UNCHANGED <<qState, qPlan, proofs>>
        BY <1>1 DEF IInv, rows
    <2>2. CASE p = q
        BY <1>1, <1>2, <2>1, <2>2 DEF RowInv, Recorded, IInv, TypeOK, Outputs
    <2>3. CASE p # q
        <3>1. mState'[p] = mState[p]
            BY <1>1, <2>3 DEF IInv, TypeOK
        <3>2. qPlan[p] # None => Outputs(qPlan[p]) \cap Outputs(qPlan[q]) = {}
            BY <1>2, <2>3 DEF IInv, CounterInv
        <3> QED BY <1>1, <1>2, <2>1, <3>1, <3>2 DEF RowInv, Recorded, Outputs
    <2> QED BY <2>2, <2>3
<1>9. \A a \in reqs' : ReqInv(a)'
    BY <1>1 DEF IInv, ReqInv, Recorded, rows
<1> QED BY <1>5, <1>6, <1>7, <1>8, <1>9 DEF IInv

-----------------------------------------------------------------------------
(* Steps of the database.                                                  *)

\* Taking counter values keeps what has been passed below the counter.
LEMMA TakeKeepsBelow ==
    ASSUME TypeOK, NEW k \in Keysets, NEW n \in Nat, Take(k, n)
    PROVE  /\ counter'[k] = counter[k] + n
           /\ \A j \in Keysets : counter[j] \in Nat /\ counter[j] <= counter'[j]
           /\ \A x \in Items : Below(x) => Below(x)'
<1>1. \A j \in Keysets : counter[j] \in Nat
    BY MintQuoteAssumption DEF TypeOK
<1>2. \A j \in Keysets : counter'[j] = IF j = k THEN counter[k] + n ELSE counter[j]
    BY DEF Take, TypeOK
<1>3. \A j \in Keysets : counter[j] <= counter'[j]
    BY <1>1, <1>2
<1>4. ASSUME NEW x \in Items, Below(x) PROVE Below(x)'
    <2>1. x[1] \in Keysets /\ x[2] \in Nat
        BY MintQuoteAssumption DEF Items
    <2> QED BY <1>1, <1>2, <1>4, <2>1 DEF Below
<1> QED BY <1>1, <1>2, <1>3, <1>4

\* Planned outputs are items.
LEMMA PlannedAreItems ==
    ASSUME IInv, NEW q \in Quotes, qPlan[q] # None
    PROVE  qPlan[q] \in Plans /\ Outputs(qPlan[q]) \subseteq Items
<1>1. qPlan[q] \in Plans /\ qPlan[q].keyset \in Keysets
    BY DEF IInv, TypeOK, Plans
<1>2. ASSUME NEW x \in Outputs(qPlan[q]) PROVE x \in Items
    <2>1. x = <<x[1], x[2]>> /\ x[1] \in Keysets /\ x[2] \in Nat
        BY <1>1, OutputsOfPlan
    <2>2. x[2] < counter[x[1]] /\ counter[x[1]] \in 0 .. MaxCounter /\ MaxCounter \in Nat
        BY <2>1, MintQuoteAssumption DEF IInv, TypeOK, CounterInv, Below
    <2>3. x[2] \in 0 .. MaxCounter
        BY <2>1, <2>2
    <2> QED BY <2>1, <2>3 DEF Items
<1> QED BY <1>1, <1>2

\* The payment of a quote is recorded with fresh outputs.
LEMMA ProcessPaymentStep ==
    ASSUME IInv, NEW w \in Workers, ProcessPayment(w) PROVE IInv'
<1>0. /\ key[w] \in Quotes /\ plan[w] \in Plans /\ plan[w].keyset \in Keysets
      /\ mState[key[w]] # "UNPAID"
    BY DEF ProcessPayment, IInv, WorkerInv, Plans
<1>a. PICK q \in Quotes : q = key[w]
    BY <1>0
<1>b. PICK k \in Keysets : k = plan[w].keyset
    BY <1>0
<1>c. PICK p : p = [keyset |-> k, from |-> counter[k]]
    OBVIOUS
<1>1. mState[q] # "UNPAID" /\ UNCHANGED <<proofs, late, reqs, mint>> /\ Stop(w)
    BY <1>0, <1>a DEF ProcessPayment
<1>2. ASSUME NEW v \in Workers,
             \A a \in Quotes : Recorded(a) => Recorded(a)' /\ qPlan'[a] = qPlan[a]
      PROVE  WorkerInv(v)'
    <2>1. CASE v = w
        BY <1>1, <2>1, StoppedWorker
    <2>2. CASE v # w
        <3>1. pc'[v] = pc[v] /\ key'[v] = key[v] /\ plan'[v] = plan[v]
            BY <1>1, <2>2 DEF Stop, IInv, TypeOK
        <3> QED BY <1>1, <1>2, <3>1, WorkerKeeps DEF mint
    <2> QED BY <2>1, <2>2
<1>3. CASE ~ Processable(q)
    <2>1. UNCHANGED rows
        BY <1>1, <1>3, <1>a DEF ProcessPayment, rows
    <2>2. \A v \in Workers : WorkerInv(v)'
        BY <1>2, <2>1 DEF Recorded, rows
    <2>3. TypeOK'
        BY <1>1, <2>1 DEF IInv, TypeOK, Stop, Label, rows, mint
    <2> QED BY <1>1, <2>1, <2>2, <2>3, CallKeepsInv DEF IInv, mint
<1>4. CASE Processable(q)
    <2>1. /\ counter[k] + Width <= MaxCounter /\ Take(k, Width)
          /\ qState' = [qState EXCEPT ![q] = "PAID"] /\ qState[q] = "UNPAID"
          /\ qPlan' = [qPlan EXCEPT ![q] = p]
        BY <1>4, <1>a, <1>b, <1>c DEF ProcessPayment, Processable, Set
    <2>2. /\ Width \in Nat \ {0} /\ counter[k] \in 0 .. MaxCounter /\ MaxCounter \in Nat
          /\ p \in Plans /\ p # None
        BY <1>c, MintQuoteAssumption DEF IInv, TypeOK, Plans
    <2>3. /\ counter'[k] = counter[k] + Width
          /\ \A x \in Items : Below(x) => Below(x)'
        BY <1>1, <2>1, <2>2, TakeKeepsBelow DEF IInv
    <2>4. \A x \in Outputs(p) : Below(x)' /\ ~ Below(x)
        <3>1. ASSUME NEW x \in Outputs(p) PROVE Below(x)' /\ ~ Below(x)
            <4>1. x[1] = k /\ x[2] \in Nat /\ counter[k] <= x[2] /\ x[2] < counter[k] + Width
                BY <1>c, <2>2, OutputsOfPlan
            <4> QED BY <2>2, <2>3, <4>1 DEF Below
        <3> QED BY <3>1
    <2>5. \A a \in Quotes : qPlan'[a] = IF a = q THEN p ELSE qPlan[a]
        BY <1>1, <2>1 DEF IInv, TypeOK
    <2>6. /\ ~ Recorded(q) /\ qPlan[q] = None /\ Recorded(q)'
          /\ \A a \in Quotes \ {q} : qState'[a] = qState[a] /\ (Recorded(a)' <=> Recorded(a))
        <3>1. \A a \in Quotes : qState'[a] = IF a = q THEN "PAID" ELSE qState[a]
            BY <1>1, <2>1 DEF IInv, TypeOK
        <3>2. ~ Recorded(q) /\ qPlan[q] = None
            BY <1>1, <2>1 DEF IInv, RowInv, Recorded
        <3> QED BY <1>1, <3>1, <3>2 DEF Recorded
    <2>7. \A v \in Workers : WorkerInv(v)'
        BY <1>2, <2>5, <2>6
    <2>8. TypeOK'
        <3>1. counter' \in [Keysets -> 0 .. MaxCounter]
            BY <1>1, <2>1, <2>2 DEF Take, IInv, TypeOK
        <3>2. pc' \in [Workers -> Label] /\ key' \in [Workers -> Quotes \cup {None}]
              /\ plan' \in [Workers -> Plans \cup {None}]
            BY <1>1 DEF Stop, IInv, TypeOK, Label
        <3> QED BY <1>1, <2>1, <2>2, <3>1, <3>2 DEF IInv, TypeOK, RowState, mint
    <2>9. CounterInv'
        <3>1. \A x \in signed' : Below(x)'
            BY <1>1, <2>3 DEF IInv, TypeOK, CounterInv, mint
        <3>2. ASSUME NEW a \in Quotes, qPlan'[a] # None, NEW x \in Outputs(qPlan'[a])
              PROVE  Below(x)'
            BY <2>3, <2>4, <2>5, <3>2, PlannedAreItems DEF IInv, CounterInv
        <3>3. ASSUME NEW a \in Quotes, NEW b \in Quotes, a # b,
                     qPlan'[a] # None, qPlan'[b] # None
              PROVE  Outputs(qPlan'[a]) \cap Outputs(qPlan'[b]) = {}
            <4>1. CASE a # q /\ b # q
                BY <2>5, <3>3, <4>1 DEF IInv, CounterInv
            <4>2. CASE a = q
                BY <2>4, <2>5, <3>3, <4>2 DEF IInv, CounterInv
            <4>3. CASE b = q
                BY <2>4, <2>5, <3>3, <4>3 DEF IInv, CounterInv
            <4> QED BY <4>1, <4>2, <4>3
        <3> QED BY <3>1, <3>2, <3>3 DEF CounterInv, Outputs
    <2>10. ASSUME NEW a \in Quotes PROVE RowInv(a)'
        <3>1. RowInv(a) /\ mState' = mState /\ signed' = signed /\ proofs' = proofs
            BY <1>1 DEF IInv, mint
        <3>2. CASE a = q
            <4>1. mState[q] = "PAID"
                BY <1>1, <2>6, <3>1, <3>2 DEF RowInv, IInv, TypeOK
            <4>2. Outputs(p) \cap signed = {}
                BY <2>4 DEF IInv, CounterInv
            <4>3. qState'[q] = "PAID" /\ qPlan'[q] = p
                BY <1>1, <2>1, <2>5 DEF IInv, TypeOK
            <4>4. Outputs(qPlan[q])' = Outputs(p)
                BY <4>3 DEF Outputs
            <4> QED BY <2>2, <2>6, <3>1, <3>2, <4>1, <4>2, <4>3, <4>4 DEF RowInv
        <3>3. CASE a # q
            BY <2>5, <2>6, <3>1, <3>3 DEF RowInv, Outputs
        <3> QED BY <3>2, <3>3
    <2>11. \A r \in reqs' : ReqInv(r)'
        <3>1. ASSUME NEW r \in reqs PROVE ReqInv(r)'
            <4>1. r.quote \in Quotes /\ ReqInv(r)
                BY DEF IInv, TypeOK
            <4> QED BY <2>5, <2>6, <4>1 DEF ReqInv
        <3> QED BY <1>1, <3>1
    <2> QED BY <1>1, <2>7, <2>8, <2>9, <2>10, <2>11 DEF IInv, mint
<1> QED BY <1>3, <1>4

\* A swap takes a counter value that no quote plans.
LEMMA OtherSwapStep ==
    ASSUME IInv, NEW k \in Keysets, OtherSwap(k) PROVE IInv'
<1>1. PICK x : x = <<k, counter[k]>>
    OBVIOUS
<1>2. /\ counter[k] < MaxCounter /\ Take(k, 1)
      /\ signed' = signed \cup {x} /\ proofs' = proofs \cup {x}
      /\ UNCHANGED <<qState, qPlan, late, reqs, mState, lost, retired, worker>>
    BY <1>1 DEF OtherSwap
<1>3. /\ counter[k] \in 0 .. MaxCounter /\ MaxCounter \in Nat /\ x \in Items
    BY <1>1, MintQuoteAssumption DEF IInv, TypeOK, Items
<1>4. /\ counter'[k] = counter[k] + 1 /\ \A y \in Items : Below(y) => Below(y)'
    BY <1>2, TakeKeepsBelow DEF IInv
<1>5. ~ Below(x) /\ Below(x)'
    BY <1>1, <1>3, <1>4 DEF Below
<1>6. \A q \in Quotes : qPlan[q] # None => x \notin Outputs(qPlan[q])
    BY <1>5 DEF IInv, CounterInv
<1>7. TypeOK'
    <2>1. counter' \in [Keysets -> 0 .. MaxCounter]
        BY <1>2, <1>3 DEF Take, IInv, TypeOK
    <2> QED BY <1>2, <1>3, <2>1 DEF IInv, TypeOK, worker
<1>8. CounterInv'
    <2>1. \A y \in signed' : Below(y)'
        BY <1>2, <1>4, <1>5 DEF IInv, TypeOK, CounterInv
    <2>2. ASSUME NEW q \in Quotes, qPlan[q] # None, NEW y \in Outputs(qPlan[q])
          PROVE  Below(y)'
        BY <1>4, <2>2, PlannedAreItems DEF IInv, CounterInv
    <2> QED BY <1>2, <2>1, <2>2 DEF IInv, CounterInv, Outputs
<1>9. ASSUME NEW q \in Quotes PROVE RowInv(q)'
    <2>1. RowInv(q) /\ Outputs(qPlan[q])' = Outputs(qPlan[q])
        BY <1>2 DEF IInv, Outputs
    <2> QED BY <1>2, <1>6, <2>1 DEF RowInv, Recorded
<1>10. \A r \in reqs' : ReqInv(r)'
    BY <1>2 DEF IInv, ReqInv, Recorded
<1>11. ASSUME NEW v \in Workers PROVE WorkerInv(v)'
    BY <1>2, WorkerKeeps DEF worker, Recorded
<1> QED BY <1>2, <1>7, <1>8, <1>9, <1>10, <1>11 DEF IInv

\* The steps that write only the state of one row, and perhaps its proofs.
LEMMA RowStateSteps ==
    ASSUME IInv, NEW q \in Quotes, NEW st \in {"UNPAID", "COMPLETED", "EXPIRED", "FAILED"},
           UNCHANGED <<qPlan, counter, late, reqs, mint>>,
           Set(q, st),
           \/ st = "COMPLETED" /\ Recorded(q) /\ mState[q] = "ISSUED"
           \/ st # "COMPLETED" /\ ~ Recorded(q),
           proofs \subseteq proofs', proofs' \subseteq signed,
           st = "COMPLETED" => Outputs(qPlan[q]) \subseteq proofs',
           \A v \in Workers : WorkerInv(v)',
           pc' \in [Workers -> Label], key' \in [Workers -> Quotes \cup {None}],
           plan' \in [Workers -> Plans \cup {None}]
    PROVE  IInv'
<1>1. \A a \in Quotes : qState'[a] = IF a = q THEN st ELSE qState[a]
    BY DEF Set, IInv, TypeOK
<1>2. \A a \in Quotes : Recorded(a)' <=> Recorded(a)
    BY <1>1 DEF Recorded
<1>3. TypeOK'
    BY DEF IInv, TypeOK, Set, RowState, mint
<1>4. CounterInv' /\ (proofs \subseteq signed)'
    BY DEF IInv, CounterInv, Below, Outputs, mint
<1>5. ASSUME NEW a \in Quotes PROVE RowInv(a)'
    <2>1. RowInv(a) /\ Outputs(qPlan[a])' = Outputs(qPlan[a])
        BY DEF IInv, Outputs
    <2> QED BY <1>1, <1>2, <2>1 DEF RowInv, mint
<1>6. \A r \in reqs' : ReqInv(r)'
    BY <1>2 DEF IInv, TypeOK, ReqInv
<1> QED BY <1>3, <1>4, <1>5, <1>6 DEF IInv

\* A new row.
LEMMA CreateStep ==
    ASSUME IInv, NEW q \in Quotes, CreateQuote(q) PROVE IInv'
<1>1. /\ qState[q] = "NONE" /\ Set(q, "UNPAID")
      /\ UNCHANGED <<qPlan, counter, proofs, late, reqs, mint, worker>>
    BY DEF CreateQuote
<1>2. \A a \in Quotes : Recorded(a) => Recorded(a)'
    BY <1>1 DEF Set, Recorded, IInv, TypeOK
<1>3. ASSUME NEW v \in Workers PROVE WorkerInv(v)'
    BY <1>1, <1>2, WorkerKeeps DEF worker, mint
<1> QED BY <1>1, <1>3, RowStateSteps DEF worker, Recorded, IInv, TypeOK

\* The last step of a call writes the outcome.
LEMMA OutcomeSteps ==
    ASSUME IInv, NEW w \in Workers, RecordProofs(w) \/ FailRow(w) \/ ExpireRow(w)
    PROVE  IInv'
<1>1. PICK q \in Quotes : q = key[w]
    BY DEF RecordProofs, FailRow, ExpireRow, IInv, WorkerInv
<1>2. UNCHANGED <<qPlan, counter, late, reqs, mint>> /\ Stop(w)
    BY DEF RecordProofs, FailRow, ExpireRow
<1>3. /\ pc' \in [Workers -> Label] /\ key' \in [Workers -> Quotes \cup {None}]
      /\ plan' \in [Workers -> Plans \cup {None}]
    BY <1>2 DEF Stop, IInv, TypeOK, Label
<1>4. ASSUME NEW v \in Workers, \A a \in Quotes : Recorded(a) => Recorded(a)'
      PROVE  WorkerInv(v)'
    <2>1. CASE v = w
        BY <1>2, <2>1, StoppedWorker
    <2>2. CASE v # w
        <3>1. pc'[v] = pc[v] /\ key'[v] = key[v] /\ plan'[v] = plan[v]
            BY <1>2, <2>2 DEF Stop, IInv, TypeOK
        <3> QED BY <1>2, <1>4, <3>1, WorkerKeeps DEF mint
    <2> QED BY <2>1, <2>2
<1>5. CASE UNCHANGED <<qState, proofs>>
    <2>1. \A v \in Workers : WorkerInv(v)'
        BY <1>4, <1>5 DEF Recorded
    <2>2. TypeOK'
        BY <1>2, <1>3, <1>5 DEF IInv, TypeOK, mint
    <2> QED BY <1>2, <1>5, <2>1, <2>2, CallKeepsInv DEF IInv, rows, mint
<1>6. CASE RecordProofs(w) /\ Completable(q)
    <2>1. /\ Set(q, "COMPLETED") /\ proofs' = proofs \cup Outputs(plan[w])
          /\ qState[q] = "PAID" /\ pc[w] = "record"
        BY <1>1, <1>6 DEF RecordProofs, Completable
    <2>2. Recorded(q) /\ plan[w] = qPlan[q] /\ mState[q] = "ISSUED"
        BY <1>1, <2>1 DEF IInv, WorkerInv
    <2>3. Outputs(qPlan[q]) \subseteq signed
        BY <2>2 DEF IInv, RowInv
    <2>4. \A a \in Quotes : Recorded(a) => Recorded(a)'
        BY <2>1 DEF Set, Recorded, IInv, TypeOK
    <2>5. \A v \in Workers : WorkerInv(v)'
        BY <1>4, <2>4
    <2>6. /\ proofs \subseteq proofs' /\ proofs' \subseteq signed
          /\ Outputs(qPlan[q]) \subseteq proofs'
        BY <2>1, <2>2, <2>3 DEF IInv
    <2> QED BY <1>2, <1>3, <2>1, <2>2, <2>5, <2>6, RowStateSteps
<1>7. CASE (FailRow(w) \/ ExpireRow(w)) /\ ~ UNCHANGED qState
    <2>1. PICK st \in {"EXPIRED", "FAILED"} : Set(q, st)
        BY <1>1, <1>7 DEF FailRow, ExpireRow
    <2>2. qState[q] = "UNPAID" /\ UNCHANGED proofs
        BY <1>1, <1>7 DEF FailRow, ExpireRow, Expirable
    <2>3. \A a \in Quotes : Recorded(a) => Recorded(a)'
        BY <2>1, <2>2 DEF Set, Recorded, IInv, TypeOK
    <2>4. \A v \in Workers : WorkerInv(v)'
        BY <1>4, <2>3
    <2> QED BY <1>2, <1>3, <2>1, <2>2, <2>4, RowStateSteps DEF Recorded, IInv
<1>8. (FailRow(w) \/ ExpireRow(w)) => UNCHANGED proofs
    BY DEF FailRow, ExpireRow
<1>9. RecordProofs(w) /\ ~ Completable(q) => UNCHANGED <<qState, proofs>>
    BY <1>1 DEF RecordProofs
<1> QED BY <1>5, <1>6, <1>7, <1>8, <1>9

-----------------------------------------------------------------------------
(* The theorems.                                                           *)

LEMMA StepInv == IInv /\ [Next]_vars => IInv'
<1> SUFFICES ASSUME IInv, [Next]_vars PROVE IInv'
    OBVIOUS
<1>1. ASSUME NEW q \in Quotes, CreateQuote(q) \/ Pay(q) \/ Lose(q) \/ TimePasses(q)
      PROVE  IInv'
    BY <1>1, CreateStep, PayStep, OutsideSteps
<1>2. ASSUME NEW w \in Workers, NEW q \in Quotes,
             StartPoll(w, q) \/ StartComplete(w, q) \/ StartExpire(w, q)
      PROVE  IInv'
    BY <1>2, StartSteps
<1>3. ASSUME NEW w \in Workers, CallStep(w) \/ TimeOut(w) \/ Crash(w)
      PROVE  IInv'
    BY <1>3, AskStatusStep, ProcessPaymentStep, PostSteps, RestoreStep, OutcomeSteps
       DEF CallStep
<1>4. ASSUME NEW k \in Keysets, Retire(k) \/ OtherSwap(k) PROVE IInv'
    BY <1>4, OutsideSteps, OtherSwapStep
<1>5. ASSUME MintStep PROVE IInv'
    BY <1>5, IssueStep, UnsignedAnswers DEF MintStep
<1>6. ASSUME UNCHANGED vars PROVE IInv'
    <2>1. TypeOK'
        BY <1>6 DEF IInv, TypeOK, vars, rows, mint, worker
    <2>2. ASSUME NEW v \in Workers PROVE WorkerInv(v)'
        BY <1>6, WorkerKeeps DEF vars, rows, mint, worker, Recorded
    <2> QED BY <1>6, <2>1, <2>2, CallKeepsInv DEF IInv, vars, mint
<1> QED BY <1>1, <1>2, <1>3, <1>4, <1>5, <1>6 DEF Next

\* The inductive invariant.
THEOREM Invariance == Spec => []IInv
<1> QED BY InitInv, StepInv, PTL DEF Spec

\* Every variable keeps its type: no call takes counter values beyond the
\* bound, records anything but derived outputs, or leaves a half-set worker.
THEOREM TypeCorrect == Spec => []TypeOK
<1>1. IInv => TypeOK
    BY DEF IInv
<1> QED BY <1>1, Invariance, PTL

\* PAID and COMPLETED rows tell the truth about payment and balance, and what
\* the mint has issued can be restored from a row.
THEOREM RowsAndMintAgree == Spec => []RowAndMintAgree
<1>1. IInv => RowAndMintAgree
    BY DEF IInv, RowAndMintAgree, RowInv, ReqInv, Recorded
<1> QED BY <1>1, Invariance, PTL

\* The outputs of a paid quote stay its own and unsigned until it is issued.
THEOREM OutputsReserved == Spec => []OutputsAreReserved
<1>1. IInv => OutputsAreReserved
    BY DEF IInv, OutputsAreReserved, CounterInv, RowInv, Recorded
<1> QED BY <1>1, Invariance, PTL

-----------------------------------------------------------------------------

\* What a step may do to the rows that exist.
Kept == \A q \in Quotes :
            /\ qState[q] \in {"COMPLETED", "EXPIRED", "FAILED"} => qState'[q] = qState[q]
            /\ qState[q] = "PAID" =>
                  qState'[q] \in {"PAID", "COMPLETED"} /\ qPlan'[q] = qPlan[q]

\* A step that sets one row, which is in a state that may still change.
LEMMA SetKeeps ==
    ASSUME IInv, NEW q \in Quotes, NEW st, Set(q, st),
           \/ qState[q] \in {"NONE", "UNPAID"}
           \/ qState[q] = "PAID" /\ st = "COMPLETED" /\ qPlan' = qPlan,
           \A a \in Quotes \ {q} : qPlan'[a] = qPlan[a]
    PROVE  Kept
<1>1. \A a \in Quotes : qState'[a] = IF a = q THEN st ELSE qState[a]
    BY DEF Set, IInv, TypeOK
<1> QED BY <1>1 DEF Kept

\* Only the steps that end in the four database functions set a row.
LEMMA CallKeepsRows ==
    ASSUME IInv, NEW w \in Workers, CallStep(w) \/ TimeOut(w) \/ Crash(w)
    PROVE  Kept
<1>1. CASE UNCHANGED <<qState, qPlan>>
    BY <1>1 DEF Kept
<1>2. CASE ProcessPayment(w) /\ ~ UNCHANGED <<qState, qPlan>>
    <2>1. PICK q \in Quotes : q = key[w]
        BY <1>2 DEF ProcessPayment, IInv, WorkerInv
    <2>2. PICK p : Set(q, "PAID") /\ qPlan' = [qPlan EXCEPT ![q] = p] /\ qState[q] = "UNPAID"
        BY <1>2, <2>1 DEF ProcessPayment, Processable
    <2>3. \A a \in Quotes \ {q} : qPlan'[a] = qPlan[a]
        BY <2>2 DEF IInv, TypeOK
    <2> QED BY <2>2, <2>3, SetKeeps
<1>3. CASE (RecordProofs(w) \/ FailRow(w) \/ ExpireRow(w)) /\ ~ UNCHANGED <<qState, qPlan>>
    <2>1. PICK q \in Quotes : q = key[w]
        BY <1>3 DEF RecordProofs, FailRow, ExpireRow, IInv, WorkerInv
    <2>2. \/ Set(q, "COMPLETED") /\ qState[q] = "PAID"
          \/ (Set(q, "FAILED") \/ Set(q, "EXPIRED")) /\ qState[q] = "UNPAID"
        BY <1>3, <2>1 DEF RecordProofs, FailRow, ExpireRow, Completable, Expirable
    <2>3. qPlan' = qPlan
        BY <1>3 DEF RecordProofs, FailRow, ExpireRow
    <2> QED BY <2>2, <2>3, SetKeeps
<1> QED BY <1>1, <1>2, <1>3
       DEF CallStep, AskStatus, PostMint, Restore, TimeOut, Crash, rows

\* A recorded payment and a final state stay, whichever call arrives late.
THEOREM PaymentsStay == Spec => PaymentsStayRecorded
<1>1. IInv /\ [Next]_vars => [Kept]_vars
    <2> SUFFICES ASSUME IInv, Next PROVE Kept
        BY DEF Kept
    <2>1. ASSUME NEW q \in Quotes, CreateQuote(q) PROVE Kept
        BY <2>1, SetKeeps DEF CreateQuote
    <2>2. ASSUME NEW w \in Workers, CallStep(w) \/ TimeOut(w) \/ Crash(w) PROVE Kept
        BY <2>2, CallKeepsRows
    <2>3. CASE UNCHANGED <<qState, qPlan>>
        BY <2>3 DEF Kept
    <2>4. MintStep => UNCHANGED <<qState, qPlan>>
        BY DEF MintStep, Issue, AlreadyIssued, Refuse, rows
    <2> QED BY <2>1, <2>2, <2>3, <2>4
           DEF Next, Pay, Lose, TimePasses, StartPoll, StartComplete, StartExpire,
               Retire, OtherSwap, rows
<1> QED BY <1>1, Invariance, PTL DEF Spec, PaymentsStayRecorded, Kept

=============================================================================
