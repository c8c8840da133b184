-------------------------- MODULE TokenSwaps_proofs -----------------------
(***************************************************************************)
(* Proofs about TokenSwaps, for any number of rows, tokens, workers and    *)
(* counter values.                                                         *)
(***************************************************************************)
EXTENDS TokenSwaps, TLAPS

Sent(s) == sState[s] \in {"PENDING", "COMPLETED", "REVERSED"}

\* Counter intervals: below the counter, above the initial proofs, disjoint.
OutputsInv ==
    /\ InitialProofs <= counter
    /\ \A i \in signed : i < counter
    /\ \A s \in Sends : \A i \in sOut[s] : InitialProofs <= i /\ i < counter
    /\ \A k \in Tokens : \A i \in rOut[k] : InitialProofs <= i /\ i < counter
    /\ \A s, t \in Sends : s # t => sOut[s] \cap sOut[t] = {}
    /\ \A k, l \in Tokens : k # l => rOut[k] \cap rOut[l] = {}
    /\ \A s \in Sends, k \in Tokens : sOut[s] \cap rOut[k] = {}

\* The rows of proofs against the mint.
ProofsInv ==
    \A i \in Slots :
        /\ db[i] # "NONE" => i \in signed
        /\ i \in spent => db[i] \in {"RESERVED", "SPENT"}
        /\ db[i] = "SPENT" => i \in spent

\* A send row against its proofs.
SendInv(s) ==
    /\ sState[s] # "FAILED"
    /\ sState[s] = "NONE" => sOut[s] = {}
    /\ sState[s] = "DRAFT" =>
          /\ sOut[s] # {} /\ sTok[s] \subseteq sOut[s]
          /\ \A i \in sOut[s] : db[i] = "NONE"
          /\ \A i \in sIn[s] : db[i] = "RESERVED" /\ spender[i] = s
          /\ \A i \in Slots : db[i] = "RESERVED" /\ spender[i] = s => i \in sIn[s]
          /\ \/ sIn[s] \cap spent = {} /\ sOut[s] \cap signed = {}
             \/ sIn[s] \subseteq spent /\ sOut[s] \subseteq signed
    /\ Sent(s) =>
          /\ sOut[s] \subseteq signed
          /\ \A i \in sTok[s] : db[i] \in {"RESERVED", "SPENT"} /\ spender[i] = s
          /\ \A i \in Slots : db[i] = "RESERVED" /\ spender[i] = s => i \in sTok[s]
    /\ sState[s] = "PENDING" => \A i \in sTok[s] : db[i] = "RESERVED"
    /\ sState[s] = "REVERSED" => rState[s] = "COMPLETED"

\* A spending id is the id of an existing row, and only set on a stored proof.
SpenderInv ==
    \A i \in Slots :
        /\ spender[i] \in Sends => sState[spender[i]] # "NONE"
        /\ db[i] = "NONE" => spender[i] = NoSend

\* A receive row against its proofs.
RecvInv(k) ==
    /\ rState[k] = "NONE" => rOut[k] = {} /\ ~ rRev[k]
    /\ rState[k] # "NONE" => rOut[k] # {} /\ Published(k)
    /\ rState[k] # "NONE" /\ rOut[k] \cap signed # {} =>
          rOut[k] \subseteq signed /\ TokenProofs(k) \subseteq spent
    /\ rState[k] = "PENDING" => \A i \in rOut[k] : db[i] = "NONE"
    /\ rRev[k] => k \in Sends

\* What a worker in the middle of a call knows of its row.
WorkerInv(w) ==
    /\ pc[w] # "failSend"
    /\ pc[w] \in {"mintSend", "restoreSend", "commitSend"} =>
          key[w] \in Sends /\ sState[key[w]] # "NONE" /\ sOut[key[w]] # {}
    /\ pc[w] = "mintSend" => sel[w] = {} \/ sel[w] = sIn[key[w]]
    /\ pc[w] \in {"restoreSend", "commitSend"} => sOut[key[w]] \subseteq signed
    /\ pc[w] = "completeSend" =>
          key[w] \in Sends /\ Sent(key[w]) /\ sTok[key[w]] \subseteq spent
    /\ pc[w] = "createReversal" => key[w] \in Sends /\ Sent(key[w])
    /\ pc[w] \in {"mintRecv", "restoreRecv", "completeRecv", "failRecv"} =>
          key[w] \in Tokens /\ rState[key[w]] # "NONE"
    /\ pc[w] = "completeRecv" =>
          rOut[key[w]] \subseteq signed
    /\ reversing[w] =>
          /\ key[w] \in Sends
          /\ pc[w] \in {"createReversal", "mintRecv", "restoreRecv",
                        "completeRecv", "failRecv", "reload"}
    /\ pc[w] = "reload" => reversing[w]

IInv ==
    /\ TypeOK
    /\ OutputsInv
    /\ ProofsInv
    /\ SpenderInv
    /\ \A s \in Sends : SendInv(s)
    /\ \A k \in Tokens : RecvInv(k)
    /\ \A w \in Workers : WorkerInv(w)

-----------------------------------------------------------------------------

LEMMA InitIInv == Init => IInv
<1> SUFFICES ASSUME Init PROVE IInv
  OBVIOUS
<1> USE ConstantsAssumption DEF Init, Tokens
<1>1. TypeOK
  BY DEF TypeOK, Slots, ProofState, SendState, RecvState, Label
<1>2. OutputsInv
  BY DEF OutputsInv, Slots
<1>3. ProofsInv /\ SpenderInv
  BY DEF ProofsInv, SpenderInv, Slots
<1>4. \A s \in Sends : SendInv(s)
  BY DEF SendInv, Sent
<1>5. \A k \in Tokens : RecvInv(k)
  BY DEF RecvInv
<1>6. \A w \in Workers : WorkerInv(w)
  BY DEF WorkerInv
<1> QED BY <1>1, <1>2, <1>3, <1>4, <1>5, <1>6 DEF IInv

LEMMA CreatePendingIInv ==
    ASSUME IInv, NEW w \in Workers, NEW s \in Sends, CreatePending(w, s)
    PROVE  IInv'
<1> USE ConstantsAssumption DEF IInv, CreatePending, Reserve, CanReserve, Unspent,
        Stop, recvRows, mint, Tokens
<1>1. TypeOK'
  BY DEF TypeOK, ProofState, SendState, Label
<1>2. OutputsInv'
  BY DEF OutputsInv
<1>3. ProofsInv'
  BY DEF ProofsInv, TypeOK
<1>4. SpenderInv'
  BY DEF SpenderInv, TypeOK
<1>5. ASSUME NEW t \in Sends PROVE SendInv(t)'
  BY DEF SendInv, SpenderInv, Sent, TypeOK
<1>6. ASSUME NEW k \in Tokens PROVE RecvInv(k)'
  BY DEF RecvInv, Published, TokenProofs, TypeOK
<1>7. ASSUME NEW v \in Workers PROVE WorkerInv(v)'
  BY DEF WorkerInv, Sent, TypeOK
<1> QED BY <1>1, <1>2, <1>3, <1>4, <1>5, <1>6, <1>7

LEMMA NextOutputsFresh ==
    ASSUME TypeOK, OutputsInv, ProofsInv, NEW n \in Nat, counter + n <= NumSlots
    PROVE  /\ NextOutputs(n) \subseteq Slots
           /\ NextOutputs(n) \cap signed = {}
           /\ \A i \in NextOutputs(n) : /\ db[i] = "NONE"
                                        /\ InitialProofs <= i /\ counter <= i
                                        /\ i < counter + n
           /\ n > 0 => NextOutputs(n) # {}
<1>1. n > 0 => counter \in NextOutputs(n)
  BY ConstantsAssumption DEF NextOutputs, TypeOK, Slots
<1>2. QED
  BY <1>1, ConstantsAssumption DEF NextOutputs, TypeOK, OutputsInv, ProofsInv, Slots

LEMMA CreateDraftIInv ==
    ASSUME IInv, NEW w \in Workers, NEW s \in Sends, CreateDraft(w, s)
    PROVE  IInv'
<1> USE ConstantsAssumption DEF IInv, Tokens
<1>a. PICK nSend \in 1 .. MaxSend, nChange \in 0 .. MaxChange :
         /\ Bump(nSend + nChange)
         /\ sTok' = [sTok EXCEPT ![s] = NextOutputs(nSend)]
         /\ sOut' = [sOut EXCEPT ![s] = NextOutputs(nSend + nChange)]
  BY DEF CreateDraft
<1> DEFINE n == nSend + nChange
<1>b. /\ n \in Nat /\ n > 0 /\ counter + n <= NumSlots /\ counter' = counter + n
      /\ counter \in Nat /\ NumSlots \in Nat
  BY <1>a DEF Bump, TypeOK
<1>c. NextOutputs(nSend) \subseteq NextOutputs(n)
  BY <1>b DEF NextOutputs, Slots
<1> DEFINE new == NextOutputs(n)
<1>d. /\ new \subseteq Slots /\ new \cap signed = {} /\ new # {}
      /\ \A i \in new : db[i] = "NONE" /\ InitialProofs <= i /\ counter <= i /\ i < counter'
  BY <1>b, NextOutputsFresh
<1>e. /\ pc[w] = "createSend" /\ sState[s] = "NONE"
      /\ \A i \in sel[w] : i \in Slots /\ db[i] = "UNSPENT"
      /\ db' = [i \in Slots |-> IF i \in sel[w] THEN "RESERVED" ELSE db[i]]
      /\ spender' = [i \in Slots |-> IF i \in sel[w] THEN s ELSE spender[i]]
      /\ sIn' = [sIn EXCEPT ![s] = sel[w]]
      /\ sState' = [sState EXCEPT ![s] = "DRAFT"]
      /\ pc' = [pc EXCEPT ![w] = "mintSend"] /\ key' = [key EXCEPT ![w] = s]
      /\ UNCHANGED <<recvRows, mint, sel, reversing, told, storage>>
  BY DEF CreateDraft, Reserve, CanReserve, Unspent, MoveTo
<1>f. /\ sTok' = [sTok EXCEPT ![s] = NextOutputs(nSend)]
      /\ sOut' = [sOut EXCEPT ![s] = new]
  BY <1>a
<1>g. NextOutputs(nSend) \subseteq new
  BY <1>c
<1> HIDE DEF new, n
<1>1. TypeOK'
  <2>1. counter' \in 0 .. NumSlots
    BY <1>b
  <2>2. /\ sTok' \in [Sends -> SUBSET Slots] /\ sOut' \in [Sends -> SUBSET Slots]
        /\ sIn' \in [Sends -> SUBSET Slots]
    <3>1. NextOutputs(nSend) \subseteq Slots /\ sel[w] \subseteq Slots
      BY <1>d, <1>e, <1>g DEF TypeOK
    <3> QED BY <1>d, <1>e, <1>f, <3>1 DEF TypeOK
  <2>3. /\ db' \in [Slots -> ProofState] /\ spender' \in [Slots -> Sends \cup {NoSend}]
        /\ sState' \in [Sends -> SendState]
    BY <1>e DEF TypeOK, SendState, ProofState
  <2>4. /\ pc' \in [Workers -> Label] /\ key' \in [Workers -> Tokens \cup {NoToken}]
        /\ sel' \in [Workers -> SUBSET Slots]
    BY <1>e DEF TypeOK, Label
  <2> QED BY <1>e, <2>1, <2>2, <2>3, <2>4 DEF TypeOK, recvRows, mint
<1>2. OutputsInv'
  <2>1. \A i \in new : /\ \A t \in Sends : i \notin sOut[t]
                       /\ \A k \in Tokens : i \notin rOut[k]
    BY <1>b, <1>d DEF OutputsInv, TypeOK, Slots
  <2>2. \A t \in Sends : sOut'[t] = IF t = s THEN new ELSE sOut[t]
    BY <1>f DEF TypeOK
  <2>6. \A i \in Slots : i < counter => i < counter'
    BY <1>b DEF Slots
  <2>7. /\ signed \subseteq Slots /\ \A t \in Sends : sOut[t] \subseteq Slots
        /\ \A k \in Tokens : rOut[k] \subseteq Slots
    BY DEF TypeOK
  <2>3. /\ \A i \in signed' : i < counter'
        /\ \A t \in Sends : \A i \in sOut'[t] : InitialProofs <= i /\ i < counter'
        /\ \A k \in Tokens : \A i \in rOut'[k] : InitialProofs <= i /\ i < counter'
        /\ InitialProofs <= counter'
    <3>1. InitialProofs <= counter'
      BY <1>b DEF OutputsInv
    <3>2. \A i \in signed' : i < counter'
      BY <1>e, <2>6, <2>7 DEF OutputsInv, mint
    <3>3. \A t \in Sends : \A i \in sOut'[t] : InitialProofs <= i /\ i < counter'
      BY <1>d, <2>2, <2>6, <2>7 DEF OutputsInv
    <3>4. \A k \in Tokens : \A i \in rOut'[k] : InitialProofs <= i /\ i < counter'
      BY <1>e, <2>6, <2>7 DEF OutputsInv, recvRows
    <3> QED BY <3>1, <3>2, <3>3, <3>4
  <2>4. \A t, u \in Sends : t # u => sOut'[t] \cap sOut'[u] = {}
    BY <2>1, <2>2 DEF OutputsInv
  <2>5. /\ \A k, l \in Tokens : k # l => rOut'[k] \cap rOut'[l] = {}
        /\ \A t \in Sends, k \in Tokens : sOut'[t] \cap rOut'[k] = {}
    BY <1>e, <2>1, <2>2 DEF OutputsInv, recvRows
  <2> QED BY <2>3, <2>4, <2>5 DEF OutputsInv
<1>3. ProofsInv'
  BY <1>e DEF ProofsInv, TypeOK, mint
<1>4. SpenderInv'
  BY <1>e DEF SpenderInv, TypeOK
<1>5. ASSUME NEW t \in Sends PROVE SendInv(t)'
  <2>1. CASE t = s
    <3>1. /\ sState'[s] = "DRAFT" /\ sOut'[s] = new /\ sIn'[s] = sel[w]
          /\ sTok'[s] = NextOutputs(nSend) /\ UNCHANGED mint
      BY <1>e, <1>f DEF TypeOK
    <3>2. \A i \in Slots : spender[i] # s
      BY <1>e DEF SpenderInv
    <3>3. \A i \in Slots : IF i \in sel[w] THEN db'[i] = "RESERVED" /\ spender'[i] = s
                                           ELSE db'[i] = db[i] /\ spender'[i] # s
      BY <1>e, <3>2
    <3>4. sel[w] \cap spent = {} /\ sel[w] \subseteq Slots
      BY <1>e DEF ProofsInv
    <3>5. \A i \in new : db'[i] = "NONE"
      BY <1>d, <1>e
    <3>6. /\ \A i \in sIn'[s] : db'[i] = "RESERVED" /\ spender'[i] = s
          /\ \A i \in Slots : db'[i] = "RESERVED" /\ spender'[i] = s => i \in sIn'[s]
      BY <3>1, <3>3, <3>4
    <3>7. sIn'[s] \cap spent' = {} /\ sOut'[s] \cap signed' = {}
      BY <1>d, <3>1, <3>4 DEF mint
    <3>8. sOut'[s] # {} /\ sTok'[s] \subseteq sOut'[s] /\ \A i \in sOut'[s] : db'[i] = "NONE"
      BY <1>d, <1>g, <3>1, <3>5
    <3> QED BY ONLY <2>1, <3>1, <3>6, <3>7, <3>8 DEF SendInv, Sent
  <2>2. CASE t # s
    <3>1. /\ sState'[t] = sState[t] /\ sIn'[t] = sIn[t] /\ sTok'[t] = sTok[t]
          /\ sOut'[t] = sOut[t] /\ UNCHANGED mint /\ rState'[t] = rState[t]
      BY <1>e, <1>f, <2>2 DEF TypeOK, recvRows
    <3>2. SendInv(t)
      OBVIOUS
    <3>3. \A i \in Slots : (db'[i] = db[i] /\ spender'[i] = spender[i]) \/ i \in sel[w]
      BY <1>e DEF TypeOK
    <3> QED BY <1>e, <2>2, <3>1, <3>2, <3>3 DEF SendInv, Sent, TypeOK, mint
  <2> QED BY <2>1, <2>2
<1>6. ASSUME NEW k \in Tokens PROVE RecvInv(k)'
  BY <1>e, <1>f DEF RecvInv, Published, TokenProofs, TypeOK, recvRows, mint
<1>7. ASSUME NEW v \in Workers PROVE WorkerInv(v)'
  BY <1>d, <1>e, <1>f DEF WorkerInv, Sent, TypeOK, recvRows, mint
<1> QED BY <1>1, <1>2, <1>3, <1>4, <1>5, <1>6, <1>7

LEMMA MintSendIInv ==
    ASSUME IInv, NEW w \in Workers, MintSend(w)
    PROVE  IInv'
<1> USE ConstantsAssumption DEF IInv, MintSend, PostSwap, MintAccepts, AlreadyExecuted, MoveTo, account, sendRows, recvRows, Tokens
<1>a. /\ key[w] \in Sends /\ sOut[key[w]] # {}
      /\ sState[key[w]] = "DRAFT" /\ sel[w] = sIn[key[w]]
      /\ sIn[key[w]] \cap spent = {} /\ sOut[key[w]] \cap signed = {}
  BY DEF WorkerInv, SendInv, Sent, TypeOK, SendState
<1>1. TypeOK'
  BY <1>a DEF TypeOK, ProofState, SendState, RecvState, Label
<1>2. OutputsInv'
  BY DEF OutputsInv, WorkerInv, TypeOK
<1>3. ProofsInv'
  BY DEF ProofsInv, TypeOK, WorkerInv, SendInv, Sent, SendState
<1>4. SpenderInv'
  BY DEF SpenderInv, TypeOK
<1>5. ASSUME NEW t \in Sends PROVE SendInv(t)'
  BY DEF SendInv, Sent, TypeOK, WorkerInv, OutputsInv, SendState
<1>6. ASSUME NEW k \in Tokens PROVE RecvInv(k)'
  <2>1. rOut[k] \cap sOut[key[w]] = {}
    BY <1>a DEF OutputsInv, Sent, TypeOK
  <2>2. k \in Sends => sState[k] \in SendState
    BY DEF TypeOK
  <2> QED BY <1>a, <2>1, <2>2 DEF RecvInv, Published, TokenProofs, SendState
<1>7. ASSUME NEW v \in Workers PROVE WorkerInv(v)'
  BY DEF WorkerInv, Sent, TypeOK
<1> QED BY <1>1, <1>2, <1>3, <1>4, <1>5, <1>6, <1>7

\* A send row keeps its invariant when the proofs a step changes are neither
\* reserved by it nor, while it is a DRAFT, among its outputs.
LEMMA OtherSend ==
    ASSUME IInv, NEW t \in Sends,
           sState'[t] = sState[t], sIn'[t] = sIn[t], sTok'[t] = sTok[t],
           sOut'[t] = sOut[t], UNCHANGED mint,
           rState[t] = "COMPLETED" => rState'[t] = "COMPLETED",
           \A i \in Slots :
               \/ db'[i] = db[i] /\ spender'[i] = spender[i]
               \/ /\ spender[i] # t /\ spender'[i] # t
                  /\ sState[t] = "DRAFT" => i \notin sOut[t]
    PROVE  SendInv(t)'
<1> USE DEF IInv, mint
<1>a. SendInv(t) /\ sOut[t] \subseteq Slots /\ sIn[t] \subseteq Slots /\ sTok[t] \subseteq Slots
  BY DEF TypeOK
<1>1. CASE sState[t] = "DRAFT"
  BY <1>a, <1>1 DEF SendInv, Sent
<1>2. CASE sState[t] # "DRAFT"
  BY <1>a, <1>2 DEF SendInv, Sent
<1> QED BY <1>1, <1>2

LEMMA CommitProofsToSendIInv ==
    ASSUME IInv, NEW w \in Workers, CommitProofsToSend(w)
    PROVE  IInv'
<1> USE ConstantsAssumption DEF IInv, CommitProofsToSend, IsDraft, Committed, ReservedBy, Stop, recvRows, mint, Tokens
<1>a. /\ key[w] \in Sends /\ sOut[key[w]] # {} /\ sOut[key[w]] \subseteq signed
  BY DEF WorkerInv
<1>1. TypeOK'
  BY <1>a DEF TypeOK, ProofState, SendState, RecvState, Label
<1>2. OutputsInv'
  BY DEF OutputsInv
<1>3. ProofsInv'
  BY DEF ProofsInv, TypeOK, WorkerInv, SendInv, Sent, ProofState
<1>4. SpenderInv'
  BY DEF SpenderInv, TypeOK, WorkerInv
<1>5. ASSUME NEW t \in Sends PROVE SendInv(t)'
  <2>1. CASE t = key[w]
    <3>1. CASE IsDraft(t)
      <4>1. /\ sState'[t] = "PENDING" /\ UNCHANGED <<sIn, sTok, sOut, signed, spent>>
        BY <2>1, <3>1 DEF TypeOK
      <4>2. sTok[t] \subseteq sOut[t] /\ sOut[t] \subseteq Slots /\ sOut[t] \subseteq signed
        BY <1>a, <2>1, <3>1 DEF SendInv, TypeOK
      <4>3. \A i \in sTok[t] : db'[i] = "RESERVED" /\ spender'[i] = t
        BY <2>1, <3>1, <4>2
      <4>4. ASSUME NEW i \in Slots, db'[i] = "RESERVED", spender'[i] = t PROVE i \in sTok[t]
        BY <2>1, <3>1, <4>4 DEF SendInv
      <4> QED BY <4>1, <4>2, <4>3, <4>4 DEF SendInv, Sent
    <3>2. CASE ~ IsDraft(t)
      BY <2>1, <3>2 DEF SendInv, Sent
    <3> QED BY <3>1, <3>2
  <2>2. CASE t # key[w]
    <3>1. \A i \in Slots :
             \/ db'[i] = db[i] /\ spender'[i] = spender[i]
             \/ IsDraft(key[w]) /\ i \in sOut[key[w]]
             \/ IsDraft(key[w]) /\ spender[i] = key[w] /\ db[i] = "RESERVED"
                /\ spender'[i] = key[w]
      BY <1>a DEF TypeOK, SendInv
    <3>2. \A i \in sOut[key[w]] : IsDraft(key[w]) =>
             db[i] = "NONE" /\ i \notin sOut[t] /\ spender'[i] \in {spender[i], key[w]}
      BY <1>a, <2>2 DEF TypeOK, SendInv, OutputsInv
    <3>3. /\ sState'[t] = sState[t] /\ sIn'[t] = sIn[t] /\ sTok'[t] = sTok[t]
          /\ sOut'[t] = sOut[t] /\ UNCHANGED mint /\ rState'[t] = rState[t]
      BY <1>a, <2>2 DEF TypeOK
    <3>4. SendInv(t) /\ sOut[t] \subseteq Slots /\ sOut[key[w]] \subseteq Slots
      BY <1>a DEF TypeOK
    <3>5. ASSUME NEW i \in Slots, i \in sOut[key[w]], IsDraft(key[w])
          PROVE  spender[i] # t /\ spender'[i] # t /\ i \notin sOut[t]
      BY <1>a, <2>2, <3>2, <3>5, ConstantsAssumption DEF SpenderInv
    <3>6. ASSUME NEW i \in Slots, spender[i] = key[w], db[i] = "RESERVED",
                 sState[t] = "DRAFT"
          PROVE  i \notin sOut[t]
      BY <3>4, <3>6 DEF SendInv
    <3> HIDE DEF CommitProofsToSend, IInv
    <3> QED BY <2>2, <3>1, <3>3, <3>5, <3>6, OtherSend
  <2> QED BY <2>1, <2>2
<1>6. ASSUME NEW k \in Tokens PROVE RecvInv(k)'
  <2>1. RecvInv(k) /\ rOut[k] \subseteq Slots
    BY DEF TypeOK
  <2>2. Published(k) => Published(k)'
    BY <1>a DEF Published, TypeOK
  <2>3. rState[k] = "PENDING" => \A i \in rOut[k] : db'[i] = "NONE"
    BY <1>a, <2>1 DEF RecvInv, OutputsInv, SendInv, TypeOK
  <2> QED BY <2>1, <2>2, <2>3 DEF RecvInv, TokenProofs
<1>7. ASSUME NEW v \in Workers PROVE WorkerInv(v)'
  BY SMTT(40) DEF WorkerInv, Sent, TypeOK
<1> QED BY <1>1, <1>2, <1>3, <1>4, <1>5, <1>6, <1>7

LEMMA CompleteSendIInv ==
    ASSUME IInv, NEW w \in Workers, CompleteSend(w)
    PROVE  IInv'
<1> USE ConstantsAssumption DEF IInv, CompleteSend, ReservedBy, Stop, recvRows, mint, Tokens
<1>1. TypeOK'
  BY DEF TypeOK, ProofState, SendState, RecvState, Label
<1>2. OutputsInv'
  BY DEF OutputsInv
<1>3. ProofsInv'
  BY DEF ProofsInv, TypeOK, WorkerInv, SendInv, Sent
<1>4. SpenderInv'
  BY DEF SpenderInv, TypeOK, WorkerInv
<1>5. ASSUME NEW t \in Sends PROVE SendInv(t)'
  BY DEF SendInv, Sent, TypeOK, WorkerInv
<1>6. ASSUME NEW k \in Tokens PROVE RecvInv(k)'
  BY DEF RecvInv, Published, TokenProofs, TypeOK, WorkerInv, SendInv, Sent
<1>7. ASSUME NEW v \in Workers PROVE WorkerInv(v)'
  BY DEF WorkerInv, Sent, TypeOK
<1> QED BY <1>1, <1>2, <1>3, <1>4, <1>5, <1>6, <1>7

LEMMA MintRecvIInv ==
    ASSUME IInv, NEW w \in Workers, MintRecv(w)
    PROVE  IInv'
<1> USE ConstantsAssumption DEF IInv, MintRecv, PostSwap, MintAccepts, AlreadyExecuted, MoveTo, account, sendRows, recvRows, Tokens
<1>a. /\ key[w] \in Tokens /\ rState[key[w]] # "NONE"
      /\ rOut[key[w]] # {} /\ Published(key[w])
      /\ rOut[key[w]] \cap signed = {}
  BY DEF WorkerInv, RecvInv
<1>b. \A i \in TokenProofs(key[w]) : i \in Slots => db[i] \in {"RESERVED", "SPENT"}
  BY <1>a DEF Published, TokenProofs, SendInv, Sent, Slots
<1>c. TokenProofs(key[w]) \subseteq Slots \cup Foreign
  BY <1>a DEF TokenProofs, TypeOK
<1>1. TypeOK'
  BY <1>a, <1>c DEF TypeOK, ProofState, SendState, RecvState, Label
<1>2. OutputsInv'
  BY DEF OutputsInv, WorkerInv, TypeOK
<1>3. ProofsInv'
  BY <1>a, <1>b DEF ProofsInv, TypeOK
<1>4. SpenderInv'
  BY DEF SpenderInv, TypeOK
<1>5. ASSUME NEW t \in Sends PROVE SendInv(t)'
  BY DEF SendInv, Sent, TypeOK, WorkerInv, OutputsInv, RecvInv, Published, TokenProofs
<1>6. ASSUME NEW k \in Tokens PROVE RecvInv(k)'
  BY SMTT(40) DEF RecvInv, Published, TokenProofs, TypeOK, WorkerInv, SendInv, OutputsInv
<1>7. ASSUME NEW v \in Workers PROVE WorkerInv(v)'
  BY DEF WorkerInv, Sent, TypeOK, TokenProofs
<1> QED BY <1>1, <1>2, <1>3, <1>4, <1>5, <1>6, <1>7

\* What a return does to the worker, by cases on the Boolean it tests.
LEMMA ReturnType ==
    ASSUME TypeOK, NEW w \in Workers, Return(w) \/ Stop(w)
    PROVE  /\ pc' \in [Workers -> Label] /\ key' \in [Workers -> Tokens \cup {NoToken}]
           /\ sel' \in [Workers -> SUBSET Slots] /\ reversing' \in [Workers -> BOOLEAN]
<1>1. CASE Stop(w)
  BY <1>1 DEF TypeOK, Stop, Label
<1>2. CASE Return(w) /\ reversing[w]
  BY <1>2 DEF TypeOK, Return, MoveTo, Label
<1>3. CASE Return(w) /\ ~ reversing[w]
  BY <1>3, <1>1 DEF Return
<1> QED BY <1>1, <1>2, <1>3

LEMMA ReturnWorkerInv ==
    ASSUME IInv, NEW w \in Workers, Return(w) \/ Stop(w), NEW v \in Workers,
           pc[w] \in {"completeRecv", "failRecv"},
           \A s \in Sends : sIn'[s] = sIn[s] /\ sOut'[s] = sOut[s] /\ sTok'[s] = sTok[s]
                            /\ (sState[s] # "NONE" => sState'[s] # "NONE")
                            /\ (Sent(s) => Sent(s)'),
           \A k \in Tokens : rOut'[k] = rOut[k]
                            /\ (rState[k] # "NONE" => rState'[k] # "NONE"),
           UNCHANGED mint
    PROVE  WorkerInv(v)'
<1> USE DEF IInv, TypeOK, WorkerInv, mint
<1>1. CASE v # w
  BY <1>1 DEF Return, Stop, MoveTo
<1>2. CASE v = w /\ Stop(w)
  BY <1>2 DEF Stop
<1>3. CASE v = w /\ Return(w) /\ reversing[w]
  BY <1>3 DEF Return, MoveTo
<1>4. CASE v = w /\ Return(w) /\ ~ reversing[w]
  BY <1>4, <1>2 DEF Return
<1> QED BY <1>1, <1>2, <1>3, <1>4

LEMMA CompleteRecvIInv ==
    ASSUME IInv, NEW w \in Workers, CompleteRecv(w)
    PROVE  IInv'
<1> USE ConstantsAssumption DEF IInv, CompleteRecv, CannotReverse, ReservedBy, mint, Tokens
<1>a. /\ key[w] \in Tokens /\ rState[key[w]] # "NONE"
      /\ rOut[key[w]] # {} /\ rOut[key[w]] \subseteq signed
      /\ rRev[key[w]] => key[w] \in Sends
  BY DEF WorkerInv, RecvInv
<1>r. Return(w) \/ Stop(w)
  OBVIOUS
<1>b. /\ pc' \in [Workers -> Label] /\ key' \in [Workers -> Tokens \cup {NoToken}]
      /\ sel' \in [Workers -> SUBSET Slots] /\ reversing' \in [Workers -> BOOLEAN]
  BY <1>r, ReturnType
<1>c. /\ rState' \in [Tokens -> RecvState] /\ sState' \in [Sends -> SendState]
      /\ db' \in [Slots -> ProofState]
  <2>1. CASE rRev[key[w]]
    BY <1>a, <2>1, SMTT(40) DEF TypeOK, RecvState, SendState, ProofState
  <2>2. CASE ~ rRev[key[w]]
    BY <1>a, <2>2, SMTT(40) DEF TypeOK, RecvState, SendState, ProofState
  <2> QED BY <2>1, <2>2
<1>d. \A i \in Slots :
         \/ db'[i] = db[i]
         \/ i \in rOut[key[w]] /\ db[i] = "NONE" /\ db'[i] = "UNSPENT"
         \/ /\ spender[i] = key[w] /\ db[i] = "RESERVED" /\ db'[i] = "SPENT"
            /\ key[w] \in Sends /\ sState[key[w]] = "PENDING"
            /\ rState[key[w]] = "PENDING" /\ sState'[key[w]] = "REVERSED"
  BY <1>a DEF TypeOK, RecvInv
<1>1. TypeOK'
  BY <1>b, <1>c DEF TypeOK
<1>2. OutputsInv'
  BY DEF OutputsInv
<1>3. ProofsInv'
  BY DEF ProofsInv, TypeOK, WorkerInv, RecvInv, Published, TokenProofs, SendInv, Sent
<1>4. SpenderInv'
  BY DEF SpenderInv, TypeOK, WorkerInv, RecvInv
<1>5. ASSUME NEW t \in Sends PROVE SendInv(t)'
  <2>1. CASE t = key[w]
    <3>1. CASE rRev[t] /\ sState[t] = "PENDING" /\ rState[t] = "PENDING"
      BY <1>a, <1>d, <2>1, <3>1 DEF SendInv, Sent, TypeOK, OutputsInv, SpenderInv
    <3>2. CASE ~ (rRev[t] /\ sState[t] = "PENDING" /\ rState[t] = "PENDING")
      <4>1. /\ sState' = sState /\ (rState[t] = "COMPLETED" => rState'[t] = "COMPLETED")
            /\ \A i \in Slots : db'[i] = db[i] \/ (i \in rOut[t] /\ db[i] = "NONE")
        <5>1. sState' = sState
          <6>1. CASE rRev[t] BY <2>1, <3>2, <6>1 DEF TypeOK
          <6>2. CASE ~ rRev[t] BY <2>1, <6>2 DEF TypeOK
          <6> QED BY <6>1, <6>2
        <5>2. sState[t] = "PENDING" => sState'[t] # "REVERSED"
          BY <5>1
        <5> QED BY <1>a, <1>d, <2>1, <5>1, <5>2 DEF TypeOK
      <4> QED BY <1>a, <2>1, <4>1, OtherSend DEF TypeOK, SpenderInv, OutputsInv
    <3> QED BY <3>1, <3>2
  <2>2. CASE t # key[w]
    <3>1. /\ sState'[t] = sState[t] /\ sIn'[t] = sIn[t] /\ sTok'[t] = sTok[t]
          /\ sOut'[t] = sOut[t] /\ UNCHANGED mint /\ rState'[t] = rState[t]
      BY <1>a, <2>2 DEF TypeOK
    <3>2. ASSUME NEW i \in Slots, i \in rOut[key[w]], db[i] = "NONE"
          PROVE  spender[i] # t /\ i \notin sOut[t]
      BY <1>a, <3>2 DEF SpenderInv, OutputsInv
    <3>3. ASSUME NEW i \in Slots, spender[i] = key[w], db[i] = "RESERVED",
                 sState[t] = "DRAFT"
          PROVE  i \notin sOut[t]
      BY <3>3 DEF SendInv
    <3>4. spender' = spender
      OBVIOUS
    <3> HIDE DEF CompleteRecv, IInv
    <3> QED BY <1>d, <2>2, <3>1, <3>2, <3>3, <3>4, OtherSend
  <2> QED BY <2>1, <2>2
<1>6. ASSUME NEW k \in Tokens PROVE RecvInv(k)'
  <2>1. CASE k = key[w]
    BY <1>a, <2>1 DEF RecvInv, Published, TokenProofs, TypeOK
  <2>2. CASE k # key[w]
    <3>1. /\ rState'[k] = rState[k] /\ rOut'[k] = rOut[k] /\ rRev'[k] = rRev[k]
          /\ sTok' = sTok /\ UNCHANGED <<signed, spent>>
      BY <1>a, <2>2 DEF TypeOK
    <3>2. \A s \in Sends : sState'[s] = sState[s] \/ sState'[s] = "REVERSED"
      BY <1>a DEF TypeOK
    <3>3. \A i \in rOut[k] : db[i] = "NONE" => db'[i] = "NONE"
      BY <1>a, <1>d, <2>2 DEF OutputsInv, TypeOK
    <3>4. RecvInv(k)
      OBVIOUS
    <3> QED BY ONLY <3>1, <3>2, <3>3, <3>4 DEF RecvInv, Published, TokenProofs, Tokens
  <2> QED BY <2>1, <2>2
<1>7. ASSUME NEW v \in Workers PROVE WorkerInv(v)'
  BY <1>a, <1>r, ReturnWorkerInv, SMTT(40) DEF Sent, RecvInv, Published, TypeOK
<1> QED BY <1>1, <1>2, <1>3, <1>4, <1>5, <1>6, <1>7

LEMMA FailRecvIInv ==
    ASSUME IInv, NEW w \in Workers, FailRecv(w)
    PROVE  IInv'
<1> USE ConstantsAssumption DEF IInv, FailRecv, account, mint, Tokens
<1>a. key[w] \in Tokens /\ (rRev[key[w]] => key[w] \in Sends)
  BY DEF WorkerInv, RecvInv
<1>r. Return(w) \/ Stop(w)
  OBVIOUS
<1>b. /\ pc' \in [Workers -> Label] /\ key' \in [Workers -> Tokens \cup {NoToken}]
      /\ sel' \in [Workers -> SUBSET Slots] /\ reversing' \in [Workers -> BOOLEAN]
  BY <1>r, ReturnType
<1>c. /\ rState' \in [Tokens -> RecvState] /\ sState' \in [Sends -> SendState]
      /\ db' \in [Slots -> ProofState]
  <2>1. db' \in [Slots -> ProofState]
    BY DEF TypeOK
  <2>2. /\ rState' \in {rState, [rState EXCEPT ![key[w]] = "FAILED"]}
        /\ sState' \in {sState, [sState EXCEPT ![key[w]] = "COMPLETED"]}
    OBVIOUS
  <2>3. rState' \in [Tokens -> RecvState]
    BY <1>a, <2>2 DEF TypeOK, RecvState
  <2>4. sState' \in [Sends -> SendState]
    BY <2>2 DEF TypeOK, SendState
  <2> QED BY <2>1, <2>3, <2>4
<1>1. TypeOK'
  BY <1>b, <1>c DEF TypeOK
<1>2. OutputsInv'
  BY DEF OutputsInv
<1>3. ProofsInv'
  BY DEF ProofsInv, TypeOK
<1>4. SpenderInv'
  BY DEF SpenderInv, TypeOK, WorkerInv, RecvInv
<1>5. ASSUME NEW t \in Sends PROVE SendInv(t)'
  BY DEF SendInv, Sent, TypeOK, WorkerInv, RecvInv, Published
<1>6. ASSUME NEW k \in Tokens PROVE RecvInv(k)'
  BY DEF RecvInv, Published, TokenProofs, TypeOK, WorkerInv
<1>7. ASSUME NEW v \in Workers PROVE WorkerInv(v)'
  BY <1>a, <1>r, ReturnWorkerInv, SMTT(40) DEF Sent, RecvInv, Published, TypeOK
<1> QED BY <1>1, <1>2, <1>3, <1>4, <1>5, <1>6, <1>7

LEMMA ClaimElsewhereIInv ==
    ASSUME IInv, NEW l \in Tokens, ClaimElsewhere(l)
    PROVE  IInv'
<1> USE ConstantsAssumption DEF IInv, ClaimElsewhere, account, sendRows, recvRows, worker, Tokens
<1>b. \A i \in TokenProofs(l) : i \in Slots => db[i] \in {"RESERVED", "SPENT"}
  BY DEF Published, TokenProofs, SendInv, Sent, Slots
<1>1. TypeOK'
  BY DEF TypeOK, ProofState, SendState, RecvState, Label, TokenProofs, Slots
<1>2. OutputsInv'
  BY DEF OutputsInv
<1>3. ProofsInv'
  BY <1>b DEF ProofsInv, TypeOK
<1>4. SpenderInv'
  BY DEF SpenderInv, TypeOK
<1>5. ASSUME NEW t \in Sends PROVE SendInv(t)'
  BY DEF SendInv, Sent, TypeOK, Published, TokenProofs
<1>6. ASSUME NEW k \in Tokens PROVE RecvInv(k)'
  BY DEF RecvInv, Published, TokenProofs, TypeOK
<1>7. ASSUME NEW v \in Workers PROVE WorkerInv(v)'
  BY DEF WorkerInv, Sent, TypeOK
<1> QED BY <1>1, <1>2, <1>3, <1>4, <1>5, <1>6, <1>7

\* Both calls that insert a receive swap: receive_cashu_token and reverse.
LEMMA InsertReceiveIInv ==
    ASSUME IInv, NEW w \in Workers, NEW k \in Tokens, NEW rev \in BOOLEAN,
           InsertReceive(k, rev), Published(k), rev => k \in Sends,
           UNCHANGED <<db, spender, sendRows, mint>>, TypeOK',
           pc' = [pc EXCEPT ![w] = "mintRecv"], key'[w] = k,
           \A v \in Workers : v # w => key'[v] = key[v] /\ reversing'[v] = reversing[v],
           sel' = sel, reversing'[w] => rev
    PROVE  IInv'
<1> USE ConstantsAssumption DEF IInv, Tokens, sendRows, mint
<1>a. PICK n \in 1 .. MaxReceive : Bump(n) /\ rOut' = [rOut EXCEPT ![k] = NextOutputs(n)]
  BY DEF InsertReceive
<1>b. /\ n \in Nat /\ n > 0 /\ counter + n <= NumSlots /\ counter' = counter + n
      /\ counter \in Nat /\ NumSlots \in Nat
  BY <1>a DEF Bump, TypeOK
<1> DEFINE new == NextOutputs(n)
<1>c. /\ new \subseteq Slots /\ new \cap signed = {} /\ new # {}
      /\ \A i \in new : db[i] = "NONE" /\ InitialProofs <= i /\ counter <= i /\ i < counter'
  BY <1>b, NextOutputsFresh
<1>d. /\ rState[k] = "NONE" /\ rState' = [rState EXCEPT ![k] = "PENDING"]
      /\ rRev' = [rRev EXCEPT ![k] = rev] /\ rOut' = [rOut EXCEPT ![k] = new]
  BY <1>a DEF InsertReceive
<1> HIDE DEF new
<1>2. OutputsInv'
  <2>1. \A i \in new : /\ \A t \in Sends : i \notin sOut[t]
                       /\ \A l \in Tokens : i \notin rOut[l]
    BY <1>b, <1>c DEF OutputsInv, TypeOK, Slots
  <2>2. \A l \in Tokens : rOut'[l] = IF l = k THEN new ELSE rOut[l]
    BY <1>d DEF TypeOK
  <2>3. \A i \in Slots : i < counter => i < counter'
    BY <1>b DEF Slots
  <2>4. /\ signed \subseteq Slots /\ \A t \in Sends : sOut[t] \subseteq Slots
        /\ \A l \in Tokens : rOut[l] \subseteq Slots
    BY DEF TypeOK
  <2>5. InitialProofs <= counter'
    BY <1>b DEF OutputsInv
  <2>6. \A i \in signed' : i < counter'
    BY <2>3, <2>4 DEF OutputsInv
  <2>7. \A t \in Sends : \A i \in sOut'[t] : InitialProofs <= i /\ i < counter'
    BY <2>3, <2>4 DEF OutputsInv
  <2>8. \A l \in Tokens : \A i \in rOut'[l] : InitialProofs <= i /\ i < counter'
    BY <1>c, <2>2, <2>3, <2>4 DEF OutputsInv
  <2>9. /\ \A l, m \in Tokens : l # m => rOut'[l] \cap rOut'[m] = {}
        /\ \A t \in Sends, l \in Tokens : sOut'[t] \cap rOut'[l] = {}
    BY <2>1, <2>2 DEF OutputsInv
  <2> QED BY <2>5, <2>6, <2>7, <2>8, <2>9 DEF OutputsInv
<1>3. ProofsInv' /\ SpenderInv'
  BY DEF ProofsInv, SpenderInv
<1>5. ASSUME NEW t \in Sends PROVE SendInv(t)'
  BY <1>d, OtherSend DEF TypeOK
<1>6. ASSUME NEW l \in Tokens PROVE RecvInv(l)'
  <2>1. CASE l = k
    BY <1>c, <1>d, <2>1 DEF RecvInv, Published, TypeOK
  <2>2. CASE l # k
    BY <1>d, <2>2, SMTT(40) DEF RecvInv, Published, TokenProofs, TypeOK
  <2> QED BY <2>1, <2>2
<1>7. ASSUME NEW v \in Workers PROVE WorkerInv(v)'
  <2>1. CASE v = w
    BY <1>d, <2>1 DEF WorkerInv, TypeOK
  <2>2. CASE v # w
    <3>1. WorkerInv(v) /\ pc'[v] = pc[v] /\ key'[v] = key[v] /\ sel'[v] = sel[v] /\ reversing'[v] = reversing[v]
      BY <2>2 DEF TypeOK
    <3>2. \A l \in Tokens : rState[l] # "NONE" =>
             l # k /\ rState'[l] # "NONE" /\ rOut'[l] = rOut[l]
      BY <1>d DEF TypeOK
    <3> QED BY <3>1, <3>2 DEF WorkerInv, Sent
  <2> QED BY <2>1, <2>2
<1> QED BY <1>2, <1>3, <1>5, <1>6, <1>7

\* The type of the rows after an insertion.
LEMMA InsertReceiveType ==
    ASSUME TypeOK, NEW k \in Tokens, NEW rev \in BOOLEAN, InsertReceive(k, rev)
    PROVE  /\ counter' \in 0 .. NumSlots /\ rState' \in [Tokens -> RecvState]
           /\ rRev' \in [Tokens -> BOOLEAN] /\ rOut' \in [Tokens -> SUBSET Slots]
<1>1. PICK n \in 1 .. MaxReceive : Bump(n) /\ rOut' = [rOut EXCEPT ![k] = NextOutputs(n)]
  BY DEF InsertReceive
<1>2. counter' \in 0 .. NumSlots
  BY <1>1, ConstantsAssumption DEF Bump, TypeOK
<1>3. NextOutputs(n) \subseteq Slots
  BY DEF NextOutputs
<1>4. rState' = [rState EXCEPT ![k] = "PENDING"] /\ rRev' = [rRev EXCEPT ![k] = rev]
  BY DEF InsertReceive
<1> QED BY <1>1, <1>2, <1>3, <1>4 DEF TypeOK, RecvState

LEMMA ReceiveTokenIInv ==
    ASSUME IInv, NEW w \in Workers, NEW k \in Tokens, ReceiveToken(w, k)
    PROVE  IInv'
<1>1. /\ InsertReceive(k, FALSE) /\ Published(k) /\ pc[w] = "idle"
      /\ pc' = [pc EXCEPT ![w] = "mintRecv"] /\ key' = [key EXCEPT ![w] = k]
      /\ UNCHANGED <<db, spender, sendRows, mint, told, storage, sel, reversing>>
  BY DEF ReceiveToken, Start
<1>2. ~ reversing[w]
  BY <1>1 DEF IInv, WorkerInv
<1>3. TypeOK'
  BY <1>1, InsertReceiveType DEF IInv, TypeOK, Label, sendRows, mint
<1> QED BY <1>1, <1>2, <1>3, InsertReceiveIInv DEF IInv, TypeOK

LEMMA CreateReversalIInv ==
    ASSUME IInv, NEW w \in Workers, CreateReversal(w)
    PROVE  IInv'
<1>1. /\ InsertReceive(key[w], TRUE)
      /\ pc[w] = "createReversal" /\ pc' = [pc EXCEPT ![w] = "mintRecv"]
      /\ UNCHANGED <<db, spender, sendRows, mint, told, storage, key, sel, reversing>>
  BY DEF CreateReversal, MoveTo
<1>2. key[w] \in Sends /\ key[w] \in Tokens /\ Published(key[w])
  BY <1>1 DEF IInv, WorkerInv, Published, Sent, Tokens
<1>3. TypeOK'
  BY <1>1, <1>2, InsertReceiveType DEF IInv, TypeOK, Label, sendRows, mint
<1> QED BY <1>1, <1>2, <1>3, InsertReceiveIInv

-----------------------------------------------------------------------------
(* The steps that change nothing but the worker that makes them.           *)

LEMMA WorkerOnlyIInv ==
    ASSUME IInv, NEW w \in Workers, UNCHANGED <<account, sendRows, recvRows, mint>>,
           TypeOK', WorkerInv(w)',
           \A v \in Workers : v # w =>
              pc'[v] = pc[v] /\ key'[v] = key[v] /\ sel'[v] = sel[v] /\ reversing'[v] = reversing[v]
    PROVE  IInv'
<1> USE DEF IInv, account, sendRows, recvRows, mint
<1>1. OutputsInv' /\ ProofsInv' /\ SpenderInv'
  BY DEF OutputsInv, ProofsInv, SpenderInv
<1>2. ASSUME NEW t \in Sends PROVE SendInv(t)'
  BY DEF SendInv, Sent
<1>3. ASSUME NEW k \in Tokens PROVE RecvInv(k)'
  BY DEF RecvInv, Published, TokenProofs
<1>4. ASSUME NEW v \in Workers PROVE WorkerInv(v)'
  BY DEF WorkerInv, Sent
<1> QED BY <1>1, <1>2, <1>3, <1>4

\* CreateRejected, CreateReversalRejected, ReportReversed and Crash.
LEMMA StopIInv ==
    ASSUME IInv, NEW w \in Workers, Stop(w), told' \in SUBSET Sends, storage' = storage,
           UNCHANGED <<account, sendRows, recvRows, mint>>
    PROVE  IInv'
<1>1. TypeOK'
  BY DEF IInv, TypeOK, Stop, Label, account, sendRows, recvRows, mint
<1>2. WorkerInv(w)'
  BY DEF IInv, TypeOK, WorkerInv, Stop
<1>3. \A v \in Workers : v # w =>
         pc'[v] = pc[v] /\ key'[v] = key[v] /\ sel'[v] = sel[v] /\ reversing'[v] = reversing[v]
  BY DEF IInv, TypeOK, Stop
<1> QED BY <1>1, <1>2, <1>3, WorkerOnlyIInv

\* CheckClaimed and ResumeReceive.
LEMMA StartIInv ==
    ASSUME IInv, NEW w \in Workers, NEW l \in Label, NEW k \in Tokens, Start(w, l, k),
           UNCHANGED <<account, sendRows, recvRows, mint, told, storage>>,
           \/ l = "completeSend" /\ k \in Sends /\ sState[k] = "PENDING" /\ sTok[k] \subseteq spent
           \/ l = "mintRecv" /\ rState[k] = "PENDING"
    PROVE  IInv'
<1>1. /\ pc' = [pc EXCEPT ![w] = l] /\ key' = [key EXCEPT ![w] = k]
      /\ UNCHANGED <<sel, reversing>> /\ pc[w] = "idle"
  BY DEF Start
<1>2. TypeOK'
  BY <1>1 DEF IInv, TypeOK, account, sendRows, recvRows, mint
<1>3. /\ pc'[w] = l /\ key'[w] = k /\ ~ reversing'[w]
  BY <1>1 DEF IInv, TypeOK, WorkerInv
<1>4. WorkerInv(w)'
  BY <1>3 DEF IInv, WorkerInv, SendInv, Sent, sendRows, recvRows, mint
<1>5. \A v \in Workers : v # w =>
         pc'[v] = pc[v] /\ key'[v] = key[v] /\ sel'[v] = sel[v] /\ reversing'[v] = reversing[v]
  BY <1>1 DEF IInv, TypeOK
<1> QED BY <1>2, <1>4, <1>5, WorkerOnlyIInv

\* MintSendAlreadyExecuted, RestoreSend, MintRecvAlreadyClaimed, RestoreRecv.
LEMMA MoveIInv ==
    ASSUME IInv, NEW w \in Workers, NEW l \in Label, MoveTo(w, l),
           UNCHANGED <<account, sendRows, recvRows, mint, key, reversing, told, storage>>,
           sel' = sel \/ sel' = [sel EXCEPT ![w] = {}],
           \/ /\ pc[w] = "mintSend" /\ l = "restoreSend"
              /\ AlreadyExecuted(sel[w], sOut[key[w]])
           \/ pc[w] = "restoreSend" /\ l = "commitSend"
           \/ pc[w] = "mintRecv" /\ l \in {"restoreRecv"}
           \/ pc[w] = "restoreRecv" /\ l = "failRecv"
           \/ /\ pc[w] = "restoreRecv" /\ l = "completeRecv"
              /\ Restored(rOut[key[w]]) # {}
    PROVE  IInv'
<1>1. pc' = [pc EXCEPT ![w] = l]
  BY DEF MoveTo
<1>2. TypeOK'
  BY <1>1 DEF IInv, TypeOK, account, sendRows, recvRows, mint
<1>3. pc'[w] = l /\ WorkerInv(w)
  BY <1>1 DEF IInv, TypeOK
<1>4. ASSUME pc[w] = "mintSend", AlreadyExecuted(sel[w], sOut[key[w]])
      PROVE  sOut[key[w]] \subseteq signed
  BY <1>3, <1>4 DEF IInv, TypeOK, SendState, WorkerInv, SendInv, Sent, AlreadyExecuted
<1>5. ASSUME pc[w] = "restoreRecv", Restored(rOut[key[w]]) # {}
      PROVE  rOut[key[w]] \subseteq signed
  BY <1>3, <1>5 DEF IInv, WorkerInv, RecvInv, Restored
<1>6. WorkerInv(w)'
  BY <1>3, <1>4, <1>5 DEF WorkerInv, Sent, sendRows, recvRows, mint
<1>7. \A v \in Workers : v # w =>
         pc'[v] = pc[v] /\ key'[v] = key[v] /\ sel'[v] = sel[v] /\ reversing'[v] = reversing[v]
  BY <1>1 DEF IInv, TypeOK
<1> QED BY <1>2, <1>6, <1>7, WorkerOnlyIInv

LEMMA ResumeDraftIInv ==
    ASSUME IInv, NEW w \in Workers, NEW s \in Sends, ResumeDraft(w, s)
    PROVE  IInv'
<1>1. /\ pc' = [pc EXCEPT ![w] = "mintSend"] /\ key' = [key EXCEPT ![w] = s]
      /\ sel' = [sel EXCEPT ![w] = ReadInputs(s)]
      /\ sState[s] = "DRAFT" /\ pc[w] = "idle"
      /\ UNCHANGED <<account, sendRows, recvRows, mint>> /\ UNCHANGED <<reversing, told, storage>>
  BY DEF ResumeDraft, MoveTo
<1>2. ReadInputs(s) \in {{}, sIn[s]} /\ sIn[s] \in SUBSET Slots
  BY DEF ReadInputs, IInv, TypeOK
<1>3. TypeOK'
  BY <1>1, <1>2 DEF IInv, TypeOK, Label, Tokens, account, sendRows, recvRows, mint
<1>4. /\ pc'[w] = "mintSend" /\ key'[w] = s /\ sel'[w] \in {{}, sIn[s]} /\ ~ reversing'[w]
  BY <1>1, <1>2 DEF IInv, TypeOK, WorkerInv
<1>5. WorkerInv(w)'
  BY <1>1, <1>4 DEF IInv, WorkerInv, SendInv, sendRows
<1>6. \A v \in Workers : v # w =>
         pc'[v] = pc[v] /\ key'[v] = key[v] /\ sel'[v] = sel[v] /\ reversing'[v] = reversing[v]
  BY <1>1 DEF IInv, TypeOK
<1> QED BY <1>1, <1>3, <1>5, <1>6, WorkerOnlyIInv

\* A send swap that gives its counter interval to the mint restores it: the
\* branch "Mint swap already executed" without a proof restored is dead.
LEMMA RestoreSendFinds ==
    ASSUME IInv, NEW w \in Workers, RestoreSend(w)
    PROVE  MoveTo(w, "commitSend")
<1>1. sOut[key[w]] # {} /\ sOut[key[w]] \subseteq signed
  BY DEF IInv, WorkerInv, RestoreSend
<1> QED BY <1>1 DEF RestoreSend, Restored

LEMMA SendStepIInv ==
    ASSUME IInv, NEW w \in Workers, SendStep(w)
    PROVE  IInv'
<1> USE DEF Tokens, Label
<1>1. CASE SelectInputs(w)
  <2>1. TypeOK'
    BY <1>1 DEF IInv, TypeOK, SelectInputs, MoveTo, Unspent, account, sendRows, recvRows, mint
  <2>2. UNCHANGED <<account, sendRows, recvRows, mint>> /\ UNCHANGED <<key, reversing>>
    BY <1>1 DEF SelectInputs
  <2>3. pc' = [pc EXCEPT ![w] = "createSend"] /\ pc[w] = "idle"
    BY <1>1 DEF SelectInputs, MoveTo
  <2>6. \A v \in Workers : v # w => sel'[v] = sel[v]
    BY <1>1 DEF SelectInputs, IInv, TypeOK
  <2>4. pc'[w] = "createSend" /\ ~ reversing[w] /\ \A v \in Workers : v # w => pc'[v] = pc[v]
    BY <2>3 DEF IInv, TypeOK, WorkerInv
  <2>5. WorkerInv(w)'
    BY <2>2, <2>4 DEF WorkerInv
  <2> QED BY <2>1, <2>2, <2>4, <2>5, <2>6, WorkerOnlyIInv
<1>2. ASSUME NEW s \in Sends, CreatePending(w, s) PROVE IInv'
  BY <1>2, CreatePendingIInv
<1>3. ASSUME NEW s \in Sends, CreateDraft(w, s) PROVE IInv'
  BY <1>3, CreateDraftIInv
<1>4. CASE CreateRejected(w)
  BY <1>4, StopIInv DEF CreateRejected, IInv, TypeOK
<1>5. ASSUME NEW s \in Sends, ResumeDraft(w, s) PROVE IInv'
  BY <1>5, ResumeDraftIInv
<1>6. CASE MintSend(w)
  BY <1>6, MintSendIInv
<1>7. CASE MintSendAlreadyExecuted(w)
  BY <1>7, MoveIInv DEF MintSendAlreadyExecuted
<1>8. CASE RestoreSend(w)
  <2>1. MoveTo(w, "commitSend")
    BY <1>8, RestoreSendFinds
  <2> QED BY <1>8, <2>1, MoveIInv DEF RestoreSend
<1>9. CASE CommitProofsToSend(w)
  BY <1>9, CommitProofsToSendIInv
<1>10. CASE FailSend(w)
  BY <1>10 DEF FailSend, IInv, WorkerInv
<1>11. ASSUME NEW s \in Sends, CheckClaimed(w, s) PROVE IInv'
  <2>1. sTok[s] \subseteq spent
    BY <1>11 DEF CheckClaimed, AllSpent, ReadToken
  <2> QED BY <1>11, <2>1, StartIInv DEF CheckClaimed
<1>12. CASE CompleteSend(w)
  BY <1>12, CompleteSendIInv
<1>13. CASE MintSendRefused(w)
  BY <1>13, StopIInv DEF MintSendRefused, IInv, TypeOK
<1> QED BY <1>1, <1>2, <1>3, <1>4, <1>5, <1>6, <1>7, <1>8, <1>9, <1>10, <1>11, <1>12, <1>13
        DEF SendStep

LEMMA StartReverseIInv ==
    ASSUME IInv, NEW w \in Workers, NEW s \in Sends,
           StartReverse(w, s)
    PROVE  IInv'
<1>1. /\ pc' = [pc EXCEPT ![w] = "createReversal"] /\ key' = [key EXCEPT ![w] = s]
      /\ reversing' = [reversing EXCEPT ![w] = TRUE] /\ sState[s] = "PENDING"
      /\ UNCHANGED <<account, sendRows, recvRows, mint>> /\ UNCHANGED <<sel, told, storage>>
  BY DEF StartReverse, MoveTo
<1>2. TypeOK'
  BY <1>1 DEF IInv, TypeOK, Label, Tokens, account, sendRows, recvRows, mint
<1>3. pc'[w] = "createReversal" /\ key'[w] = s /\ reversing'[w]
  BY <1>1 DEF IInv, TypeOK
<1>4. \A v \in Workers : v # w =>
         pc'[v] = pc[v] /\ key'[v] = key[v] /\ sel'[v] = sel[v] /\ reversing'[v] = reversing[v]
  BY <1>1 DEF IInv, TypeOK
<1>5. WorkerInv(w)'
  BY <1>1, <1>3 DEF WorkerInv, Sent, sendRows
<1> QED BY <1>1, <1>2, <1>4, <1>5, WorkerOnlyIInv

LEMMA RecvStepIInv ==
    ASSUME IInv, NEW w \in Workers, RecvStep(w)
    PROVE  IInv'
<1> USE DEF Label
<1>1. ASSUME NEW k \in Tokens, ReceiveToken(w, k) PROVE IInv'
  BY <1>1, ReceiveTokenIInv
<1>2. ASSUME NEW s \in Sends, StartReverse(w, s) PROVE IInv'
  BY <1>2, StartReverseIInv
<1>3. CASE CreateReversal(w)
  BY <1>3, CreateReversalIInv
<1>4. CASE CreateReversalRejected(w)
  BY <1>4, StopIInv DEF CreateReversalRejected, IInv, TypeOK
<1>5. ASSUME NEW k \in Tokens, ResumeReceive(w, k) PROVE IInv'
  BY <1>5, StartIInv DEF ResumeReceive
<1>6. CASE MintRecv(w)
  BY <1>6, MintRecvIInv
<1>7. CASE MintRecvAlreadyClaimed(w)
  BY <1>7, MoveIInv DEF MintRecvAlreadyClaimed
<1>8. CASE RestoreRecv(w)
  <2>1. CASE Restored(rOut[key[w]]) = {}
    BY <1>8, <2>1, MoveIInv DEF RestoreRecv
  <2>2. CASE Restored(rOut[key[w]]) # {}
    BY <1>8, <2>2, MoveIInv DEF RestoreRecv
  <2> QED BY <2>1, <2>2
<1>9. CASE CompleteRecv(w)
  BY <1>9, CompleteRecvIInv
<1>10. CASE FailRecv(w)
  BY <1>10, FailRecvIInv
<1>11. CASE ReportReversed(w)
  <2>1. key[w] \in Sends
    BY <1>11 DEF ReportReversed, IInv, WorkerInv
  <2>2. told' \in SUBSET Sends /\ storage' = storage
    BY <1>11, <2>1 DEF ReportReversed, IInv, TypeOK
  <2> QED BY <1>11, <2>2, StopIInv DEF ReportReversed
<1> QED BY <1>1, <1>2, <1>3, <1>4, <1>5, <1>6, <1>7, <1>8, <1>9, <1>10, <1>11
        DEF RecvStep

LEMMA NextIInv == IInv /\ [Next]_vars => IInv'
<1> SUFFICES ASSUME IInv, [Next]_vars PROVE IInv'
  OBVIOUS
<1>1. ASSUME NEW w \in Workers, SendStep(w) PROVE IInv'
  BY <1>1, SendStepIInv
<1>2. ASSUME NEW w \in Workers, RecvStep(w) PROVE IInv'
  BY <1>2, RecvStepIInv
<1>3. ASSUME NEW w \in Workers, Crash(w) PROVE IInv'
  BY <1>3, StopIInv DEF Crash, IInv, TypeOK
<1>4. ASSUME NEW k \in Tokens, ClaimElsewhere(k) PROVE IInv'
  BY <1>4, ClaimElsewhereIInv
<1>5. CASE UNCHANGED vars
  <2> USE <1>5 DEF vars, account, sendRows, recvRows, mint, worker, IInv
  <2>1. TypeOK' BY DEF TypeOK
  <2>2. OutputsInv' /\ ProofsInv' /\ SpenderInv'
    BY DEF OutputsInv, ProofsInv, SpenderInv
  <2>3. \A s \in Sends : SendInv(s)'
    BY DEF SendInv, Sent
  <2>4. \A k \in Tokens : RecvInv(k)'
    BY DEF RecvInv, Published, TokenProofs
  <2>5. \A v \in Workers : WorkerInv(v)'
    BY DEF WorkerInv, Sent, Published, TokenProofs
  <2> QED BY <2>1, <2>2, <2>3, <2>4, <2>5
<1> QED BY <1>1, <1>2, <1>3, <1>4, <1>5 DEF Next

-----------------------------------------------------------------------------

\* The inductive invariant holds in every reachable state.
THEOREM Invariance == Spec => []IInv
<1>1. Init => IInv
  BY InitIInv
<1>2. IInv /\ [Next]_vars => IInv'
  BY NextIInv
<1> QED BY <1>1, <1>2, PTL DEF Spec

\* Every variable keeps its type: the bumps stay within the counter's range,
\* the rows only hold states and proofs that exist.
THEOREM TypeCorrect == Spec => []TypeOK
<1>1. IInv => TypeOK
  BY DEF IInv
<1> QED BY <1>1, Invariance, PTL

\* The balance never counts a proof the mint would refuse, however many
\* workers race for the same rows and wherever they stop.
THEOREM BalanceIsReal == Spec => []NoPhantomBalance
<1>1. IInv => NoPhantomBalance
  BY DEF IInv, ProofsInv, NoPhantomBalance
<1> QED BY <1>1, Invariance, PTL

\* The outputs of a row are its own: the counter intervals of all rows are
\* disjoint, and the mint has signed a row's outputs all or none.
THEOREM OutputsNeverShared == Spec => []OutputsAreOwn
<1>1. IInv => OutputsAreOwn
  <2> SUFFICES ASSUME IInv PROVE OutputsAreOwn
    OBVIOUS
  <2>1. ASSUME NEW i \in Slots, i < InitialProofs
        PROVE  /\ \A s \in Sends : i \notin sOut[s]
               /\ \A k \in Tokens : i \notin rOut[k]
    BY <2>1, ConstantsAssumption DEF IInv, OutputsInv, Slots
  <2>2. ASSUME NEW s \in Sends PROVE sOut[s] \subseteq signed \/ sOut[s] \cap signed = {}
    BY DEF IInv, SendInv, Sent, TypeOK, SendState
  <2>3. ASSUME NEW k \in Tokens PROVE rOut[k] \subseteq signed \/ rOut[k] \cap signed = {}
    BY DEF IInv, RecvInv
  <2> QED BY <2>1, <2>2, <2>3 DEF IInv, OutputsInv, OutputsAreOwn
<1> QED BY <1>1, Invariance, PTL

\* The token of a PENDING send is reserved for that send alone, and no proof is
\* written off before the mint has recorded it as spent.
THEOREM TokensSetAside == Spec => []TokenSetAside
<1>1. IInv => TokenSetAside
  BY DEF IInv, ProofsInv, SendInv, Sent, TokenSetAside
<1> QED BY <1>1, Invariance, PTL

\* What a single step may do to the rows.
Final ==
    /\ \A s \in Sends : sState[s] \in {"COMPLETED", "FAILED", "REVERSED"}
                           => sState'[s] = sState[s]
    /\ \A k \in Tokens : rState[k] \in {"COMPLETED", "FAILED"}
                           => rState'[k] = rState[k]

LEMMA SendStepFinal ==
    ASSUME IInv, NEW w \in Workers, SendStep(w)
    PROVE  Final
<1>1. CASE UNCHANGED <<sState, rState>>
  BY <1>1 DEF Final
<1>2. ASSUME NEW s \in Sends, CreatePending(w, s) \/ CreateDraft(w, s) PROVE Final
  <2>1. sState[s] = "NONE" /\ rState' = rState
    BY <1>2 DEF CreatePending, CreateDraft, Reserve, recvRows
  <2>2. \A t \in Sends : t # s => sState'[t] = sState[t]
    BY <1>2 DEF CreatePending, CreateDraft, IInv, TypeOK
  <2> QED BY <2>1, <2>2 DEF Final
<1>3. CASE CommitProofsToSend(w) \/ CompleteSend(w)
  <2>1. rState' = rState
    BY <1>3 DEF CommitProofsToSend, CompleteSend, recvRows
  <2>2. \A t \in Sends : sState'[t] = sState[t] \/ sState[t] \in {"DRAFT", "PENDING"}
    BY <1>3 DEF CommitProofsToSend, CompleteSend, IsDraft, IInv, TypeOK
  <2> QED BY <2>1, <2>2 DEF Final
<1>4. CASE FailSend(w)
  BY <1>4 DEF FailSend, IInv, WorkerInv
<1> QED BY <1>1, <1>2, <1>3, <1>4 DEF SendStep, SelectInputs, CreateRejected, ResumeDraft,
        MintSend, MintSendAlreadyExecuted, MintSendRefused, RestoreSend, CheckClaimed, sendRows, recvRows

LEMMA RecvStepFinal ==
    ASSUME IInv, NEW w \in Workers, RecvStep(w)
    PROVE  Final
<1>1. CASE UNCHANGED <<sState, rState>>
  BY <1>1 DEF Final
<1>2. ASSUME NEW k \in Tokens, NEW rev, InsertReceive(k, rev), sState' = sState PROVE Final
  BY <1>2 DEF Final, InsertReceive, IInv, TypeOK
<1>3. CASE CompleteRecv(w)
  <2> DEFINE k == key[w]
  <2>1. /\ \A l \in Tokens : rState'[l] = rState[l] \/ rState[l] = "PENDING"
        /\ \A t \in Sends : sState'[t] = sState[t] \/ sState[t] = "PENDING"
    <3>1. CASE rRev[k] /\ sState[k] = "PENDING"
      BY <1>3, <3>1 DEF CompleteRecv, IInv, TypeOK
    <3>2. CASE ~ (rRev[k] /\ sState[k] = "PENDING")
      BY <1>3, <3>2 DEF CompleteRecv, IInv, TypeOK
    <3> QED BY <3>1, <3>2
  <2> QED BY <2>1 DEF Final
<1>4. CASE FailRecv(w)
  <2> DEFINE k == key[w]
  <2>1. k \in Tokens /\ (rRev[k] => k \in Sends)
    BY <1>4 DEF FailRecv, IInv, WorkerInv, RecvInv
  <2>2. \A l \in Tokens : rState'[l] = rState[l] \/ rState[l] = "PENDING"
    BY <1>4 DEF FailRecv, IInv, TypeOK
  <2>3. \A t \in Sends : \/ sState'[t] = sState[t]
                         \/ t = k /\ rState[k] = "PENDING" /\ sState'[t] = "COMPLETED"
    <3>1. CASE rRev[k]
      BY <1>4, <2>1, <3>1 DEF FailRecv, IInv, TypeOK
    <3>2. CASE ~ rRev[k]
      BY <1>4, <3>2 DEF FailRecv
    <3> QED BY <3>1, <3>2
  <2> QED BY <2>2, <2>3 DEF Final, IInv, SendInv
<1>5. ASSUME NEW k \in Tokens, ReceiveToken(w, k) PROVE Final
  BY <1>2, <1>5 DEF ReceiveToken, sendRows
<1>6. CASE CreateReversal(w)
  <2>1. key[w] \in Tokens
    BY <1>6 DEF CreateReversal, IInv, WorkerInv, Tokens
  <2> QED BY <1>2, <1>6, <2>1 DEF CreateReversal, sendRows
<1> QED BY <1>1, <1>3, <1>4, <1>5, <1>6 DEF RecvStep, StartReverse, CreateReversalRejected,
        ResumeReceive, MintRecv, MintRecvAlreadyClaimed,
        RestoreRecv, ReportReversed, sendRows, recvRows

\* A terminal row is never written again, whichever call arrives late.
THEOREM TerminalIsFinal == Spec => TerminalStatesAreFinal
<1>1. IInv /\ [Next]_vars => [Final]_vars
  <2> SUFFICES ASSUME IInv, Next PROVE Final
    BY DEF Final
  <2>1. ASSUME NEW w \in Workers, Crash(w) PROVE Final
    BY <2>1 DEF Crash, Final, sendRows, recvRows
  <2>2. ASSUME NEW k \in Tokens, ClaimElsewhere(k) PROVE Final
    BY <2>2 DEF ClaimElsewhere, Final, sendRows, recvRows
  <2> QED BY <2>1, <2>2, SendStepFinal, RecvStepFinal DEF Next
<1> QED BY <1>1, Invariance, PTL DEF Spec, TerminalStatesAreFinal, Final

-----------------------------------------------------------------------------
(***************************************************************************)
(* Outcomes: what becomes of outputs, reservations and reversals.  A second*)
(* inductive invariant, on top of IInv, relates them to the mint.          *)
(***************************************************************************)

\* A signed output that is not stored yet has a row that will store it.
StoredLater(i) ==
    \/ \E s \in Sends : sState[s] = "DRAFT" /\ i \in sOut[s]
    \/ \E k \in Tokens : rState[k] = "PENDING" /\ i \in rOut[k]

OutputsKept == \A i \in signed : db[i] = "NONE" => StoredLater(i)

\* The compensating receive swap of s has reached the mint.
ReversedAtMint(s) == rRev[s] /\ rOut[s] \cap signed # {}

\* The reversal of s has ended.
ReversalOver(s) == sState[s] = "REVERSED" \/ (rRev[s] /\ rState[s] = "FAILED")

\* All of the token of s is spent, or a part of it that has made the mint refuse
\* the reversal.
TokenUsed(s) ==
    \/ sTok[s] \subseteq spent
    \/ rRev[s] /\ rState[s] = "FAILED" /\ sTok[s] \cap spent # {}

\* The outcome of a send says what its token was used for, and a reversal that
\* has reached the mint finds its send PENDING.
SendOutcome(s) ==
    /\ sState[s] = "COMPLETED" => TokenUsed(s) /\ ~ ReversedAtMint(s)
    /\ sState[s] = "REVERSED" => rRev[s]
    /\ ReversedAtMint(s) /\ rState[s] = "PENDING" => sState[s] = "PENDING"
    /\ s \in told => ReversalOver(s)

\* A receive completes with what the mint has signed, and fails for a token that
\* is spent otherwise.
RecvOutcome(k) ==
    /\ rState[k] = "COMPLETED" => rOut[k] \subseteq signed
    /\ rState[k] = "FAILED" => TokenProofs(k) \cap spent # {} /\ rOut[k] \cap signed = {}
    /\ rRev[k] /\ rState[k] = "COMPLETED" => sState[k] = "REVERSED"

\* What a call in the middle of a receive knows of the mint.
WorkerOutcome(w) ==
    /\ pc[w] = "restoreRecv" => AlreadyExecuted(TokenProofs(key[w]), rOut[key[w]])
    /\ pc[w] = "failRecv" =>
          TokenProofs(key[w]) \cap spent # {} /\ rOut[key[w]] \cap signed = {}
    /\ reversing[w] /\ pc[w] # "createReversal" => rRev[key[w]]
    /\ pc[w] = "reload" => ReversalOver(key[w])

Outcome ==
    /\ OutputsKept
    /\ ReservationHasOwner
    /\ \A s \in Sends : SendOutcome(s)
    /\ \A k \in Tokens : RecvOutcome(k)
    /\ \A w \in Workers : WorkerOutcome(w)

-----------------------------------------------------------------------------
(* Initially, and steps that leave the rows and the mint alone.            *)

\* Initially nothing is signed but what the account owns.
LEMMA InitOutcome == Init => Outcome
<1> SUFFICES ASSUME Init PROVE Outcome
    OBVIOUS
<1> USE ConstantsAssumption DEF Init, Tokens
<1>1. OutputsKept /\ ReservationHasOwner
    BY DEF OutputsKept, ReservationHasOwner
<1>2. \A s \in Sends : SendOutcome(s)
    BY DEF SendOutcome, TokenUsed, ReversedAtMint
<1>3. \A k \in Tokens : RecvOutcome(k)
    BY DEF RecvOutcome
<1>4. \A w \in Workers : WorkerOutcome(w)
    BY DEF WorkerOutcome
<1> QED BY <1>1, <1>2, <1>3, <1>4 DEF Outcome

\* A receive row that exists belongs to a token that is published.
LEMMA ReceivedIsPublished ==
    ASSUME IInv, NEW s \in Sends
    PROVE  /\ rState[s] # "NONE" => Sent(s)
           /\ rRev[s] => rState[s] # "NONE"
           /\ ReversalOver(s) => Sent(s) /\ rState[s] \in {"COMPLETED", "FAILED"}
    BY DEF IInv, RecvInv, SendInv, Published, Sent, Tokens, ReversalOver

\* Another worker keeps what it knows of the mint.
LEMMA WorkerOutcomeKept ==
    ASSUME IInv, Outcome, NEW v \in Workers,
           pc'[v] = pc[v], key'[v] = key[v], reversing'[v] = reversing[v],
           spent \subseteq spent', signed \subseteq signed',
           \A k \in Tokens : rState[k] # "NONE" =>
              /\ rRev'[k] = rRev[k] /\ rOut'[k] = rOut[k]
              /\ k \in Sends => sTok'[k] = sTok[k]
              /\ TokenProofs(k) \cap spent # {} /\ rOut[k] \cap signed = {}
                    => rOut[k] \cap signed' = {},
           \A s \in Sends :
              /\ sState[s] = "REVERSED" => sState'[s] = "REVERSED"
              /\ rState[s] = "FAILED" => rState'[s] = "FAILED"
    PROVE  WorkerOutcome(v)'
<1>1. WorkerOutcome(v) /\ WorkerInv(v)
    BY DEF Outcome, IInv
<1>2. CASE pc[v] \in {"restoreRecv", "failRecv"}
    <2>1. key[v] \in Tokens /\ rState[key[v]] # "NONE"
        BY <1>1, <1>2 DEF WorkerInv
    <2>2. PICK k \in Tokens : k = key[v] /\ k = key'[v] /\ rState[k] # "NONE"
        BY <2>1
    <2>3. TokenProofs(key[v])' = TokenProofs(k) /\ rOut'[k] = rOut[k] /\ rRev'[k] = rRev[k]
        BY <2>2 DEF TokenProofs
    <2> QED BY <1>1, <1>2, <2>2, <2>3 DEF WorkerOutcome, AlreadyExecuted
<1>3. CASE pc[v] \notin {"restoreRecv", "failRecv"}
    <2>1. reversing[v] /\ pc[v] # "createReversal" =>
             key[v] \in Sends /\ rRev[key[v]] /\ rState[key[v]] # "NONE"
        BY <1>1, ReceivedIsPublished DEF WorkerOutcome, WorkerInv
    <2>2. pc[v] = "reload" => key[v] \in Sends /\ reversing[v] /\ ReversalOver(key[v])
        BY <1>1 DEF WorkerOutcome, WorkerInv
    <2>3. pc[v] = "reload" => ReversalOver(key[v])'
        BY <2>1, <2>2 DEF ReversalOver, Tokens
    <2> QED BY <1>3, <2>1, <2>3 DEF WorkerOutcome, Tokens
<1> QED BY <1>2, <1>3

\* A worker that has stopped knows nothing.
LEMMA StoppedOutcome ==
    ASSUME IInv, NEW w \in Workers, Stop(w) PROVE WorkerOutcome(w)'
    BY DEF IInv, TypeOK, Stop, WorkerOutcome

\* Steps of a worker that change its own state only.
LEMMA LocalOutcome ==
    ASSUME IInv, Outcome, NEW w \in Workers, WorkerOutcome(w)',
           UNCHANGED <<account, sendRows, recvRows, mint, told>>,
           \A v \in Workers \ {w} :
              pc'[v] = pc[v] /\ key'[v] = key[v] /\ reversing'[v] = reversing[v]
    PROVE  Outcome'
<1> USE DEF Outcome, account, sendRows, recvRows, mint
<1>1. OutputsKept' /\ ReservationHasOwner'
    BY DEF OutputsKept, StoredLater, ReservationHasOwner
<1>2. \A s \in Sends : SendOutcome(s)'
    BY DEF SendOutcome, TokenUsed, ReversedAtMint, ReversalOver
<1>3. \A k \in Tokens : RecvOutcome(k)'
    BY DEF RecvOutcome, TokenProofs
<1>4. ASSUME NEW v \in Workers \ {w} PROVE WorkerOutcome(v)'
    BY WorkerOutcomeKept
<1> QED BY <1>1, <1>2, <1>3, <1>4

LEMMA StopOutcome ==
    ASSUME IInv, Outcome, NEW w \in Workers, Stop(w),
           UNCHANGED <<account, sendRows, recvRows, mint, told>>
    PROVE  Outcome'
<1>1. \A v \in Workers \ {w} :
         pc'[v] = pc[v] /\ key'[v] = key[v] /\ reversing'[v] = reversing[v]
    BY DEF IInv, TypeOK, Stop
<1> QED BY <1>1, StoppedOutcome, LocalOutcome

\* A worker moves to a label that says nothing about the mint, or that its row
\* and the mint justify at this moment.
LEMMA MoveOutcome ==
    ASSUME IInv, Outcome, NEW w \in Workers, NEW l,
           pc' = [pc EXCEPT ![w] = l], \A v \in Workers \ {w} : key'[v] = key[v],
           \A v \in Workers \ {w} : reversing'[v] = reversing[v],
           reversing'[w] => l = "createReversal" \/ (reversing[w] /\ key'[w] = key[w]),
           pc[w] # "createReversal", l # "reload",
           l = "restoreRecv" => AlreadyExecuted(TokenProofs(key'[w]), rOut[key'[w]]),
           l = "failRecv" =>
              TokenProofs(key'[w]) \cap spent # {} /\ rOut[key'[w]] \cap signed = {},
           UNCHANGED <<account, sendRows, recvRows, mint, told>>
    PROVE  Outcome'
<1>1. pc'[w] = l /\ \A v \in Workers \ {w} : pc'[v] = pc[v]
    BY DEF IInv, TypeOK
<1>2. AlreadyExecuted(TokenProofs(key'[w]), rOut[key'[w]])
         => AlreadyExecuted(TokenProofs(key[w]), rOut[key[w]])'
    BY DEF AlreadyExecuted, TokenProofs, sendRows, recvRows, mint
<1>3. TokenProofs(key[w])' = TokenProofs(key'[w])
    BY DEF TokenProofs, sendRows
<1>4. WorkerOutcome(w)'
    BY <1>1, <1>2, <1>3 DEF Outcome, WorkerOutcome, recvRows, mint
<1> QED BY <1>1, <1>4, LocalOutcome

-----------------------------------------------------------------------------
(* Steps of a send.                                                        *)

\* A new send row has no receive row yet, and its inputs are unspent.
LEMMA CreateSendOutcome ==
    ASSUME IInv, Outcome, NEW w \in Workers, NEW s \in Sends,
           CreatePending(w, s) \/ CreateDraft(w, s)
    PROVE  Outcome'
<1>1. /\ sState[s] = "NONE" /\ sel[w] \subseteq Slots
      /\ \A i \in sel[w] : db[i] = "UNSPENT"
      /\ db' = [i \in Slots |-> IF i \in sel[w] THEN "RESERVED" ELSE db[i]]
      /\ spender' = [i \in Slots |-> IF i \in sel[w] THEN s ELSE spender[i]]
      /\ UNCHANGED <<recvRows, mint, told>>
    BY DEF CreatePending, CreateDraft, Reserve, CanReserve, Unspent
<1>2. /\ sState'[s] \in {"PENDING", "DRAFT"}
      /\ sState'[s] = "PENDING" => sTok'[s] = sel[w]
      /\ \A t \in Sends \ {s} : sState'[t] = sState[t] /\ sTok'[t] = sTok[t] /\ sOut'[t] = sOut[t]
    BY DEF CreatePending, CreateDraft, IInv, TypeOK
<1>3. rState[s] = "NONE" /\ ~ rRev[s] /\ s \notin told
    BY <1>1, ReceivedIsPublished DEF Sent, Outcome, SendOutcome
<1>4. OutputsKept'
    BY <1>1, <1>2 DEF Outcome, OutputsKept, StoredLater, recvRows, mint, IInv, TypeOK
<1>5. ReservationHasOwner'
    BY <1>1, <1>2 DEF Outcome, ReservationHasOwner, recvRows
<1>6. ASSUME NEW t \in Sends PROVE SendOutcome(t)'
    <2>1. CASE t = s
        BY <1>1, <1>2, <1>3, <2>1 DEF SendOutcome, ReversedAtMint, recvRows, mint
    <2>2. CASE t # s
        BY <1>1, <1>2, <2>2
           DEF Outcome, SendOutcome, TokenUsed, ReversedAtMint, ReversalOver, recvRows, mint
    <2> QED BY <2>1, <2>2
<1>7. ASSUME NEW k \in Tokens PROVE RecvOutcome(k)'
    <2>1. rState[k] # "NONE" => k # s
        BY <1>3
    <2> QED BY <1>1, <1>2, <2>1, ReceivedIsPublished
            DEF Outcome, RecvOutcome, TokenProofs, recvRows, mint, IInv, RecvInv
<1>8. WorkerOutcome(w)'
    <2>1. pc'[w] \in {"idle", "mintSend"} /\ ~ reversing'[w]
        BY DEF CreatePending, CreateDraft, Stop, MoveTo, IInv, TypeOK, WorkerInv
    <2> QED BY <2>1 DEF WorkerOutcome
<1>9. ASSUME NEW v \in Workers \ {w} PROVE WorkerOutcome(v)'
    <2>1. pc'[v] = pc[v] /\ key'[v] = key[v] /\ reversing'[v] = reversing[v]
        BY DEF CreatePending, CreateDraft, Stop, MoveTo, IInv, TypeOK
    <2> QED BY <1>1, <1>2, <1>3, <2>1, WorkerOutcomeKept DEF recvRows, mint
<1> QED BY <1>4, <1>5, <1>6, <1>7, <1>8, <1>9 DEF Outcome

\* The mint executes the swap of a DRAFT row: its outputs wait in that row, and
\* its inputs belong to no token.
LEMMA MintSendOutcome ==
    ASSUME IInv, Outcome, NEW w \in Workers, MintSend(w) PROVE Outcome'
<1> DEFINE s == key[w]
<1>1. /\ s \in Sends /\ sState[s] = "DRAFT" /\ sel[w] = sIn[s]
      /\ spent' = spent \cup sIn[s] /\ signed' = signed \cup sOut[s]
      /\ UNCHANGED <<account, sendRows, recvRows, key, reversing, told>>
      /\ pc' = [pc EXCEPT ![w] = "commitSend"] /\ pc[w] = "mintSend"
    BY DEF MintSend, PostSwap, MintAccepts, AlreadyExecuted, MoveTo, IInv, WorkerInv,
           SendInv, Sent, TypeOK, SendState
<1> HIDE DEF s
<1>2. \A k \in Tokens : rOut[k] \cap signed' = rOut[k] \cap signed
    BY <1>1 DEF IInv, OutputsInv
<1>3. OutputsKept'
    BY <1>1 DEF Outcome, OutputsKept, StoredLater, account, sendRows, recvRows
<1>4. ReservationHasOwner'
    BY <1>1 DEF Outcome, ReservationHasOwner, account, sendRows, recvRows
<1>5. ASSUME NEW t \in Sends PROVE SendOutcome(t)'
    <2>1. ReversedAtMint(t)' <=> ReversedAtMint(t)
        BY <1>1, <1>2 DEF ReversedAtMint, recvRows, Tokens
    <2> QED BY <1>1, <2>1
            DEF Outcome, SendOutcome, TokenUsed, ReversalOver, sendRows, recvRows
<1>6. ASSUME NEW k \in Tokens PROVE RecvOutcome(k)'
    BY <1>1, <1>2 DEF Outcome, RecvOutcome, TokenProofs, sendRows, recvRows
<1>7. WorkerOutcome(w)'
    <2>1. pc'[w] = "commitSend" /\ ~ reversing'[w]
        BY <1>1 DEF IInv, TypeOK, WorkerInv
    <2> QED BY <2>1 DEF WorkerOutcome
<1>8. ASSUME NEW v \in Workers \ {w} PROVE WorkerOutcome(v)'
    <2>1. pc'[v] = pc[v] /\ key'[v] = key[v] /\ reversing'[v] = reversing[v]
        BY <1>1 DEF IInv, TypeOK
    <2> QED BY <1>1, <1>2, <2>1, WorkerOutcomeKept DEF sendRows, recvRows
<1> QED BY <1>3, <1>4, <1>5, <1>6, <1>7, <1>8 DEF Outcome

\* What the row has waited for is stored when it is committed.
LEMMA CommitOutcome ==
    ASSUME IInv, Outcome, NEW w \in Workers, CommitProofsToSend(w) PROVE Outcome'
<1> DEFINE s == key[w]
<1>1. CASE ~ IsDraft(s)
    BY <1>1, StopOutcome DEF CommitProofsToSend, account, sendRows
<1>2. CASE IsDraft(s)
    <2>1. /\ s \in Sends /\ sState[s] = "DRAFT"
          /\ db' = [i \in Slots |-> Committed(s, i)]
          /\ spender' = [i \in Slots |-> IF i \in sTok[s] THEN s ELSE spender[i]]
          /\ sState' = [sState EXCEPT ![s] = "PENDING"]
          /\ Stop(w) /\ UNCHANGED <<sTok, sOut, recvRows, mint, told>>
        BY <1>2 DEF CommitProofsToSend, IInv, WorkerInv, IsDraft
    <2> HIDE DEF s
    <2>2. sState'[s] = "PENDING" /\ \A t \in Sends \ {s} : sState'[t] = sState[t]
        BY <2>1 DEF IInv, TypeOK
    <2>3. rState[s] = "NONE" /\ ~ rRev[s] /\ s \notin told
        BY <2>1, ReceivedIsPublished DEF Sent, Outcome, SendOutcome
    <2>4. \A i \in Slots : /\ db'[i] = "NONE" => db[i] = "NONE" /\ i \notin sOut[s]
                           /\ db'[i] = "RESERVED" =>
                                 \/ spender'[i] = s
                                 \/ db[i] = "RESERVED" /\ spender'[i] = spender[i]
        BY <2>1 DEF Committed, ReservedBy
    <2>5. OutputsKept'
        BY <2>1, <2>2, <2>4
           DEF Outcome, OutputsKept, StoredLater, recvRows, mint, IInv, TypeOK
    <2>6. ReservationHasOwner'
        BY <2>1, <2>2, <2>4 DEF Outcome, ReservationHasOwner, recvRows
    <2>7. ASSUME NEW t \in Sends PROVE SendOutcome(t)'
        <3>1. CASE t = s
            BY <2>1, <2>2, <2>3, <3>1 DEF SendOutcome, ReversedAtMint, recvRows, mint
        <3>2. CASE t # s
            BY <2>1, <2>2, <3>2
               DEF Outcome, SendOutcome, TokenUsed, ReversedAtMint, ReversalOver, recvRows, mint
        <3> QED BY <3>1, <3>2
    <2>8. ASSUME NEW k \in Tokens PROVE RecvOutcome(k)'
        <3>1. rState[k] # "NONE" => k # s
            BY <2>3
        <3> QED BY <2>1, <2>2, <3>1, ReceivedIsPublished
                DEF Outcome, RecvOutcome, TokenProofs, recvRows, mint, IInv, RecvInv
    <2>9. ASSUME NEW v \in Workers PROVE WorkerOutcome(v)'
        <3>1. CASE v = w
            BY <2>1, <3>1, StoppedOutcome
        <3>2. CASE v # w
            <4>1. pc'[v] = pc[v] /\ key'[v] = key[v] /\ reversing'[v] = reversing[v]
                BY <2>1, <3>2 DEF Stop, IInv, TypeOK
            <4> QED BY <2>1, <2>2, <4>1, WorkerOutcomeKept DEF recvRows, mint
        <3> QED BY <3>1, <3>2
    <2> QED BY <2>5, <2>6, <2>7, <2>8, <2>9 DEF Outcome
<1> QED BY <1>1, <1>2

\* A send completes only when no reversal of it can still succeed.
LEMMA CompleteSendOutcome ==
    ASSUME IInv, Outcome, NEW w \in Workers, CompleteSend(w) PROVE Outcome'
<1> DEFINE s == key[w]
<1>1. CASE ~ (sState[s] = "PENDING" /\ ~ ReversalInProgress(s))
    BY <1>1, StopOutcome DEF CompleteSend, account, sendRows
<1>2. CASE sState[s] = "PENDING" /\ ~ ReversalInProgress(s)
    <2>1. /\ s \in Sends /\ sState[s] = "PENDING" /\ sTok[s] \subseteq spent
          /\ rRev[s] => rState[s] = "FAILED"
          /\ db' = [i \in Slots |-> IF i \in ReservedBy(s) THEN "SPENT" ELSE db[i]]
          /\ sState' = [sState EXCEPT ![s] = "COMPLETED"]
          /\ Stop(w) /\ UNCHANGED <<spender, sTok, sOut, recvRows, mint, told>>
        BY <1>2 DEF CompleteSend, IInv, WorkerInv, ReversalInProgress
    <2> HIDE DEF s
    <2>2. sState'[s] = "COMPLETED" /\ \A t \in Sends \ {s} : sState'[t] = sState[t]
        BY <2>1 DEF IInv, TypeOK
    <2>3. ~ ReversedAtMint(s)
        BY <2>1 DEF Outcome, RecvOutcome, ReversedAtMint, Tokens
    <2>4. OutputsKept'
        BY <2>1, <2>2
           DEF Outcome, OutputsKept, StoredLater, recvRows, mint, IInv, TypeOK
    <2>5. ReservationHasOwner'
        BY <2>1, <2>2 DEF Outcome, ReservationHasOwner, ReservedBy, recvRows
    <2>6. ASSUME NEW t \in Sends PROVE SendOutcome(t)'
        BY <2>1, <2>2, <2>3
           DEF Outcome, SendOutcome, TokenUsed, ReversedAtMint, ReversalOver, recvRows, mint
    <2>7. ASSUME NEW k \in Tokens PROVE RecvOutcome(k)'
        <3>1. rRev[k] => k \in Sends
            BY DEF IInv, RecvInv
        <3> QED BY <2>1, <2>2, <3>1 DEF Outcome, RecvOutcome, TokenProofs, recvRows, mint
    <2>8. ASSUME NEW v \in Workers PROVE WorkerOutcome(v)'
        <3>1. CASE v = w
            BY <2>1, <3>1, StoppedOutcome
        <3>2. CASE v # w
            <4>1. pc'[v] = pc[v] /\ key'[v] = key[v] /\ reversing'[v] = reversing[v]
                BY <2>1, <3>2 DEF Stop, IInv, TypeOK
            <4> QED BY <2>1, <2>2, <4>1, WorkerOutcomeKept DEF recvRows, mint
        <3> QED BY <3>1, <3>2
    <2> QED BY <2>4, <2>5, <2>6, <2>7, <2>8 DEF Outcome
<1> QED BY <1>1, <1>2

-----------------------------------------------------------------------------
(* Steps of a receive or a reversal, and claims by others.                 *)

\* A new receive row asks for outputs the mint has not signed.
LEMMA InsertReceiveOutcome ==
    ASSUME IInv, Outcome, NEW w \in Workers,
           (\E k \in Tokens : ReceiveToken(w, k)) \/ CreateReversal(w)
    PROVE  Outcome'
<1>1. PICK k \in Tokens, rev \in BOOLEAN :
         /\ InsertReceive(k, rev) /\ pc' = [pc EXCEPT ![w] = "mintRecv"]
         /\ key'[w] = k /\ (reversing'[w] => rev)
         /\ \A v \in Workers \ {w} : key'[v] = key[v]
         /\ UNCHANGED <<db, spender, sendRows, mint, reversing, told>>
    <2>1. CASE CreateReversal(w)
        BY <2>1 DEF CreateReversal, MoveTo, IInv, WorkerInv, Tokens
    <2>2. ASSUME NEW k \in Tokens, ReceiveToken(w, k)
          PROVE  /\ InsertReceive(k, FALSE) /\ pc' = [pc EXCEPT ![w] = "mintRecv"]
                 /\ key'[w] = k /\ ~ reversing'[w]
                 /\ \A v \in Workers \ {w} : key'[v] = key[v]
                 /\ UNCHANGED <<db, spender, sendRows, mint, reversing, told>>
        BY <2>2 DEF ReceiveToken, Start, IInv, TypeOK, WorkerInv
    <2> QED BY <2>1, <2>2
<1>2. PICK n \in 1 .. MaxReceive : Bump(n) /\ rOut' = [rOut EXCEPT ![k] = NextOutputs(n)]
    BY <1>1 DEF InsertReceive
<1>3. NextOutputs(n) \cap signed = {}
    BY <1>2, ConstantsAssumption, NextOutputsFresh DEF IInv, Bump
<1>4. /\ rState[k] = "NONE" /\ rState'[k] = "PENDING" /\ rOut'[k] \cap signed = {}
      /\ \A l \in Tokens \ {k} : rState'[l] = rState[l] /\ rOut'[l] = rOut[l] /\ rRev'[l] = rRev[l]
    BY <1>1, <1>2, <1>3 DEF InsertReceive, IInv, TypeOK
<1>5. OutputsKept'
    BY <1>1, <1>4 DEF Outcome, OutputsKept, StoredLater, sendRows, mint
<1>6. ReservationHasOwner'
    BY <1>1, <1>4 DEF Outcome, ReservationHasOwner, sendRows, Tokens
<1>7. ASSUME NEW s \in Sends PROVE SendOutcome(s)'
    <2>1. ReversedAtMint(s)' => ReversedAtMint(s) /\ s # k
        BY <1>1, <1>4 DEF ReversedAtMint, mint, Tokens
    <2>2. ReversalOver(s) => s # k
        BY <1>4, ReceivedIsPublished
    <2>3. sState[s] = "REVERSED" => s # k
        BY <1>4 DEF IInv, SendInv
    <2> QED BY <1>1, <1>4, <2>1, <2>2, <2>3
            DEF Outcome, SendOutcome, TokenUsed, ReversalOver, sendRows, mint, Tokens
<1>8. ASSUME NEW l \in Tokens PROVE RecvOutcome(l)'
    BY <1>1, <1>4 DEF Outcome, RecvOutcome, TokenProofs, sendRows, mint
<1>9. WorkerOutcome(w)'
    <2>1. pc'[w] = "mintRecv" /\ (reversing'[w] => rRev'[k])
        BY <1>1 DEF InsertReceive, IInv, TypeOK
    <2> QED BY <1>1, <2>1 DEF WorkerOutcome
<1>10. ASSUME NEW v \in Workers \ {w} PROVE WorkerOutcome(v)'
    <2>1. pc'[v] = pc[v] /\ key'[v] = key[v] /\ reversing'[v] = reversing[v]
        BY <1>1 DEF IInv, TypeOK
    <2> QED BY <1>1, <1>4, <2>1, WorkerOutcomeKept DEF sendRows, mint, Tokens
<1> QED BY <1>5, <1>6, <1>7, <1>8, <1>9, <1>10 DEF Outcome

\* The mint executes a receive swap: the token was unspent, so its row is still
\* PENDING, and a send it reverses has not ended.
LEMMA MintRecvOutcome ==
    ASSUME IInv, Outcome, NEW w \in Workers, MintRecv(w) PROVE Outcome'
<1> DEFINE k == key[w]
<1>1. /\ k \in Tokens /\ rState[k] # "NONE"
      /\ TokenProofs(k) # {} /\ TokenProofs(k) \cap spent = {} /\ rOut[k] \cap signed = {}
      /\ spent' = spent \cup TokenProofs(k) /\ signed' = signed \cup rOut[k]
      /\ UNCHANGED <<account, sendRows, recvRows, key, reversing, told>>
      /\ pc' = [pc EXCEPT ![w] = "completeRecv"] /\ pc[w] = "mintRecv"
    BY DEF MintRecv, PostSwap, MintAccepts, AlreadyExecuted, MoveTo, IInv, WorkerInv
<1> HIDE DEF k
<1>2. rOut[k] # {} /\ Published(k)
    BY <1>1 DEF IInv, RecvInv
<1>3. rState[k] = "PENDING"
    <2>1. rState[k] \in RecvState
        BY <1>1 DEF IInv, TypeOK
    <2>2. rState[k] # "COMPLETED" /\ rState[k] # "FAILED"
        BY <1>1, <1>2 DEF Outcome, RecvOutcome
    <2> QED BY <1>1, <2>1, <2>2 DEF RecvState
<1>4. k \in Sends => Sent(k) /\ (rRev[k] => sState[k] = "PENDING") /\ sState[k] # "COMPLETED"
    <2> SUFFICES ASSUME k \in Sends
                 PROVE  Sent(k) /\ sState[k] # "COMPLETED" /\ sState[k] # "REVERSED"
        BY DEF Sent
    <2>1. Sent(k) /\ sTok[k] # {} /\ sTok[k] \cap spent = {}
        BY <1>1, <1>2 DEF Published, Sent, TokenProofs
    <2>2. sState[k] # "COMPLETED"
        BY <2>1 DEF Outcome, SendOutcome, TokenUsed
    <2>3. sState[k] # "REVERSED"
        BY <1>3 DEF IInv, SendInv
    <2> QED BY <2>1, <2>2, <2>3
<1>5. \A l \in Tokens \ {k} : rOut[l] \cap signed' = rOut[l] \cap signed
    BY <1>1 DEF IInv, OutputsInv
<1>6. OutputsKept'
    BY <1>1, <1>3 DEF Outcome, OutputsKept, StoredLater, account, sendRows, recvRows
<1>7. ReservationHasOwner'
    BY <1>1 DEF Outcome, ReservationHasOwner, account, sendRows, recvRows
<1>8. ASSUME NEW s \in Sends PROVE SendOutcome(s)'
    <2>1. CASE s = k
        BY <1>1, <1>3, <1>4, <2>1
           DEF Outcome, SendOutcome, TokenUsed, ReversedAtMint, ReversalOver, TokenProofs,
               sendRows, recvRows
    <2>2. CASE s # k
        <3>1. ReversedAtMint(s)' <=> ReversedAtMint(s)
            BY <1>1, <1>5, <2>2 DEF ReversedAtMint, recvRows, Tokens
        <3> QED BY <1>1, <2>2, <3>1
                DEF Outcome, SendOutcome, TokenUsed, ReversalOver, sendRows, recvRows
    <2> QED BY <2>1, <2>2
<1>9. ASSUME NEW l \in Tokens PROVE RecvOutcome(l)'
    BY <1>1, <1>3, <1>5 DEF Outcome, RecvOutcome, TokenProofs, sendRows, recvRows
<1>10. WorkerOutcome(w)'
    <2>1. pc'[w] = "completeRecv" /\ (reversing'[w] => rRev'[key'[w]])
        BY <1>1 DEF Outcome, WorkerOutcome, IInv, TypeOK, recvRows
    <2> QED BY <2>1 DEF WorkerOutcome
<1>11. ASSUME NEW v \in Workers \ {w} PROVE WorkerOutcome(v)'
    <2>1. pc'[v] = pc[v] /\ key'[v] = key[v] /\ reversing'[v] = reversing[v]
        BY <1>1 DEF IInv, TypeOK
    <2> QED BY <1>1, <1>5, <2>1, WorkerOutcomeKept DEF sendRows, recvRows
<1> QED BY <1>6, <1>7, <1>8, <1>9, <1>10, <1>11 DEF Outcome

\* A worker that returns to reverse knows that the reversal is over.
LEMMA ReturnedOutcome ==
    ASSUME IInv, NEW w \in Workers, NEW k \in Tokens, k = key[w], Return(w),
           reversing[w] => rRev'[k] /\ ReversalOver(k)'
    PROVE  WorkerOutcome(w)'
<1>1. CASE reversing[w]
    <2>1. pc'[w] = "reload" /\ key'[w] = k
        BY <1>1 DEF Return, MoveTo, IInv, TypeOK
    <2> QED BY <1>1, <2>1 DEF WorkerOutcome, ReversalOver
<1>2. CASE ~ reversing[w]
    BY <1>2, StoppedOutcome DEF Return
<1> QED BY <1>1, <1>2

LEMMA ReturnMovesOne ==
    ASSUME IInv, NEW w \in Workers, Return(w) \/ Stop(w)
    PROVE  \A v \in Workers \ {w} :
              pc'[v] = pc[v] /\ key'[v] = key[v] /\ reversing'[v] = reversing[v]
    BY DEF Return, Stop, MoveTo, IInv, TypeOK

\* The outputs are stored; a send that is reversed was PENDING until now.
LEMMA CompleteRecvOutcome ==
    ASSUME IInv, Outcome, NEW w \in Workers, CompleteRecv(w) PROVE Outcome'
<1> PICK k \in Tokens : k = key[w]
    BY DEF CompleteRecv, IInv, WorkerInv
<1>1. /\ rOut[k] \subseteq signed /\ rState[k] # "NONE" /\ pc[w] = "completeRecv"
      /\ reversing[w] => rRev[k] /\ k \in Sends
    BY DEF CompleteRecv, IInv, WorkerInv, Outcome, WorkerOutcome
<1>2. CASE ~ (rState[k] = "PENDING" /\ ~ CannotReverse(k))
    <2>1. /\ UNCHANGED <<account, sendRows, recvRows, mint, told>>
          /\ IF rState[k] = "COMPLETED" THEN Return(w) ELSE Stop(w)
        BY <1>2 DEF CompleteRecv, account, sendRows, recvRows
    <2>2. rState[k] = "COMPLETED" /\ reversing[w] => rRev'[k] /\ ReversalOver(k)'
        BY <1>1, <2>1 DEF Outcome, RecvOutcome, ReversalOver, sendRows, recvRows
    <2>3. WorkerOutcome(w)'
        BY <2>1, <2>2, ReturnedOutcome, StoppedOutcome
    <2> QED BY <2>1, <2>3, ReturnMovesOne, LocalOutcome
<1>3. CASE rState[k] = "PENDING" /\ ~ CannotReverse(k)
    <2>1. /\ rState' = [rState EXCEPT ![k] = "COMPLETED"]
          /\ db' = [i \in Slots |->
                       IF i \in rOut[k] THEN "UNSPENT"
                       ELSE IF (rRev[k] /\ sState[k] = "PENDING") /\ i \in ReservedBy(k)
                            THEN "SPENT" ELSE db[i]]
          /\ sState' = IF rRev[k] /\ sState[k] = "PENDING"
                       THEN [sState EXCEPT ![k] = "REVERSED"] ELSE sState
          /\ Return(w) /\ UNCHANGED <<spender, sTok, sOut, rOut, rRev, mint, told>>
        BY <1>3 DEF CompleteRecv
    <2>2. rRev[k] => k \in Sends /\ sState[k] = "PENDING"
        BY <1>3 DEF CannotReverse, IInv, RecvInv, SendInv
    <2>3. /\ rRev[k] => sState'[k] = "REVERSED"
          /\ \A s \in Sends : s # k \/ ~ rRev[k] => sState'[s] = sState[s]
          /\ rState'[k] = "COMPLETED" /\ \A l \in Tokens \ {k} : rState'[l] = rState[l]
        BY <2>1, <2>2 DEF IInv, TypeOK
    <2>4. \A i \in Slots :
             /\ db'[i] = "NONE" => db[i] = "NONE" /\ i \notin rOut[k]
             /\ db'[i] = "RESERVED" => db[i] = "RESERVED" /\ ~ (rRev[k] /\ spender[i] = k)
        BY <2>1, <2>2 DEF ReservedBy
    <2>5. OutputsKept'
        BY <2>1, <2>2, <2>3, <2>4 DEF Outcome, OutputsKept, StoredLater, mint, IInv, TypeOK
    <2>6. ReservationHasOwner'
        BY <1>3, <2>1, <2>2, <2>3, <2>4 DEF Outcome, ReservationHasOwner, Tokens
    <2>7. ASSUME NEW s \in Sends PROVE SendOutcome(s)'
        <3>1. ReversedAtMint(s)' <=> ReversedAtMint(s)
            BY <2>1 DEF ReversedAtMint, mint
        <3>2. sTok'[s] = sTok[s] /\ spent' = spent /\ told' = told /\ rRev'[s] = rRev[s]
            BY <2>1 DEF mint
        <3>3. CASE s = k
            BY <1>3, <2>2, <2>3, <3>1, <3>2, <3>3 DEF Outcome, SendOutcome, TokenUsed, ReversalOver
        <3>4. CASE s # k
            <4>1. rState'[s] = rState[s] /\ sState'[s] = sState[s]
                BY <2>3, <3>4 DEF Tokens
            <4> QED BY <3>1, <3>2, <4>1 DEF Outcome, SendOutcome, TokenUsed, ReversalOver
        <3> QED BY <3>3, <3>4
    <2>8. ASSUME NEW l \in Tokens PROVE RecvOutcome(l)'
        <3>1. rRev[l] => l \in Sends
            BY DEF IInv, RecvInv
        <3> QED BY <1>1, <2>1, <2>3, <3>1 DEF Outcome, RecvOutcome, TokenProofs, mint
    <2>9. WorkerOutcome(w)'
        BY <1>1, <2>1, <2>3, ReturnedOutcome DEF ReversalOver
    <2>10. ASSUME NEW v \in Workers \ {w} PROVE WorkerOutcome(v)'
        <3>1. \A s \in Sends : /\ sState[s] = "REVERSED" => sState'[s] = "REVERSED"
                               /\ rState[s] = "FAILED" => rState'[s] = "FAILED"
            BY <1>3, <2>2, <2>3 DEF Tokens
        <3>2. pc'[v] = pc[v] /\ key'[v] = key[v] /\ reversing'[v] = reversing[v]
            BY <2>1, ReturnMovesOne
        <3> QED BY <2>1, <3>1, <3>2, WorkerOutcomeKept DEF mint
    <2> QED BY <2>5, <2>6, <2>7, <2>8, <2>9, <2>10 DEF Outcome
<1> QED BY <1>2, <1>3

\* A receive fails for a token that is spent at least in part: the send of a
\* reversal that fails is COMPLETED with reason.
LEMMA FailRecvOutcome ==
    ASSUME IInv, Outcome, NEW w \in Workers, FailRecv(w) PROVE Outcome'
<1> PICK k \in Tokens : k = key[w]
    BY DEF FailRecv, IInv, WorkerInv
<1>1. /\ TokenProofs(k) \cap spent # {} /\ rOut[k] \cap signed = {}
      /\ rState[k] # "NONE" /\ pc[w] = "failRecv"
      /\ reversing[w] => rRev[k] /\ k \in Sends
    BY DEF FailRecv, IInv, WorkerInv, Outcome, WorkerOutcome
<1>2. CASE rState[k] # "PENDING"
    <2>1. /\ UNCHANGED <<account, sendRows, recvRows, mint, told>>
          /\ IF rState[k] = "FAILED" THEN Return(w) ELSE Stop(w)
        BY <1>2 DEF FailRecv, sendRows, recvRows
    <2>2. rState[k] = "FAILED" /\ reversing[w] => rRev'[k] /\ ReversalOver(k)'
        BY <1>1, <2>1 DEF ReversalOver, sendRows, recvRows
    <2>3. WorkerOutcome(w)'
        BY <2>1, <2>2, ReturnedOutcome, StoppedOutcome
    <2> QED BY <2>1, <2>3, ReturnMovesOne, LocalOutcome
<1>3. CASE rState[k] = "PENDING"
    <2>1. /\ rState' = [rState EXCEPT ![k] = "FAILED"]
          /\ sState' = IF rRev[k] THEN [sState EXCEPT ![k] = "COMPLETED"] ELSE sState
          /\ Return(w) /\ UNCHANGED <<account, sTok, sOut, rOut, rRev, mint, told>>
        BY <1>3 DEF FailRecv
    <2>2. rRev[k] => /\ k \in Sends /\ Sent(k) /\ sState[k] # "REVERSED"
                     /\ sTok[k] \cap spent # {}
        <3>1. rRev[k] => k \in Sends
            BY DEF IInv, RecvInv
        <3> QED BY <1>1, <1>3, <3>1, ReceivedIsPublished
                DEF IInv, SendInv, Outcome, SendOutcome, TokenProofs
    <2>3. /\ rRev[k] => sState'[k] = "COMPLETED"
          /\ \A s \in Sends : s # k \/ ~ rRev[k] => sState'[s] = sState[s]
          /\ rState'[k] = "FAILED" /\ \A l \in Tokens \ {k} : rState'[l] = rState[l]
        BY <2>1, <2>2 DEF IInv, TypeOK
    <2>4. OutputsKept'
        <3>1. \A s \in Sends : sState[s] = "DRAFT" => sState'[s] = "DRAFT"
            BY <2>2, <2>3 DEF Sent
        <3> QED BY <1>1, <2>1, <2>3, <3>1 DEF Outcome, OutputsKept, StoredLater, account, mint
    <2>5. ReservationHasOwner'
        BY <1>3, <2>1, <2>2, <2>3 DEF Outcome, ReservationHasOwner, account, Tokens
    <2>6. ASSUME NEW s \in Sends PROVE SendOutcome(s)'
        <3>1. ReversedAtMint(s)' <=> ReversedAtMint(s)
            BY <2>1 DEF ReversedAtMint, mint
        <3>2. sTok'[s] = sTok[s] /\ spent' = spent /\ told' = told /\ rRev'[s] = rRev[s]
            BY <2>1 DEF mint
        <3>3. CASE s = k
            <4>1. ~ ReversedAtMint(s)
                BY <1>1, <3>3 DEF ReversedAtMint
            <4> QED BY <1>3, <2>2, <2>3, <3>1, <3>2, <3>3, <4>1
                    DEF Outcome, SendOutcome, TokenUsed, ReversalOver
        <3>4. CASE s # k
            <4>1. rState'[s] = rState[s] /\ sState'[s] = sState[s]
                BY <2>3, <3>4 DEF Tokens
            <4> QED BY <3>1, <3>2, <4>1 DEF Outcome, SendOutcome, TokenUsed, ReversalOver
        <3> QED BY <3>3, <3>4
    <2>7. ASSUME NEW l \in Tokens PROVE RecvOutcome(l)'
        <3>1. rRev[l] => l \in Sends
            BY DEF IInv, RecvInv
        <3> QED BY <1>1, <2>1, <2>3, <3>1 DEF Outcome, RecvOutcome, TokenProofs, mint
    <2>8. WorkerOutcome(w)'
        BY <1>1, <2>1, <2>3, ReturnedOutcome DEF ReversalOver
    <2>9. ASSUME NEW v \in Workers \ {w} PROVE WorkerOutcome(v)'
        <3>1. \A s \in Sends : /\ sState[s] = "REVERSED" => sState'[s] = "REVERSED"
                               /\ rState[s] = "FAILED" => rState'[s] = "FAILED"
            BY <1>3, <2>2, <2>3 DEF Tokens
        <3>2. pc'[v] = pc[v] /\ key'[v] = key[v] /\ reversing'[v] = reversing[v]
            BY <2>1, ReturnMovesOne
        <3> QED BY <2>1, <3>1, <3>2, WorkerOutcomeKept DEF mint
    <2> QED BY <2>4, <2>5, <2>6, <2>7, <2>8, <2>9 DEF Outcome
<1> QED BY <1>2, <1>3

\* The user is told after the reversal is over.
LEMMA ReportOutcome ==
    ASSUME IInv, Outcome, NEW w \in Workers, ReportReversed(w) PROVE Outcome'
<1> PICK k \in Sends : k = key[w]
    BY DEF ReportReversed, IInv, WorkerInv
<1>1. /\ ReversalOver(k) /\ told' = told \cup {k} /\ Stop(w)
      /\ UNCHANGED <<account, sendRows, recvRows, mint>>
    BY DEF ReportReversed, Outcome, WorkerOutcome
<1> USE DEF Outcome, account, sendRows, recvRows, mint
<1>2. OutputsKept' /\ ReservationHasOwner'
    BY <1>1 DEF OutputsKept, StoredLater, ReservationHasOwner
<1>3. \A s \in Sends : SendOutcome(s)'
    BY <1>1 DEF SendOutcome, TokenUsed, ReversedAtMint, ReversalOver
<1>4. \A l \in Tokens : RecvOutcome(l)'
    BY <1>1 DEF RecvOutcome, TokenProofs
<1>5. ASSUME NEW v \in Workers PROVE WorkerOutcome(v)'
    BY <1>1, StoppedOutcome, ReturnMovesOne, WorkerOutcomeKept
<1> QED BY <1>2, <1>3, <1>4, <1>5

\* Somebody else claims a token.
LEMMA ClaimOutcome ==
    ASSUME IInv, Outcome, NEW k \in Tokens, ClaimElsewhere(k) PROVE Outcome'
<1>1. /\ spent \subseteq spent'
      /\ UNCHANGED <<account, sendRows, recvRows, signed, worker, told>>
    BY DEF ClaimElsewhere
<1> USE DEF Outcome, account, sendRows, recvRows, worker
<1>2. OutputsKept' /\ ReservationHasOwner'
    BY <1>1 DEF OutputsKept, StoredLater, ReservationHasOwner
<1>3. ASSUME NEW s \in Sends PROVE SendOutcome(s)'
    BY <1>1 DEF SendOutcome, TokenUsed, ReversedAtMint, ReversalOver
<1>4. \A l \in Tokens : RecvOutcome(l)'
    BY <1>1 DEF RecvOutcome, TokenProofs
<1>5. \A v \in Workers : WorkerOutcome(v)'
    BY <1>1, WorkerOutcomeKept
<1> QED BY <1>2, <1>3, <1>4, <1>5

-----------------------------------------------------------------------------
(* Every step keeps the outcomes, and what follows.                        *)

LEMMA SendStepOutcome ==
    ASSUME IInv, Outcome, NEW w \in Workers, SendStep(w) PROVE Outcome'
<1>1. CASE SelectInputs(w)
    BY <1>1, MoveOutcome DEF SelectInputs, MoveTo, IInv, TypeOK
<1>2. ASSUME NEW s \in Sends, CreatePending(w, s) \/ CreateDraft(w, s) PROVE Outcome'
    BY <1>2, CreateSendOutcome
<1>3. CASE CreateRejected(w) \/ MintSendRefused(w)
    BY <1>3, StopOutcome DEF CreateRejected, MintSendRefused
<1>4. ASSUME NEW s \in Sends, ResumeDraft(w, s) PROVE Outcome'
    <2>1. ~ reversing'[w] /\ \A v \in Workers \ {w} : key'[v] = key[v]
        BY <1>4 DEF ResumeDraft, IInv, TypeOK, WorkerInv
    <2> QED BY <1>4, <2>1, MoveOutcome DEF ResumeDraft, MoveTo
<1>5. CASE MintSend(w)
    BY <1>5, MintSendOutcome
<1>6. CASE MintSendAlreadyExecuted(w)
    BY <1>6, MoveOutcome DEF MintSendAlreadyExecuted, MoveTo
<1>7. CASE RestoreSend(w)
    <2>1. pc' = [pc EXCEPT ![w] = "commitSend"]
        BY <1>7, RestoreSendFinds DEF MoveTo
    <2> QED BY <1>7, <2>1, MoveOutcome DEF RestoreSend
<1>8. CASE CommitProofsToSend(w)
    BY <1>8, CommitOutcome
<1>9. CASE FailSend(w)
    BY <1>9 DEF FailSend, IInv, WorkerInv
<1>10. ASSUME NEW s \in Sends, CheckClaimed(w, s) PROVE Outcome'
    <2>1. ~ reversing'[w] /\ \A v \in Workers \ {w} : key'[v] = key[v]
        BY <1>10 DEF CheckClaimed, Start, IInv, TypeOK, WorkerInv
    <2> QED BY <1>10, <2>1, MoveOutcome DEF CheckClaimed, Start
<1>11. CASE CompleteSend(w)
    BY <1>11, CompleteSendOutcome
<1> QED BY <1>1, <1>2, <1>3, <1>4, <1>5, <1>6, <1>7, <1>8, <1>9, <1>10, <1>11 DEF SendStep

LEMMA RecvStepOutcome ==
    ASSUME IInv, Outcome, NEW w \in Workers, RecvStep(w) PROVE Outcome'
<1>1. CASE (\E k \in Tokens : ReceiveToken(w, k)) \/ CreateReversal(w)
    BY <1>1, InsertReceiveOutcome
<1>2. ASSUME NEW s \in Sends, StartReverse(w, s) PROVE Outcome'
    <2>1. \A v \in Workers \ {w} : key'[v] = key[v] /\ reversing'[v] = reversing[v]
        BY <1>2 DEF StartReverse, IInv, TypeOK
    <2> QED BY <1>2, <2>1, MoveOutcome DEF StartReverse, MoveTo
<1>3. CASE CreateReversalRejected(w)
    BY <1>3, StopOutcome DEF CreateReversalRejected
<1>4. ASSUME NEW k \in Tokens, ResumeReceive(w, k) PROVE Outcome'
    <2>1. ~ reversing'[w] /\ \A v \in Workers \ {w} : key'[v] = key[v]
        BY <1>4 DEF ResumeReceive, Start, IInv, TypeOK, WorkerInv
    <2> QED BY <1>4, <2>1, MoveOutcome DEF ResumeReceive, Start
<1>5. CASE MintRecv(w)
    BY <1>5, MintRecvOutcome
<1>6. CASE MintRecvAlreadyClaimed(w)
    BY <1>6, MoveOutcome DEF MintRecvAlreadyClaimed, MoveTo
<1>7. CASE RestoreRecv(w)
    <2>1. AlreadyExecuted(TokenProofs(key[w]), rOut[key[w]])
        BY <1>7 DEF RestoreRecv, Outcome, WorkerOutcome
    <2>2. CASE Restored(rOut[key[w]]) = {}
        BY <1>7, <2>1, <2>2, MoveOutcome DEF RestoreRecv, MoveTo, Restored, AlreadyExecuted
    <2>3. CASE Restored(rOut[key[w]]) # {}
        BY <1>7, <2>3, MoveOutcome DEF RestoreRecv, MoveTo
    <2> QED BY <2>2, <2>3
<1>8. CASE CompleteRecv(w)
    BY <1>8, CompleteRecvOutcome
<1>9. CASE FailRecv(w)
    BY <1>9, FailRecvOutcome
<1>10. CASE ReportReversed(w)
    BY <1>10, ReportOutcome
<1> QED BY <1>1, <1>2, <1>3, <1>4, <1>5, <1>6, <1>7, <1>8, <1>9, <1>10 DEF RecvStep

LEMMA NextOutcome == IInv /\ Outcome /\ [Next]_vars => Outcome'
<1> SUFFICES ASSUME IInv, Outcome, [Next]_vars PROVE Outcome'
    OBVIOUS
<1>1. ASSUME NEW w \in Workers, Crash(w) PROVE Outcome'
    BY <1>1, StopOutcome DEF Crash
<1>2. CASE UNCHANGED vars
    <2> USE <1>2 DEF Outcome, vars, account, sendRows, recvRows, mint, worker
    <2>1. OutputsKept' /\ ReservationHasOwner'
        BY DEF OutputsKept, StoredLater, ReservationHasOwner
    <2>2. \A s \in Sends : SendOutcome(s)'
        BY DEF SendOutcome, TokenUsed, ReversedAtMint, ReversalOver
    <2>3. \A k \in Tokens : RecvOutcome(k)'
        BY DEF RecvOutcome, TokenProofs
    <2>4. \A w \in Workers : WorkerOutcome(w)'
        BY WorkerOutcomeKept
    <2> QED BY <2>1, <2>2, <2>3, <2>4
<1> QED BY <1>1, <1>2, SendStepOutcome, RecvStepOutcome, ClaimOutcome DEF Next

\* The second inductive invariant: a signed output that is not stored has a row
\* that stores it; a send is COMPLETED when its token is used, of which a reversal
\* the mint refused needs a part only; and what rows, calls and reports say of a
\* reversal agrees with what the mint has done.
THEOREM OutcomeInvariance == Spec => [](IInv /\ Outcome)
<1> QED BY InitOutcome, NextOutcome, Invariance, PTL DEF Spec

\* No output the mint has signed is lost, wherever a call stops: it is stored,
\* or its row is still one that the sweep resumes and restores.
THEOREM OutputsNeverLost == Spec => []NoLostOutput
<1>1. IInv /\ Outcome => NoLostOutput
    <2> SUFFICES ASSUME IInv, Outcome, NEW i \in signed \ spent
                 PROVE  db[i] \in {"UNSPENT", "RESERVED"} \/ StoredLater(i)
        BY DEF NoLostOutput, StoredLater
    <2>1. i \in Slots /\ db[i] \in ProofState /\ db[i] # "SPENT"
        BY DEF IInv, TypeOK, ProofsInv
    <2> QED BY <2>1 DEF ProofState, Outcome, OutputsKept
<1> QED BY <1>1, OutcomeInvariance, PTL

\* The row that holds a reserved proof can still resolve the reservation, but
\* for a send that is COMPLETED by the failure of its reversal.
THEOREM ReservationsOwned == Spec => []ReservationHasOwner
<1>1. Outcome => ReservationHasOwner
    BY DEF Outcome
<1> QED BY <1>1, OutcomeInvariance, PTL

\* A reversal the mint has executed finds its send PENDING, so that its
\* completion never raises (complete_cashu_receive_swap).
THEOREM ReversalsRecordable == Spec => []ReversalCanBeRecorded
<1>1. Outcome => ReversalCanBeRecorded
    BY DEF Outcome, SendOutcome, ReversedAtMint, ReversalCanBeRecorded
<1> QED BY <1>1, OutcomeInvariance, PTL

\* COMPLETED and REVERSED rows, and what the user is told of a reversal, are
\* what has happened at the mint.  Only a token claimed in part whose reversal the
\* mint has refused is written down as COMPLETED before all of it is spent.
THEOREM OutcomesAreTrue == Spec => []OutcomeIsTrue
<1>1. IInv /\ Outcome => OutcomeIsTrue
    <2> SUFFICES ASSUME IInv, Outcome, NEW s \in Sends
                 PROVE  /\ sState[s] = "COMPLETED" => TokenUsed(s) /\ ~ ReversedAtMint(s)
                        /\ sState[s] = "REVERSED" =>
                              rRev[s] /\ rState[s] = "COMPLETED" /\ rOut[s] \subseteq signed
                        /\ s \in told => ReversalOver(s)
        BY DEF OutcomeIsTrue, TokenUsed, ReversedAtMint, ReversalOver
    <2> QED BY DEF IInv, SendInv, Outcome, SendOutcome, RecvOutcome, Tokens
<1> QED BY <1>1, OutcomeInvariance, PTL

-----------------------------------------------------------------------------
(* The swaps implement the ledger.                                         *)

Statuses == [i \in Slots |-> StatusOf(i)]

\* Steps that keep proofs where the ledger sees them.
LEMMA StatusesStay ==
    ASSUME UNCHANGED mint,
           \A i \in Slots : \/ db'[i] = db[i]
                            \/ {db[i], db'[i]} \cap {"NONE", "UNSPENT"} = {}
    PROVE  Statuses' = Statuses
<1>1. \A i \in Slots : StatusOf(i)' = StatusOf(i)
    BY DEF StatusOf, mint
<1> QED BY <1>1 DEF Statuses

\* Steps of the mint: it takes proofs P that are held and signs outputs Q.
LEMMA StatusesSwap ==
    ASSUME IInv, NEW P \in SUBSET Slots, NEW Q \in SUBSET Slots,
           \A i \in P : StatusOf(i) = "held",
           \A i \in Q : db[i] = "NONE" /\ i \notin signed,
           \A i \in Slots : i \in spent' <=> i \in spent \/ i \in P,
           signed' = signed \cup Q, db' = db
    PROVE  Ledger!LedgerNext
<1>1. \A i \in Q : StatusOf(i) = "absent" /\ i \notin P
    BY DEF IInv, ProofsInv, StatusOf
<1>2. \A i \in Slots :
         StatusOf(i)' = IF i \in P THEN "gone" ELSE IF i \in Q THEN "pending" ELSE StatusOf(i)
    BY <1>1 DEF StatusOf
<1>3. P \in SUBSET Ledger!With("held") /\ Q \in SUBSET Ledger!With("absent")
    BY <1>1 DEF Ledger!With
<1>4. Ledger!Swap(P, Q)
    BY <1>2, <1>3 DEF Ledger!Swap
<1> QED BY <1>3, <1>4 DEF Ledger!LedgerNext

\* Initially the account owns what the mint has signed.
LEMMA InitLedger == Init => Ledger!LedgerInit
<1> SUFFICES ASSUME Init PROVE Ledger!LedgerInit
    OBVIOUS
<1>1. \A i \in Slots :
         StatusOf(i) = IF i \in {j \in Slots : j < InitialProofs} THEN "available" ELSE "absent"
    BY DEF Init, StatusOf
<1> QED BY <1>1 DEF Ledger!LedgerInit

\* A send sets proofs of the balance aside.
LEMMA CreateSendLedger ==
    ASSUME IInv, NEW w \in Workers, NEW s \in Sends,
           CreatePending(w, s) \/ CreateDraft(w, s)
    PROVE  Ledger!LedgerNext
<1> DEFINE P == sel[w]
<1>1. /\ P \subseteq Slots /\ \A i \in P : db[i] = "UNSPENT"
      /\ db' = [i \in Slots |-> IF i \in P THEN "RESERVED" ELSE db[i]]
      /\ UNCHANGED mint
    BY DEF CreatePending, CreateDraft, Reserve, CanReserve, Unspent
<1> HIDE DEF P
<1>2. \A i \in P : StatusOf(i) = "available"
    BY <1>1 DEF StatusOf, IInv, ProofsInv
<1>3. \A i \in Slots : StatusOf(i)' = IF i \in P THEN "held" ELSE StatusOf(i)
    BY <1>1, <1>2 DEF StatusOf, mint
<1>4. P \in SUBSET Ledger!With("available")
    BY <1>1, <1>2 DEF Ledger!With
<1>5. Ledger!Hold(P)
    BY <1>3, <1>4 DEF Ledger!Hold
<1> QED BY <1>4, <1>5 DEF Ledger!LedgerNext

\* Outputs P are stored, those of Q as a token.
LEMMA StatusesRecord ==
    ASSUME IInv, NEW P \in SUBSET Slots, NEW Q \in SUBSET P,
           \A i \in P : i \in signed /\ db[i] = "NONE",
           \A i \in P : db'[i] = IF i \in Q THEN "RESERVED" ELSE "UNSPENT",
           \A i \in Slots \ P : \/ db'[i] = db[i]
                                \/ {db[i], db'[i]} \cap {"NONE", "UNSPENT"} = {},
           UNCHANGED mint
    PROVE  Ledger!LedgerNext
<1>1. \A i \in P : StatusOf(i) = "pending"
    BY DEF StatusOf, IInv, ProofsInv
<1>2. \A i \in Slots :
         StatusOf(i)' = IF i \in Q THEN "held" ELSE IF i \in P THEN "available" ELSE StatusOf(i)
    <2>1. \A i \in P : i \notin spent
        BY DEF IInv, ProofsInv
    <2> QED BY <2>1 DEF StatusOf, mint
<1>3. P \in SUBSET Ledger!With("pending")
    BY <1>1 DEF Ledger!With
<1>4. Ledger!Record(P, Q)
    BY <1>2, <1>3 DEF Ledger!Record
<1> QED BY <1>3, <1>4 DEF Ledger!LedgerNext

LEMMA SendStepLedger ==
    ASSUME IInv, NEW w \in Workers, SendStep(w)
    PROVE  Ledger!LedgerNext \/ Statuses' = Statuses
<1>1. CASE MintSend(w)
    <2> DEFINE s == key[w]
    <2>1. /\ s \in Sends /\ sState[s] = "DRAFT" /\ sel[w] = sIn[s]
          /\ sIn[s] \cap spent = {} /\ sOut[s] \cap signed = {}
          /\ spent' = spent \cup sIn[s] /\ signed' = signed \cup sOut[s] /\ db' = db
        BY <1>1 DEF MintSend, PostSwap, MintAccepts, AlreadyExecuted, account, IInv,
                    WorkerInv, SendInv, Sent, TypeOK, SendState
    <2> HIDE DEF s
    <2>2. /\ sIn[s] \in SUBSET Slots /\ sOut[s] \in SUBSET Slots
          /\ \A i \in sIn[s] : db[i] = "RESERVED"
          /\ \A i \in sOut[s] : db[i] = "NONE"
        BY <2>1 DEF IInv, TypeOK, SendInv
    <2>3. \A i \in sIn[s] : StatusOf(i) = "held"
        BY <2>1, <2>2 DEF StatusOf, IInv, ProofsInv
    <2> QED BY <2>1, <2>2, <2>3, StatusesSwap
<1>2. CASE CommitProofsToSend(w)
    <2> DEFINE s == key[w]
    <2>1. CASE ~ IsDraft(s)
        BY <1>2, <2>1, StatusesStay DEF CommitProofsToSend
    <2>2. CASE IsDraft(s)
        <3>1. /\ s \in Sends /\ sOut[s] \subseteq signed /\ UNCHANGED mint
              /\ db' = [i \in Slots |-> Committed(s, i)]
            BY <1>2, <2>2 DEF CommitProofsToSend, IInv, WorkerInv
        <3> HIDE DEF s
        <3>2. /\ sOut[s] \in SUBSET Slots /\ sTok[s] \in SUBSET sOut[s]
              /\ \A i \in sOut[s] : db[i] = "NONE"
            BY <2>2, <3>1 DEF IsDraft, IInv, SendInv, TypeOK
        <3>3. /\ \A i \in sOut[s] : db'[i] = IF i \in sTok[s] THEN "RESERVED" ELSE "UNSPENT"
              /\ \A i \in Slots \ sOut[s] :
                    db'[i] = db[i] \/ {db[i], db'[i]} \cap {"NONE", "UNSPENT"} = {}
            BY <3>1, <3>2 DEF Committed, ReservedBy
        <3> QED BY <3>1, <3>2, <3>3, StatusesRecord
    <2> QED BY <2>1, <2>2
<1>3. CASE CompleteSend(w)
    BY <1>3, StatusesStay DEF CompleteSend, ReservedBy
<1>4. CASE FailSend(w)
    BY <1>4 DEF FailSend, IInv, WorkerInv
<1>5. ASSUME NEW s \in Sends, CreatePending(w, s) \/ CreateDraft(w, s)
      PROVE  Ledger!LedgerNext
    BY <1>5, CreateSendLedger
<1>6. CASE UNCHANGED <<account, mint>>
    BY <1>6, StatusesStay DEF account
<1> QED BY <1>1, <1>2, <1>3, <1>4, <1>5, <1>6
        DEF SendStep, SelectInputs, CreateRejected, ResumeDraft, MintSendAlreadyExecuted,
            MintSendRefused, RestoreSend, CheckClaimed

\* The proofs of a token that is swapped are held, or are another wallet's.
LEMMA TokenIsHeld ==
    ASSUME IInv, NEW k \in Tokens, Published(k), NEW i \in TokenProofs(k) \cap Slots,
           i \notin spent
    PROVE  StatusOf(i) = "held"
<1>1. k \in Sends
    BY ConstantsAssumption DEF TokenProofs, Tokens
<1>2. db[i] \in {"RESERVED", "SPENT"}
    BY <1>1 DEF TokenProofs, Published, IInv, SendInv, Sent
<1> QED BY <1>2 DEF StatusOf, IInv, ProofsInv

LEMMA RecvStepLedger ==
    ASSUME IInv, NEW w \in Workers, RecvStep(w)
    PROVE  Ledger!LedgerNext \/ Statuses' = Statuses
<1>1. CASE MintRecv(w)
    <2> DEFINE k == key[w]
    <2>1. /\ k \in Tokens /\ Published(k)
          /\ TokenProofs(k) \cap spent = {} /\ rOut[k] \cap signed = {}
          /\ spent' = spent \cup TokenProofs(k) /\ signed' = signed \cup rOut[k] /\ db' = db
        BY <1>1 DEF MintRecv, PostSwap, MintAccepts, AlreadyExecuted, account, IInv,
                    WorkerInv, RecvInv
    <2> HIDE DEF k
    <2>2. /\ TokenProofs(k) \cap Slots \in SUBSET Slots /\ rOut[k] \in SUBSET Slots
          /\ \A i \in rOut[k] : db[i] = "NONE" /\ i \notin signed
        BY <2>1 DEF IInv, TypeOK, ProofsInv
    <2>3. \A i \in TokenProofs(k) \cap Slots : StatusOf(i) = "held"
        BY <2>1, TokenIsHeld
    <2>4. \A i \in Slots : i \in spent' <=> i \in spent \/ i \in TokenProofs(k) \cap Slots
        BY <2>1
    <2> QED BY <2>1, <2>2, <2>3, <2>4, StatusesSwap
<1>2. CASE CompleteRecv(w)
    <2> DEFINE k == key[w]
    <2>1. CASE ~ (rState[k] = "PENDING" /\ ~ CannotReverse(k))
        BY <1>2, <2>1, StatusesStay DEF CompleteRecv
    <2>2. CASE rState[k] = "PENDING" /\ ~ CannotReverse(k)
        <3>1. /\ k \in Tokens /\ rOut[k] \subseteq signed /\ UNCHANGED mint
              /\ db' = [i \in Slots |->
                           IF i \in rOut[k] THEN "UNSPENT"
                           ELSE IF (rRev[k] /\ sState[k] = "PENDING") /\ i \in ReservedBy(k)
                                THEN "SPENT" ELSE db[i]]
            BY <1>2, <2>2 DEF CompleteRecv, IInv, WorkerInv
        <3>2. rOut[k] \in SUBSET Slots /\ \A i \in rOut[k] : db[i] = "NONE"
            BY <2>2, <3>1 DEF IInv, TypeOK, RecvInv
        <3> HIDE DEF k
        <3>3. /\ \A i \in rOut[k] : db'[i] = "UNSPENT"
              /\ \A i \in Slots \ rOut[k] :
                    db'[i] = db[i] \/ {db[i], db'[i]} \cap {"NONE", "UNSPENT"} = {}
            BY <3>1, <3>2 DEF ReservedBy
        <3>4. {} \in SUBSET rOut[k]
            OBVIOUS
        <3> QED BY <3>1, <3>2, <3>3, <3>4, StatusesRecord
    <2> QED BY <2>1, <2>2
<1>3. CASE UNCHANGED <<db, mint>>
    BY <1>3, StatusesStay
<1> QED BY <1>1, <1>2, <1>3
        DEF RecvStep, ReceiveToken, StartReverse, CreateReversal, CreateReversalRejected,
            ResumeReceive, MintRecvAlreadyClaimed, RestoreRecv, FailRecv, ReportReversed, account

\* Every step is a step of the ledger, or none for it.
LEMMA NextLedger == IInv /\ [Next]_vars => Ledger!LedgerNext \/ Statuses' = Statuses
<1> SUFFICES ASSUME IInv, [Next]_vars PROVE Ledger!LedgerNext \/ Statuses' = Statuses
    OBVIOUS
<1>1. ASSUME NEW k \in Tokens, ClaimElsewhere(k) PROVE Ledger!LedgerNext
    <2>1. PICK P \in SUBSET TokenProofs(k) :
             /\ Published(k) /\ P \cap spent = {}
             /\ spent' = spent \cup P /\ signed' = signed /\ db' = db
        BY <1>1 DEF ClaimElsewhere, account
    <2>2. P \cap Slots \in SUBSET Slots /\ {} \in SUBSET Slots
        OBVIOUS
    <2>3. \A i \in P \cap Slots : StatusOf(i) = "held"
        BY <2>1, TokenIsHeld
    <2>4. \A i \in Slots : i \in spent' <=> i \in spent \/ i \in P \cap Slots
        BY <2>1
    <2>5. signed' = signed \cup {}
        BY <2>1
    <2>6. \A i \in {} : db[i] = "NONE" /\ i \notin signed
        OBVIOUS
    <2> QED BY <2>1, <2>2, <2>3, <2>4, <2>5, <2>6, StatusesSwap
<1>2. CASE UNCHANGED vars \/ \E w \in Workers : Crash(w)
    BY <1>2, StatusesStay DEF vars, Crash, account
<1> QED BY <1>1, <1>2, SendStepLedger, RecvStepLedger DEF Next

\* Sends, receives, reversals, crashes and claims by others are steps of the
\* ledger: a proof of the balance is held before the mint takes it, what the
\* mint signs is recorded once, and nothing that is gone comes back.
THEOREM SwapsImplementLedger == Spec => ImplementsLedger
<1>1. Init => Ledger!LedgerInit
    BY InitLedger
<1>2. IInv /\ [Next]_vars => [Ledger!LedgerNext]_Statuses
    BY NextLedger
<1> QED BY <1>1, <1>2, Invariance, PTL
        DEF Spec, ImplementsLedger, Ledger!LedgerSpec, Statuses

=============================================================================
