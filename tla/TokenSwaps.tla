---------------------------- MODULE TokenSwaps ----------------------------
(***************************************************************************)
(* Ecash sends and receives of one wallet account at one mint.             *)
(*                                                                         *)
(* The account's proofs and the rows of cashu_send_swaps and               *)
(* cashu_receive_swaps live in Postgres; every change of them is one SQL   *)
(* function, hence one atomic step.  The mint is a second store, changed   *)
(* by post_swap.  Workers (the facade called by a shell, the resumption    *)
(* driver of the same or of another device of the user) carry a row from   *)
(* one store to the other and can stop between any two steps.              *)
(*                                                                         *)
(* A proof derived by the wallet is named by the counter value it is       *)
(* derived from (a slot): deriving twice from one counter gives the same   *)
(* proof, which is what restore relies on.  Amounts, fees and the choice   *)
(* of proofs are abstracted to nondeterministic choices; the transaction   *)
(* rows mirror the state of their swap row and are left out.               *)
(*                                                                         *)
(* A definition marked (mutant) is not part of the model: it is what a     *)
(* plausible mistake would make of the definition that follows, and shows  *)
(* that a property notices the mistake.                                    *)
(***************************************************************************)
EXTENDS Naturals

CONSTANTS
    Sends,          \* identities of send-swap rows, also of the token each makes
    Foreign,        \* tokens made by other wallets, one proof each
    Workers,        \* facade calls and driver sweeps that run concurrently
    Storages,       \* implementations of CashuSendSwapStorage
    NoSend, NoToken,
    NumSlots,       \* bound: counter values available
    InitialProofs,  \* proofs the account owns at the start
    MaxSend,        \* bound: outputs of a send that are handed out
    MaxChange,      \* bound: outputs of a send that are change
    MaxReceive      \* bound: outputs of a receive swap

Slots  == 0 .. NumSlots - 1
Tokens == Sends \cup Foreign

ASSUME ConstantsAssumption ==
    /\ NumSlots \in Nat /\ InitialProofs \in Nat /\ InitialProofs <= NumSlots
    /\ MaxSend \in Nat /\ MaxChange \in Nat /\ MaxReceive \in Nat
    /\ NoSend \notin Sends /\ NoToken \notin Tokens
    /\ Sends \cap Foreign = {} /\ Foreign \cap Slots = {}
    /\ Storages \subseteq {"supabase", "inMemory"}

VARIABLES
    \* Postgres: the account
    counter,    \* keyset counter of the account
    db,         \* state of each proof row, "NONE" when there is no row
    spender,    \* cashu_proofs.spending_cashu_send_swap_id
    \* Postgres: send swaps
    sState,     \* state of the row, "NONE" when there is no row
    sIn,        \* proofs reserved as inputs
    sTok,       \* proofs of the token (the inputs themselves on the exact path)
    sOut,       \* all outputs of the input swap, {} on the exact path
    \* Postgres: receive swaps, keyed by the token
    rState, rOut,
    rRev,       \* the receive swap reverses the send swap of its token
    \* the mint
    signed,     \* outputs the mint has signed
    spent,      \* proofs the mint has recorded as spent
    \* the workers
    pc, key,
    sel,        \* input proofs a call has in hand: chosen, or read with a row
    reversing,  \* the worker runs CashuSendSwapService::reverse
    told,       \* sends reported to the user as reversed
    storage     \* the implementation the program was built with

account  == <<counter, db, spender>>
sendRows == <<sState, sIn, sTok, sOut>>
recvRows == <<rState, rOut, rRev>>
mint     == <<signed, spent>>
worker   == <<pc, key, sel, reversing>>
vars     == <<account, sendRows, recvRows, mint, worker, told, storage>>

ProofState == {"NONE", "UNSPENT", "RESERVED", "SPENT"}
SendState  == {"NONE", "DRAFT", "PENDING", "COMPLETED", "FAILED", "REVERSED"}
RecvState  == {"NONE", "PENDING", "COMPLETED", "FAILED"}
Label == {"idle", "createSend", "mintSend", "restoreSend", "commitSend",
          "failSend", "completeSend", "createReversal", "mintRecv",
          "restoreRecv", "completeRecv", "failRecv", "reload"}

TypeOK ==
    /\ counter \in 0 .. NumSlots
    /\ db \in [Slots -> ProofState]
    /\ spender \in [Slots -> Sends \cup {NoSend}]
    /\ sState \in [Sends -> SendState]
    /\ sIn \in [Sends -> SUBSET Slots]
    /\ sTok \in [Sends -> SUBSET Slots]
    /\ sOut \in [Sends -> SUBSET Slots]
    /\ rState \in [Tokens -> RecvState]
    /\ rOut \in [Tokens -> SUBSET Slots]
    /\ rRev \in [Tokens -> BOOLEAN]
    /\ signed \in SUBSET Slots
    /\ spent \in SUBSET (Slots \cup Foreign)
    /\ pc \in [Workers -> Label]
    /\ key \in [Workers -> Tokens \cup {NoToken}]
    /\ sel \in [Workers -> SUBSET Slots]
    /\ reversing \in [Workers -> BOOLEAN]
    /\ told \in SUBSET Sends
    /\ storage \in Storages

Init ==
    /\ counter = InitialProofs
    /\ db = [i \in Slots |-> IF i < InitialProofs THEN "UNSPENT" ELSE "NONE"]
    /\ spender = [i \in Slots |-> NoSend]
    /\ sState = [s \in Sends |-> "NONE"]
    /\ sIn = [s \in Sends |-> {}]
    /\ sTok = [s \in Sends |-> {}]
    /\ sOut = [s \in Sends |-> {}]
    /\ rState = [k \in Tokens |-> "NONE"]
    /\ rOut = [k \in Tokens |-> {}]
    /\ rRev = [k \in Tokens |-> FALSE]
    /\ signed = {i \in Slots : i < InitialProofs}
    /\ spent = {}
    /\ pc = [w \in Workers |-> "idle"]
    /\ key = [w \in Workers |-> NoToken]
    /\ sel = [w \in Workers |-> {}]
    /\ reversing = [w \in Workers |-> FALSE]
    /\ told = {}
    /\ storage \in Storages

-----------------------------------------------------------------------------
(* Helpers.                                                                *)

Unspent == {i \in Slots : db[i] = "UNSPENT"}

\* The next n counter values, those a row takes when it bumps the counter.
NextOutputs(n) == {i \in Slots : counter <= i /\ i < counter + n}

\* The proofs a token is made of.
TokenProofs(k) == IF k \in Sends THEN sTok[k] ELSE {k}

\* (mutant)
BumpForgotten(n) == counter + n <= NumSlots /\ counter' = counter

\* The counter is bumped with the insertion of the row, in one transaction.
Bump(n) == counter + n <= NumSlots /\ counter' = counter + n

\* (mutant)
ReservedByOutput(s) == {i \in sOut[s] : spender[i] = s /\ db[i] = "RESERVED"}

\* Proofs the row s has reserved: spending id = s and state RESERVED.
ReservedBy(s) == {i \in Slots : spender[i] = s /\ db[i] = "RESERVED"}

MoveTo(w, l) == pc' = [pc EXCEPT ![w] = l]

\* The call returns to its caller, or its process stops.
Stop(w) ==
    /\ pc' = [pc EXCEPT ![w] = "idle"]
    /\ key' = [key EXCEPT ![w] = NoToken]
    /\ sel' = [sel EXCEPT ![w] = {}]
    /\ reversing' = [reversing EXCEPT ![w] = FALSE]

Start(w, l, k) ==
    /\ pc[w] = "idle"
    /\ pc' = [pc EXCEPT ![w] = l]
    /\ key' = [key EXCEPT ![w] = k]
    /\ UNCHANGED <<sel, reversing>>

\* The inputs and the token in a row the storage has read.  The Supabase
\* storage embeds the proofs a row has added (cashu_send_swap_id): not its
\* inputs, and so not the token either when no swap made it.
ReadInputs(s) == IF storage = "supabase" THEN {} ELSE sIn[s]
ReadToken(s)  == IF storage = "supabase" /\ sOut[s] = {} THEN {} ELSE sTok[s]

\* TokenAlreadySpent or BlindedMessageAlreadySigned.
AlreadyExecuted(in, out) == in \cap spent # {} \/ out \cap signed # {}

\* The mint accepts a swap when it has inputs, none of them is spent and no
\* output is signed.
MintAccepts(in, out) == in # {} /\ ~ AlreadyExecuted(in, out)

\* (mutant)
RestoredAfterBump(out) == {i \in signed : i >= counter}

\* attempt_restore derives the interval of the row again and keeps what the mint
\* has signed of it.
Restored(out) == out \cap signed

\* post_swap: inputs spent and outputs signed together.
PostSwap(in, out) ==
    /\ MintAccepts(in, out)
    /\ spent' = spent \cup in
    /\ signed' = signed \cup out

-----------------------------------------------------------------------------
(* Sending: send_token, resume_send_swap_draft.                            *)

\* send_token lists the unspent proofs and selects some of them.
SelectInputs(w) ==
    /\ pc[w] = "idle"
    /\ \E I \in (SUBSET Unspent) \ {{}} : sel' = [sel EXCEPT ![w] = I]
    /\ MoveTo(w, "createSend")
    /\ UNCHANGED <<account, sendRows, recvRows, mint, key, reversing, told, storage>>

\* (mutant)
ReserveUnchecked(I) == TRUE

\* Every input is still UNSPENT.
CanReserve(I) == I \subseteq Unspent

\* create_cashu_send_swap reserves the inputs under the new row.
Reserve(s, I) ==
    /\ sState[s] = "NONE" /\ CanReserve(I)
    /\ db' = [i \in Slots |-> IF i \in I THEN "RESERVED" ELSE db[i]]
    /\ spender' = [i \in Slots |-> IF i \in I THEN s ELSE spender[i]]
    /\ sIn' = [sIn EXCEPT ![s] = I]

\* The inputs are exactly the amount to send: they are the token.
CreatePending(w, s) ==
    /\ pc[w] = "createSend"
    /\ Reserve(s, sel[w])
    /\ sState' = [sState EXCEPT ![s] = "PENDING"]
    /\ sTok' = [sTok EXCEPT ![s] = sel[w]]
    /\ Stop(w)
    /\ UNCHANGED <<counter, sOut, recvRows, mint, told, storage>>

\* The inputs have to be swapped for the token and the change.
CreateDraft(w, s) ==
    /\ pc[w] = "createSend"
    /\ Reserve(s, sel[w])
    /\ \E nSend \in 1 .. MaxSend, nChange \in 0 .. MaxChange :
          /\ Bump(nSend + nChange)
          /\ sTok' = [sTok EXCEPT ![s] = NextOutputs(nSend)]
          /\ sOut' = [sOut EXCEPT ![s] = NextOutputs(nSend + nChange)]
    /\ sState' = [sState EXCEPT ![s] = "DRAFT"]
    /\ MoveTo(w, "mintSend")
    /\ key' = [key EXCEPT ![w] = s]
    /\ UNCHANGED <<recvRows, mint, sel, reversing, told, storage>>

\* CONCURRENCY_ERROR: another call took one of the proofs; all rolled back.
CreateRejected(w) ==
    /\ pc[w] = "createSend"
    /\ ~ CanReserve(sel[w])
    /\ Stop(w)
    /\ UNCHANGED <<account, sendRows, recvRows, mint, told, storage>>

\* The sweep (or a shell) picks up a DRAFT row, with the inputs read with it.
ResumeDraft(w, s) ==
    /\ sState[s] = "DRAFT"
    /\ pc[w] = "idle"
    /\ MoveTo(w, "mintSend")
    /\ key' = [key EXCEPT ![w] = s]
    /\ sel' = [sel EXCEPT ![w] = ReadInputs(s)]
    /\ UNCHANGED <<account, sendRows, recvRows, mint, reversing, told, storage>>

\* post_swap of the inputs for the token and the change.
MintSend(w) ==
    /\ pc[w] = "mintSend"
    /\ PostSwap(sel[w], sOut[key[w]])
    /\ MoveTo(w, "commitSend")
    /\ sel' = [sel EXCEPT ![w] = {}]
    /\ UNCHANGED <<account, sendRows, recvRows, key, reversing, told, storage>>

\* (mutant)
AlreadyExecutedIsError(w) ==
    /\ pc[w] = "mintSend"
    /\ AlreadyExecuted(sel[w], sOut[key[w]])
    /\ Stop(w)
    /\ UNCHANGED <<account, sendRows, recvRows, mint, told, storage>>

\* The mint has seen the inputs or the outputs before.
MintSendAlreadyExecuted(w) ==
    /\ pc[w] = "mintSend"
    /\ AlreadyExecuted(sel[w], sOut[key[w]])
    /\ MoveTo(w, "restoreSend")
    /\ sel' = [sel EXCEPT ![w] = {}]
    /\ UNCHANGED <<account, sendRows, recvRows, mint, key, reversing, told, storage>>

\* A request without inputs does not balance.  The call ends with the error and
\* the row stays DRAFT; if the outputs are signed, the mint may answer either way.
MintSendRefused(w) ==
    /\ pc[w] = "mintSend"
    /\ sel[w] = {}
    /\ Stop(w)
    /\ UNCHANGED <<account, sendRows, recvRows, mint, told, storage>>

\* post_restore over the counter interval of the row.
RestoreSend(w) ==
    /\ pc[w] = "restoreSend"
    /\ MoveTo(w, IF Restored(sOut[key[w]]) = {} THEN "failSend" ELSE "commitSend")
    /\ UNCHANGED <<account, sendRows, recvRows, mint, key, sel, reversing, told, storage>>

\* (mutant)
IsDraftUnchecked(s) == sState[s] # "NONE"

IsDraft(s) == sState[s] = "DRAFT"

\* (mutant)
CommittedUnreserved(s, i) ==
    IF i \in sOut[s] THEN "UNSPENT"
    ELSE IF i \in ReservedBy(s) THEN "SPENT" ELSE db[i]

\* What commit_proofs_to_send makes of proof i: the token is reserved, the
\* change is balance, the inputs are spent.
Committed(s, i) ==
    IF i \in sTok[s] THEN "RESERVED"
    ELSE IF i \in sOut[s] THEN "UNSPENT"
    ELSE IF i \in ReservedBy(s) THEN "SPENT" ELSE db[i]

\* commit_proofs_to_send.  A row that is no longer DRAFT is left alone: the
\* function returns (PENDING) or raises.
CommitProofsToSend(w) ==
    /\ pc[w] = "commitSend"
    /\ LET s == key[w] IN
          IF IsDraft(s)
          THEN /\ db' = [i \in Slots |-> Committed(s, i)]
               /\ spender' = [i \in Slots |-> IF i \in sTok[s] THEN s ELSE spender[i]]
               /\ sState' = [sState EXCEPT ![s] = "PENDING"]
          ELSE UNCHANGED <<db, spender, sState>>
    /\ Stop(w)
    /\ UNCHANGED <<counter, sIn, sTok, sOut, recvRows, mint, told, storage>>

\* fail_cashu_send_swap: the row is FAILED and its proofs are released.
FailRow(s) ==
    IF IsDraft(s)
    THEN /\ db' = [i \in Slots |-> IF i \in ReservedBy(s) THEN "UNSPENT" ELSE db[i]]
         /\ sState' = [sState EXCEPT ![s] = "FAILED"]
    ELSE UNCHANGED <<db, sState>>

\* The restore found nothing: "Mint swap already executed".
FailSend(w) ==
    /\ pc[w] = "failSend"
    /\ FailRow(key[w])
    /\ Stop(w)
    /\ UNCHANGED <<counter, spender, sIn, sTok, sOut, recvRows, mint, told, storage>>

-----------------------------------------------------------------------------
(* Finding out that the receiver claimed: check_send_token_claimed.        *)

\* (mutant)
AnySpent(P) == P \cap spent # {}

\* all_proofs_spent, over the states the mint returns for the proofs.
AllSpent(P) == P # {} /\ P \subseteq spent

\* The mint reports every proof of a PENDING send as spent.
CheckClaimed(w, s) ==
    /\ sState[s] = "PENDING"
    /\ AllSpent(ReadToken(s))
    /\ Start(w, "completeSend", s)
    /\ UNCHANGED <<account, sendRows, recvRows, mint, told, storage>>

\* (mutant)
ReversalIgnored(s) == FALSE

\* The receive swap that reverses s has not failed.
ReversalInProgress(s) == rRev[s] /\ rState[s] # "FAILED"

\* complete_cashu_send_swap; it leaves the row to the reversal if there is one.
CompleteSend(w) ==
    /\ pc[w] = "completeSend"
    /\ LET s == key[w] IN
          IF sState[s] = "PENDING" /\ ~ ReversalInProgress(s)
          THEN /\ db' = [i \in Slots |-> IF i \in ReservedBy(s) THEN "SPENT" ELSE db[i]]
               /\ sState' = [sState EXCEPT ![s] = "COMPLETED"]
          ELSE UNCHANGED <<db, sState>>
    /\ Stop(w)
    /\ UNCHANGED <<counter, spender, sIn, sTok, sOut, recvRows, mint, told, storage>>

-----------------------------------------------------------------------------
(* Receiving: receive_cashu_token, resume_receive_swap, reverse_send_swap. *)

\* create_cashu_receive_swap: token_hash is the primary key.
InsertReceive(k, rev) ==
    /\ rState[k] = "NONE"
    /\ rState' = [rState EXCEPT ![k] = "PENDING"]
    /\ rRev' = [rRev EXCEPT ![k] = rev]
    /\ \E n \in 1 .. MaxReceive :
          /\ Bump(n)
          /\ rOut' = [rOut EXCEPT ![k] = NextOutputs(n)]

\* A token exists once its send row has left DRAFT.
Published(k) == k \in Sends => sState[k] \in {"PENDING", "COMPLETED", "REVERSED"}

\* receive_cashu_token, of somebody's token or of one the wallet made itself.
ReceiveToken(w, k) ==
    /\ Published(k)
    /\ InsertReceive(k, FALSE)
    /\ Start(w, "mintRecv", k)
    /\ UNCHANGED <<db, spender, sendRows, mint, told, storage>>

\* reverse reads the send row, which must be PENDING and come with its token.
StartReverse(w, s) ==
    /\ sState[s] = "PENDING"
    /\ ReadToken(s) # {}
    /\ pc[w] = "idle"
    /\ MoveTo(w, "createReversal")
    /\ key' = [key EXCEPT ![w] = s]
    /\ reversing' = [reversing EXCEPT ![w] = TRUE]
    /\ UNCHANGED <<account, sendRows, recvRows, mint, sel, told, storage>>

\* The compensating receive swap; the send row is not looked at again.
CreateReversal(w) ==
    /\ pc[w] = "createReversal"
    /\ InsertReceive(key[w], TRUE)
    /\ MoveTo(w, "mintRecv")
    /\ UNCHANGED <<db, spender, sendRows, mint, key, sel, reversing, told, storage>>

\* There is already a receive swap for this token.
CreateReversalRejected(w) ==
    /\ pc[w] = "createReversal"
    /\ rState[key[w]] # "NONE"
    /\ Stop(w)
    /\ UNCHANGED <<account, sendRows, recvRows, mint, told, storage>>

\* (mutant)
ResumeUnlessReversal(w, k) ==
    /\ rState[k] = "PENDING" /\ ~ rRev[k]
    /\ Start(w, "mintRecv", k)
    /\ UNCHANGED <<account, sendRows, recvRows, mint, told, storage>>

\* The sweep picks up a PENDING receive swap.
ResumeReceive(w, k) ==
    /\ rState[k] = "PENDING"
    /\ Start(w, "mintRecv", k)
    /\ UNCHANGED <<account, sendRows, recvRows, mint, told, storage>>

MintRecv(w) ==
    /\ pc[w] = "mintRecv"
    /\ PostSwap(TokenProofs(key[w]), rOut[key[w]])
    /\ MoveTo(w, "completeRecv")
    /\ UNCHANGED <<account, sendRows, recvRows, key, sel, reversing, told, storage>>

MintRecvAlreadyClaimed(w) ==
    /\ pc[w] = "mintRecv"
    /\ AlreadyExecuted(TokenProofs(key[w]), rOut[key[w]])
    /\ MoveTo(w, "restoreRecv")
    /\ UNCHANGED <<account, sendRows, recvRows, mint, key, sel, reversing, told, storage>>

RestoreRecv(w) ==
    /\ pc[w] = "restoreRecv"
    /\ MoveTo(w, IF Restored(rOut[key[w]]) = {} THEN "failRecv" ELSE "completeRecv")
    /\ UNCHANGED <<account, sendRows, recvRows, mint, key, sel, reversing, told, storage>>

\* Where complete_swap and fail return to: reverse reloads the send row.
Return(w) ==
    IF reversing[w]
    THEN MoveTo(w, "reload") /\ UNCHANGED <<key, sel, reversing>>
    ELSE Stop(w)

\* complete_cashu_receive_swap raises when the send it reverses is neither
\* PENDING nor REVERSED, and then nothing is stored.
CannotReverse(k) == rRev[k] /\ sState[k] \notin {"PENDING", "REVERSED"}

\* complete_cashu_receive_swap: the new proofs are added; a reversal also
\* marks the proofs reserved by the send as spent and the send as REVERSED.
CompleteRecv(w) ==
    /\ pc[w] = "completeRecv"
    /\ LET k == key[w]
           reverses == rRev[k] /\ sState[k] = "PENDING" IN
          IF rState[k] = "PENDING" /\ ~ CannotReverse(k)
          THEN /\ rState' = [rState EXCEPT ![k] = "COMPLETED"]
               /\ db' = [i \in Slots |->
                            IF i \in rOut[k] THEN "UNSPENT"
                            ELSE IF reverses /\ i \in ReservedBy(k) THEN "SPENT"
                            ELSE db[i]]
               /\ sState' = IF reverses THEN [sState EXCEPT ![k] = "REVERSED"] ELSE sState
               /\ Return(w)
          ELSE /\ UNCHANGED <<rState, db, sState>>
               /\ IF rState[k] = "COMPLETED" THEN Return(w) ELSE Stop(w)
    /\ UNCHANGED <<counter, spender, sIn, sTok, sOut, rOut, rRev, mint, told, storage>>

\* fail_cashu_receive_swap with "Token already claimed": the send a failed
\* reversal was for is COMPLETED, and nothing is done to its proofs.
FailRecv(w) ==
    /\ pc[w] = "failRecv"
    /\ LET k == key[w] IN
          IF rState[k] = "PENDING"
          THEN /\ rState' = [rState EXCEPT ![k] = "FAILED"]
               /\ sState' = IF rRev[k] THEN [sState EXCEPT ![k] = "COMPLETED"] ELSE sState
               /\ Return(w)
          ELSE /\ UNCHANGED <<rState, sState>>
               /\ IF rState[k] = "FAILED" THEN Return(w) ELSE Stop(w)
    /\ UNCHANGED <<account, sIn, sTok, sOut, rOut, rRev, mint, told, storage>>

\* reverse reloads the row and reports Reversed whatever state it is in.
ReportReversed(w) ==
    /\ pc[w] = "reload"
    /\ told' = told \cup {key[w]}
    /\ Stop(w)
    /\ UNCHANGED <<account, sendRows, recvRows, mint, storage>>

-----------------------------------------------------------------------------
(* The environment.                                                        *)

\* Another wallet swaps some of the token's proofs at the mint, or all of them.
ClaimElsewhere(k) ==
    /\ Published(k)
    /\ \E P \in (SUBSET TokenProofs(k)) \ {{}} :
          /\ P \cap spent = {}
          /\ spent' = spent \cup P
    /\ UNCHANGED <<account, sendRows, recvRows, signed, worker, told, storage>>

\* A process stops between two steps, a request fails before it reaches the
\* mint or the database, or the reply to the step just made is lost.
Crash(w) ==
    /\ pc[w] # "idle"
    /\ Stop(w)
    /\ UNCHANGED <<account, sendRows, recvRows, mint, told, storage>>

\* CashuSendSwapService::fail, which the service offers to its callers.
AbortDraft(s) ==
    /\ sState[s] = "DRAFT"
    /\ FailRow(s)
    /\ UNCHANGED <<counter, spender, sIn, sTok, sOut, recvRows, mint, worker, told, storage>>

SendStep(w) ==
    \/ SelectInputs(w)
    \/ \E s \in Sends : CreatePending(w, s)
    \/ \E s \in Sends : CreateDraft(w, s)
    \/ CreateRejected(w)
    \/ \E s \in Sends : ResumeDraft(w, s)
    \/ MintSend(w)
    \/ MintSendAlreadyExecuted(w)
    \/ MintSendRefused(w)
    \/ RestoreSend(w)
    \/ CommitProofsToSend(w)
    \/ FailSend(w)
    \/ \E s \in Sends : CheckClaimed(w, s)
    \/ CompleteSend(w)

RecvStep(w) ==
    \/ \E k \in Tokens : ReceiveToken(w, k)
    \/ \E s \in Sends : StartReverse(w, s)
    \/ CreateReversal(w)
    \/ CreateReversalRejected(w)
    \/ \E k \in Tokens : ResumeReceive(w, k)
    \/ MintRecv(w)
    \/ MintRecvAlreadyClaimed(w)
    \/ RestoreRecv(w)
    \/ CompleteRecv(w)
    \/ FailRecv(w)
    \/ ReportReversed(w)

Next ==
    \/ \E w \in Workers : SendStep(w) \/ RecvStep(w) \/ Crash(w)
    \/ \E k \in Tokens : ClaimElsewhere(k)

Spec == Init /\ [][Next]_vars

-----------------------------------------------------------------------------
(* Safety.                                                                 *)

\* The balance (get_account_proofs sums the UNSPENT rows) never counts a
\* proof the mint would refuse: every UNSPENT proof was signed and is unspent.
NoPhantomBalance ==
    \A i \in Slots : db[i] = "UNSPENT" => i \in signed /\ i \notin spent

\* No signed output is lost by a crash: an unspent proof of the wallet is in
\* the database, or its row is one the sweep still resumes and restores.
NoLostOutput ==
    \A i \in signed \ spent :
        \/ db[i] \in {"UNSPENT", "RESERVED"}
        \/ \E s \in Sends : sState[s] = "DRAFT" /\ i \in sOut[s]
        \/ \E k \in Tokens : rState[k] = "PENDING" /\ i \in rOut[k]

\* The outputs of a row are its own.  No two rows derive theirs from one counter
\* value, and none from that of a proof the account had before (create_*_swap
\* bump the counter); and the mint has signed them all or none, so that what a
\* restore finds is never a part of them or another row's.
OutputsAreOwn ==
    /\ \A s, t \in Sends : s # t => sOut[s] \cap sOut[t] = {}
    /\ \A k, l \in Tokens : k # l => rOut[k] \cap rOut[l] = {}
    /\ \A s \in Sends, k \in Tokens : sOut[s] \cap rOut[k] = {}
    /\ \A i \in Slots : i < InitialProofs =>
          /\ \A s \in Sends : i \notin sOut[s]
          /\ \A k \in Tokens : i \notin rOut[k]
    /\ \A s \in Sends : sOut[s] \subseteq signed \/ sOut[s] \cap signed = {}
    /\ \A k \in Tokens : rOut[k] \subseteq signed \/ rOut[k] \cap signed = {}

\* A token is set aside until it is used.  As long as its send is PENDING its
\* proofs are reserved for that send alone, not in the balance or in another
\* row; and a proof is written off as SPENT only when the mint has spent it, so
\* no commit, completion or reversal comes too early.
TokenSetAside ==
    /\ \A s \in Sends : sState[s] = "PENDING" =>
          \A i \in sTok[s] : db[i] = "RESERVED" /\ spender[i] = s
    /\ \A i \in Slots : db[i] = "SPENT" => i \in spent

\* A reservation can still be resolved: the row that holds a RESERVED proof is
\* DRAFT or PENDING, or COMPLETED by the failure of its reversal.
ReservationHasOwner ==
    \A i \in Slots : db[i] = "RESERVED" =>
        LET s == spender[i] IN
            /\ s \in Sends
            /\ \/ sState[s] \in {"DRAFT", "PENDING"}
               \/ sState[s] = "COMPLETED" /\ rRev[s] /\ rState[s] = "FAILED"

\* A reversal the mint has executed can be recorded: its send is still
\* PENDING, so complete_cashu_receive_swap does not raise for ever.
ReversalCanBeRecorded ==
    \A s \in Sends :
        rRev[s] /\ rState[s] = "PENDING" /\ rOut[s] \cap signed # {}
            => sState[s] = "PENDING"

\* The outcome stored for a send is what happened to its token: COMPLETED
\* when all of it was swapped by somebody else or received by the wallet as a
\* token, REVERSED when the compensating receive swap did.  The one exception is
\* a token claimed in part and then reversed: the mint refuses the reversal, and
\* its failure completes the send, whose other proofs stay unspent.  The user is
\* told that a send is reversed when it is, or when its reversal has failed.
OutcomeIsTrue ==
    \A s \in Sends :
        /\ sState[s] = "COMPLETED" =>
              /\ \/ sTok[s] \subseteq spent
                 \/ rRev[s] /\ rState[s] = "FAILED" /\ sTok[s] \cap spent # {}
              /\ ~ (rRev[s] /\ rOut[s] \cap signed # {})
        /\ sState[s] = "REVERSED" =>
              rRev[s] /\ rState[s] = "COMPLETED" /\ rOut[s] \subseteq signed
        /\ s \in told => sState[s] = "REVERSED" \/ (rRev[s] /\ rState[s] = "FAILED")

\* A call has the inputs of the DRAFT row it works on, whether it has just
\* created the row or has read it again to resume it.
InputsInHand ==
    \A w \in Workers : pc[w] = "mintSend" => sel[w] = sIn[key[w]]

-----------------------------------------------------------------------------
(* Action properties.                                                      *)

\* A terminal row is never written again, whichever call comes late.
TerminalStatesAreFinal ==
    [][/\ \A s \in Sends : sState[s] \in {"COMPLETED", "FAILED", "REVERSED"}
                              => sState'[s] = sState[s]
       /\ \A k \in Tokens : rState[k] \in {"COMPLETED", "FAILED"}
                              => rState'[k] = rState[k]]_vars

-----------------------------------------------------------------------------
(* The ledger the swaps implement.                                         *)

StatusOf(i) ==
    IF i \in spent THEN "gone"
    ELSE IF i \notin signed THEN "absent"
    ELSE IF db[i] = "NONE" THEN "pending"
    ELSE IF db[i] = "UNSPENT" THEN "available" ELSE "held"

Ledger == INSTANCE ProofLedger
    WITH Proofs <- Slots, Initial <- {i \in Slots : i < InitialProofs},
         status <- [i \in Slots |-> StatusOf(i)]

\* Every step of the workers, the database and the mint is one step of the
\* ledger: proofs of the balance are set aside before the mint sees them, and
\* what the mint signs is recorded once.
ImplementsLedger == Ledger!LedgerSpec

=============================================================================
