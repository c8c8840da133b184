---------------------------- MODULE ClaimScreen -----------------------------
(***************************************************************************)
(* The claim of a pasted token as the user sees it: pages of the web shell *)
(* (tabs, or a page that was left and opened again), the receive flow each *)
(* of them drives, the mint that may have to be added first, and the rows  *)
(* and accounts of the one user in the database. A page runs on a thread:  *)
(* an action is what runs between two awaits. A request fails before or    *)
(* after it had its effect; leaving a page does not stop what it started.  *)
(*                                                                         *)
(* The protocol of the swap itself is that of TokenSwaps; here it is cut   *)
(* to what decides between the cards of the page.                          *)
(*                                                                         *)
(* A definition marked (mutant) is not part of the model: it is what a     *)
(* plausible bug would make of the definition that follows it.             *)
(***************************************************************************)
EXTENDS Naturals

CONSTANTS
  Tokens,
  Mints,
  MintOf,                  \* the mint of each token
  Pages,
  None

ASSUME MintOfAssumption == MintOf \in [Tokens -> Mints]
ASSUME NoneAssumption == None \notin Tokens

VARIABLES
  card,                    \* what each page shows, or "left"
  token,                   \* the token it shows, or claims though it was left
  amount,                  \* the success card says that proofs were added
  at,                      \* the await the flow of each page is at
  mints,                   \* the mints the user has a Cashu account at
  spark,                   \* number of the user's Spark accounts
  row,                     \* state of the receive swap of each token
  spender                  \* who has spent the token at its mint

page == <<card, token, amount, at>>
server == <<mints, spark, row, spender>>
vars == <<page, server>>

\* Awaits of a dispatch: Parsing (to "info"), AddingMint (to "addGuest", the
\* upsert of somebody who was nobody yet) and Swapping.  At "confirm" the flow
\* is in NeedsMintConfirmation, at "idle" the page holds none.
Calls == {"make", "list", "info", "user", "add", "addGuest",
          "create", "swap", "restore", "store", "fail"}

TypeOK ==
  /\ card \in [Pages -> {"left", "entry", "preview", "working", "confirming",
                         "adding", "success", "error"}]
  /\ token \in [Pages -> Tokens \cup {None}] /\ amount \in [Pages -> BOOLEAN]
  /\ at \in [Pages -> Calls \cup {"idle", "confirm"}]
  /\ mints \subseteq Mints /\ spark \in Nat
  /\ row \in [Tokens -> {"NONE", "PENDING", "COMPLETED", "FAILED"}]
  /\ spender \in [Tokens -> {"none", "own", "foreign"}]

\* A guest who has nothing yet, or a user with a Spark account and some mints.
Init ==
  /\ card = [p \in Pages |-> "left"] /\ token = [p \in Pages |-> None]
  /\ amount = [p \in Pages |-> FALSE] /\ at = [p \in Pages |-> "idle"]
  /\ \/ spark = 0 /\ mints = {}
     \/ spark = 1 /\ mints \in SUBSET Mints
  /\ row = [t \in Tokens |-> "NONE"] /\ spender = [t \in Tokens |-> "none"]

-----------------------------------------------------------------------------
(* The page *)

\* One card and the token on it, with the await its flow is at.  A write to a
\* signal of a page that is gone has no effect.
Show(p, c, t, next) ==
  /\ card' = [card EXCEPT ![p] = IF @ = "left" THEN @ ELSE c]
  /\ token' = [token EXCEPT ![p] = t]
  /\ amount' = [amount EXCEPT ![p] = FALSE]
  /\ at' = [at EXCEPT ![p] = next]

Open(p) ==
  /\ card[p] = "left" /\ at[p] = "idle"
  /\ card' = [card EXCEPT ![p] = "entry"]
  /\ UNCHANGED <<token, amount, at, server>>

\* Back, Done, "Add mint first?" or another route: a flow that waits for an
\* answer goes with the page, one under way does not.
Leave(p) ==
  /\ card[p] # "left"
  /\ card' = [card EXCEPT ![p] = "left"]
  /\ amount' = [amount EXCEPT ![p] = FALSE]
  /\ IF at[p] \in Calls
       THEN UNCHANGED <<token, at>>
       ELSE token' = [token EXCEPT ![p] = None] /\ at' = [at EXCEPT ![p] = "idle"]
  /\ UNCHANGED server

\* The field is on the page in Entry and in Error.
Editable(p) == card[p] \in {"entry", "error"}

Edit(p) == card[p] = "error" /\ Show(p, "entry", None, "idle") /\ UNCHANGED server

Misread(p) == Editable(p) /\ Show(p, "error", None, "idle") /\ UNCHANGED server

Preview(p, t) == Editable(p) /\ Show(p, "preview", t, "idle") /\ UNCHANGED server

Receive(p) ==
  card[p] = "preview" /\ Show(p, "working", token[p], "make") /\ UNCHANGED server

Confirm(p) ==
  card[p] = "confirming" /\ Show(p, "adding", token[p], "user") /\ UNCHANGED server

Cancel(p) ==
  card[p] = "confirming" /\ Show(p, "entry", None, "idle") /\ UNCHANGED server

-----------------------------------------------------------------------------
(* The receive flow *)

Goes(p, next) == at' = [at EXCEPT ![p] = next] /\ UNCHANGED <<card, token, amount>>

Error(p) == Show(p, "error", None, "idle")

\* render_flow_state on Done and AlreadyClaimed.  It does not read the status.
Success(p, withAmount) ==
  LET here == card[p] # "left" IN
  /\ card' = [card EXCEPT ![p] = IF here THEN "success" ELSE @]
  /\ amount' = [amount EXCEPT ![p] = here /\ withAmount]
  /\ token' = [token EXCEPT ![p] = IF here THEN @ ELSE None]
  /\ at' = [at EXCEPT ![p] = "idle"]

\* The answer of a request that had its effect may still be lost.
Answered(p, next) == Goes(p, next) \/ Error(p)

\* A failed request shows its error, whether dispatch turns it into Failed or
\* returns it and leaves the machine where it was: the page drops the flow.
CallFails(p) == at[p] \in Calls /\ Error(p) /\ UNCHANGED server

\* make_receive_flow and the parse of the token, with the keysets of its mint.
MakeFlow(p) == at[p] = "make" /\ Goes(p, "list") /\ UNCHANGED server

FindAccount(p) ==
  /\ at[p] = "list"
  /\ Goes(p, IF MintOf[token[p]] \in mints THEN "create" ELSE "info")
  /\ UNCHANGED server

\* Nobody is left to answer the question of a page that is gone.
MintInfo(p) ==
  /\ at[p] = "info"
  /\ IF card[p] = "left" THEN Error(p) ELSE Show(p, "confirming", token[p], "confirm")
  /\ UNCHANGED server

\* get_user.  A guest is given a Spark account with the first mint.
AskUser(p) ==
  /\ at[p] = "user"
  /\ Goes(p, IF spark > 0 THEN "add" ELSE "addGuest")
  /\ UNCHANGED server

\* (mutant) Every upsert inserts what its caller wants to add.
HasAccountsUnchecked == FALSE

\* upsert_user_with_accounts gives back the accounts there are, if there are
\* any, whichever its caller wants to add.
HasAccounts == spark > 0

\* The unique index on mints, and the Spark account a first upsert must have.
Insert(p, m) ==
  /\ at[p] = "addGuest" /\ m \notin mints
  /\ mints' = mints \cup {m} /\ spark' = spark + 1
  /\ UNCHANGED <<row, spender>>

\* add_mint_account searches what the upsert gives back for the new mint.
AddMint(p) ==
  LET m == MintOf[token[p]] IN
  /\ at[p] \in {"add", "addGuest"}
  /\ \/ ~HasAccounts /\ Insert(p, m) /\ Answered(p, "create")
     \/ HasAccounts /\ m \in mints /\ Goes(p, "create") /\ UNCHANGED server
     \/ HasAccounts /\ m \notin mints /\ Error(p) /\ UNCHANGED server

SetRow(t, s) == row' = [row EXCEPT ![t] = s] /\ UNCHANGED <<mints, spark, spender>>
Spend(t) == spender' = [spender EXCEPT ![t] = "own"] /\ UNCHANGED <<mints, spark, row>>

\* The row is unique by token and user, whatever became of it.
Taken(t) == row[t] # "NONE"

Create(p) ==
  /\ at[p] = "create"
  /\ \/ Taken(token[p]) /\ Success(p, FALSE) /\ UNCHANGED server
     \/ ~Taken(token[p]) /\ SetRow(token[p], "PENDING") /\ Answered(p, "swap")

\* The seed of the user, the keysets and post_swap.
Swap(p) ==
  /\ at[p] = "swap"
  /\ \/ spender[token[p]] = "none" /\ Spend(token[p]) /\ Answered(p, "store")
     \/ spender[token[p]] # "none" /\ Goes(p, "restore") /\ UNCHANGED server

\* (mutant) An empty restore is taken for the answer of another wallet's swap.
RestoresNothing(t) == FALSE

\* The outputs of the row were signed, all of them, as the mint signs a request
\* as a whole: a swap of ours came through.
Restores(t) == spender[t] = "own"

Restore(p) ==
  /\ at[p] = "restore"
  /\ Goes(p, IF Restores(token[p]) THEN "store" ELSE "fail")
  /\ UNCHANGED server

\* complete_cashu_receive_swap gives a COMPLETED row back as it is.
Store(p) ==
  /\ at[p] = "store" /\ row[token[p]] \in {"PENDING", "COMPLETED"}
  /\ SetRow(token[p], "COMPLETED")
  /\ Success(p, TRUE) \/ Error(p)

\* Done with the status AlreadyFailed and the amount of the row.
Fail(p) ==
  /\ at[p] = "fail" /\ row[token[p]] \in {"PENDING", "FAILED"}
  /\ SetRow(token[p], "FAILED")
  /\ Success(p, TRUE) \/ Error(p)

FlowStep(p) ==
  \/ MakeFlow(p) \/ FindAccount(p) \/ MintInfo(p) \/ AskUser(p) \/ AddMint(p)
  \/ Create(p) \/ Swap(p) \/ Restore(p) \/ Store(p) \/ Fail(p) \/ CallFails(p)

-----------------------------------------------------------------------------
(* The sweep and the other wallets *)

\* resume_receive_swap, in one step: the driver does for a PENDING row what
\* the flow does from "swap" on.
Sweep(t) ==
  /\ row[t] = "PENDING"
  /\ row' = [row EXCEPT ![t] = IF spender[t] = "none" \/ Restores(t)
                                  THEN "COMPLETED" ELSE "FAILED"]
  /\ spender' = [spender EXCEPT ![t] = IF @ = "none" THEN "own" ELSE @]
  /\ UNCHANGED <<page, mints, spark>>

\* It stops, or the mint's answer is lost, before the proofs are stored.
SweepStops(t) ==
  row[t] = "PENDING" /\ spender[t] = "none" /\ Spend(t) /\ UNCHANGED page

\* All of the token or a part of it: the mint refuses a swap of both alike.
ClaimElsewhere(t) ==
  /\ spender[t] = "none"
  /\ spender' = [spender EXCEPT ![t] = "foreign"]
  /\ UNCHANGED <<page, mints, spark, row>>

-----------------------------------------------------------------------------

PageStep(p) ==
  \/ Open(p) \/ Leave(p) \/ Edit(p) \/ Misread(p) \/ \E t \in Tokens : Preview(p, t)
  \/ Receive(p) \/ Confirm(p) \/ Cancel(p)

Next ==
  \/ \E p \in Pages : PageStep(p) \/ FlowStep(p)
  \/ \E t \in Tokens : Sweep(t) \/ SweepStops(t) \/ ClaimElsewhere(t)

Spec == Init /\ [][Next]_vars

\* The driver comes back to every PENDING row; pages may stop anywhere.
FairSpec == Spec /\ \A t \in Tokens : WF_vars(Sweep(t))

-----------------------------------------------------------------------------
(* Properties *)

\* A guest who adds two mints on two pages at the same moment, each of which
\* was told that there is no user yet, ends up with one Spark account, the
\* default account, not with one for each page.
OneSparkAccount == spark <= 1 /\ (mints # {} => spark = 1)

\* "Token received" is said of a token of which a claim has been recorded, and
\* "Proofs added to your wallet" of one that has been credited, but when
\* another wallet has spent it.
SuccessIsCredit ==
  \A p \in Pages :
    card[p] = "success" =>
      /\ row[token[p]] # "NONE"
      /\ amount[p] /\ spender[token[p]] # "foreign" => row[token[p]] = "COMPLETED"

\* What a page announced comes true: a token said to be received, or claimed
\* before, is credited in the end, unless another wallet has spent it, also when
\* the earlier claim was cut short on another page.
AnnouncedIsCredited ==
  \A p \in Pages, t \in Tokens :
    card[p] = "success" /\ token[p] = t ~> row[t] = "COMPLETED" \/ spender[t] = "foreign"

=============================================================================
