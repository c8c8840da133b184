------------------------ MODULE ClaimScreen_proofs -----------------------
(***************************************************************************)
(* Proofs about ClaimScreen, for any tokens, any mints they are of, and    *)
(* any number of pages.                                                    *)
(***************************************************************************)
EXTENDS ClaimScreen, TLAPS

-----------------------------------------------------------------------------
(* The inductive invariant.                                                *)

\* What each page holds of a token, and what the await it is at knows of the row
\* and of the mint.
PageInv(p) ==
  /\ at[p] # "idle" \/ card[p] \in {"preview", "confirming", "success"} => token[p] \in Tokens
  /\ card[p] = "success" => at[p] = "idle"
  /\ at[p] \in {"swap", "restore", "store", "fail"} => row[token[p]] # "NONE"
  /\ at[p] = "restore" => spender[token[p]] # "none"
  /\ at[p] = "fail" => spender[token[p]] = "foreign"

PagesInv == \A p \in Pages : PageInv(p)

IInv == TypeOK /\ PagesInv /\ OneSparkAccount /\ SuccessIsCredit

-----------------------------------------------------------------------------
(* What a step may do to one page, and to the server.                      *)

Cards == {"left", "entry", "preview", "working", "confirming", "adding", "success", "error"}
Awaits == Calls \cup {"idle", "confirm"}

PageTypeOK ==
  /\ card \in [Pages -> Cards] /\ token \in [Pages -> Tokens \cup {None}]
  /\ amount \in [Pages -> BOOLEAN] /\ at \in [Pages -> Awaits]

ServerTypeOK ==
  /\ mints \subseteq Mints /\ spark \in Nat
  /\ row \in [Tokens -> {"NONE", "PENDING", "COMPLETED", "FAILED"}]
  /\ spender \in [Tokens -> {"none", "own", "foreign"}]

LEMMA Types == TypeOK <=> PageTypeOK /\ ServerTypeOK
BY DEF TypeOK, PageTypeOK, ServerTypeOK, Cards, Awaits

Credit(p) ==
  card[p] = "success" =>
    /\ row[token[p]] # "NONE"
    /\ amount[p] /\ spender[token[p]] # "foreign" => row[token[p]] = "COMPLETED"

\* Only the page p changes.
OnlyPage(p) ==
  /\ PageTypeOK'
  /\ \A q \in Pages \ {p} :
       /\ card'[q] = card[q] /\ token'[q] = token[q]
       /\ amount'[q] = amount[q] /\ at'[q] = at[q]

\* A row is never forgotten, a credit never taken back, and who has spent a token
\* has spent it for good.
ServerKept ==
  /\ ServerTypeOK'
  /\ OneSparkAccount'
  /\ \A t \in Tokens :
       /\ row[t] # "NONE" => row'[t] # "NONE"
       /\ row[t] = "COMPLETED" => row'[t] = "COMPLETED"
       /\ spender[t] # "none" => spender'[t] = spender[t]

LEMMA QuietServer ==
  ASSUME IInv, UNCHANGED server PROVE ServerKept
BY DEF IInv, TypeOK, server, ServerKept, ServerTypeOK, OneSparkAccount

LEMMA ShowFacts ==
  ASSUME IInv, NEW p \in Pages, NEW c \in Cards, NEW t \in Tokens \cup {None},
         NEW next \in Awaits, Show(p, c, t, next)
  PROVE  /\ OnlyPage(p)
         /\ card'[p] = (IF card[p] = "left" THEN "left" ELSE c)
         /\ token'[p] = t /\ amount'[p] = FALSE /\ at'[p] = next
BY Types DEF IInv, PageTypeOK, OnlyPage, Show, Cards

LEMMA GoesFacts ==
  ASSUME IInv, NEW p \in Pages, NEW next \in Awaits, Goes(p, next)
  PROVE  /\ OnlyPage(p) /\ UNCHANGED <<card, token, amount>> /\ at'[p] = next
BY Types DEF IInv, PageTypeOK, OnlyPage, Goes

LEMMA ErrorFacts ==
  ASSUME IInv, NEW p \in Pages, Error(p)
  PROVE  /\ OnlyPage(p) /\ card'[p] \in {"left", "error"} /\ at'[p] = "idle"
<1>1. Show(p, "error", None, "idle") /\ "error" \in Cards /\ "idle" \in Awaits
  BY DEF Error, Cards, Awaits
<1> QED BY <1>1, ShowFacts

LEMMA SuccessFacts ==
  ASSUME IInv, NEW p \in Pages, NEW withAmount \in BOOLEAN, Success(p, withAmount)
  PROVE  /\ OnlyPage(p) /\ at'[p] = "idle"
         /\ card[p] = "left" => card'[p] = "left"
         /\ card[p] # "left" => /\ card'[p] = "success" /\ token'[p] = token[p]
                                /\ amount'[p] = withAmount
BY Types DEF IInv, PageTypeOK, OnlyPage, Success, Cards, Awaits

\* The other pages are as they were, and so is what they know.
LEMMA StepInv ==
  ASSUME IInv, NEW p \in Pages, OnlyPage(p), ServerKept, PageInv(p)', Credit(p)'
  PROVE  IInv'
<1>1. TypeOK'
  BY DEF OnlyPage, ServerKept, TypeOK, PageTypeOK, ServerTypeOK, Cards, Awaits
<1>2. ASSUME NEW q \in Pages \ {p} PROVE PageInv(q)' /\ Credit(q)'
  <2>1. /\ card'[q] = card[q] /\ token'[q] = token[q] /\ amount'[q] = amount[q]
        /\ at'[q] = at[q] /\ PageInv(q) /\ Credit(q)
    BY DEF OnlyPage, IInv, PagesInv, SuccessIsCredit, Credit
  <2>2. ASSUME token[q] \in Tokens
        PROVE  /\ row[token[q]] # "NONE" => row'[token[q]] # "NONE"
               /\ row[token[q]] = "COMPLETED" => row'[token[q]] = "COMPLETED"
               /\ spender[token[q]] # "none" => spender'[token[q]] = spender[token[q]]
    BY <2>2 DEF ServerKept
  <2> QED BY <2>1, <2>2 DEF PageInv, Credit
<1>3. PagesInv' /\ SuccessIsCredit'
  BY <1>2 DEF PagesInv, SuccessIsCredit, Credit, PageInv
<1> QED BY <1>1, <1>3 DEF IInv, ServerKept

-----------------------------------------------------------------------------
(* The page.                                                               *)

LEMMA PageSteps ==
  ASSUME IInv, NEW p \in Pages, PageStep(p)
  PROVE  IInv'
<1>1. ServerKept
  BY QuietServer
     DEF PageStep, Open, Leave, Edit, Misread, Preview, Receive, Confirm, Cancel
<1>2. PageInv(p) /\ token[p] \in Tokens \cup {None}
  BY DEF IInv, PagesInv, TypeOK
<1>3. CASE Open(p) \/ Leave(p)
  <2>1. OnlyPage(p) /\ card'[p] \in {"left", "entry"}
    BY <1>3, Types DEF Open, Leave, server, OnlyPage, IInv, PageTypeOK, Cards, Awaits
  <2>2. /\ at'[p] \in {at[p], "idle"}
        /\ at'[p] # "idle" => token'[p] = token[p]
        /\ UNCHANGED server
    BY <1>3, Types DEF Open, Leave, IInv, PageTypeOK, server, Calls
  <2>3. PageInv(p)' /\ Credit(p)'
    BY <1>2, <2>1, <2>2 DEF PageInv, Credit, server
  <2> QED BY <1>1, <2>1, <2>3, StepInv
<1>4. CASE Edit(p) \/ Misread(p) \/ Cancel(p)
  <2>1. Show(p, "entry", None, "idle") \/ Show(p, "error", None, "idle")
    BY <1>4 DEF Edit, Misread, Cancel
  <2>2. OnlyPage(p) /\ at'[p] = "idle" /\ card'[p] \in {"left", "entry", "error"}
    BY <2>1, ShowFacts DEF Cards, Awaits
  <2>3. PageInv(p)' /\ Credit(p)'
    BY <2>2 DEF PageInv, Credit
  <2> QED BY <1>1, <2>2, <2>3, StepInv
<1>5. ASSUME NEW t \in Tokens, Preview(p, t) PROVE IInv'
  <2>1. Show(p, "preview", t, "idle")
    BY <1>5 DEF Preview
  <2>2. OnlyPage(p) /\ at'[p] = "idle" /\ token'[p] = t /\ card'[p] \in {"left", "preview"}
    BY <2>1, ShowFacts DEF Cards, Awaits
  <2>3. PageInv(p)' /\ Credit(p)'
    BY <2>2 DEF PageInv, Credit
  <2> QED BY <1>1, <2>2, <2>3, StepInv
<1>6. CASE Receive(p) \/ Confirm(p)
  <2>1. /\ Show(p, "working", token[p], "make") \/ Show(p, "adding", token[p], "user")
        /\ token[p] \in Tokens
    BY <1>2, <1>6 DEF Receive, Confirm, PageInv
  <2>2. /\ OnlyPage(p) /\ at'[p] \in {"make", "user"} /\ token'[p] = token[p]
        /\ card'[p] \in {"left", "working", "adding"}
    <3>1. /\ "working" \in Cards /\ "adding" \in Cards /\ token[p] \in Tokens \cup {None}
          /\ "make" \in Awaits /\ "user" \in Awaits
      BY <2>1 DEF Cards, Awaits, Calls
    <3>2. CASE Show(p, "working", token[p], "make")
      BY <3>1, <3>2, ShowFacts
    <3>3. CASE Show(p, "adding", token[p], "user")
      BY <3>1, <3>3, ShowFacts
    <3> QED BY <2>1, <3>2, <3>3
  <2>3. PageInv(p)' /\ Credit(p)'
    BY <2>1, <2>2 DEF PageInv, Credit
  <2> QED BY <1>1, <2>2, <2>3, StepInv
<1> QED BY <1>3, <1>4, <1>5, <1>6 DEF PageStep

-----------------------------------------------------------------------------
(* The receive flow.                                                       *)

\* A page that shows its error, or nothing, and holds no flow.
LEMMA ErrorStep ==
  ASSUME IInv, NEW p \in Pages, ServerKept, Error(p)
  PROVE  IInv'
<1>1. OnlyPage(p) /\ card'[p] \in {"left", "error"} /\ at'[p] = "idle"
  BY ErrorFacts
<1>2. PageInv(p)' /\ Credit(p)'
  BY <1>1 DEF PageInv, Credit
<1> QED BY <1>1, <1>2, StepInv

\* A page whose flow goes on with the token it claims: what the next await is
\* said to know has to be so.
LEMMA GoesStep ==
  ASSUME IInv, NEW p \in Pages, ServerKept, at[p] \in Calls, NEW next \in Awaits,
         Goes(p, next),
         next \in {"swap", "restore", "store", "fail"} => row'[token[p]] # "NONE",
         next = "restore" => spender'[token[p]] # "none",
         next = "fail" => spender'[token[p]] = "foreign"
  PROVE  IInv'
<1>1. OnlyPage(p) /\ UNCHANGED <<card, token, amount>> /\ at'[p] = next
  BY GoesFacts
<1>2. PageInv(p) /\ at[p] # "idle"
  BY DEF IInv, PagesInv, Calls
<1>3. card[p] # "success" /\ token[p] \in Tokens
  BY <1>2 DEF PageInv
<1>4. PageInv(p)' /\ Credit(p)'
  BY <1>1, <1>3 DEF PageInv, Credit
<1> QED BY <1>1, <1>4, StepInv

\* A page that announces its token: the row is there, and what is said to have
\* been added has been.
LEMMA SuccessStep ==
  ASSUME IInv, NEW p \in Pages, ServerKept, at[p] \in Calls, NEW withAmount \in BOOLEAN,
         Success(p, withAmount),
         row'[token[p]] # "NONE",
         withAmount /\ spender'[token[p]] # "foreign" => row'[token[p]] = "COMPLETED"
  PROVE  IInv'
<1>1. /\ OnlyPage(p) /\ at'[p] = "idle"
      /\ card[p] = "left" => card'[p] = "left"
      /\ card[p] # "left" => /\ card'[p] = "success" /\ token'[p] = token[p]
                             /\ amount'[p] = withAmount
  BY SuccessFacts
<1>2. token[p] \in Tokens
  BY DEF IInv, PagesInv, PageInv, Calls
<1>3. PageInv(p)' /\ Credit(p)'
  BY <1>1, <1>2 DEF PageInv, Credit
<1> QED BY <1>1, <1>3, StepInv

\* The token of a page whose flow waits for an answer.
LEMMA FlowToken ==
  ASSUME IInv, NEW p \in Pages, at[p] \in Calls
  PROVE  PageInv(p) /\ token[p] \in Tokens
BY DEF IInv, PagesInv, PageInv, Calls

\* The awaits that only ask: the token, the accounts, the mint, the user.
LEMMA AskSteps ==
  ASSUME IInv, NEW p \in Pages,
         MakeFlow(p) \/ FindAccount(p) \/ MintInfo(p) \/ AskUser(p) \/ CallFails(p)
  PROVE  IInv'
<1>1. ServerKept
  BY QuietServer DEF MakeFlow, FindAccount, MintInfo, AskUser, CallFails
<1>2. at[p] \in Calls
  BY DEF MakeFlow, FindAccount, MintInfo, AskUser, CallFails, Calls
<1>3. CASE MakeFlow(p) \/ FindAccount(p) \/ AskUser(p)
  <2>1. PICK next \in {"list", "create", "info", "add", "addGuest"} : Goes(p, next)
    BY <1>3 DEF MakeFlow, FindAccount, AskUser
  <2>2. next \in Awaits /\ next \notin {"swap", "restore", "store", "fail"}
    BY DEF Awaits, Calls
  <2> QED BY <1>1, <1>2, <2>1, <2>2, GoesStep
<1>4. CASE MintInfo(p) /\ card[p] # "left"
  <2>1. Show(p, "confirming", token[p], "confirm") /\ token[p] \in Tokens
    BY <1>2, <1>4, FlowToken DEF MintInfo
  <2>2. "confirming" \in Cards /\ "confirm" \in Awaits /\ token[p] \in Tokens \cup {None}
    BY <2>1 DEF Cards, Awaits
  <2>3. /\ OnlyPage(p) /\ card'[p] = "confirming" /\ token'[p] = token[p]
        /\ at'[p] = "confirm"
    BY <1>4, <2>1, <2>2, ShowFacts
  <2>4. PageInv(p)' /\ Credit(p)'
    BY <2>1, <2>3 DEF PageInv, Credit
  <2> QED BY <1>1, <2>3, <2>4, StepInv
<1>5. CASE CallFails(p) \/ (MintInfo(p) /\ card[p] = "left")
  BY <1>1, <1>5, ErrorStep DEF CallFails, MintInfo
<1> QED BY <1>3, <1>4, <1>5

\* The upsert inserts for a user who has no Spark account and, by the invariant,
\* no mint: the account it adds is the first.
LEMMA AddMintStep ==
  ASSUME IInv, NEW p \in Pages, AddMint(p)
  PROVE  IInv'
<1> DEFINE m == MintOf[token[p]]
<1>1. at[p] \in Calls
  BY DEF AddMint, Calls
<1>2. token[p] \in Tokens /\ m \in Mints
  BY <1>1, FlowToken, MintOfAssumption
<1>3. "create" \in Awaits /\ "create" \notin {"swap", "restore", "store", "fail"}
  BY DEF Awaits, Calls
<1>4. ServerKept
  <2>1. CASE ~HasAccounts /\ Insert(p, m)
    <3>1. spark = 0 /\ spark' = 1 /\ mints' = mints \cup {m} /\ UNCHANGED <<row, spender>>
      BY <2>1 DEF HasAccounts, Insert, IInv, TypeOK
    <3> QED BY <1>2, <3>1 DEF ServerKept, ServerTypeOK, OneSparkAccount, IInv, TypeOK
  <2>2. CASE UNCHANGED server
    BY <2>2, QuietServer
  <2> QED BY <2>1, <2>2 DEF AddMint
<1>5. Goes(p, "create") \/ Error(p)
  BY DEF AddMint, Answered
<1> QED BY <1>1, <1>3, <1>4, <1>5, GoesStep, ErrorStep

\* A row of which the page was told that it is there, or a new one.
LEMMA CreateStep ==
  ASSUME IInv, NEW p \in Pages, Create(p)
  PROVE  IInv'
<1>1. at[p] \in Calls
  BY DEF Create, Calls
<1>2. token[p] \in Tokens
  BY <1>1, FlowToken
<1>3. CASE Taken(token[p]) /\ Success(p, FALSE) /\ UNCHANGED server
  <2>1. ServerKept
    BY <1>3, QuietServer
  <2>2. row'[token[p]] # "NONE"
    BY <1>3 DEF Taken, server
  <2> QED BY <1>1, <1>3, <2>1, <2>2, SuccessStep
<1>4. CASE ~Taken(token[p]) /\ SetRow(token[p], "PENDING") /\ Answered(p, "swap")
  <2>1. ServerKept
    BY <1>2, <1>4 DEF Taken, SetRow, ServerKept, ServerTypeOK, OneSparkAccount, IInv, TypeOK
  <2>2. row'[token[p]] # "NONE"
    BY <1>2, <1>4 DEF SetRow, IInv, TypeOK
  <2>3. "swap" \in Awaits
    BY DEF Awaits, Calls
  <2>4. Goes(p, "swap") \/ Error(p)
    BY <1>4 DEF Answered
  <2> QED BY <1>1, <2>1, <2>2, <2>3, <2>4, GoesStep, ErrorStep
<1> QED BY <1>3, <1>4 DEF Create

\* The mint answers, or says that the token was spent; then it is asked whether
\* the outputs of the row are signed.
LEMMA SwapSteps ==
  ASSUME IInv, NEW p \in Pages, Swap(p) \/ Restore(p)
  PROVE  IInv'
<1>1. at[p] \in Calls /\ at[p] \in {"swap", "restore"}
  BY DEF Swap, Restore, Calls
<1>2. /\ token[p] \in Tokens /\ row[token[p]] # "NONE"
      /\ at[p] = "restore" => spender[token[p]] # "none"
  BY <1>1, FlowToken DEF PageInv
<1>3. "store" \in Awaits /\ "restore" \in Awaits /\ "fail" \in Awaits
  BY DEF Awaits, Calls
<1>4. CASE spender[token[p]] = "none" /\ Spend(token[p]) /\ Answered(p, "store")
  <2>1. ServerKept
    BY <1>2, <1>4 DEF Spend, ServerKept, ServerTypeOK, OneSparkAccount, IInv, TypeOK
  <2>2. row'[token[p]] # "NONE"
    BY <1>2, <1>4 DEF Spend
  <2>3. Goes(p, "store") \/ Error(p)
    BY <1>4 DEF Answered
  <2> QED BY <1>1, <1>3, <2>1, <2>2, <2>3, GoesStep, ErrorStep
<1>5. CASE spender[token[p]] # "none" /\ Goes(p, "restore") /\ UNCHANGED server
  <2>1. ServerKept /\ UNCHANGED <<row, spender>>
    BY <1>5, QuietServer DEF server
  <2> QED BY <1>1, <1>2, <1>3, <1>5, <2>1, GoesStep
<1>6. CASE Restore(p)
  <2>1. ServerKept /\ UNCHANGED <<row, spender>>
    BY <1>6, QuietServer DEF Restore, server
  <2>2. CASE spender[token[p]] = "own"
    <3>1. Goes(p, "store")
      BY <1>6, <2>2 DEF Restore, Restores
    <3> QED BY <1>1, <1>2, <1>3, <2>1, <3>1, GoesStep
  <2>3. CASE spender[token[p]] # "own"
    <3>1. Goes(p, "fail")
      BY <1>6, <2>3 DEF Restore, Restores
    <3>2. spender[token[p]] = "foreign"
      BY <1>2, <1>6, <2>3 DEF Restore, IInv, TypeOK
    <3> QED BY <1>1, <1>2, <1>3, <2>1, <3>1, <3>2, GoesStep
  <2> QED BY <2>2, <2>3
<1> QED BY <1>4, <1>5, <1>6 DEF Swap

\* The end of a claim.  A credit is not taken back: a row is failed only while it
\* is PENDING, or once more.
LEMMA EndSteps ==
  ASSUME IInv, NEW p \in Pages, Store(p) \/ Fail(p)
  PROVE  IInv'
<1>1. at[p] \in Calls
  BY DEF Store, Fail, Calls
<1>2. token[p] \in Tokens /\ PageInv(p)
  BY <1>1, FlowToken
<1>3. PICK s \in {"COMPLETED", "FAILED"} :
         /\ SetRow(token[p], s)
         /\ s = "FAILED" => /\ row[token[p]] \in {"PENDING", "FAILED"}
                            /\ spender[token[p]] = "foreign"
  BY <1>2 DEF Store, Fail, PageInv
<1>4. ServerKept
  BY <1>2, <1>3 DEF SetRow, ServerKept, ServerTypeOK, OneSparkAccount, IInv, TypeOK
<1>5. /\ row'[token[p]] # "NONE"
      /\ spender'[token[p]] # "foreign" => row'[token[p]] = "COMPLETED"
  BY <1>2, <1>3 DEF SetRow, IInv, TypeOK
<1>6. Success(p, TRUE) \/ Error(p)
  BY DEF Store, Fail
<1> QED BY <1>1, <1>4, <1>5, <1>6, SuccessStep, ErrorStep

LEMMA FlowSteps ==
  ASSUME IInv, NEW p \in Pages, FlowStep(p)
  PROVE  IInv'
BY AskSteps, AddMintStep, CreateStep, SwapSteps, EndSteps DEF FlowStep

-----------------------------------------------------------------------------
(* The sweep and the other wallets.                                        *)

\* What the server does by itself leaves the pages right.
LEMMA ServerStep ==
  ASSUME IInv, UNCHANGED page, ServerKept
  PROVE  IInv'
<1>1. TypeOK'
  BY DEF ServerKept, ServerTypeOK, TypeOK, page, IInv
<1>2. ASSUME NEW q \in Pages PROVE PageInv(q)' /\ Credit(q)'
  <2>1. UNCHANGED <<card, token, amount, at>> /\ PageInv(q) /\ Credit(q)
    BY DEF page, IInv, PagesInv, SuccessIsCredit, Credit
  <2>2. ASSUME token[q] \in Tokens
        PROVE  /\ row[token[q]] # "NONE" => row'[token[q]] # "NONE"
               /\ row[token[q]] = "COMPLETED" => row'[token[q]] = "COMPLETED"
               /\ spender[token[q]] # "none" => spender'[token[q]] = spender[token[q]]
    BY <2>2 DEF ServerKept
  <2> QED BY <2>1, <2>2 DEF PageInv, Credit
<1>3. PagesInv' /\ SuccessIsCredit'
  BY <1>2 DEF PagesInv, SuccessIsCredit, Credit
<1> QED BY <1>1, <1>3 DEF IInv, ServerKept

LEMMA ServerSteps ==
  ASSUME IInv, NEW t \in Tokens, Sweep(t) \/ SweepStops(t) \/ ClaimElsewhere(t)
  PROVE  IInv'
<1>1. UNCHANGED page
  BY DEF Sweep, SweepStops, ClaimElsewhere
<1>2. ServerKept
  BY DEF Sweep, SweepStops, ClaimElsewhere, Spend, ServerKept, ServerTypeOK,
         OneSparkAccount, IInv, TypeOK
<1> QED BY <1>1, <1>2, ServerStep

-----------------------------------------------------------------------------
(* The theorems.                                                           *)

LEMMA InitInv == Init => IInv
<1> SUFFICES ASSUME Init PROVE IInv
  OBVIOUS
<1>1. TypeOK
  BY DEF Init, TypeOK, Calls
<1>2. OneSparkAccount
  BY DEF Init, OneSparkAccount
<1>3. PagesInv /\ SuccessIsCredit
  BY DEF Init, PagesInv, PageInv, SuccessIsCredit
<1> QED BY <1>1, <1>2, <1>3 DEF IInv

LEMMA NextInv == IInv /\ [Next]_vars => IInv'
<1> SUFFICES ASSUME IInv, [Next]_vars PROVE IInv'
  OBVIOUS
<1>1. CASE Next
  BY <1>1, PageSteps, FlowSteps, ServerSteps DEF Next
<1>2. CASE UNCHANGED vars
  BY <1>2, QuietServer, ServerStep DEF vars
<1> QED BY <1>1, <1>2

\* What every page claims, and what it says of its token, is true of the rows and
\* of the mint in every state, for any pages, tokens and mints.
THEOREM Invariance == Spec => []IInv
BY InitInv, NextInv, PTL DEF Spec

\* The pages, the rows and the accounts have their types in every state.
THEOREM TypeCorrect == Spec => []TypeOK
<1>1. IInv => TypeOK
  BY DEF IInv
<1> QED BY Invariance, <1>1, PTL

\* However many pages add a mint for the same guest at once, and whichever answers
\* are lost, the upserts (upsert_user_with_accounts) leave one Spark account at
\* most, and one as soon as there is a Cashu account.
THEOREM SparkAccountIsOne == Spec => []OneSparkAccount
<1>1. IInv => OneSparkAccount
  BY DEF IInv
<1> QED BY Invariance, <1>1, PTL

\* The success card (render_flow_state) never speaks of a token of which no claim
\* is recorded, and never of proofs that were not added, unless another wallet has
\* spent the token; also not later, when other pages and sweeps have gone on.
THEOREM SuccessIsTrue == Spec => []SuccessIsCredit
<1>1. IInv => SuccessIsCredit
  BY DEF IInv
<1> QED BY Invariance, <1>1, PTL

=============================================================================
