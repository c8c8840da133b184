----------------------------- MODULE SendScreen -----------------------------
(***************************************************************************)
(* The send page of the web shell: its cards, the calls they make, and the *)
(* polls that wait for the receiver, together with the sessions, routes    *)
(* and bring-ups of WebWallet.  Every call of the page builds a wallet of  *)
(* its own from the session that is stored at that moment.                 *)
(*                                                                         *)
(* A poll does not stop when its card is left, and then tells of an        *)
(* earlier send.  When the page itself is left, nothing that it started    *)
(* can be seen any more, and it is left out.  Whether a receiver has spent *)
(* a token is open at each poll.                                           *)
(*                                                                         *)
(* A definition marked (mutant) is not part of the model: it is what a     *)
(* plausible bug would make of the definition that follows it.             *)
(***************************************************************************)
EXTENDS WebWallet, FiniteSets, Bags

CONSTANT MaxRequests       \* bound: calls, bring-ups and sign-outs under way
                           \* when a call begins, with it

ASSUME MaxRequestsAssumption == MaxRequests \in Nat \ {0}

VARIABLES
  card,                    \* the card on the page
  calls,                   \* bag of the quotes and sends under way, and as whom
  payer,                   \* whose proofs the token on the card is made of
  poll,                    \* its poll, which asks as the payer or somebody else
  earlier                  \* polls of earlier tokens are still asking

send == <<card, calls, payer, poll, earlier>>
all == <<vars, send>>

\* A call for the user u, nobody when there is no session.  Whose quote it is
\* makes no difference.
Call(kind, u) ==
  IF u = None THEN [kind |-> "refused", as |-> None]
  ELSE [kind |-> kind, as |-> IF kind = "create" THEN u ELSE None]
Asks == {"asPayer", "asOther"}

ScreenTypeOK ==
  /\ card \in {"none", "amount", "quoting", "confirming", "swapping",
               "share", "claimed", "failure"}
  /\ IsABag(calls)
  /\ BagToSet(calls) \subseteq [kind : {"refused", "quote", "create"}, as : Nobody]
  /\ payer \in Nobody
  /\ poll \in Asks \cup {"off", "timer"}
  /\ earlier \in BOOLEAN

ScreenInit ==
  /\ Init
  /\ card = "none" /\ calls = EmptyBag
  /\ payer = None /\ poll = "off" /\ earlier = FALSE

\* The signals of a view that has just been made, or of none.
View(c) ==
  /\ card' = c /\ calls' = EmptyBag
  /\ payer' = None /\ poll' = "off" /\ earlier' = FALSE

\* The view is made when its route is entered, and goes when it is left.
Mounts ==
  IF page' = page THEN UNCHANGED send
  ELSE View(IF page' = "send" THEN "amount" ELSE "none")

\* Another tab of the page and back.
Remount == page = "send" /\ View("amount") /\ UNCHANGED vars

-----------------------------------------------------------------------------
(* Cards and calls *)

\* A card without a token.  The poll of the token that was on the card goes on
\* when it is asking; a timer finds another card and ends.
Turn(c) ==
  /\ card' = c
  /\ payer' = None /\ poll' = "off"
  /\ earlier' = (earlier \/ poll \in Asks)

\* seed_wasm_wallet reads the session that is stored now.  A call is still under
\* way when the card of an earlier token has taken the place of its spinner.
Begin(kind, c) ==
  /\ Turn(c)
  /\ BagCardinality(calls) + Cardinality(UnderWay) + leaving < MaxRequests  \* bound
  /\ calls' = calls (+) SetToBag({Call(kind, disk)})
  /\ UNCHANGED vars

Continue == card = "amount" /\ Begin("quote", "quoting")

Confirm == card = "confirming" /\ Begin("create", "swapping")

\* Cancel, Done, Try again and Dismiss go back to the amount.
Back ==
  /\ card \in {"confirming", "share", "claimed", "failure"}
  /\ Turn("amount")
  /\ UNCHANGED <<calls, vars>>

Ends(c) == calls' = calls (-) SetToBag({c}) /\ UNCHANGED vars

\* A call shows its answer whatever the card has become meanwhile.  A wallet
\* without a session, or whose session is not taken, gives an error.
CallFails(c) == Ends(c) /\ Turn("failure")

Quoted(c) == c.kind = "quote" /\ Ends(c) /\ Turn("confirming")

\* create_send_swap.  The effect that watches the card starts a poll loop.
Created(c) ==
  /\ c.kind = "create" /\ Ends(c)
  /\ card' = "share" /\ payer' = c.as /\ poll' = "timer"
  /\ earlier' = (earlier \/ poll \in Asks)

-----------------------------------------------------------------------------
(* Polls *)

\* Every three seconds.
Tick ==
  /\ poll = "timer"
  /\ poll' = IF disk = payer THEN "asPayer" ELSE "asOther"
  /\ UNCHANGED <<card, calls, payer, earlier, vars>>

\* (mutant)
FailureCard == Turn("failure")

\* Not claimed, not to be read by this user, or an error, which is taken for
\* "not yet".
KeepCard == poll' = "timer" /\ UNCHANGED <<card, payer, earlier>>

NotYet ==
  /\ poll \in Asks
  /\ KeepCard
  /\ UNCHANGED <<calls, vars>>

\* check_send_token_claimed, which only the payer's session may ask.
SeenClaimed ==
  /\ poll = "asPayer"
  /\ card' = "claimed" /\ payer' = None /\ poll' = "off"
  /\ UNCHANGED <<calls, earlier, vars>>

\* An earlier token has not been claimed: its loop ends at the next timer. Another
\* one may still be asking.
EarlierNotYet ==
  /\ earlier
  /\ earlier' \in BOOLEAN
  /\ UNCHANGED <<card, calls, payer, poll, vars>>

\* It has.  What the card shows now is not looked at.
EarlierClaimed ==
  /\ earlier
  /\ card' = "claimed" /\ payer' = None /\ poll' = "off"
  /\ earlier' \in BOOLEAN /\ (poll \in Asks => earlier')
  /\ UNCHANGED <<calls, vars>>

-----------------------------------------------------------------------------

CallEnds == \E c \in BagToSet(calls) : CallFails(c) \/ Quoted(c) \/ Created(c)

SendStep ==
  \/ Remount \/ Continue \/ Confirm \/ Back \/ CallEnds
  \/ Tick \/ NotYet \/ SeenClaimed \/ EarlierNotYet \/ EarlierClaimed

ScreenNext == (Next /\ Mounts) \/ SendStep

ScreenSpec ==
  ScreenInit /\ [][ScreenNext]_all /\ Fairness

-----------------------------------------------------------------------------

(* A token that is shared was made of the proofs of the user who is signed in, *)
(* although each call takes the session from the storage anew, unless          *)
(* something outlived its session.                                             *)
SentIsOwn ==
  card = "share" /\ token # None => payer = token \/ outlived

(* What is on screen, accounts or a token, is the signed-in user's.            *)
ScreenIsOwn == ShownIsOwn /\ SentIsOwn

(* The card with a token, the only place of the shell that shows it, goes only *)
(* when the user leaves it, when a receiver has claimed the token itself or an *)
(* earlier one whose poll was asking when its card was left, or when a call    *)
(* answers that was begun before and lost its spinner to such a claim.         *)
TokenStaysShown ==
  [][card = "share" /\ card' # "share" =>
       \/ card' \in {"none", "amount"}
       \/ card' = "claimed" /\ (poll = "asPayer" \/ earlier)
       \/ calls # EmptyBag]_all

=============================================================================
