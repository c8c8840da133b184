---------------------------- MODULE SignedInReads ---------------------------
(***************************************************************************)
(* Reads of the wallet's accounts while users sign in and out: the session *)
(* decides whose rows a read lists and whose channel is joined, and the    *)
(* cache outlives the session.                                             *)
(***************************************************************************)
EXTENDS WalletCache

vars == <<authVars, cacheVars>>

TypeOK == AuthTypeOK /\ CacheTypeOK

Init == AuthInit /\ CacheInit

Auth ==
  \/ (LoadBlob \/ AuthReply \/ \E u \in Users : SignIn(u)) /\ UNCHANGED cacheVars
  \/ SignOut /\ StopPump                   \* the shell ends the subscription first
  \/ Kill /\ Forget

\* The shell subscribes once it has a session; the supervisor joins and drops.
Realtime ==
  /\ \/ call = "idle" /\ StartPump
     \/ call = "idle" /\ JoinTopic
     \/ LeaveTopic
     \/ Overflow
     \/ \E u \in Users, version \in Versions : ApplyChange(u, version)
  /\ UNCHANGED authVars

Reads == (\E r \in Readers : ReaderStep(r)) /\ UNCHANGED authVars

Changes == (\E u \in Users : Commit(u)) /\ UNCHANGED authVars

Next == Auth \/ Realtime \/ Reads \/ Changes

Spec == Init /\ [][Next]_vars

=============================================================================
