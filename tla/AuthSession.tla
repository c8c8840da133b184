---------------------------- MODULE AuthSession ----------------------------
(***************************************************************************)
(* The session of the Android shell: the slot every call of the facade     *)
(* reads, the tokens of the auth client, and the encrypted blob that a     *)
(* launch restores. The shell makes one auth call at a time and waits for  *)
(* it; the app can be killed at any step.                                  *)
(*                                                                         *)
(* A definition marked (mutant) is not part of the model: it is what a     *)
(* plausible bug would make of the definition that follows it.             *)
(***************************************************************************)
CONSTANTS
  Users,
  None

ASSUME NoneAssumption == None \notin Users

VARIABLES
  slot,            \* user of the in-memory session, shared by the facade and the shell
  tokens,          \* user whose tokens the auth client holds
  disk,            \* user of the stored blob
  call,            \* the auth call under way and where it is
  caller,          \* the user it is about
  fault            \* history: the blob was left as it was, by an error or a time-out

authVars == <<slot, tokens, disk, call, caller, fault>>

Nobody == Users \cup {None}
Calls == {"launched", "restoring", "discarding", "idle", "signingIn", "storing", "leaving", "clearing"}

AuthTypeOK ==
  /\ {slot, tokens, disk, caller} \subseteq Nobody
  /\ call \in Calls
  /\ fault \in BOOLEAN

AuthInit ==
  /\ slot = None /\ tokens = None /\ disk = None
  /\ call = "launched" /\ caller = None /\ fault = FALSE

Reply(outcome) == call' = outcome /\ caller' = None

-----------------------------------------------------------------------------
(* Launch: restore what is stored *)

\* No blob, or one that cannot be read, which is left where it is.
LoadBlob ==
  /\ call = "launched"
  /\ \/ disk = None /\ Reply("idle") /\ fault' = FALSE
     \/ disk # None /\ Reply("idle") /\ fault' = TRUE
     \/ disk # None /\ call' = "restoring" /\ caller' = disk /\ UNCHANGED fault
  /\ UNCHANGED <<slot, tokens, disk>>

\* The stored token is given to the client, which refreshes it; only then is the
\* slot set and the blob written again.
Restored ==
  /\ call = "restoring"
  /\ tokens' = caller /\ slot' = caller
  /\ Reply("idle")
  /\ fault' = FALSE
  /\ UNCHANGED disk

\* (mutant)
RestoreFailsLate ==
  /\ call = "restoring"
  /\ tokens' \in {tokens, caller}
  /\ slot' = caller
  /\ call' = "discarding"
  /\ UNCHANGED <<disk, caller, fault>>

\* Any error of the handshake or the refresh, a dead token or a dead network.
RestoreFails ==
  /\ call = "restoring"
  /\ tokens' \in {tokens, caller}
  /\ slot' = None
  /\ call' = "discarding"
  /\ UNCHANGED <<disk, caller, fault>>

RestoreTimesOut ==
  /\ call = "restoring"
  /\ tokens' \in {tokens, caller}
  /\ Reply("idle")
  /\ fault' = TRUE
  /\ UNCHANGED <<slot, disk>>

\* storage.clear(), whose errors are swallowed.
ClearBlob ==
  /\ call \in {"discarding", "clearing"}
  /\ Reply("idle")
  /\ \/ disk' = None /\ fault' = FALSE
     \/ UNCHANGED disk /\ fault' = (disk # None)
  /\ UNCHANGED <<slot, tokens>>

-----------------------------------------------------------------------------
(* Sign-in: guest, e-mail login and sign-up differ in the request only *)

SignIn(u) ==
  /\ call = "idle" /\ slot = None
  /\ call' = "signingIn" /\ caller' = u
  /\ UNCHANGED <<slot, tokens, disk, fault>>

SignedIn ==
  /\ call = "signingIn"
  /\ tokens' = caller /\ slot' = caller
  /\ call' = "storing"
  /\ UNCHANGED <<disk, caller, fault>>

\* An error or the time-out: nothing is set.
SignInFails ==
  /\ call = "signingIn"
  /\ Reply("idle")
  /\ UNCHANGED <<slot, tokens, disk, fault>>

\* (mutant)
StoreBlobOnce ==
  /\ call = "storing"
  /\ Reply("idle")
  /\ disk' = IF disk = None THEN slot ELSE disk
  /\ fault' = FALSE
  /\ UNCHANGED <<slot, tokens>>

\* storage.store(), whose errors are swallowed.
StoreBlob ==
  /\ call = "storing"
  /\ Reply("idle")
  /\ \/ disk' = slot /\ fault' = FALSE
     \/ UNCHANGED disk /\ fault' = TRUE
  /\ UNCHANGED <<slot, tokens>>

-----------------------------------------------------------------------------
(* Sign-out and the end of the process *)

\* The server is told first, with the slot still set.
SignOut ==
  /\ call = "idle" /\ slot # None
  /\ call' = "leaving" /\ caller' = slot
  /\ UNCHANGED <<slot, tokens, disk, fault>>

SignedOut ==
  /\ call = "leaving"
  /\ tokens' \in {tokens, None}             \* an error of the server leaves them
  /\ slot' = None
  /\ call' = "clearing"
  /\ UNCHANGED <<disk, caller, fault>>

Kill ==
  /\ slot' = None /\ tokens' = None
  /\ Reply("launched")
  /\ UNCHANGED <<disk, fault>>

AuthReply ==
  Restored \/ RestoreFails \/ RestoreTimesOut \/ ClearBlob
  \/ SignedIn \/ SignInFails \/ StoreBlob \/ SignedOut

-----------------------------------------------------------------------------

(* Between calls, the next launch finds the session the user has now: the one  *)
(* signed in, or none after a sign-out. The exceptions are a storage that      *)
(* failed, whose errors are swallowed, and a restore that timed out, which     *)
(* keeps the blob for the next launch.                                         *)
RestartKeepsSession ==
  call = "idle" /\ ~fault => disk = slot

(* Requests run as the user of the session: the tokens the storage's requests  *)
(* take are those of the user in the slot, through restores that fail half     *)
(* way, time-outs and sign-outs the server refuses.                            *)
TokensAreTheSessions ==
  slot # None => tokens = slot
=============================================================================
