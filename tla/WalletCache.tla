---------------------------- MODULE WalletCache ----------------------------
(***************************************************************************)
(* The wallet's cache of accounts and balances: filled from storage by the *)
(* first read, then kept current by the changes the realtime channel       *)
(* brings. Every user has one account; its version grows with each change  *)
(* of the account or of its proofs, so a version also stands for a balance.*)
(* The other tables are cached the same way.                               *)
(*                                                                         *)
(* A definition marked (mutant) is not part of the model: it is what a     *)
(* plausible bug would make of the definition that follows it.             *)
(***************************************************************************)
EXTENDS AuthSession, Naturals

CONSTANTS
  Readers,                 \* concurrent calls of WalletClient::accounts
  MaxVersion               \* bound on the versions, and on those of two accounts together

ASSUME MaxVersionAssumption == MaxVersion \in Nat \ {0}

VARIABLES
  db,                      \* version of each account in storage
  topic,                   \* user whose channel is joined
  pump,                    \* the loop that applies changes: "off", "on", or "ended"
  changes,                 \* changes broadcast and not yet applied, in no order
  row,                     \* version of each cached account, 0 when not cached
  populated,
  memo,                    \* version whose balance is cached, 0 for none
  reader,                  \* what each reader is doing
  filledFor,               \* history: the user whose rows populate listed
  unheard,                 \* history: accounts whose latest change will not be applied
  overtaken                \* history: accounts whose row or balance was read before a
                           \* change and written after it, or read as another user

history == <<filledFor, unheard, overtaken>>
cacheVars == <<db, topic, pump, changes, row, populated, memo, reader, history>>

Versions == 0..MaxVersion
Idle == [at |-> "idle", as |-> None, of |-> None, got |-> 0, crossed |-> FALSE]
Activities == {"idle", "waiting", "listing", "listed", "reading", "summing", "summed"}

CacheTypeOK ==
  /\ {db, row, memo} \subseteq [Users -> Versions]
  /\ topic \in Nobody
  /\ pump \in {"off", "on", "ended"}
  /\ populated \in BOOLEAN
  /\ changes \subseteq Users \X Versions
  /\ reader \in [Readers -> [at : Activities, as : Nobody, of : Nobody,
                             got : Versions, crossed : BOOLEAN]]
  /\ filledFor \in Nobody
  /\ unheard \subseteq Users /\ overtaken \subseteq Users

CacheInit ==
  /\ db = [u \in Users |-> 1]
  /\ topic = None /\ pump = "off" /\ changes = {}
  /\ row = [u \in Users |-> 0] /\ populated = FALSE /\ memo = [u \in Users |-> 0]
  /\ reader = [r \in Readers |-> Idle]
  /\ filledFor = None /\ unheard = {} /\ overtaken = {}

-----------------------------------------------------------------------------
(* The channel and the pump *)

\* The accounts whose latest change is among those lost.
Losing(lost) == {u \in Users : <<u, db[u]>> \in lost}

Commit(u) ==
  /\ db[u] < MaxVersion
  /\ \A v \in Users \ {u} : db[u] + db[v] <= MaxVersion          \* bound
  /\ db' = [db EXCEPT ![u] = @ + 1]
  /\ IF topic = u /\ pump = "on"
     THEN /\ changes' = changes \cup {<<u, db[u] + 1>>}
          /\ unheard' = unheard \ {u}
          /\ overtaken' = overtaken \ {u}
     ELSE /\ unheard' = unheard \cup {u}
          /\ UNCHANGED <<changes, overtaken>>
  /\ UNCHANGED <<topic, pump, row, populated, memo, reader, filledFor>>

StartPump ==
  /\ slot # None /\ pump = "off"
  /\ pump' = "on"
  /\ UNCHANGED <<db, topic, changes, row, populated, memo, reader, history>>

StopPump ==
  /\ pump' = "off" /\ topic' = None
  /\ changes' = {}
  /\ unheard' = unheard \cup Losing(changes)
  /\ UNCHANGED <<db, row, populated, memo, reader, filledFor, overtaken>>

\* A join brings the signal Connected and no rows; what was committed before it
\* is not sent again.
JoinTopic ==
  /\ pump # "off" /\ topic = None
  /\ topic' = slot
  /\ UNCHANGED <<db, pump, changes, row, populated, memo, reader, history>>

LeaveTopic ==
  /\ topic # None
  /\ topic' = None
  /\ UNCHANGED <<db, pump, changes, row, populated, memo, reader, history>>

\* The pump falls behind the channel's capacity: its loop ends at the first error
\* of its receiver, and the report of lost messages is one.
Overflow ==
  /\ changes # {}
  /\ pump' = "ended"
  /\ changes' = {}
  /\ unheard' = unheard \cup Losing(changes)
  /\ UNCHANGED <<db, topic, row, populated, memo, reader, filledFor, overtaken>>

\* (mutant)
Different(u, version) == version # row[u]

\* upsert_versioned: only a greater version replaces a row.
Newer(u, version) == version > row[u]

\* (mutant)
ApplyRowOnly(u, version) ==
  /\ <<u, version>> \in changes
  /\ changes' = changes \ {<<u, version>>}
  /\ row' = [row EXCEPT ![u] = IF Newer(u, version) THEN version ELSE @]
  /\ UNCHANGED <<db, topic, pump, populated, memo, reader, history>>

\* apply_change, for an account or a row that touches its proofs.
ApplyChange(u, version) ==
  /\ <<u, version>> \in changes
  /\ changes' = changes \ {<<u, version>>}
  /\ IF Newer(u, version)
     THEN /\ row' = [row EXCEPT ![u] = version]
          /\ memo' = [memo EXCEPT ![u] = 0]
     ELSE UNCHANGED <<row, memo>>
  /\ UNCHANGED <<db, topic, pump, populated, reader, history>>

-----------------------------------------------------------------------------
(* A read: accounts_or_populate, then one balance *)

Become(r, activity) == reader' = [reader EXCEPT ![r].at = activity]
Unlocked == \A r \in Readers : reader[r].at \notin {"listing", "listed"}
Cached == {u \in Users : row[u] # 0}

\* require_session; the read does not look at the session again.
StartRead(r) ==
  /\ reader[r].at = "idle" /\ slot # None
  /\ reader' = [reader EXCEPT ![r] = [Idle EXCEPT !.at = IF populated THEN "reading" ELSE "waiting",
                                                  !.as = slot]]
  /\ UNCHANGED <<db, topic, pump, changes, row, populated, memo, history>>

\* The mutex of InFlightGuard, then the second look at the flag.
Enter(r) ==
  /\ reader[r].at = "waiting" /\ Unlocked
  /\ Become(r, IF populated THEN "reading" ELSE "listing")
  /\ UNCHANGED <<db, topic, pump, changes, row, populated, memo, history>>

\* list_accounts filters by the caller; storage shows what the tokens' user may see.
List(r) ==
  /\ reader[r].at = "listing"
  /\ reader' = [reader EXCEPT ![r].at = "listed", ![r].crossed = tokens # reader[r].as,
                              ![r].got = IF tokens = reader[r].as THEN db[tokens] ELSE 0]
  /\ UNCHANGED <<db, topic, pump, changes, row, populated, memo, history>>

\* populate_accounts inserts what it listed over whatever is there.
Insert(r) ==
  LET u == reader[r].as
      got == reader[r].got
  IN  /\ reader[r].at = "listed"
      /\ row' = IF got = 0 THEN row ELSE [row EXCEPT ![u] = got]
      /\ populated' = TRUE
      /\ Become(r, "reading")
      /\ filledFor' = u
      /\ overtaken' = IF got < row[u] \/ reader[r].crossed THEN overtaken \cup {u} ELSE overtaken
      /\ unheard' = IF got = db[u] THEN unheard \ {u} ELSE unheard
      /\ UNCHANGED <<db, topic, pump, changes, memo>>

\* An error of storage, or the end of a read whose balances are all cached.
EndRead(r) ==
  /\ \/ reader[r].at \in {"listing", "summing"}
     \/ reader[r].at = "reading" /\ \A u \in Cached : memo[u] # 0
  /\ reader' = [reader EXCEPT ![r] = Idle]
  /\ UNCHANGED <<db, topic, pump, changes, row, populated, memo, history>>

\* Every cached account is listed, whoever's it is.
PickAccount(r, u) ==
  /\ reader[r].at = "reading" /\ u \in Cached /\ memo[u] = 0
  /\ reader' = [reader EXCEPT ![r].at = "summing", ![r].of = u]
  /\ UNCHANGED <<db, topic, pump, changes, row, populated, memo, history>>

\* compute_cashu_balance
SumProofs(r) ==
  LET u == reader[r].of
  IN  /\ reader[r].at = "summing"
      /\ reader' = [reader EXCEPT ![r].at = "summed", ![r].crossed = tokens # u,
                                  ![r].got = IF tokens = u THEN db[u] ELSE 1]
      /\ UNCHANGED <<db, topic, pump, changes, row, populated, memo, history>>

\* put_account_balance
PutBalance(r) ==
  LET u == reader[r].of
      late == reader[r].got < row[u] \/ reader[r].crossed
  IN  /\ reader[r].at = "summed"
      /\ memo' = [memo EXCEPT ![u] = reader[r].got]
      /\ overtaken' = IF late THEN overtaken \cup {u} ELSE overtaken
      /\ reader' = [reader EXCEPT ![r] = Idle]
      /\ UNCHANGED <<db, topic, pump, changes, row, populated, filledFor, unheard>>

ReaderStep(r) ==
  \/ StartRead(r) \/ Enter(r) \/ List(r) \/ Insert(r) \/ EndRead(r)
  \/ (\E u \in Users : PickAccount(r, u)) \/ SumProofs(r) \/ PutBalance(r)

\* The end of the process takes the cache and its readers with it.
Forget ==
  /\ row' = [u \in Users |-> 0] /\ populated' = FALSE /\ memo' = [u \in Users |-> 0]
  /\ reader' = [r \in Readers |-> Idle]
  /\ topic' = None /\ pump' = "off" /\ changes' = {}
  /\ filledFor' = None /\ unheard' = {} /\ overtaken' = {}
  /\ UNCHANGED db

-----------------------------------------------------------------------------

Due(u) == <<u, db[u]>> \in changes

(* A cached account is older than the stored one only while the change is on   *)
(* its way, or because nobody heard of it (no join, a pump that stopped), or   *)
(* because populate wrote an older row over a newer one.                       *)
RowsStaleOnlyByGap ==
  \A u \in Users : populated /\ filledFor = u /\ row[u] < db[u] =>
                      Due(u) \/ u \in unheard \/ u \in overtaken

(* A cached balance is older than the proofs only while the change that        *)
(* invalidates it is on its way or was not heard of, or because a balance was  *)
(* summed before a change and stored after it was applied.                     *)
BalanceStaleOnlyByRace ==
  \A u \in Users : memo[u] # 0 /\ memo[u] < db[u] =>
                      Due(u) \/ u \in unheard \/ u \in overtaken

(* What a read finds in the cache is older than the storage only for one of    *)
(* these reasons.                                                              *)
CacheStaleOnlyByRace == RowsStaleOnlyByGap /\ BalanceStaleOnlyByRace
=============================================================================
