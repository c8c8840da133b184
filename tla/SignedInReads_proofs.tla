----------------------- MODULE SignedInReads_proofs ----------------------
(***************************************************************************)
(* Proofs about SignedInReads, for any set of users and readers and any    *)
(* bound on the versions: the session of the shell, and what the cache of  *)
(* accounts and balances may miss.                                         *)
(***************************************************************************)
EXTENDS SignedInReads, TLAPS

-----------------------------------------------------------------------------
(* The inductive invariant.                                                *)

\* What each auth call leaves between its steps.
AuthInv ==
  /\ call \in {"launched", "restoring", "discarding", "signingIn", "clearing"} => slot = None
  /\ call = "restoring" => caller = disk
  /\ call = "signingIn" /\ ~fault => disk = None
  /\ RestartKeepsSession
  /\ TokensAreTheSessions

\* Nothing in the cache, and no change on its way, is ahead of the storage.
NotAhead ==
  /\ \A u \in Users : db[u] >= 1 /\ row[u] <= db[u]
  /\ \A u \in Users, version \in Versions : <<u, version>> \in changes => version <= db[u]

\* The flag is set by the insert of the one reader that lists; balances are
\* computed after it.
Listing(r) == reader[r].at \in {"listing", "listed"}
Beyond(r) == reader[r].at \in {"reading", "summing", "summed"}

PopulatedOnce ==
  /\ \A r \in Readers : (Listing(r) => ~populated) /\ (Beyond(r) => populated)
  /\ \A r, q \in Readers : Listing(r) /\ Listing(q) => r = q
  /\ \A u \in Users : memo[u] # 0 => populated

\* A version read of an account is the latest, unless one is on its way, was not
\* heard of, or has been applied already, which the write then finds.
Missed(u) == Due(u) \/ u \in unheard \/ u \in overtaken
Accounted(u, version) == version < db[u] => Missed(u) \/ version < row[u]

Knows(me) ==
  /\ me.at # "idle" => me.as \in Users
  /\ me.at \in {"summing", "summed"} => me.of \in Users
  /\ me.at = "listed" =>
       /\ me.got <= db[me.as]
       /\ me.crossed \/ (me.got # 0 /\ Accounted(me.as, me.got))
  /\ me.at = "summed" => me.crossed \/ Accounted(me.of, me.got)

ReadersKnow == \A r \in Readers : Knows(reader[r])

\* A cached balance is behind its row only if it was stored late, until the
\* account changes again.
BalanceBehindRow ==
  \A u \in Users : memo[u] # 0 /\ memo[u] < row[u] => u \in overtaken \/ row[u] < db[u]

CacheInv ==
  /\ NotAhead
  /\ PopulatedOnce
  /\ ReadersKnow
  /\ BalanceBehindRow
  /\ CacheStaleOnlyByRace

IInv == TypeOK /\ AuthInv /\ CacheInv

-----------------------------------------------------------------------------
(* The session.                                                            *)

AuthStep ==
  LoadBlob \/ AuthReply \/ (\E u \in Users : SignIn(u)) \/ SignOut \/ Kill

LEMMA AuthSteps ==
  ASSUME AuthTypeOK, AuthInv, AuthStep
  PROVE  AuthTypeOK' /\ AuthInv'
<1> USE NoneAssumption DEF AuthTypeOK, Nobody, Calls, Reply
<1>1. CASE LoadBlob
  BY <1>1 DEF LoadBlob, AuthInv, RestartKeepsSession, TokensAreTheSessions
<1>2. CASE Restored \/ RestoreFails \/ RestoreTimesOut
  BY <1>2 DEF Restored, RestoreFails, RestoreTimesOut, AuthInv, RestartKeepsSession,
              TokensAreTheSessions
<1>3. CASE ClearBlob
  BY <1>3 DEF ClearBlob, AuthInv, RestartKeepsSession, TokensAreTheSessions
<1>4. CASE SignedIn \/ SignInFails \/ StoreBlob
  BY <1>4 DEF SignedIn, SignInFails, StoreBlob, AuthInv, RestartKeepsSession,
              TokensAreTheSessions
<1>5. CASE SignOut \/ SignedOut \/ Kill
  BY <1>5 DEF SignOut, SignedOut, Kill, AuthInv, RestartKeepsSession, TokensAreTheSessions
<1>6. ASSUME NEW u \in Users, SignIn(u) PROVE AuthTypeOK' /\ AuthInv'
  BY <1>6 DEF SignIn, AuthInv, RestartKeepsSession, TokensAreTheSessions
<1> QED BY <1>1, <1>2, <1>3, <1>4, <1>5, <1>6 DEF AuthStep, AuthReply

LEMMA AuthIdle ==
  ASSUME AuthTypeOK, AuthInv, UNCHANGED authVars
  PROVE  AuthTypeOK' /\ AuthInv'
BY DEF authVars, AuthTypeOK, AuthInv, RestartKeepsSession, TokensAreTheSessions

-----------------------------------------------------------------------------
(* The storage and the channel, while the cache stands still.              *)

\* Readers that do nothing still know what they knew.
LEMMA ReadersStand ==
  ASSUME CacheTypeOK, ReadersKnow, UNCHANGED reader,
         \A u \in Users : db[u] \in Nat /\ db'[u] \in Nat /\ db'[u] >= db[u],
         \A u \in Users, version \in Nat : Accounted(u, version) => Accounted(u, version)'
  PROVE  ReadersKnow'
<1>1. \A u \in Users : db[u] \in Nat /\ db'[u] \in Nat /\ db'[u] >= db[u]
  OBVIOUS
<1>2. ASSUME NEW u \in Users, NEW version \in Nat, Accounted(u, version)
      PROVE  Accounted(u, version)'
  BY <1>2
<1>3. ASSUME NEW r \in Readers PROVE Knows(reader[r])'
  <2>1. PICK me : me = reader[r] /\ me = reader'[r]
    OBVIOUS
  <2>2. me.at \in Activities /\ me.got \in Nat /\ me.crossed \in BOOLEAN
    BY <2>1, MaxVersionAssumption DEF CacheTypeOK, Versions
  <2>3. Knows(me)
    BY <2>1 DEF ReadersKnow
  <2>4. me.at = "listed" => me.as \in Users /\ me.got <= db[me.as]
    BY <2>3 DEF Knows
  <2>5. me.at = "listed" => me.got <= db'[me.as]
    BY <1>1, <2>2, <2>4
  <2>6. Knows(me)'
    BY <1>2, <2>2, <2>3, <2>5 DEF Knows
  <2> QED BY <2>1, <2>6 DEF Knows, Accounted
<1> QED BY <1>3 DEF ReadersKnow

\* The storage moves on and the channel loses or brings changes: what that makes
\* older in the cache is a change on its way, or one nobody hears of.
LEMMA CacheStands ==
  ASSUME CacheTypeOK, CacheInv, CacheTypeOK', NotAhead',
         UNCHANGED <<row, populated, memo, reader, filledFor>>,
         \A u \in Users : /\ db'[u] >= db[u]
                          /\ db'[u] # db[u] => Missed(u)'
                          /\ Missed(u) => Missed(u)'
                          /\ u \in overtaken => u \in overtaken' \/ row[u] < db'[u]
  PROVE  CacheInv'
<1>0. \A u \in Users : /\ db[u] \in Nat /\ db'[u] \in Nat /\ db'[u] >= db[u]
                       /\ row[u] \in Nat /\ memo[u] \in Nat
  BY MaxVersionAssumption DEF CacheTypeOK, Versions
<1>1. PopulatedOnce'
  BY DEF CacheInv, PopulatedOnce, Listing, Beyond
<1>2. ASSUME NEW u \in Users, NEW version \in Nat, Accounted(u, version)
      PROVE  Accounted(u, version)'
  BY <1>0, <1>2 DEF Accounted
<1>3. ReadersKnow'
  BY <1>0, <1>2, ReadersStand DEF CacheInv
<1>4. BalanceBehindRow'
  <2>1. ASSUME NEW u \in Users, memo'[u] # 0, memo'[u] < row'[u]
        PROVE  u \in overtaken' \/ row'[u] < db'[u]
    <3>1. u \in overtaken \/ row[u] < db[u]
      BY <2>1 DEF CacheInv, BalanceBehindRow
    <3>2. /\ db[u] \in Nat /\ row[u] \in Nat /\ db'[u] \in Nat /\ db'[u] >= db[u] /\ row' = row
          /\ u \in overtaken => u \in overtaken' \/ row[u] < db'[u]
      BY <1>0
    <3> QED BY <3>1, <3>2
  <2> QED BY <2>1 DEF BalanceBehindRow
<1>5. CacheStaleOnlyByRace'
  <2>1. ASSUME NEW u \in Users, populated', filledFor' = u, row'[u] < db'[u] PROVE Missed(u)'
    BY <1>0, <2>1 DEF CacheInv, CacheStaleOnlyByRace, RowsStaleOnlyByGap, Missed
  <2>2. ASSUME NEW u \in Users, memo'[u] # 0, memo'[u] < db'[u] PROVE Missed(u)'
    BY <1>0, <2>2 DEF CacheInv, CacheStaleOnlyByRace, BalanceStaleOnlyByRace, Missed
  <2> QED BY <2>1, <2>2 DEF CacheStaleOnlyByRace, RowsStaleOnlyByGap, BalanceStaleOnlyByRace, Missed
<1> QED BY <1>1, <1>3, <1>4, <1>5 DEF CacheInv

LEMMA CommitStep ==
  ASSUME TypeOK, CacheInv, NEW account \in Users, Commit(account)
  PROVE  CacheTypeOK' /\ CacheInv'
<1> USE MaxVersionAssumption DEF TypeOK, CacheTypeOK, Versions
<1>1. /\ db[account] \in Nat /\ db[account] < MaxVersion /\ MaxVersion \in Nat
      /\ db' = [db EXCEPT ![account] = db[account] + 1]
  BY DEF Commit
<1>2. /\ db' \in [Users -> Versions] /\ db'[account] = db[account] + 1
      /\ \A u \in Users \ {account} : db'[u] = db[u]
  BY <1>1
<1>3. /\ UNCHANGED <<topic, pump, row, populated, memo, reader, filledFor>>
      /\ \/ /\ changes' = changes \cup {<<account, db[account] + 1>>}
            /\ unheard' = unheard \ {account} /\ overtaken' = overtaken \ {account}
         \/ /\ unheard' = unheard \cup {account}
            /\ UNCHANGED <<changes, overtaken>>
  BY DEF Commit
<1>4. CacheTypeOK'
  BY <1>1, <1>2, <1>3
<1>5. NotAhead'
  <2>1. \A u \in Users : db'[u] >= 1 /\ row'[u] <= db'[u]
    BY <1>1, <1>2, <1>3 DEF CacheInv, NotAhead
  <2>2. ASSUME NEW u \in Users, NEW version \in Versions, <<u, version>> \in changes'
        PROVE  version <= db'[u]
    BY <1>1, <1>2, <1>3, <2>2 DEF CacheInv, NotAhead
  <2> QED BY <2>1, <2>2 DEF NotAhead
<1>6. \A u \in Users : db'[u] >= db[u]
  BY <1>1, <1>2
<1>7. Missed(account)'
  BY <1>2, <1>3 DEF Missed, Due
<1>8. ASSUME NEW u \in Users \ {account}, Missed(u) PROVE Missed(u)'
  BY <1>2, <1>3, <1>8 DEF Missed, Due
<1>9. ASSUME NEW u \in Users, u \in overtaken PROVE u \in overtaken' \/ row[u] < db'[u]
  <2>1. row[account] < db'[account]
    BY <1>1, <1>2 DEF CacheInv, NotAhead
  <2> QED BY <1>3, <1>9, <2>1
<1> QED BY <1>2, <1>3, <1>4, <1>5, <1>6, <1>7, <1>8, <1>9, CacheStands

\* The steps of the subscription, and those that touch neither the storage nor
\* the cache.
LEMMA ChannelSteps ==
  ASSUME TypeOK, CacheInv,
         StartPump \/ StopPump \/ JoinTopic \/ LeaveTopic \/ Overflow \/ UNCHANGED cacheVars
  PROVE  CacheTypeOK' /\ CacheInv'
<1> USE DEF StartPump, StopPump, JoinTopic, LeaveTopic, Overflow, cacheVars, history
<1>1. UNCHANGED <<db, row, populated, memo, reader, filledFor, overtaken>>
  OBVIOUS
<1>2. \/ changes' = changes /\ unheard' = unheard
      \/ changes' = {} /\ unheard' = unheard \cup Losing(changes)
  OBVIOUS
<1>3. Losing(changes) = {u \in Users : Due(u)}
  BY DEF Losing, Due
<1>4. topic' \in {None, slot, topic} /\ pump' \in {"off", "on", "ended", pump}
  OBVIOUS
<1>5. CacheTypeOK'
  BY <1>1, <1>2, <1>3, <1>4 DEF TypeOK, AuthTypeOK, CacheTypeOK, Nobody
<1>6. NotAhead'
  BY <1>1, <1>2 DEF CacheInv, NotAhead
<1>7. ASSUME NEW u \in Users, Missed(u) PROVE Missed(u)'
  BY <1>1, <1>2, <1>3, <1>7 DEF Missed, Due
<1>8. \A u \in Users : db'[u] >= db[u]
  BY <1>1, MaxVersionAssumption DEF TypeOK, CacheTypeOK, Versions
<1> QED BY <1>1, <1>5, <1>6, <1>7, <1>8, CacheStands DEF TypeOK

-----------------------------------------------------------------------------
(* The cache.                                                              *)

LEMMA ApplyStep ==
  ASSUME TypeOK, CacheInv, NEW account \in Users, NEW version \in Versions,
         ApplyChange(account, version)
  PROVE  CacheTypeOK' /\ CacheInv'
<1> USE MaxVersionAssumption DEF TypeOK, CacheTypeOK, Versions
<1>1. /\ UNCHANGED <<db, topic, pump, populated, reader, filledFor, unheard, overtaken>>
      /\ <<account, version>> \in changes
      /\ changes' = changes \ {<<account, version>>}
  BY DEF ApplyChange, history
<1>2. /\ version \in Nat /\ version <= db[account]
      /\ \A u \in Users : db[u] \in Nat /\ row[u] \in Nat /\ row[u] <= db[u] /\ memo[u] \in Nat
  BY <1>1 DEF CacheInv, NotAhead
<1>3. \/ /\ version > row[account] /\ row'[account] = version /\ memo'[account] = 0
         /\ \A u \in Users \ {account} : row'[u] = row[u] /\ memo'[u] = memo[u]
         /\ row' \in [Users -> Versions] /\ memo' \in [Users -> Versions]
      \/ row[account] >= version /\ UNCHANGED <<row, memo>>
  BY <1>2 DEF ApplyChange, Newer
<1>4. CacheTypeOK'
  BY <1>1, <1>3
<1>5. NotAhead'
  BY <1>1, <1>2, <1>3 DEF CacheInv, NotAhead
<1>6. PopulatedOnce'
  BY <1>1, <1>3 DEF CacheInv, PopulatedOnce, Listing, Beyond
<1>7. ASSUME NEW u \in Users, Missed(u)
      PROVE  Missed(u)' \/ row'[u] = db[u]
  BY <1>1, <1>2, <1>3, <1>7 DEF Missed, Due
<1>8. \A u \in Users : row'[u] >= row[u] /\ row'[u] \in Nat
  BY <1>2, <1>3
<1>9. ASSUME NEW u \in Users, NEW got \in Nat, Accounted(u, got) PROVE Accounted(u, got)'
  BY <1>1, <1>2, <1>7, <1>8, <1>9 DEF Accounted
<1>10. ReadersKnow'
  BY <1>1, <1>2, <1>9, ReadersStand DEF CacheInv
<1>11. BalanceBehindRow'
  BY <1>1, <1>2, <1>3 DEF CacheInv, BalanceBehindRow
<1>12. CacheStaleOnlyByRace'
  <2>1. ASSUME NEW u \in Users, populated', filledFor' = u, row'[u] < db'[u] PROVE Missed(u)'
    <3>1. row[u] < db[u] /\ row'[u] # db[u]
      BY <1>1, <1>2, <1>8, <2>1
    <3>2. Missed(u)
      BY <1>1, <2>1, <3>1 DEF CacheInv, CacheStaleOnlyByRace, RowsStaleOnlyByGap, Missed
    <3> QED BY <1>7, <3>1, <3>2
  <2>2. ASSUME NEW u \in Users, memo'[u] # 0, memo'[u] < db'[u] PROVE Missed(u)'
    <3>1. memo'[u] = memo[u] /\ row'[u] = row[u] /\ db'[u] = db[u]
      BY <1>1, <1>3, <2>2
    <3>2. Missed(u)
      BY <2>2, <3>1 DEF CacheInv, CacheStaleOnlyByRace, BalanceStaleOnlyByRace, Missed
    <3>3. CASE row[u] = db[u]
      <4>1. u \in overtaken
        BY <1>2, <2>2, <3>1, <3>3 DEF CacheInv, BalanceBehindRow
      <4> QED BY <1>1, <4>1 DEF Missed
    <3> QED BY <1>7, <3>1, <3>2, <3>3
  <2> QED BY <2>1, <2>2 DEF CacheStaleOnlyByRace, RowsStaleOnlyByGap, BalanceStaleOnlyByRace, Missed
<1> QED BY <1>4, <1>5, <1>6, <1>10, <1>11, <1>12 DEF CacheInv

-----------------------------------------------------------------------------
(* The readers.                                                            *)

ReaderRecords == [at : Activities, as : Nobody, of : Nobody, got : Versions, crossed : BOOLEAN]

\* A step of one reader that writes nothing to the cache.
LEMMA ReaderMoves ==
  ASSUME TypeOK, CacheInv, NEW r \in Readers, NEW me \in ReaderRecords,
         reader' = [reader EXCEPT ![r] = me],
         UNCHANGED <<db, topic, pump, changes, row, populated, memo, history>>,
         Knows(me),
         me.at \in {"listing", "listed"} => ~populated /\ (Listing(r) \/ Unlocked),
         me.at \in {"reading", "summing", "summed"} => populated
  PROVE  CacheTypeOK' /\ CacheInv'
<1> USE DEF history
<1>1. /\ reader' \in [Readers -> ReaderRecords] /\ reader'[r] = me
      /\ \A q \in Readers \ {r} : reader'[q] = reader[q]
  BY DEF TypeOK, CacheTypeOK, ReaderRecords
<1>2. CacheTypeOK'
  BY <1>1 DEF TypeOK, CacheTypeOK, ReaderRecords
<1>3. NotAhead' /\ BalanceBehindRow'
  BY DEF CacheInv, NotAhead, BalanceBehindRow
<1>4. CacheStaleOnlyByRace'
  BY DEF CacheInv, CacheStaleOnlyByRace, RowsStaleOnlyByGap, BalanceStaleOnlyByRace, Due
<1>5. PopulatedOnce'
  <2>1. \A q \in Readers : (Listing(q) => ~populated)' /\ (Beyond(q) => populated)'
    BY <1>1 DEF CacheInv, PopulatedOnce, Listing, Beyond
  <2>2. ASSUME NEW q \in Readers \ {r}, Listing(r)' PROVE ~Listing(q)'
    <3>1. reader'[q] = reader[q]
      BY <1>1
    <3>2. Listing(r) \/ Unlocked
      BY <1>1, <2>2 DEF Listing
    <3>3. ~Listing(q)
      BY <3>2 DEF CacheInv, PopulatedOnce, Listing, Unlocked
    <3> QED BY <3>1, <3>3 DEF Listing
  <2>3. \A q, p \in Readers : Listing(q)' /\ Listing(p)' => q = p
    BY <1>1, <2>2 DEF CacheInv, PopulatedOnce, Listing
  <2>4. \A u \in Users : memo'[u] # 0 => populated'
    BY DEF CacheInv, PopulatedOnce
  <2> QED BY <2>1, <2>3, <2>4 DEF PopulatedOnce
<1>6. ReadersKnow'
  <2>1. ASSUME NEW q \in Readers PROVE Knows(reader[q])'
    <3>1. PICK you \in ReaderRecords : you = reader'[q] /\ Knows(you)
      BY <1>1 DEF CacheInv, ReadersKnow
    <3>2. Knows(you)'
      BY <3>1 DEF Knows, Accounted, Missed, Due
    <3> QED BY <3>1, <3>2 DEF Knows, Accounted, Missed, Due
  <2> QED BY <2>1 DEF ReadersKnow
<1> QED BY <1>2, <1>3, <1>4, <1>5, <1>6 DEF CacheInv

LEMMA ReadStarts ==
  ASSUME TypeOK, CacheInv, NEW r \in Readers, StartRead(r) \/ Enter(r) \/ EndRead(r)
  PROVE  CacheTypeOK' /\ CacheInv'
<1> USE DEF TypeOK, AuthTypeOK, CacheTypeOK, Nobody
<1>1. PICK old \in ReaderRecords : old = reader[r] /\ Knows(old)
  BY DEF ReaderRecords, CacheInv, ReadersKnow
<1>2. CASE StartRead(r)
  <2> DEFINE me == [Idle EXCEPT !.at = IF populated THEN "reading" ELSE "waiting", !.as = slot]
  <2>1. slot \in Users
    BY <1>2 DEF StartRead
  <2>2. Idle \in ReaderRecords
    BY MaxVersionAssumption DEF Idle, ReaderRecords, Activities, Versions
  <2>3. /\ me \in ReaderRecords /\ me.as \in Users
        /\ me.at = (IF populated THEN "reading" ELSE "waiting")
    BY <2>1, <2>2 DEF ReaderRecords, Activities
  <2>4. /\ reader' = [reader EXCEPT ![r] = me]
        /\ UNCHANGED <<db, topic, pump, changes, row, populated, memo, history>>
    BY <1>2 DEF StartRead
  <2> HIDE DEF me
  <2>5. Knows(me)
    BY <2>3 DEF Knows
  <2> QED BY <2>3, <2>4, <2>5, ReaderMoves
<1>3. CASE Enter(r)
  <2> DEFINE me == [old EXCEPT !.at = IF populated THEN "reading" ELSE "listing"]
  <2>1. /\ me \in ReaderRecords /\ me.as = old.as /\ old.at = "waiting" /\ Unlocked
        /\ me.at = (IF populated THEN "reading" ELSE "listing")
    BY <1>1, <1>3 DEF Enter, ReaderRecords, Activities
  <2>2. /\ reader' = [reader EXCEPT ![r] = me]
        /\ UNCHANGED <<db, topic, pump, changes, row, populated, memo, history>>
    BY <1>1, <1>3 DEF Enter, Become
  <2> HIDE DEF me
  <2>3. Knows(me)
    BY <1>1, <2>1 DEF Knows
  <2> QED BY <2>1, <2>2, <2>3, ReaderMoves
<1>4. CASE EndRead(r)
  <2>1. /\ Idle \in ReaderRecords /\ Idle.at = "idle"
    BY MaxVersionAssumption DEF Idle, ReaderRecords, Activities, Versions
  <2>2. /\ reader' = [reader EXCEPT ![r] = Idle]
        /\ UNCHANGED <<db, topic, pump, changes, row, populated, memo, history>>
    BY <1>4 DEF EndRead
  <2>3. Knows(Idle)
    BY <2>1 DEF Knows
  <2> QED BY <2>1, <2>2, <2>3, ReaderMoves
<1> QED BY <1>2, <1>3, <1>4

LEMMA ReadLists ==
  ASSUME TypeOK, CacheInv, NEW r \in Readers, List(r)
  PROVE  CacheTypeOK' /\ CacheInv'
<1> USE DEF TypeOK, AuthTypeOK, CacheTypeOK, Nobody
<1>1. PICK old \in ReaderRecords : old = reader[r] /\ Knows(old) /\ old.at = "listing"
  BY DEF List, ReaderRecords, CacheInv, ReadersKnow
<1>2. old.as \in Users
  BY <1>1 DEF Knows
<1>3. db[old.as] \in Versions /\ db[old.as] >= 1 /\ 0 \in Versions
  BY <1>2, MaxVersionAssumption DEF CacheInv, NotAhead, Versions
<1> DEFINE crossed == tokens # old.as
           got == IF tokens = old.as THEN db[tokens] ELSE 0
           me == [old EXCEPT !.at = "listed", !.crossed = crossed, !.got = got]
<1>4. got \in Versions /\ crossed \in BOOLEAN /\ (~crossed => got = db[old.as])
  BY <1>2, <1>3
<1>5. /\ me \in ReaderRecords /\ me.as = old.as /\ me.at = "listed"
      /\ me.got = got /\ me.crossed = crossed
  BY <1>4 DEF ReaderRecords, Activities
<1>6. reader' = [reader EXCEPT ![r] = me]
  BY <1>1 DEF List
<1>7. UNCHANGED <<db, topic, pump, changes, row, populated, memo, history>>
  BY DEF List
<1>8. ~populated /\ Listing(r)
  BY <1>1 DEF CacheInv, PopulatedOnce, Listing
<1>9. got <= db[old.as]
  BY <1>3, <1>4 DEF Versions
<1> HIDE DEF me, crossed, got
<1>10. Knows(me)
  BY <1>2, <1>3, <1>4, <1>5, <1>9 DEF Knows, Accounted, Versions
<1> QED BY <1>5, <1>6, <1>7, <1>8, <1>10, ReaderMoves

LEMMA ReadSums ==
  ASSUME TypeOK, CacheInv, NEW r \in Readers,
         SumProofs(r) \/ \E u \in Users : PickAccount(r, u)
  PROVE  CacheTypeOK' /\ CacheInv'
<1> USE DEF TypeOK, AuthTypeOK, CacheTypeOK, Nobody
<1>1. PICK old \in ReaderRecords : old = reader[r] /\ Knows(old)
  BY DEF ReaderRecords, CacheInv, ReadersKnow
<1>2. ASSUME NEW u \in Users, PickAccount(r, u) PROVE CacheTypeOK' /\ CacheInv'
  <2> DEFINE me == [old EXCEPT !.at = "summing", !.of = u]
  <2>1. me \in ReaderRecords /\ me.as = old.as /\ me.at = "summing" /\ me.of = u
    BY DEF ReaderRecords, Activities
  <2>2. /\ reader' = [reader EXCEPT ![r] = me]
        /\ UNCHANGED <<db, topic, pump, changes, row, populated, memo, history>>
    BY <1>1, <1>2 DEF PickAccount
  <2>3. old.at = "reading" /\ populated
    BY <1>1, <1>2 DEF PickAccount, CacheInv, PopulatedOnce, Beyond
  <2> HIDE DEF me
  <2>4. Knows(me)
    BY <1>1, <2>1, <2>3 DEF Knows
  <2> QED BY <2>1, <2>2, <2>3, <2>4, ReaderMoves
<1>3. CASE SumProofs(r)
  <2> DEFINE crossed == tokens # old.of
             got == IF tokens = old.of THEN db[old.of] ELSE 1
             me == [old EXCEPT !.at = "summed", !.crossed = crossed, !.got = got]
  <2>1. old.at = "summing" /\ old.of \in Users /\ old.as \in Users /\ populated
    BY <1>1, <1>3 DEF SumProofs, Knows, CacheInv, PopulatedOnce, Beyond
  <2>2. db[old.of] \in Versions /\ 1 \in Versions
    BY <2>1, MaxVersionAssumption DEF Versions
  <2>3. got \in Versions /\ crossed \in BOOLEAN /\ (~crossed => got = db[old.of])
    BY <2>2
  <2>4. /\ me \in ReaderRecords /\ me.as = old.as /\ me.of = old.of /\ me.at = "summed"
        /\ me.got = got /\ me.crossed = crossed
    BY <2>3 DEF ReaderRecords, Activities
  <2>5. reader' = [reader EXCEPT ![r] = me]
    BY <1>1, <1>3 DEF SumProofs
  <2>6. UNCHANGED <<db, topic, pump, changes, row, populated, memo, history>>
    BY <1>3 DEF SumProofs
  <2> HIDE DEF me, crossed, got
  <2>7. Knows(me)
    BY <2>1, <2>2, <2>3, <2>4, MaxVersionAssumption DEF Knows, Accounted, Versions
  <2> QED BY <2>1, <2>4, <2>5, <2>6, <2>7, ReaderMoves
<1> QED BY <1>2, <1>3

\* The insert of the reader that has listed.
LEMMA InsertStep ==
  ASSUME TypeOK, CacheInv, NEW r \in Readers, Insert(r)
  PROVE  CacheTypeOK' /\ CacheInv'
<1> USE DEF TypeOK, CacheTypeOK
<1>1. PICK old \in ReaderRecords : old = reader[r] /\ Knows(old) /\ old.at = "listed"
  BY DEF Insert, ReaderRecords, CacheInv, ReadersKnow
<1> DEFINE u == old.as
           got == old.got
           me == [old EXCEPT !.at = "reading"]
<1>2. /\ u \in Users /\ got \in Versions /\ got \in Nat /\ got <= db[u]
      /\ old.crossed \/ (got # 0 /\ Accounted(u, got))
  BY <1>1, MaxVersionAssumption DEF Knows, ReaderRecords, Versions
<1>3. /\ me \in ReaderRecords /\ me.as = old.as /\ me.at = "reading"
  BY DEF ReaderRecords, Activities
<1>4. /\ reader' = [reader EXCEPT ![r] = me] /\ populated' = TRUE /\ filledFor' = u
      /\ row' = (IF got = 0 THEN row ELSE [row EXCEPT ![u] = got])
      /\ overtaken' = IF got < row[u] \/ old.crossed THEN overtaken \cup {u} ELSE overtaken
      /\ unheard' = IF got = db[u] THEN unheard \ {u} ELSE unheard
      /\ UNCHANGED <<db, topic, pump, changes, memo>>
  BY <1>1 DEF Insert, Become
<1>5. /\ ~populated /\ \A q \in Readers \ {r} : ~Listing(q)
      /\ \A v \in Users : memo[v] = 0
  BY <1>1 DEF CacheInv, PopulatedOnce, Listing
<1> HIDE DEF u, got, me
<1>6. /\ reader' \in [Readers -> ReaderRecords] /\ reader'[r] = me
      /\ \A q \in Readers \ {r} : reader'[q] = reader[q]
  BY <1>3, <1>4 DEF ReaderRecords
<1>7. /\ row' \in [Users -> Versions] /\ row'[u] = (IF got = 0 THEN row[u] ELSE got)
      /\ \A v \in Users \ {u} : row'[v] = row[v]
  BY <1>2, <1>4
<1>8. CacheTypeOK'
  BY <1>2, <1>4, <1>6, <1>7 DEF ReaderRecords, Nobody
<1>9. NotAhead'
  BY <1>2, <1>4, <1>7 DEF CacheInv, NotAhead
<1>10. PopulatedOnce'
  <2>1. \A q \in Readers : ~Listing(q)'
    BY <1>3, <1>5, <1>6 DEF Listing
  <2> QED BY <1>4, <2>1 DEF PopulatedOnce
<1>11. ReadersKnow'
  <2>1. ASSUME NEW q \in Readers PROVE Knows(reader[q])'
    <3>1. CASE q = r
      <4>1. Knows(me)'
        BY <1>2, <1>3 DEF u, Knows
      <4> QED BY <1>6, <3>1, <4>1 DEF Knows, Accounted
    <3>2. CASE q # r
      <4>1. PICK you : you = reader[q] /\ you = reader'[q] /\ Knows(you)
        BY <1>6, <3>2 DEF CacheInv, ReadersKnow
      <4>2. you.at \notin {"listed", "summing", "summed"}
        BY <1>5, <3>2, <4>1 DEF CacheInv, PopulatedOnce, Listing, Beyond
      <4>3. Knows(you)'
        BY <4>1, <4>2 DEF Knows
      <4> QED BY <4>1, <4>3 DEF Knows, Accounted
    <3> QED BY <3>1, <3>2
  <2> QED BY <2>1 DEF ReadersKnow
<1>12. BalanceBehindRow' /\ BalanceStaleOnlyByRace'
  BY <1>4, <1>5 DEF BalanceBehindRow, BalanceStaleOnlyByRace
<1>13. RowsStaleOnlyByGap'
  <2>1. ASSUME row'[u] < db[u] PROVE Missed(u)'
    <3>1. CASE old.crossed
      BY <1>4, <3>1 DEF Missed
    <3>2. CASE ~old.crossed
      <4>1. got < db[u] /\ (Missed(u) \/ got < row[u])
        BY <1>2, <1>7, <2>1, <3>2 DEF Accounted
      <4>2. unheard' = unheard /\ (Due(u) => Due(u)')
        BY <1>2, <1>4, <4>1 DEF Due
      <4> QED BY <1>4, <4>1, <4>2 DEF Missed
    <3> QED BY <3>1, <3>2
  <2> QED BY <1>4, <2>1 DEF RowsStaleOnlyByGap, Missed
<1> QED BY <1>8, <1>9, <1>10, <1>11, <1>12, <1>13 DEF CacheInv, CacheStaleOnlyByRace

\* The balance that is stored.
LEMMA BalanceStep ==
  ASSUME TypeOK, CacheInv, NEW r \in Readers, PutBalance(r)
  PROVE  CacheTypeOK' /\ CacheInv'
<1> USE DEF TypeOK, CacheTypeOK
<1>1. PICK old \in ReaderRecords : old = reader[r] /\ Knows(old) /\ old.at = "summed"
  BY DEF PutBalance, ReaderRecords, CacheInv, ReadersKnow
<1> DEFINE u == old.of
           got == old.got
<1>2. /\ u \in Users /\ got \in Versions /\ got \in Nat
      /\ old.crossed \/ Accounted(u, got)
  BY <1>1, MaxVersionAssumption DEF Knows, ReaderRecords, Versions
<1>3. /\ reader' = [reader EXCEPT ![r] = Idle]
      /\ memo' = [memo EXCEPT ![u] = got]
      /\ overtaken' = IF got < row[u] \/ old.crossed THEN overtaken \cup {u} ELSE overtaken
      /\ UNCHANGED <<db, topic, pump, changes, row, populated, filledFor, unheard>>
  BY <1>1 DEF PutBalance
<1>4. Idle \in ReaderRecords /\ Idle.at = "idle"
  BY MaxVersionAssumption DEF Idle, ReaderRecords, Activities, Versions, Nobody
<1>5. populated
  BY <1>1 DEF CacheInv, PopulatedOnce, Beyond
<1> HIDE DEF u, got
<1>6. /\ reader' \in [Readers -> ReaderRecords] /\ reader'[r] = Idle
      /\ \A q \in Readers \ {r} : reader'[q] = reader[q]
  BY <1>3, <1>4 DEF ReaderRecords
<1>7. /\ memo' \in [Users -> Versions] /\ memo'[u] = got
      /\ \A v \in Users \ {u} : memo'[v] = memo[v]
  BY <1>2, <1>3
<1>8. CacheTypeOK'
  BY <1>2, <1>3, <1>6, <1>7 DEF ReaderRecords
<1>9. NotAhead'
  BY <1>3 DEF CacheInv, NotAhead
<1>10. PopulatedOnce'
  BY <1>3, <1>4, <1>5, <1>6 DEF CacheInv, PopulatedOnce, Listing, Beyond
<1>11. \A v \in Users : Missed(v) => Missed(v)'
  BY <1>3 DEF Missed, Due
<1>12. ReadersKnow'
  <2>1. ASSUME NEW q \in Readers PROVE Knows(reader[q])'
    <3>1. CASE q = r
      BY <1>4, <1>6, <3>1 DEF Knows
    <3>2. CASE q # r
      <4>1. PICK you : you = reader[q] /\ you = reader'[q] /\ Knows(you)
        BY <1>6, <3>2 DEF CacheInv, ReadersKnow
      <4>2. Knows(you)'
        BY <1>3, <1>11, <4>1 DEF Knows, Accounted
      <4> QED BY <4>1, <4>2 DEF Knows, Accounted
    <3> QED BY <3>1, <3>2
  <2> QED BY <2>1 DEF ReadersKnow
<1>13. BalanceBehindRow'
  BY <1>3, <1>7 DEF CacheInv, BalanceBehindRow
<1>14. RowsStaleOnlyByGap'
  BY <1>3, <1>11 DEF CacheInv, CacheStaleOnlyByRace, RowsStaleOnlyByGap, Missed
<1>15. BalanceStaleOnlyByRace'
  <2>1. ASSUME got < db[u] PROVE Missed(u)'
    <3>1. old.crossed \/ Missed(u) \/ got < row[u]
      BY <1>2, <2>1 DEF Accounted
    <3>2. old.crossed \/ got < row[u] => u \in overtaken'
      BY <1>3
    <3> QED BY <1>2, <1>11, <3>1, <3>2 DEF Missed
  <2> QED BY <1>3, <1>7, <1>11, <2>1
          DEF CacheInv, CacheStaleOnlyByRace, BalanceStaleOnlyByRace, Missed
<1> QED BY <1>8, <1>9, <1>10, <1>12, <1>13, <1>14, <1>15 DEF CacheInv, CacheStaleOnlyByRace

-----------------------------------------------------------------------------
(* The whole step.                                                         *)

\* The cache of a process that has just started.
CacheIsEmpty ==
  /\ db \in [Users -> Versions] /\ \A u \in Users : db[u] >= 1
  /\ row = [u \in Users |-> 0] /\ memo = [u \in Users |-> 0] /\ populated = FALSE
  /\ reader = [r \in Readers |-> Idle] /\ topic = None /\ pump = "off" /\ changes = {}
  /\ filledFor = None /\ unheard = {} /\ overtaken = {}

LEMMA EmptyCache == CacheIsEmpty => CacheTypeOK /\ CacheInv
<1> SUFFICES ASSUME CacheIsEmpty PROVE CacheTypeOK /\ CacheInv
  OBVIOUS
<1> USE MaxVersionAssumption DEF Versions, CacheIsEmpty
<1>1. /\ Idle.at = "idle"
      /\ Idle \in [at : Activities, as : Nobody, of : Nobody, got : Versions, crossed : BOOLEAN]
  BY DEF Idle, Activities, Nobody
<1>2. \A u \in Users : db[u] \in Nat /\ db[u] >= 1 /\ row[u] = 0 /\ memo[u] = 0
  <2>1. \A u \in Users : row[u] = 0 /\ memo[u] = 0
    OBVIOUS
  <2>2. \A u \in Users : db[u] >= 1
    OBVIOUS
  <2>3. ASSUME NEW u \in Users PROVE db[u] \in Nat
    <3>1. db[u] \in 0..MaxVersion
      OBVIOUS
    <3> QED BY <3>1
  <2> QED BY <2>1, <2>2, <2>3
<1>3. CacheTypeOK
  <2>1. {db, row, memo} \subseteq [Users -> Versions]
    OBVIOUS
  <2>2. reader \in [Readers -> [at : Activities, as : Nobody, of : Nobody,
                                got : Versions, crossed : BOOLEAN]]
    BY <1>1
  <2> QED BY <2>1, <2>2 DEF CacheTypeOK, Nobody
<1>4. NotAhead /\ BalanceBehindRow
  BY <1>2 DEF NotAhead, BalanceBehindRow
<1>5. PopulatedOnce /\ ReadersKnow
  BY <1>1, <1>2 DEF PopulatedOnce, Listing, Beyond, ReadersKnow, Knows
<1>6. CacheStaleOnlyByRace
  BY <1>2 DEF CacheStaleOnlyByRace, RowsStaleOnlyByGap, BalanceStaleOnlyByRace
<1> QED BY <1>3, <1>4, <1>5, <1>6 DEF CacheInv

LEMMA EmptyCacheNext == CacheIsEmpty' => CacheTypeOK' /\ CacheInv'
BY EmptyCache, PTL

LEMMA ForgetStep ==
  ASSUME TypeOK, CacheInv, Forget
  PROVE  CacheTypeOK' /\ CacheInv'
<1>1. CacheIsEmpty'
  BY DEF TypeOK, CacheTypeOK, CacheInv, NotAhead, Forget, CacheIsEmpty
<1> QED BY <1>1, EmptyCacheNext

LEMMA InitInv == Init => IInv
<1> SUFFICES ASSUME Init PROVE IInv
  OBVIOUS
<1>1. AuthTypeOK /\ AuthInv
  BY DEF Init, AuthInit, AuthTypeOK, Nobody, Calls, AuthInv, RestartKeepsSession,
         TokensAreTheSessions
<1>2. CacheTypeOK /\ CacheInv
  BY EmptyCache, MaxVersionAssumption DEF Init, CacheInit, CacheIsEmpty, Versions
<1> QED BY <1>1, <1>2 DEF IInv, TypeOK

LEMMA NextInv == IInv /\ [Next]_vars => IInv'
<1> SUFFICES ASSUME IInv, [Next]_vars PROVE IInv'
  OBVIOUS
<1> USE DEF IInv
<1>1. AuthTypeOK' /\ AuthInv'
  <2>1. AuthStep \/ UNCHANGED authVars
    BY DEF Next, Auth, Realtime, Reads, Changes, vars, AuthStep
  <2> QED BY <2>1, AuthSteps, AuthIdle DEF TypeOK
<1>2. CacheTypeOK' /\ CacheInv'
  <2>1. CASE Auth
    <3>1. UNCHANGED cacheVars \/ StopPump \/ Forget
      BY <2>1 DEF Auth
    <3> QED BY <3>1, ChannelSteps, ForgetStep
  <2>2. CASE Realtime
    <3>1. \/ StartPump \/ JoinTopic \/ LeaveTopic \/ Overflow
          \/ \E u \in Users, version \in Versions : ApplyChange(u, version)
      BY <2>2 DEF Realtime
    <3> QED BY <3>1, ChannelSteps, ApplyStep
  <2>3. CASE Reads
    <3>1. PICK r \in Readers : ReaderStep(r)
      BY <2>3 DEF Reads
    <3> QED BY <3>1, ReadStarts, ReadLists, ReadSums, InsertStep, BalanceStep DEF ReaderStep
  <2>4. CASE Changes
    BY <2>4, CommitStep DEF Changes
  <2>5. CASE UNCHANGED vars
    <3>1. UNCHANGED cacheVars
      BY <2>5 DEF vars
    <3> QED BY <3>1, ChannelSteps
  <2> QED BY <2>1, <2>2, <2>3, <2>4, <2>5 DEF Next
<1> QED BY <1>1, <1>2 DEF TypeOK

-----------------------------------------------------------------------------

(* Every state that sign-ins, restarts, changes and reads lead to satisfies    *)
(* the inductive invariant.                                                    *)
THEOREM Invariance == Spec => []IInv
BY InitInv, NextInv, PTL DEF Spec

(* Every variable of the session and of the cache keeps its type; the versions *)
(* stay within their bound.                                                    *)
THEOREM TypeCorrect == Spec => []TypeOK
<1>1. IInv => TypeOK
  BY DEF IInv
<1> QED BY <1>1, Invariance, PTL

(* Between auth calls the stored blob is the session in memory, so a restart   *)
(* brings back the user who was signed in, and nobody after a sign-out, unless *)
(* the storage failed or a restore timed out.                                  *)
THEOREM RestartFindsSession == Spec => []RestartKeepsSession
<1>1. IInv => RestartKeepsSession
  BY DEF IInv, AuthInv
<1> QED BY <1>1, Invariance, PTL

(* The tokens the storage's requests carry are those of the user in the slot.  *)
THEOREM TokensMatchSession == Spec => []TokensAreTheSessions
<1>1. IInv => TokensAreTheSessions
  BY DEF IInv, AuthInv
<1> QED BY <1>1, Invariance, PTL

(* Reads, changes and the pump interleave as they may: an account or a balance *)
(* in the cache that is older than the storage has its change on the way, was  *)
(* not heard of, or was read before the change and written after it.           *)
THEOREM StalenessIsExplained == Spec => []CacheStaleOnlyByRace
<1>1. IInv => CacheStaleOnlyByRace
  BY DEF IInv, CacheInv
<1> QED BY <1>1, Invariance, PTL
=============================================================================
