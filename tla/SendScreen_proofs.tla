------------------------ MODULE SendScreen_proofs ------------------------
(***************************************************************************)
(* Proofs about the web shell and its send page, for any set of users and  *)
(* any bounds on tasks, sign-outs and requests.                            *)
(***************************************************************************)
EXTENDS SendScreen, TLAPS

-----------------------------------------------------------------------------
(* The inductive invariant.                                                *)

\* The routes: who is at the login page, and what has run when Home is settled.
PagesInv ==
  /\ effectDue => page = "home"
  /\ page = "home" /\ ~effectDue => wired
  /\ signingIn # None => page = "login"

\* Tasks that run belong to a user; what refers to a task refers to one that ran.
Ran == {t \in Tasks : task[t].at # "unused" /\ task[t].as \in Users}

TasksInv ==
  /\ UnderWay \cup live \cup changed \subseteq Ran
  /\ client \in Ran \cup {None}
  /\ service \in live \cup {None}

\* The latch lets one bring-up at a time make a service, which the teardown finds.
Starting(t) == t \in UnderWay /\ task[t].kind = "start"

LatchInv ==
  ~outlived =>
    /\ live \subseteq {service}
    /\ ~wired => UnderWay = {} /\ client = None /\ service = None
    /\ wired /\ ~spent => service # None \/ \E t \in Tasks : Starting(t)
    /\ \A t \in Tasks : Starting(t) => service = None
    /\ \A t, s \in Tasks : Starting(t) /\ Starting(s) => t = s

\* What a sign-out leaves.
CleanInv ==
  /\ left /\ ~outlived => UnderWay = {} /\ changed = {} /\ rehydrating = None
  /\ SignOutIsClean

\* Everything that runs, is stored or is shown is of one user.
Held == UnderWay \cup live \cup changed \cup ({client} \ {None})
Owned(u) ==
  /\ {disk, token, rehydrating, shown.of} \subseteq {u, None}
  /\ \A t \in Held : task[t].as = u
OwnedOnScreen(u) ==
  /\ payer \in {u, None}
  /\ \A c \in BagToSet(calls) : c.as \in {u, None}

WebInv == TypeOK /\ PagesInv /\ TasksInv /\ LatchInv /\ CleanInv

\* A token on the card, and a send under way, are somebody's.
SendsInv ==
  /\ card = "share" => payer # None
  /\ \A c \in BagToSet(calls) : c.kind = "create" => c.as # None

OwnerInv == ~outlived => \E u \in Nobody : Owned(u) /\ OwnedOnScreen(u)

IInv == WebInv /\ ScreenTypeOK /\ SendsInv /\ OwnerInv

-----------------------------------------------------------------------------
(* Routes and sessions.                                                    *)

\* What a step does to the owners while nothing has outlived its session: it keeps
\* them, or it leaves a page that holds nothing of anybody else.
OwnersKept ==
  ~outlived' =>
    \/ ~outlived /\ \A u \in Nobody : Owned(u) => Owned(u)'
    \/ page' # page /\ \E u \in Nobody : Owned(u)'

LEMMA SameTasks ==
  ASSUME UNCHANGED task
  PROVE  /\ UnderWay' = UnderWay /\ Ran' = Ran
         /\ \A t \in Tasks : Starting(t)' <=> Starting(t)
BY DEF UnderWay, Ran, Starting, Tasks

LEMMA RouteSteps ==
  ASSUME WebInv,
         \/ \E p \in Protected \cup {"login"} : OpenPage(p) \/ Navigate(p)
         \/ Redirect \/ RehydrateEnds \/ \E u \in Users : SignIn(u)
         \/ UNCHANGED vars
  PROVE  WebInv' /\ OwnersKept
<1> USE NoneAssumption
    DEF OpenPage, Navigate, Redirect, RehydrateEnds, SignIn, Go, Protected, runtime, memory,
        history, vars
<1>1. /\ UNCHANGED <<runtime, shown, task, history, disk, leaving>>
      /\ UnderWay' = UnderWay /\ Ran' = Ran
      /\ \A t \in Tasks : Starting(t)' <=> Starting(t)
  BY SameTasks
<1>2. TypeOK'
  BY DEF WebInv, TypeOK, Nobody
<1>3. PagesInv'
  <2>0. PagesInv /\ {effectDue, wired, left} \subseteq BOOLEAN /\ wired' = wired /\ left' = left
    BY DEF WebInv, TypeOK
  <2>1. CASE Redirect
    BY <2>0, <2>1 DEF PagesInv
  <2>2. ASSUME NEW p \in Protected \cup {"login"}, OpenPage(p) \/ Navigate(p)
        PROVE  PagesInv'
    <3>1. /\ page' = p /\ (page = "login" => signingIn = None)
          /\ effectDue' = (p = "home") /\ signingIn' = signingIn
      BY <2>2
    <3> QED BY <2>0, <3>1 DEF PagesInv
  <2>3. CASE RehydrateEnds \/ UNCHANGED vars
    BY <2>0, <2>3 DEF PagesInv
  <2>4. CASE \E u \in Users : SignIn(u)
    BY <2>0, <2>4 DEF PagesInv
  <2> QED BY <2>1, <2>2, <2>3, <2>4
<1>4. TasksInv'
  BY <1>1 DEF WebInv, TasksInv
<1>5. LatchInv'
  BY <1>1 DEF WebInv, LatchInv
<1>6. CleanInv'
  BY <1>1 DEF WebInv, TypeOK, PagesInv, CleanInv, SignOutIsClean
<1>7. {token, rehydrating}' \subseteq {disk, token, rehydrating, None}
  OBVIOUS
<1>8. Held' = Held
  BY <1>1 DEF Held
<1>9. OwnersKept
  BY <1>1, <1>7, <1>8 DEF OwnersKept, Owned
<1> QED BY <1>2, <1>3, <1>4, <1>5, <1>6, <1>9 DEF WebInv

LEMMA CloseStep ==
  ASSUME WebInv, ClosePage
  PROVE  WebInv' /\ OwnersKept
<1> USE NoneAssumption, BoundsAssumption DEF ClosePage
<1>1. /\ \A t \in Tasks : task'[t] = NoTask
      /\ UnderWay' = {} /\ live' = {} /\ changed' = {}
  BY DEF UnderWay, NoTask, Tasks
<1>2. TypeOK'
  <2>1. NoTask \in [at : {"unused", "building", "populating", "over"},
                    kind : {"start", "retry"}, as : Nobody]
    BY DEF NoTask, Nobody
  <2>2. Screen("idle", None) \in [state : {"idle", "loading", "ready", "error"}, of : Nobody]
    BY DEF Screen, Nobody
  <2>3. leaving' \in 0..MaxSignOuts
    OBVIOUS
  <2> QED BY <2>1, <2>2, <2>3 DEF WebInv, TypeOK, Nobody
<1>3. PagesInv'
  BY DEF PagesInv
<1>4. TasksInv'
  BY <1>1 DEF TasksInv
<1>5. LatchInv'
  BY <1>1 DEF LatchInv, Starting
<1>6. CleanInv'
  BY DEF CleanInv, SignOutIsClean
<1>7. Owned(disk)'
  BY <1>1 DEF Owned, Held, Screen
<1>8. page' # page /\ disk' \in Nobody
  BY DEF WebInv, TypeOK
<1> QED BY <1>2, <1>3, <1>4, <1>5, <1>6, <1>7, <1>8 DEF WebInv, OwnersKept, Owned

\* A sign-in that succeeds finds nothing of an earlier session, or it is noted.
LEMMA SignInEndsStep ==
  ASSUME WebInv, SignInEnds
  PROVE  WebInv' /\ OwnersKept
<1> USE NoneAssumption
<1>1. /\ UNCHANGED <<rehydrating, leaving, runtime, shown, task, spent>>
      /\ signingIn \in Users /\ signingIn' = None
      /\ UnderWay' = UnderWay /\ Ran' = Ran
      /\ \A t \in Tasks : Starting(t)' <=> Starting(t)
  BY SameTasks DEF SignInEnds, WebInv, TypeOK, Nobody
<1> USE DEF runtime
<1>2. CASE UNCHANGED <<disk, token, page, effectDue, left, outlived>>
  <2>1. TypeOK' /\ PagesInv'
    BY <1>1, <1>2 DEF WebInv, TypeOK, PagesInv, Nobody
  <2>2. TasksInv' /\ LatchInv'
    BY <1>1, <1>2 DEF WebInv, TasksInv, LatchInv
  <2>3. CleanInv'
    BY <1>1, <1>2 DEF WebInv, CleanInv, SignOutIsClean
  <2>4. Held' = Held
    BY <1>1 DEF Held
  <2>5. OwnersKept
    BY <1>1, <1>2, <2>4 DEF OwnersKept, Owned
  <2> QED BY <2>1, <2>2, <2>3, <2>5 DEF WebInv
<1>3. CASE ~UNCHANGED <<disk, token, page, effectDue, left, outlived>>
  <2>1. /\ disk' = signingIn /\ token' = signingIn /\ left' = FALSE
        /\ page' = "home" /\ effectDue' = TRUE
    BY <1>3 DEF SignInEnds, Go
  <2>2. outlived' = (outlived \/ (~left /\ (Busy \/ live # {} \/ client # None \/ shown.of # None)))
    BY <1>3 DEF SignInEnds
  <2>3. outlived' \in BOOLEAN /\ (outlived => outlived') /\ page = "login"
    BY <1>1, <2>2 DEF WebInv, TypeOK, PagesInv
  <2>4. ~outlived' => /\ UnderWay = {} /\ changed = {} /\ rehydrating = None
                      /\ live = {} /\ client = None /\ shown.of = None
    <3>1. CASE left
      BY <2>3, <3>1 DEF WebInv, CleanInv, SignOutIsClean, Screen
    <3>2. CASE ~left
      BY <2>2, <3>2 DEF Busy
    <3> QED BY <3>1, <3>2
  <2>5. ~outlived' => \E u \in Nobody : Owned(u)'
    <3>1. PICK u \in Nobody : u = signingIn
      BY <1>1 DEF Nobody
    <3>2. ~outlived' => Owned(u)'
      BY <1>1, <2>1, <2>4, <3>1 DEF Owned, Held
    <3> QED BY <3>2
  <2>6. TypeOK'
    <3>1. {effectDue', wired', left', outlived', spent'} \subseteq BOOLEAN
      BY <1>1, <2>1, <2>3 DEF WebInv, TypeOK
    <3>2. {disk', token', rehydrating', signingIn'} \subseteq Nobody
      BY <1>1, <2>1 DEF WebInv, TypeOK, Nobody
    <3> QED BY <1>1, <2>1, <3>1, <3>2 DEF WebInv, TypeOK, Protected
  <2>7. PagesInv' /\ CleanInv'
    BY <1>1, <2>1 DEF PagesInv, CleanInv, SignOutIsClean
  <2>8. TasksInv' /\ LatchInv'
    BY <1>1, <2>3 DEF WebInv, TasksInv, LatchInv
  <2>9. OwnersKept
    BY <2>1, <2>3, <2>5 DEF OwnersKept
  <2> QED BY <2>6, <2>7, <2>8, <2>9 DEF WebInv
<1> QED BY <1>2, <1>3

\* A sign-out finds the one service, and notes what nobody cancels.
LEMMA SignOutSteps ==
  ASSUME WebInv, SignOut \/ SignOutEnds
  PROVE  WebInv' /\ OwnersKept
<1> USE NoneAssumption, BoundsAssumption
    DEF SignOut, SignOutEnds, Teardown, ClearForSignout, Go, runtime
<1>1. /\ UNCHANGED <<rehydrating, signingIn, task, changed>>
      /\ live' = live \ {service} /\ client' = None /\ service' = None /\ wired' = FALSE
      /\ UnderWay' = UnderWay /\ Ran' = Ran
      /\ \A t \in Tasks : Starting(t)' <=> Starting(t)
  BY SameTasks
<1>2. (outlived => outlived') /\ (~outlived' => UnderWay = {} /\ live' = {})
  BY <1>1 DEF WebInv, TypeOK, LatchInv, Busy
<1>3. TypeOK'
  <2>1. leaving' \in 0..MaxSignOuts
    BY DEF WebInv, TypeOK
  <2>2. shown' \in [state : {"idle", "loading", "ready", "error"}, of : Nobody]
    BY DEF WebInv, TypeOK, Screen, Nobody
  <2>3. {outlived', left', spent', wired', effectDue'} \subseteq BOOLEAN
    BY DEF WebInv, TypeOK, Busy
  <2> QED BY <1>1, <2>1, <2>2, <2>3 DEF WebInv, TypeOK, Nobody, Protected
<1>4. PagesInv'
  <2>1. PagesInv /\ signingIn' = signingIn
    BY <1>1 DEF WebInv
  <2>2. CASE SignOut
    <3>1. page = "settings" /\ page' = page /\ effectDue' = effectDue
      BY <2>2
    <3> QED BY <2>1, <3>1 DEF PagesInv
  <2>3. CASE SignOutEnds
    <3>1. page' = "login" /\ effectDue' = FALSE
      BY <2>3
    <3> QED BY <3>1 DEF PagesInv
  <2> QED BY <2>2, <2>3
<1>5. TasksInv'
  BY <1>1 DEF WebInv, TasksInv
<1>6. LatchInv'
  BY <1>1, <1>2 DEF LatchInv, Starting
<1>7. CleanInv'
  <2>1. CASE SignOut
    BY <1>1, <1>2, <2>1 DEF WebInv, CleanInv, SignOutIsClean
  <2>2. CASE SignOutEnds
    BY <1>1, <1>2, <2>2 DEF CleanInv, SignOutIsClean, Busy, Screen
  <2> QED BY <2>1, <2>2
<1>8. Held' \subseteq Held /\ task' = task
  BY <1>1 DEF Held
<1>9. {disk, token, rehydrating, shown.of}' \subseteq {disk, token, rehydrating, shown.of, None}
  BY DEF Screen
<1>10. OwnersKept
  BY <1>2, <1>8, <1>9 DEF OwnersKept, Owned
<1> QED BY <1>3, <1>4, <1>5, <1>6, <1>7, <1>10 DEF WebInv

\* The pumps.
LEMMA PumpSteps ==
  ASSUME WebInv, NEW t \in Tasks, Change(t) \/ Dispatch(t)
  PROVE  WebInv' /\ OwnersKept
<1> USE NoneAssumption DEF Change, Dispatch, memory, history
<1>1. /\ UNCHANGED <<disk, memory, page, effectDue, wired, client, service, live, task, history>>
      /\ UnderWay' = UnderWay /\ Ran' = Ran
      /\ \A s \in Tasks : Starting(s)' <=> Starting(s)
  BY SameTasks
<1>2. /\ t \in live \cup changed /\ changed' \subseteq changed \cup {t}
      /\ shown' \in {shown, Screen("ready", task[t].as), Screen("error", None)}
      /\ task[t].as \in Users
  BY DEF WebInv, TasksInv, Ran
<1>3. TypeOK'
  <2>1. shown' \in [state : {"idle", "loading", "ready", "error"}, of : Nobody]
    BY <1>2 DEF WebInv, TypeOK, Screen, Nobody
  <2> QED BY <1>1, <1>2, <2>1 DEF WebInv, TypeOK
<1>4. PagesInv' /\ LatchInv'
  BY <1>1 DEF WebInv, PagesInv, LatchInv
<1>5. TasksInv'
  BY <1>1, <1>2 DEF WebInv, TasksInv
<1>6. CleanInv'
  BY <1>1, <1>2 DEF WebInv, CleanInv, SignOutIsClean
<1>7. OwnersKept
  <2>1. ASSUME NEW u \in Nobody, Owned(u) PROVE Owned(u)'
    <3>1. task[t].as = u /\ \A s \in Held' : task[s].as = u
      BY <1>1, <1>2, <2>1 DEF Owned, Held
    <3>2. shown'.of \in {u, None}
      BY <1>2, <2>1, <3>1 DEF Owned, Screen
    <3> QED BY <1>1, <2>1, <3>1, <3>2 DEF Owned
  <2> QED BY <1>1, <2>1 DEF OwnersKept
<1> QED BY <1>3, <1>4, <1>5, <1>6, <1>7 DEF WebInv

-----------------------------------------------------------------------------
(* Bring-ups.                                                              *)

TaskRecords == [at : {"unused", "building", "populating", "over"},
                kind : {"start", "retry"}, as : Nobody]

\* A task that begins takes a place that nothing refers to.
LEMMA RunFacts ==
  ASSUME WebInv, NEW t \in Tasks, NEW at \in {"building", "populating"},
         NEW kind \in {"start", "retry"}, NEW as \in Users, Run(t, at, kind, as)
  PROVE  /\ task' \in [Tasks -> TaskRecords]
         /\ task'[t].as = as /\ task'[t].kind = kind
         /\ \A s \in Tasks \ {t} : task'[s] = task[s]
         /\ UnderWay' = UnderWay \cup {t} /\ Ran' = Ran \cup {t} /\ t \notin Ran
<1>1. task \in [Tasks -> TaskRecords] /\ task[t].at = "unused"
  BY DEF WebInv, TypeOK, TaskRecords, Run, Fresh, Unused
<1>2. task' = [task EXCEPT ![t] = [at |-> at, kind |-> kind, as |-> as]]
  BY DEF Run
<1>3. /\ task'[t] = [at |-> at, kind |-> kind, as |-> as]
      /\ \A s \in Tasks \ {t} : task'[s] = task[s]
  BY <1>1, <1>2
<1>4. task' \in [Tasks -> TaskRecords]
  BY <1>1, <1>2 DEF TaskRecords, Nobody
<1>5. UnderWay' = UnderWay \cup {t}
  BY <1>3 DEF UnderWay
<1>6. Ran' = Ran \cup {t} /\ t \notin Ran
  <2>1. task'[t].at # "unused" /\ task'[t].as \in Users
    <3>1. task'[t].at = at /\ task'[t].as = as
      BY <1>3
    <3>2. at # "unused"
      OBVIOUS
    <3> QED BY <3>1, <3>2
  <2>2. \A s \in Tasks : s \in Ran' <=> s \in Ran \/ s = t
    BY <1>3, <2>1 DEF Ran
  <2>3. Ran' \subseteq Tasks /\ Ran \subseteq Tasks
    BY DEF Ran, Tasks
  <2> QED BY <1>1, <2>2, <2>3 DEF Ran
<1> QED BY <1>3, <1>4, <1>5, <1>6

LEMMA HeldTasks ==
  ASSUME WebInv PROVE Held \subseteq Tasks
BY DEF WebInv, TypeOK, TasksInv, Ran, Held, UnderWay

\* Home's effect: a bring-up begins only when the latch is off, and so no other is
\* under way.
LEMMA StartStep ==
  ASSUME WebInv, StartBringUp
  PROVE  WebInv' /\ OwnersKept
<1> USE NoneAssumption DEF memory
<1>1. /\ UNCHANGED <<disk, memory, page, client, service, live, changed, left, outlived>>
      /\ effectDue /\ effectDue' = FALSE /\ wired' = TRUE /\ page = "home"
  BY DEF StartBringUp, WebInv, PagesInv
<1>2. CASE wired /\ UNCHANGED <<shown, task, spent>>
  <2>1. /\ UnderWay' = UnderWay /\ Ran' = Ran
        /\ \A s \in Tasks : Starting(s)' <=> Starting(s)
    BY <1>2, SameTasks
  <2>2. TypeOK' /\ PagesInv' /\ TasksInv'
    BY <1>1, <1>2, <2>1 DEF WebInv, TypeOK, PagesInv, TasksInv
  <2>3. LatchInv' /\ CleanInv'
    BY <1>1, <1>2, <2>1 DEF WebInv, LatchInv, CleanInv, SignOutIsClean
  <2>4. OwnersKept
    BY <1>1, <1>2, <2>1 DEF OwnersKept, Owned, Held
  <2> QED BY <2>2, <2>3, <2>4 DEF WebInv
<1>3. CASE ~wired /\ NoSession /\ spent' = TRUE /\ UNCHANGED task
  <2>1. /\ UnderWay' = UnderWay /\ Ran' = Ran
        /\ \A s \in Tasks : Starting(s)' <=> Starting(s)
    BY <1>3, SameTasks
  <2>2. TypeOK'
    BY <1>1, <1>3 DEF WebInv, TypeOK, NoSession, Screen, Nobody
  <2>3. PagesInv' /\ TasksInv' /\ CleanInv'
    BY <1>1, <1>3, <2>1 DEF WebInv, TypeOK, PagesInv, TasksInv, CleanInv, SignOutIsClean,
                            NoSession, Screen
  <2>4. LatchInv'
    BY <1>1, <1>3, <2>1 DEF WebInv, TypeOK, LatchInv
  <2>5. OwnersKept
    BY <1>1, <1>3, <2>1 DEF OwnersKept, Owned, Held, NoSession, Screen
  <2> QED BY <2>2, <2>3, <2>4, <2>5 DEF WebInv
<1>4. ASSUME ~wired, disk # None, shown' = Loading, UNCHANGED spent,
             NEW t \in Tasks, Run(t, "building", "start", disk)
      PROVE  WebInv' /\ OwnersKept
  <2>1. PICK u \in Users : u = disk /\ Run(t, "building", "start", u)
    BY <1>4 DEF WebInv, TypeOK, Nobody
  <2>2. /\ task' \in [Tasks -> TaskRecords] /\ task'[t].as = u /\ task'[t].kind = "start"
        /\ \A s \in Tasks \ {t} : task'[s] = task[s]
        /\ UnderWay' = UnderWay \cup {t} /\ Ran' = Ran \cup {t} /\ t \notin Ran
    BY <2>1, RunFacts
  <2>3. shown' \in {shown, Screen("loading", None)}
    BY <1>4 DEF Loading
  <2>4. TypeOK'
    <3>1. shown' \in [state : {"idle", "loading", "ready", "error"}, of : Nobody]
      BY <2>3 DEF WebInv, TypeOK, Screen, Nobody
    <3> QED BY <1>1, <1>4, <2>2, <3>1 DEF WebInv, TypeOK, TaskRecords
  <2>5. PagesInv' /\ TasksInv' /\ CleanInv'
    BY <1>1, <1>4, <2>2 DEF WebInv, TypeOK, PagesInv, TasksInv, CleanInv, SignOutIsClean
  <2>6. LatchInv'
    <3>1. ASSUME ~outlived PROVE UnderWay' = {t} /\ service = None /\ live \subseteq {service}
      BY <1>4, <2>2, <3>1 DEF WebInv, LatchInv
    <3>2. ~outlived => Starting(t)'
      BY <2>2, <3>1 DEF Starting
    <3>3. ~outlived => \A s \in Tasks : Starting(s)' => s = t
      BY <3>1 DEF Starting
    <3> QED BY <1>1, <3>1, <3>2, <3>3 DEF LatchInv
  <2>7. OwnersKept
    <3>1. ASSUME NEW v \in Nobody, Owned(v) PROVE Owned(v)'
      <4>1. v = u /\ shown'.of \in {v, None}
        BY <2>1, <2>3, <3>1 DEF Owned, Screen
      <4>2. \A s \in Held' : task'[s].as = v
        <5>1. Held' \subseteq Held \cup {t}
          BY <1>1, <2>2 DEF Held
        <5> QED BY <2>2, <3>1, <4>1, <5>1, HeldTasks DEF Owned
      <4> QED BY <1>1, <3>1, <4>1, <4>2 DEF Owned
    <3> QED BY <1>1, <3>1 DEF OwnersKept
  <2> QED BY <2>4, <2>5, <2>6, <2>7 DEF WebInv
<1> QED BY <1>2, <1>3, <1>4 DEF StartBringUp

LEMMA RetryStep ==
  ASSUME WebInv, Retry
  PROVE  WebInv' /\ OwnersKept
<1> USE NoneAssumption DEF memory, runtime, history
<1>1. /\ UNCHANGED <<disk, memory, page, effectDue, runtime, history>>
      /\ page = "home" /\ wired
  BY DEF Retry, WebInv, PagesInv
<1>2. CASE NoSession /\ UNCHANGED task
  <2>1. /\ UnderWay' = UnderWay /\ Ran' = Ran
        /\ \A s \in Tasks : Starting(s)' <=> Starting(s)
    BY <1>2, SameTasks
  <2>2. TypeOK'
    BY <1>1, <1>2 DEF WebInv, TypeOK, NoSession, Screen, Nobody
  <2>3. PagesInv' /\ TasksInv' /\ CleanInv' /\ LatchInv'
    BY <1>1, <1>2, <2>1 DEF WebInv, PagesInv, TasksInv, CleanInv, SignOutIsClean, LatchInv,
                            NoSession, Screen
  <2>4. OwnersKept
    BY <1>1, <1>2, <2>1 DEF OwnersKept, Owned, Held, NoSession, Screen
  <2> QED BY <2>2, <2>3, <2>4 DEF WebInv
<1>3. ASSUME shown' = Screen("loading", None), NEW t \in Tasks, NEW u \in Users,
             NEW at \in {"building", "populating"}, Run(t, at, "retry", u),
             \A v \in Nobody : Owned(v) => v = u,
             client # None \/ disk # None
      PROVE  WebInv' /\ OwnersKept
  <2>1. /\ task' \in [Tasks -> TaskRecords] /\ task'[t].as = u /\ task'[t].kind = "retry"
        /\ \A s \in Tasks \ {t} : task'[s] = task[s]
        /\ UnderWay' = UnderWay \cup {t} /\ Ran' = Ran \cup {t} /\ t \notin Ran
    BY <1>3, RunFacts
  <2>2. TypeOK'
    <3>1. shown' \in [state : {"idle", "loading", "ready", "error"}, of : Nobody]
      BY <1>3 DEF Screen, Nobody
    <3> QED BY <1>1, <2>1, <3>1 DEF WebInv, TypeOK, TaskRecords
  <2>3. PagesInv' /\ TasksInv' /\ CleanInv'
    BY <1>1, <1>3, <2>1 DEF WebInv, PagesInv, TasksInv, CleanInv, SignOutIsClean
  <2>4. \A s \in Tasks : Starting(s)' <=> Starting(s)
    BY <2>1 DEF Starting, WebInv, TasksInv
  <2>5. LatchInv'
    BY <1>1, <2>4 DEF WebInv, LatchInv
  <2>6. OwnersKept
    <3>1. ASSUME NEW v \in Nobody, Owned(v) PROVE Owned(v)'
      <4>1. v = u /\ shown'.of = None
        BY <1>3, <3>1 DEF Screen
      <4>2. \A s \in Held' : task'[s].as = v
        <5>1. Held' \subseteq Held \cup {t}
          BY <1>1, <2>1 DEF Held
        <5> QED BY <2>1, <3>1, <4>1, <5>1, HeldTasks DEF Owned
      <4> QED BY <1>1, <3>1, <4>1, <4>2 DEF Owned
    <3> QED BY <1>1, <3>1 DEF OwnersKept
  <2> QED BY <2>2, <2>3, <2>5, <2>6 DEF WebInv
<1>4. ASSUME disk # None, shown' = Screen("loading", None),
             NEW t \in Tasks, Run(t, "building", "retry", disk)
      PROVE  WebInv' /\ OwnersKept
  <2>1. PICK u \in Users : u = disk /\ Run(t, "building", "retry", u)
    BY <1>4 DEF WebInv, TypeOK, Nobody
  <2>2. \A v \in Nobody : Owned(v) => v = u
    BY <2>1 DEF Owned
  <2> QED BY <1>3, <1>4, <2>1, <2>2
<1>5. ASSUME client # None, shown' = Screen("loading", None),
             NEW t \in Tasks, Run(t, "populating", "retry", task[client].as)
      PROVE  WebInv' /\ OwnersKept
  <2>1. PICK u \in Users : u = task[client].as /\ Run(t, "populating", "retry", u)
    BY <1>5 DEF WebInv, TasksInv, Ran
  <2>2. \A v \in Nobody : Owned(v) => v = u
    BY <1>5, <2>1 DEF Owned, Held
  <2> QED BY <1>3, <1>5, <2>1, <2>2
<1> QED BY <1>2, <1>4, <1>5 DEF Retry

\* A task that goes on or ends is the same user's.
LEMMA MoveFacts ==
  ASSUME WebInv, NEW t \in Tasks, NEW next \in {"populating", "over"},
         t \in UnderWay, task' = [task EXCEPT ![t].at = next]
  PROVE  /\ task' \in [Tasks -> TaskRecords]
         /\ \A s \in Tasks : task'[s].as = task[s].as /\ task'[s].kind = task[s].kind
         /\ Ran' = Ran /\ task[t].as \in Users
         /\ UnderWay' = IF next = "populating" THEN UnderWay ELSE UnderWay \ {t}
<1>1. task \in [Tasks -> TaskRecords] /\ task[t].at \in {"building", "populating"}
  BY DEF WebInv, TypeOK, TaskRecords, UnderWay
<1>2. /\ task'[t].at = next /\ task'[t].as = task[t].as /\ task'[t].kind = task[t].kind
      /\ \A s \in Tasks \ {t} : task'[s] = task[s]
      /\ task' \in [Tasks -> TaskRecords]
  BY <1>1 DEF TaskRecords
<1>3. Ran' = Ran
  BY <1>1, <1>2 DEF Ran
<1>4. UnderWay' = IF next = "populating" THEN UnderWay ELSE UnderWay \ {t}
  BY <1>1, <1>2 DEF UnderWay
<1>5. task[t].as \in Users
  BY DEF WebInv, TasksInv, Ran
<1> QED BY <1>2, <1>3, <1>4, <1>5

LEMMA BuildStep ==
  ASSUME WebInv, NEW t \in Tasks, Build(t)
  PROVE  WebInv' /\ OwnersKept
<1> USE NoneAssumption DEF memory, history
<1>1. /\ UNCHANGED <<memory, page, effectDue, wired, service, live, changed, shown, history>>
      /\ t \in UnderWay /\ disk' = task[t].as /\ client' = t
      /\ task' = [task EXCEPT ![t].at = "populating"]
  BY DEF Build, UnderWay
<1>2. /\ task' \in [Tasks -> TaskRecords] /\ Ran' = Ran /\ task[t].as \in Users
      /\ \A s \in Tasks : task'[s].as = task[s].as /\ task'[s].kind = task[s].kind
      /\ UnderWay' = UnderWay
  BY <1>1, MoveFacts
<1>3. TypeOK'
  BY <1>1, <1>2 DEF WebInv, TypeOK, TaskRecords, Nobody
<1>4. PagesInv' /\ TasksInv' /\ CleanInv'
  BY <1>1, <1>2 DEF WebInv, PagesInv, TasksInv, CleanInv, SignOutIsClean
<1>5. \A s \in Tasks : Starting(s)' <=> Starting(s)
  BY <1>2 DEF Starting
<1>6. LatchInv'
  BY <1>1, <1>2, <1>5 DEF WebInv, LatchInv
<1>7. OwnersKept
  <2>1. ASSUME NEW v \in Nobody, Owned(v) PROVE Owned(v)'
    <3>1. task[t].as = v /\ Held' \subseteq Held
      BY <1>1, <1>2, <2>1 DEF Owned, Held
    <3> QED BY <1>1, <1>2, <2>1, <3>1, HeldTasks DEF Owned
  <2> QED BY <1>1, <2>1 DEF OwnersKept
<1> QED BY <1>3, <1>4, <1>6, <1>7 DEF WebInv

\* A bring-up that fails uses up the latch, which is noted.
LEMMA BuildFailsStep ==
  ASSUME WebInv, NEW t \in Tasks, BuildFails(t)
  PROVE  WebInv' /\ OwnersKept
<1> USE NoneAssumption DEF memory, runtime
<1>1. /\ UNCHANGED <<memory, page, effectDue, runtime, left, outlived>>
      /\ t \in UnderWay /\ disk' \in {disk, None} /\ shown' = Screen("error", None)
      /\ task' = [task EXCEPT ![t].at = "over"]
      /\ spent' = (spent \/ task[t].kind = "start")
  BY DEF BuildFails, UnderWay
<1>2. /\ task' \in [Tasks -> TaskRecords] /\ Ran' = Ran
      /\ \A s \in Tasks : task'[s].as = task[s].as /\ task'[s].kind = task[s].kind
      /\ UnderWay' = UnderWay \ {t}
  BY <1>1, MoveFacts
<1>3. TypeOK'
  BY <1>1, <1>2 DEF WebInv, TypeOK, TaskRecords, Nobody, Screen
<1>4. PagesInv' /\ TasksInv' /\ CleanInv'
  BY <1>1, <1>2 DEF WebInv, PagesInv, TasksInv, CleanInv, SignOutIsClean
<1>5. \A s \in Tasks : Starting(s)' <=> Starting(s) /\ s # t
  BY <1>2 DEF Starting
<1>6. ~spent' => ~spent /\ ~Starting(t)
  BY <1>1 DEF Starting
<1>7. LatchInv'
  BY <1>1, <1>2, <1>5, <1>6 DEF WebInv, LatchInv
<1>8. Held' \subseteq Held
  BY <1>1, <1>2 DEF Held
<1>9. OwnersKept
  BY <1>1, <1>2, <1>8, HeldTasks DEF OwnersKept, Owned, Screen
<1> QED BY <1>3, <1>4, <1>7, <1>9 DEF WebInv

\* The one bring-up that started makes the one service.
LEMMA PopulateStep ==
  ASSUME WebInv, NEW t \in Tasks, Populate(t)
  PROVE  WebInv' /\ OwnersKept
<1> USE NoneAssumption DEF memory, history
<1>1. /\ UNCHANGED <<disk, memory, page, effectDue, wired, client, changed, history>>
      /\ t \in UnderWay
      /\ shown' \in {Screen("ready", task[t].as), Screen("error", None)}
      /\ task' = [task EXCEPT ![t].at = "over"]
      /\ IF task[t].kind = "start" THEN service' = t /\ live' = live \cup {t}
                                   ELSE UNCHANGED <<service, live>>
  BY DEF Populate, UnderWay, Wire
<1>2. /\ task' \in [Tasks -> TaskRecords] /\ Ran' = Ran /\ task[t].as \in Users
      /\ \A s \in Tasks : task'[s].as = task[s].as /\ task'[s].kind = task[s].kind
      /\ UnderWay' = UnderWay \ {t}
  BY <1>1, MoveFacts
<1>3. TypeOK'
  <2>1. shown' \in [state : {"idle", "loading", "ready", "error"}, of : Nobody]
    BY <1>1, <1>2 DEF Screen, Nobody
  <2> QED BY <1>1, <1>2, <2>1 DEF WebInv, TypeOK, TaskRecords
<1>4. PagesInv' /\ TasksInv' /\ CleanInv'
  BY <1>1, <1>2 DEF WebInv, PagesInv, TasksInv, CleanInv, SignOutIsClean
<1>5. \A s \in Tasks : Starting(s)' <=> Starting(s) /\ s # t
  BY <1>2 DEF Starting
<1>6. LatchInv'
  <2>1. CASE ~Starting(t)
    <3>1. UNCHANGED <<service, live, wired, client, outlived, spent>>
      BY <1>1, <2>1 DEF Starting
    <3> QED BY <1>2, <1>5, <2>1, <3>1 DEF WebInv, LatchInv
  <2>2. CASE Starting(t) /\ ~outlived
    <3>1. wired /\ service = None /\ live = {} /\ \A s \in Tasks : Starting(s) => s = t
      BY <1>1, <2>2 DEF WebInv, TypeOK, LatchInv, Tasks
    <3>2. service' = t /\ live' = {t} /\ t # None
      BY <1>1, <2>2, <3>1 DEF Starting, Tasks
    <3> QED BY <1>1, <1>5, <3>1, <3>2 DEF LatchInv
  <2> QED BY <1>1, <2>1, <2>2 DEF LatchInv
<1>7. OwnersKept
  <2>1. ASSUME NEW v \in Nobody, Owned(v) PROVE Owned(v)'
    <3>1. task[t].as = v /\ Held' \subseteq Held
      BY <1>1, <1>2, <2>1 DEF Owned, Held
    <3>2. shown'.of \in {v, None}
      BY <1>1, <3>1 DEF Screen
    <3> QED BY <1>1, <1>2, <2>1, <3>1, <3>2, HeldTasks DEF Owned
  <2> QED BY <1>1, <2>1 DEF OwnersKept
<1> QED BY <1>3, <1>4, <1>6, <1>7 DEF WebInv

LEMMA WebStep ==
  ASSUME WebInv, [Next]_vars
  PROVE  WebInv' /\ OwnersKept
BY RouteSteps, CloseStep, SignInEndsStep, SignOutSteps, PumpSteps, StartStep, RetryStep,
   BuildStep, BuildFailsStep, PopulateStep
   DEF Next, Routes, Sessions, TaskStep

-----------------------------------------------------------------------------
(* The send page.                                                          *)

CallRecords == [kind : {"refused", "quote", "create"}, as : Nobody]

LEMMA NoCalls == IsABag(EmptyBag) /\ BagToSet(EmptyBag) = {}
BY DEF IsABag, BagToSet, EmptyBag, SetToBag

LEMMA CallAdded ==
  ASSUME IsABag(calls), NEW c
  PROVE  /\ IsABag(calls (+) SetToBag({c}))
         /\ BagToSet(calls (+) SetToBag({c})) = BagToSet(calls) \cup {c}
BY DEF IsABag, BagToSet, SetToBag, (+)

LEMMA CallRemoved ==
  ASSUME IsABag(calls), NEW c
  PROVE  /\ IsABag(calls (-) SetToBag({c}))
         /\ BagToSet(calls (-) SetToBag({c})) \subseteq BagToSet(calls)
BY DEF IsABag, BagToSet, SetToBag, (-)

\* A view that is made or left holds nothing.
LEMMA ViewFacts ==
  ASSUME NEW c \in {"none", "amount"}, View(c)
  PROVE  ScreenTypeOK' /\ SendsInv' /\ \A u \in Nobody : OwnedOnScreen(u)'
BY NoCalls DEF View, ScreenTypeOK, SendsInv, OwnedOnScreen, Nobody, Asks

\* What a step of the page does: it brings nothing of another user to the screen.
ScreenKept ==
  /\ ScreenTypeOK' /\ SendsInv'
  /\ \A u \in Nobody : OwnedOnScreen(u) /\ disk \in {u, None} => OwnedOnScreen(u)'

LEMMA BeginSteps ==
  ASSUME IInv, Continue \/ Confirm
  PROVE  ScreenKept
<1>1. PICK kind \in {"quote", "create"}, c \in {"quoting", "swapping"} : Begin(kind, c)
  BY DEF Continue, Confirm
<1>2. PICK call : call = Call(kind, disk)
  OBVIOUS
<1>3. /\ call \in CallRecords /\ call.as \in {disk, None}
      /\ call.kind = "create" => call.as # None
  BY <1>2, NoneAssumption DEF Call, CallRecords, IInv, WebInv, TypeOK, Nobody
<1>4. IsABag(calls') /\ BagToSet(calls') = BagToSet(calls) \cup {call}
  BY <1>1, <1>2, CallAdded DEF Begin, IInv, ScreenTypeOK
<1>5. /\ card' = c /\ payer' = None /\ poll' = "off"
      /\ earlier' \in BOOLEAN
  BY <1>1 DEF Begin, Turn, IInv, ScreenTypeOK
<1>6. ScreenTypeOK'
  BY <1>3, <1>4, <1>5 DEF IInv, ScreenTypeOK, CallRecords, Nobody
<1>7. SendsInv'
  BY <1>3, <1>4, <1>5 DEF IInv, SendsInv
<1>8. \A u \in Nobody : OwnedOnScreen(u) /\ disk \in {u, None} => OwnedOnScreen(u)'
  BY <1>3, <1>4, <1>5 DEF OwnedOnScreen
<1> QED BY <1>6, <1>7, <1>8 DEF ScreenKept

LEMMA AnswerSteps ==
  ASSUME IInv, CallEnds
  PROVE  ScreenKept
<1>1. PICK c \in BagToSet(calls) : CallFails(c) \/ Quoted(c) \/ Created(c)
  BY DEF CallEnds
<1>2. IsABag(calls') /\ BagToSet(calls') \subseteq BagToSet(calls)
  BY <1>1, CallRemoved DEF CallFails, Quoted, Created, Ends, IInv, ScreenTypeOK
<1>3. c \in CallRecords /\ (c.kind = "create" => c.as # None)
  BY <1>1 DEF IInv, ScreenTypeOK, SendsInv, CallRecords
<1>4. \/ /\ card' \in {"failure", "confirming"} /\ payer' = None /\ poll' = "off"
      \/ /\ card' = "share" /\ payer' = c.as /\ poll' = "timer" /\ c.kind = "create"
  BY <1>1 DEF CallFails, Quoted, Created, Turn
<1>5. earlier' \in BOOLEAN
  BY <1>1 DEF CallFails, Quoted, Created, Turn, IInv, ScreenTypeOK
<1>6. ScreenTypeOK'
  BY <1>2, <1>3, <1>4, <1>5 DEF IInv, ScreenTypeOK, CallRecords, Nobody
<1>7. SendsInv'
  BY <1>2, <1>3, <1>4 DEF IInv, SendsInv
<1>8. \A u \in Nobody : OwnedOnScreen(u) => OwnedOnScreen(u)'
  BY <1>1, <1>2, <1>4 DEF OwnedOnScreen
<1> QED BY <1>6, <1>7, <1>8 DEF ScreenKept

LEMMA CardSteps ==
  ASSUME IInv,
         Back \/ Tick \/ NotYet \/ SeenClaimed \/ EarlierNotYet \/ EarlierClaimed
  PROVE  ScreenKept
<1>1. calls' = calls /\ payer' \in {payer, None} /\ (card' = "share" => card = "share" /\ payer' = payer)
  BY DEF Back, Turn, Tick, NotYet, KeepCard, SeenClaimed, EarlierNotYet, EarlierClaimed
<1>2. ScreenTypeOK'
  <2>1. earlier' \in BOOLEAN
    BY DEF Back, Turn, Tick, NotYet, KeepCard, SeenClaimed, EarlierNotYet, EarlierClaimed,
           IInv, ScreenTypeOK
  <2>2. /\ card' \in {"amount", "claimed", card}
        /\ poll' \in {"off", "timer", "asPayer", "asOther", poll}
    BY DEF Back, Turn, Tick, NotYet, KeepCard, SeenClaimed, EarlierNotYet, EarlierClaimed
  <2> QED BY <1>1, <2>1, <2>2 DEF IInv, ScreenTypeOK, Nobody, Asks
<1>3. SendsInv'
  BY <1>1 DEF IInv, SendsInv
<1>4. \A u \in Nobody : OwnedOnScreen(u) => OwnedOnScreen(u)'
  BY <1>1 DEF OwnedOnScreen
<1> QED BY <1>2, <1>3, <1>4 DEF ScreenKept

LEMMA SendSteps ==
  ASSUME IInv, SendStep
  PROVE  UNCHANGED vars /\ ScreenKept
<1>1. UNCHANGED vars
  BY DEF SendStep, Remount, Continue, Confirm, Begin, Back, CallEnds, CallFails, Quoted, Created,
         Ends, Tick, NotYet, SeenClaimed, EarlierNotYet, EarlierClaimed
<1>2. CASE Remount
  BY <1>2, ViewFacts DEF Remount, ScreenKept
<1> QED BY <1>1, <1>2, BeginSteps, AnswerSteps, CardSteps DEF SendStep

LEMMA InitInv == ScreenInit => IInv
<1> SUFFICES ASSUME ScreenInit PROVE IInv
  OBVIOUS
<1> USE NoneAssumption, BoundsAssumption DEF ScreenInit, Init
<1>1. \A t \in Tasks : task[t] = NoTask
  BY DEF Tasks
<1>2. TypeOK
  <2>1. NoTask \in TaskRecords
    BY DEF NoTask, TaskRecords, Nobody
  <2>2. Screen("idle", None) \in [state : {"idle", "loading", "ready", "error"}, of : Nobody]
    BY DEF Screen, Nobody
  <2>3. leaving \in 0..MaxSignOuts
    OBVIOUS
  <2>4. {effectDue, wired, left, outlived, spent} \subseteq BOOLEAN
    OBVIOUS
  <2>5. task \in [Tasks -> TaskRecords]
    BY <2>1
  <2> QED BY <2>2, <2>3, <2>4, <2>5 DEF TypeOK, TaskRecords, Nobody
<1>3. UnderWay = {}
  BY <1>1 DEF UnderWay, NoTask
<1>4. PagesInv /\ TasksInv /\ LatchInv /\ CleanInv
  BY <1>3 DEF PagesInv, TasksInv, LatchInv, Starting, CleanInv, SignOutIsClean
<1>5. ScreenTypeOK /\ SendsInv
  BY NoCalls DEF ScreenTypeOK, SendsInv, Nobody, Asks
<1>6. Owned(None) /\ OwnedOnScreen(None)
  BY <1>3, NoCalls DEF Owned, OwnedOnScreen, Held, Screen
<1>7. OwnerInv
  BY <1>6 DEF OwnerInv, Nobody
<1> QED BY <1>2, <1>4, <1>5, <1>7 DEF IInv, WebInv

LEMMA NextInv == IInv /\ [ScreenNext]_all => IInv'
<1> SUFFICES ASSUME IInv, [ScreenNext]_all PROVE IInv'
  OBVIOUS
<1>1. CASE UNCHANGED vars /\ ScreenKept
  <2>1. WebInv' /\ OwnersKept
    BY <1>1, WebStep DEF IInv
  <2>2. disk' = disk /\ outlived' = outlived /\ page' = page
    BY <1>1 DEF vars, history
  <2>3. OwnerInv'
    <3>1. ASSUME ~outlived' PROVE \E u \in Nobody : Owned(u)' /\ OwnedOnScreen(u)'
      <4>1. PICK u \in Nobody : Owned(u) /\ OwnedOnScreen(u)
        BY <2>2, <3>1 DEF IInv, OwnerInv
      <4>2. Owned(u)'
        BY <2>1, <2>2, <3>1, <4>1 DEF OwnersKept
      <4>3. OwnedOnScreen(u)'
        BY <1>1, <4>1 DEF ScreenKept, Owned
      <4> QED BY <4>2, <4>3
    <3> QED BY <3>1 DEF OwnerInv
  <2> QED BY <1>1, <2>1, <2>3 DEF IInv, ScreenKept
<1>2. CASE Next /\ Mounts
  <2>1. WebInv' /\ OwnersKept
    BY <1>2, WebStep DEF IInv
  <2>2. CASE page' = page
    <3>1. UNCHANGED send
      BY <1>2, <2>2 DEF Mounts
    <3>2. /\ ScreenTypeOK' /\ SendsInv' /\ \A u \in Nobody : OwnedOnScreen(u) => OwnedOnScreen(u)'
      BY <3>1 DEF send, IInv, ScreenTypeOK, SendsInv, OwnedOnScreen
    <3>3. OwnerInv'
      BY <2>1, <2>2, <3>2 DEF IInv, OwnerInv, OwnersKept
    <3> QED BY <2>1, <3>2, <3>3 DEF IInv
  <2>3. CASE page' # page
    <3>1. ScreenTypeOK' /\ SendsInv' /\ \A u \in Nobody : OwnedOnScreen(u)'
      BY <1>2, <2>3, ViewFacts DEF Mounts
    <3>2. OwnerInv'
      BY <2>1, <3>1 DEF IInv, OwnerInv, OwnersKept
    <3> QED BY <2>1, <3>1, <3>2 DEF IInv
  <2> QED BY <2>2, <2>3
<1>3. CASE UNCHANGED all
  <2>1. UNCHANGED vars /\ UNCHANGED send
    BY <1>3 DEF all
  <2>2. ScreenKept
    BY <2>1 DEF send, ScreenKept, IInv, ScreenTypeOK, SendsInv, OwnedOnScreen
  <2> QED BY <1>1, <2>1, <2>2
<1> QED BY <1>1, <1>2, <1>3, SendSteps DEF ScreenNext

-----------------------------------------------------------------------------

(* Every state of the page and its sessions satisfies the inductive invariant. *)
THEOREM Invariance == ScreenSpec => []IInv
BY InitInv, NextInv, PTL DEF ScreenSpec

(* The session, the route, the tasks and the cards keep their types.           *)
THEOREM TypeCorrect == ScreenSpec => [](TypeOK /\ ScreenTypeOK)
<1>1. IInv => TypeOK /\ ScreenTypeOK
  BY DEF IInv, WebInv
<1> QED BY <1>1, Invariance, PTL

(* A sign-out leaves nothing of the session: not stored, not running and not   *)
(* on screen, unless something was under way that nobody cancels.              *)
THEOREM SignOutLeavesNothing == ScreenSpec => []SignOutIsClean
<1>1. IInv => SignOutIsClean
  BY DEF IInv, WebInv, CleanInv
<1> QED BY <1>1, Invariance, PTL

(* What is on screen, the accounts or a token to share, is the signed-in       *)
(* user's, however sign-ins, bring-ups, retries, pumps and sends interleave,   *)
(* unless something outlived its session.                                      *)
THEOREM ScreenShowsOwn == ScreenSpec => []ScreenIsOwn
<1>1. IInv => ScreenIsOwn
  BY DEF IInv, OwnerInv, Owned, OwnedOnScreen, SendsInv, ScreenIsOwn, ShownIsOwn, SentIsOwn
<1> QED BY <1>1, Invariance, PTL

(* Home, once its bring-up has run its course, has a service and a driver of   *)
(* the signed-in user: the latch starts one in every session.                  *)
THEOREM HomeHasService == ScreenSpec => []HomeIsServed
<1>1. IInv => HomeIsServed
  <2> SUFFICES ASSUME IInv, page = "home", ~effectDue, token # None, UnderWay = {},
                      ~spent, ~outlived
               PROVE  service \in live /\ task[service].as = token
    BY DEF HomeIsServed
  <2>1. service # None
    BY DEF IInv, WebInv, PagesInv, LatchInv, Starting
  <2>2. service \in live
    BY <2>1 DEF IInv, WebInv, TasksInv
  <2>3. PICK u \in Nobody : token \in {u, None} /\ task[service].as = u
    BY <2>2 DEF IInv, OwnerInv, Owned, Held
  <2> QED BY <2>2, <2>3
<1> QED BY <1>1, Invariance, PTL

(* The card with a token goes only when the user leaves it, by a claim that a  *)
(* poll reports, or by the answer of a call that was begun before.             *)
THEOREM ShareCardStays == ScreenSpec => TokenStaysShown
<1>1. [ScreenNext]_all =>
        [card = "share" /\ card' # "share" =>
           \/ card' \in {"none", "amount"}
           \/ card' = "claimed" /\ (poll = "asPayer" \/ earlier)
           \/ calls # EmptyBag]_all
  <2> SUFFICES ASSUME [ScreenNext]_all, card = "share", card' # "share"
               PROVE  \/ card' \in {"none", "amount"}
                      \/ card' = "claimed" /\ (poll = "asPayer" \/ earlier)
                      \/ calls # EmptyBag
    OBVIOUS
  <2>1. CASE Next /\ Mounts
    BY <2>1 DEF Mounts, View, send
  <2>2. CASE CallEnds
    BY <2>2, NoCalls DEF CallEnds
  <2>3. CASE Remount \/ Continue \/ Confirm \/ Back
    BY <2>3 DEF Remount, View, Continue, Confirm, Back, Turn
  <2>4. CASE Tick \/ NotYet \/ SeenClaimed \/ EarlierNotYet \/ EarlierClaimed
    BY <2>4 DEF Tick, NotYet, KeepCard, SeenClaimed, EarlierNotYet, EarlierClaimed
  <2>5. CASE UNCHANGED all
    BY <2>5 DEF all, send
  <2> QED BY <2>1, <2>2, <2>3, <2>4, <2>5 DEF ScreenNext, SendStep
<1> QED BY <1>1, PTL DEF ScreenSpec, TokenStaysShown
=============================================================================
