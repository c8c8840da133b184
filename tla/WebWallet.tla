------------------------------ MODULE WebWallet -----------------------------
(***************************************************************************)
(* The web shell around the wallet: one page, the session it keeps in the  *)
(* browser's storage, the bring-up that Home starts, and what of it is     *)
(* left when the user signs out. The page runs on one thread: an action is *)
(* what runs between two awaits. The browser's storage answers at once and *)
(* does not fail; requests take their time, fail, and are never cancelled. *)
(*                                                                         *)
(* A definition marked (mutant) is not part of the model: it is what a     *)
(* plausible bug would make of the definition that follows it.             *)
(***************************************************************************)
EXTENDS Naturals

CONSTANTS
  Users,
  None,
  MaxTasks,                \* bound on the bring-ups and retries of one visit
  MaxSignOuts              \* bound on the sign-outs under way at once

ASSUME NoneAssumption == None \notin Users /\ None \notin Nat
ASSUME BoundsAssumption == MaxTasks \in Nat \ {0} /\ MaxSignOuts \in Nat \ {0}

VARIABLES
  disk,                    \* user of the session in localStorage
  token,                   \* user of the access token, which the guard asks for
  rehydrating,             \* user whose stored session is being restored
  page,                    \* the route, or "closed"
  effectDue,               \* Home has mounted and its effect has not run yet
  signingIn,               \* user of the sign-in under way
  leaving,                 \* sign-outs under way
  wired,                   \* the latch reactivity_wired
  client,                  \* wallet_client: the task that built it
  service,                 \* realtime_service and driver_handle: the task that made them
  live,                    \* tasks whose service and driver have not been stopped
  changed,                 \* clients whose cache has changes to show
  shown,                   \* the accounts on screen, and whose they are
  task,                    \* bring-ups and retries
  left,                    \* history: the user has signed out, and not in again
  outlived,                \* history: something was under way when its session ended
  spent                    \* history: a bring-up ended early, with its latch set

memory == <<token, rehydrating, signingIn, leaving>>
history == <<left, outlived, spent>>
runtime == <<wired, client, service, live, changed>>
vars == <<disk, memory, page, effectDue, runtime, shown, task, history>>

Nobody == Users \cup {None}
Protected == {"home", "settings", "send"}
Tasks == 1..MaxTasks

NoTask == [at |-> "unused", kind |-> "retry", as |-> None]
Unused == {t \in Tasks : task[t].at = "unused"}
UnderWay == {t \in Tasks : task[t].at \in {"building", "populating"}}
Fresh(t) == t \in Unused /\ \A s \in Unused : t <= s

Screen(state, u) == [state |-> state, of |-> u]

TypeOK ==
  /\ {disk, token, rehydrating, signingIn} \subseteq Nobody
  /\ page \in Protected \cup {"closed", "login"}
  /\ {effectDue, wired, left, outlived, spent} \subseteq BOOLEAN
  /\ leaving \in 0..MaxSignOuts
  /\ {client, service} \subseteq Tasks \cup {None}
  /\ live \subseteq Tasks /\ changed \subseteq Tasks
  /\ shown \in [state : {"idle", "loading", "ready", "error"}, of : Nobody]
  /\ task \in [Tasks -> [at : {"unused", "building", "populating", "over"},
                         kind : {"start", "retry"}, as : Nobody]]

Init ==
  /\ disk = None
  /\ token = None /\ rehydrating = None /\ signingIn = None /\ leaving = 0
  /\ page = "closed" /\ effectDue = FALSE
  /\ wired = FALSE /\ client = None /\ service = None /\ live = {} /\ changed = {}
  /\ shown = Screen("idle", None) /\ task = [t \in Tasks |-> NoTask]
  /\ left = FALSE /\ outlived = FALSE /\ spent = FALSE

-----------------------------------------------------------------------------
(* Routes *)

Go(p) == page' = p /\ effectDue' = (p = "home")

\* App: the restore begins before the guard may decide anything.
OpenPage(p) ==
  /\ page = "closed"
  /\ Go(p)
  /\ rehydrating' = disk
  /\ UNCHANGED <<disk, token, signingIn, leaving, runtime, shown, task, history>>

\* Everything but the storage goes with the page.
ClosePage ==
  /\ page # "closed"
  /\ page' = "closed" /\ effectDue' = FALSE
  /\ token' = None /\ rehydrating' = None /\ signingIn' = None /\ leaving' = 0
  /\ wired' = FALSE /\ client' = None /\ service' = None /\ live' = {} /\ changed' = {}
  /\ shown' = Screen("idle", None) /\ task' = [t \in Tasks |-> NoTask]
  /\ left' = FALSE /\ outlived' = FALSE /\ spent' = FALSE
  /\ UNCHANGED disk

\* The bottom bar, or the browser's way back to the login page, from which no guard
\* keeps a signed-in user, and from there back to Home.
Navigate(p) ==
  /\ page \in (Protected \cup {"login"}) \ {p} /\ ~effectDue
  /\ page = "login" => p = "home" /\ signingIn = None            \* bound
  /\ p = "home" => Unused # {}                                   \* bound
  /\ Go(p)
  /\ UNCHANGED <<disk, memory, runtime, shown, task, history>>

\* ProtectedLayout
Redirect ==
  /\ page \in Protected /\ rehydrating = None /\ token = None
  /\ Go("login")
  /\ UNCHANGED <<disk, memory, runtime, shown, task, history>>

\* The answer sets the token, or nothing.
RehydrateEnds ==
  /\ rehydrating # None
  /\ token' \in {token, rehydrating}
  /\ rehydrating' = None
  /\ UNCHANGED <<disk, signingIn, leaving, page, effectDue, runtime, shown, task, history>>

-----------------------------------------------------------------------------
(* Sign-in and sign-out *)

\* E-mail and guest sign-in differ in the request.
SignIn(u) ==
  /\ page = "login" /\ signingIn = None
  /\ signingIn' = u
  /\ UNCHANGED <<disk, token, rehydrating, leaving, page, effectDue, runtime, shown, task, history>>

\* Nothing cancels a bring-up, a restore, or the pumps.
Busy == UnderWay # {} \/ changed # {} \/ rehydrating # None

SignInEnds ==
  /\ signingIn # None
  /\ signingIn' = None
  /\ \/ /\ disk' = signingIn /\ token' = signingIn
        /\ Go("home") /\ Unused # {}                              \* bound
        /\ left' = FALSE
        /\ outlived' = (outlived \/ (~left /\ (Busy \/ live # {} \/ client # None \/ shown.of # None)))
     \/ UNCHANGED <<disk, token, page, effectDue, left, outlived>>
  /\ UNCHANGED <<rehydrating, leaving, runtime, shown, task, spent>>

\* teardown_realtime. The pumps hold the service and the client themselves: they
\* go on with what the channel holds.
Teardown ==
  /\ live' = live \ {service}
  /\ service' = None /\ client' = None /\ wired' = FALSE
  /\ UNCHANGED changed

\* The runtime goes first, then the server is told.
SignOut ==
  /\ page = "settings" /\ leaving < MaxSignOuts                  \* bound
  /\ leaving' = leaving + 1
  /\ Teardown
  /\ outlived' = (outlived \/ UnderWay # {}) /\ spent' = FALSE
  /\ UNCHANGED <<disk, token, rehydrating, signingIn, page, effectDue, shown, task, left>>

\* (mutant)
ClearView == shown' = Screen("idle", None) /\ UNCHANGED runtime

\* (mutant)
ClearRuntime == Teardown /\ UNCHANGED shown

\* clear_for_signout
ClearForSignout == shown' = Screen("idle", None) /\ Teardown

SignOutEnds ==
  /\ leaving > 0
  /\ leaving' = leaving - 1
  /\ disk' = None /\ token' = None
  /\ ClearForSignout
  /\ Go("login")
  /\ left' = TRUE /\ spent' = FALSE
  /\ outlived' = (outlived \/ Busy)
  /\ UNCHANGED <<rehydrating, signingIn, task>>

-----------------------------------------------------------------------------
(* Bring-up *)

Loading == IF shown.state = "ready" THEN shown ELSE Screen("loading", None)

\* (mutant)
NothingToAnswer == shown' = Loading

\* Without a session the wallet is empty.
NoSession == shown' = Screen("ready", None)

Run(t, at, kind, as) ==
  /\ Fresh(t)
  /\ task' = [task EXCEPT ![t] = [at |-> at, kind |-> kind, as |-> as]]

\* start: the latch comes before everything that can end the bring-up.
StartBringUp ==
  /\ effectDue
  /\ effectDue' = FALSE
  /\ wired' = TRUE
  /\ \/ wired /\ UNCHANGED <<shown, task, spent>>
     \/ /\ ~wired /\ disk = None
        /\ NoSession /\ spent' = TRUE
        /\ UNCHANGED task
     \/ /\ ~wired /\ disk # None
        /\ shown' = Loading
        /\ \E t \in Tasks : Run(t, "building", "start", disk)
        /\ UNCHANGED spent
  /\ UNCHANGED <<disk, memory, page, client, service, live, changed, left, outlived>>

\* refresh_with_config, which the button of an error calls.
Retry ==
  /\ page = "home" /\ ~effectDue /\ shown.state = "error"
  /\ \/ /\ client = None /\ disk = None
        /\ NoSession
        /\ UNCHANGED task
     \/ /\ client = None /\ disk # None
        /\ shown' = Screen("loading", None)
        /\ \E t \in Tasks : Run(t, "building", "retry", disk)
     \/ /\ client # None
        /\ shown' = Screen("loading", None)
        /\ \E t \in Tasks : Run(t, "populating", "retry", task[client].as)
  /\ UNCHANGED <<disk, memory, page, effectDue, runtime, history>>

\* from_config_async: the session it began with is written to the storage again.
Build(t) ==
  /\ task[t].at = "building"
  /\ task' = [task EXCEPT ![t].at = "populating"]
  /\ disk' = task[t].as
  /\ client' = t
  /\ UNCHANGED <<memory, page, effectDue, wired, service, live, changed, shown, history>>

\* The session that is stored is cleared when it seems to be dead.
BuildFails(t) ==
  /\ task[t].at = "building"
  /\ task' = [task EXCEPT ![t].at = "over"]
  /\ disk' \in {disk, None}
  /\ shown' = Screen("error", None)
  /\ spent' = (spent \/ task[t].kind = "start")
  /\ UNCHANGED <<memory, page, effectDue, runtime, left, outlived>>

\* (mutant)
WireWhenPopulated(t) ==
  IF task[t].kind = "start" /\ shown'.state = "ready"
  THEN service' = t /\ live' = live \cup {t}
  ELSE UNCHANGED <<service, live>>

\* Service, driver and pumps, with an empty screen too.
Wire(t) ==
  IF task[t].kind = "start"
  THEN service' = t /\ live' = live \cup {t}
  ELSE UNCHANGED <<service, live>>

\* populate_all, and what start does after it
Populate(t) ==
  /\ task[t].at = "populating"
  /\ task' = [task EXCEPT ![t].at = "over"]
  /\ \/ shown' = Screen("ready", task[t].as)
     \/ shown' = Screen("error", None)
  /\ Wire(t)
  /\ UNCHANGED <<disk, memory, page, effectDue, wired, client, changed, history>>

-----------------------------------------------------------------------------
(* Changes *)

\* The apply pump of a client writes a change to its cache.
Change(t) ==
  /\ t \in live \ changed
  /\ changed' = changed \cup {t}
  /\ UNCHANGED <<disk, memory, page, effectDue, wired, client, service, live, shown, task, history>>

\* The dispatch pump reads the accounts again and shows them. An error keeps what
\* is on screen, but not in the resync that follows a lag.
Dispatch(t) ==
  /\ t \in changed
  /\ changed' = changed \ {t}
  /\ shown' \in {shown, Screen("ready", task[t].as), Screen("error", None)}
  /\ UNCHANGED <<disk, memory, page, effectDue, wired, client, service, live, task, history>>

-----------------------------------------------------------------------------

Routes ==
  \/ \E p \in Protected \cup {"login"} : OpenPage(p) \/ Navigate(p)
  \/ ClosePage \/ Redirect
Sessions == (\E u \in Users : SignIn(u)) \/ SignInEnds \/ SignOut \/ SignOutEnds \/ RehydrateEnds
TaskStep(t) == Build(t) \/ BuildFails(t) \/ Populate(t)
Next ==
  \/ Routes \/ Sessions \/ StartBringUp \/ Retry
  \/ \E t \in Tasks : TaskStep(t) \/ Change(t) \/ Dispatch(t)

\* Requests are answered, effects run.
Fairness ==
  /\ WF_vars(Redirect) /\ WF_vars(RehydrateEnds) /\ WF_vars(StartBringUp)
  /\ \A t \in Tasks : WF_vars(TaskStep(t)) /\ WF_vars(Dispatch(t))

Spec == Init /\ [][Next]_vars /\ Fairness

-----------------------------------------------------------------------------

(* A sign-out is final: no session is stored, no runtime is left, nobody's     *)
(* accounts are on screen, unless something was under way that nobody cancels. *)
SignOutIsClean ==
  left /\ ~outlived =>
    /\ disk = None /\ token = None
    /\ live = {} /\ client = None
    /\ shown.of = None

(* The accounts on screen are those of the user who is signed in, unless       *)
(* something outlived its session.                                             *)
ShownIsOwn ==
  token # None /\ shown.of # None => shown.of = token \/ outlived

(* A signed-in user who looks at Home, with nothing under way, has live        *)
(* updates of their own account, unless a bring-up used up the latch and ended *)
(* early (no session yet, or no client), or something outlived its session.    *)
HomeIsServed ==
  page = "home" /\ ~effectDue /\ token # None /\ leaving = 0 /\ UnderWay = {} =>
    (service \in live /\ task[service].as = token) \/ spent \/ outlived

(* Home always comes to show the accounts or an error to retry.                *)
HomeSettles ==
  page = "home" /\ shown.state \in {"idle", "loading"} ~>
    page # "home" \/ shown.state \in {"ready", "error"}
=============================================================================
