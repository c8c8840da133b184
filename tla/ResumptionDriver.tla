-------------------------- MODULE ResumptionDriver --------------------------
(***************************************************************************)
(* The resumption driver: one task that turns realtime events, foreground  *)
(* notifications and a fallback tick into sweeps, one at a time, with a    *)
(* dirty bit for what arrives meanwhile and a pause while logged out.      *)
(*                                                                         *)
(* A definition marked (mutant) is not part of the model: it is what a     *)
(* plausible bug would make of the definition that follows it.             *)
(***************************************************************************)
EXTENDS EventChannel

VARIABLES
  pending, paused, halted, poked,     \* Shared: the flags, and a pulse on waker
  task,                               \* where the task is
  connected,                          \* its view of the realtime status
  loggedOut,                          \* the latest sweep ended Unauthenticated
  session,                            \* the wallet has a session
  unswept,                            \* a row changed that no sweep has read since
  excused,                            \* history: a sweep that should have read it failed,
                                      \* or the report of a lag was skipped
  raced                               \* history: notified during the sweep that paused

driverVars == <<pending, paused, halted, poked, task, connected, loggedOut, session,
                unswept, excused, raced>>

Tasks == {"drain", "sweeping", "finishing", "backoff", "parked", "exited"}

DriverTypeOK ==
  /\ {pending, paused, halted, poked, connected, loggedOut, session, unswept, excused, raced}
       \subseteq BOOLEAN
  /\ task \in Tasks

\* start: the initial trigger is marked before the task makes its receiver.
DriverInit ==
  /\ pending = TRUE /\ paused = FALSE /\ halted = FALSE /\ poked = FALSE
  /\ task = "drain" /\ connected = FALSE /\ loggedOut = FALSE
  /\ session = TRUE /\ unswept = TRUE /\ excused = FALSE /\ raced = FALSE

-----------------------------------------------------------------------------
(* Triggers *)

Mark == pending' = TRUE /\ poked' = TRUE
MarkUnlessPaused == IF paused THEN UNCHANGED <<pending, poked>> ELSE Mark

\* (mutant)
NotifyForegroundUnlessPaused ==
  /\ raced' = FALSE
  /\ Mark
  /\ UNCHANGED paused

NotifyForeground ==
  /\ paused' = FALSE
  /\ raced' = FALSE
  /\ Mark

StopDriver ==
  /\ halted' = TRUE
  /\ poked' = TRUE

-----------------------------------------------------------------------------
(* The loop of run_task *)

\* handle_realtime_event, for all that has been received
LatestStatus ==
  LET statuses == SelectSeq(inbox, LAMBDA m : m \in {"Connected", "Down"})
  IN  IF statuses = <<>> THEN connected ELSE statuses[Len(statuses)] = "Connected"

\* (mutant)
TriggeredByEvents == Holds("Relevant")

Triggered == Holds("Connected") \/ Holds("Relevant")

\* Drain the events, then sweep or park: nothing is awaited between these.
Drain ==
  /\ task = "drain" /\ ~halted
  /\ inbox' = <<>> /\ lagged' = FALSE
  /\ connected' = LatestStatus
  /\ LET marked == ~paused /\ (lagged \/ Triggered)
     IN  /\ poked' = (poked \/ marked)
         /\ task' = IF pending \/ marked THEN "sweeping" ELSE "parked"
  /\ pending' = FALSE                     \* run_one_sweep clears it before it sweeps
  /\ UNCHANGED <<paused, halted, loggedOut, session, unswept, excused, raced>>

\* refresh_pending_state: the sweep works on the rows it reads here; errors of
\* single rows do not end it.
ReadRows ==
  /\ task = "sweeping"
  /\ loggedOut' = ~session
  /\ \/ ~session /\ task' = "finishing" /\ UNCHANGED <<unswept, excused>>
     \/ session /\ task' = "finishing" /\ unswept' = FALSE /\ excused' = FALSE
     \/ session /\ task' = "backoff" /\ excused' = unswept /\ UNCHANGED unswept
  /\ UNCHANGED <<channel, pending, paused, halted, poked, connected, session, raced>>

EndSweep ==
  /\ task = "finishing"
  /\ task' = "drain"
  /\ IF loggedOut
     THEN paused' = TRUE /\ raced' = pending
     ELSE UNCHANGED <<paused, raced>>
  /\ UNCHANGED <<channel, pending, halted, poked, connected, loggedOut, session, unswept, excused>>

EndBackoff ==
  /\ task = "backoff"
  /\ task' = "drain"
  /\ UNCHANGED <<channel, pending, paused, halted, poked, connected, loggedOut, session,
                 unswept, excused, raced>>

Exit ==
  /\ task = "drain" /\ halted
  /\ task' = "exited"
  /\ UNCHANGED <<channel, pending, paused, halted, poked, connected, loggedOut, session,
                 unswept, excused, raced>>

-----------------------------------------------------------------------------
(* park_for_next_trigger: a biased select of the pulse, an event, the tick *)

WakeByPoke ==
  /\ task = "parked" /\ poked
  /\ poked' = FALSE
  /\ task' = "drain"
  /\ UNCHANGED <<channel, pending, paused, halted, connected, loggedOut, session, unswept, excused, raced>>

\* One event is taken here. The receiver is read as a stream, which skips the
\* report of a lag.
WakeByEvent ==
  /\ task = "parked" /\ ~poked /\ inbox # <<>>
  /\ inbox' = Tail(inbox) /\ lagged' = FALSE
  /\ connected' = CASE Head(inbox) = "Connected" -> TRUE
                    [] Head(inbox) = "Down" -> FALSE
                    [] OTHER -> connected
  /\ IF Head(inbox) \in {"Connected", "Relevant"}
     THEN MarkUnlessPaused
     ELSE UNCHANGED <<pending, poked>>
  /\ excused' = (excused \/ (lagged /\ unswept))
  /\ task' = "drain"
  /\ UNCHANGED <<paused, halted, loggedOut, session, unswept, raced>>

\* (mutant)
TickWhileConnected ==
  /\ task = "parked" /\ ~poked /\ inbox = <<>>
  /\ task' = "drain"
  /\ IF connected THEN MarkUnlessPaused ELSE UNCHANGED <<pending, poked>>
  /\ UNCHANGED <<channel, paused, halted, connected, loggedOut, session, unswept, excused, raced>>

Tick ==
  /\ task = "parked" /\ ~poked /\ inbox = <<>>
  /\ task' = "drain"
  /\ IF connected THEN UNCHANGED <<pending, poked>> ELSE MarkUnlessPaused
  /\ UNCHANGED <<channel, paused, halted, connected, loggedOut, session, unswept, excused, raced>>

DriverStep ==
  Drain \/ ReadRows \/ EndSweep \/ EndBackoff \/ Exit \/ WakeByPoke \/ WakeByEvent

SessionEnds ==
  /\ session
  /\ session' = FALSE
  /\ UNCHANGED <<channel, pending, paused, halted, poked, task, connected, loggedOut, unswept, excused, raced>>

SessionReturns ==
  /\ ~session
  /\ session' = TRUE
  /\ UNCHANGED <<channel, pending, paused, halted, poked, task, connected, loggedOut, unswept, excused, raced>>

-----------------------------------------------------------------------------
(* A driver is paused only while its last sweep found the wallet logged out:   *)
(* a foreground notification ends the pause for good. It does not only when it *)
(* came during the very sweep that paused, which pauses after it.              *)
PausedOnlyByRace ==
  paused /\ ~raced => loggedOut
=============================================================================
