---------------------------- MODULE ClientRuntime ----------------------------
(***************************************************************************)
(* What a shell runs beside the wallet facade: the realtime supervisor and *)
(* the resumption driver that listens to it, the host's lifecycle calls,   *)
(* and the database whose changes are broadcast to whoever has joined.     *)
(***************************************************************************)
EXTENDS RealtimeSupervisor, ResumptionDriver

vars == <<channel, supervisorVars, driverVars>>

driverRest == <<halted, task, connected, loggedOut, session, unswept, excused>>

TypeOK == ChannelTypeOK /\ SupervisorTypeOK /\ DriverTypeOK

Init == ChannelInit /\ SupervisorInit /\ DriverInit

-----------------------------------------------------------------------------
(* The host. A call with TRUE notifies the driver whether or not anything changed. *)

Notified(value) ==
  IF value THEN NotifyForeground /\ UNCHANGED driverRest ELSE UNCHANGED driverVars

SetRealtime(s, value) ==
  SetSwitch(s, value) /\ Notified(value) /\ UNCHANGED channel

StopWalletEvents ==
  /\ StopService
  /\ StopDriver
  /\ UNCHANGED <<channel, pending, paused, task, connected, loggedOut, session, unswept, excused, raced>>

HostStep ==
  \/ \E s \in Switches, value \in BOOLEAN : SetRealtime(s, value)
  \/ StopWalletEvents

-----------------------------------------------------------------------------
(* The database broadcasts a change; nobody keeps it for those who have not joined. *)

RowChanges(kind) ==
  /\ ~stopped
  /\ wire = "none"                                  \* bound: one change on the wire
  /\ wire' = IF joined = "yes" THEN kind ELSE "none"
  /\ unswept' = (unswept \/ kind = "relevant")
  /\ UNCHANGED <<channel, flags, at, pulse, joinRejects, result, joined, missed, storm,
                 pending, paused, halted, poked, task, connected, loggedOut, session, excused, raced>>

Environment ==
  \/ HostStep
  \/ (SessionEnds \/ SessionReturns) /\ UNCHANGED supervisorVars
  \/ \E kind \in {"relevant", "ignored"} : RowChanges(kind)

Supervisor == SupervisorStep /\ UNCHANGED driverVars
Network == NetworkStep /\ UNCHANGED driverVars
Driver == DriverStep /\ UNCHANGED supervisorVars
FallbackTick == Tick /\ UNCHANGED supervisorVars

Next == Supervisor \/ Network \/ Driver \/ FallbackTick \/ Environment

Spec == Init /\ [][Next]_vars

\* The executor polls ready futures and timers fire. The native tick is an interval
\* that keeps its deadline from one park to the next, so wake-ups between do not
\* starve it (strong fairness). Nothing is assumed of the network, the user or the
\* host.
FairSpec == Spec /\ WF_vars(Supervisor) /\ WF_vars(Driver) /\ SF_vars(FallbackTick)

-----------------------------------------------------------------------------

(* A change the sweeps have not read is not forgotten: a trigger is pending, a *)
(* sweep is about to read, an event or a lag is still to be received, or a     *)
(* join, which triggers, is still to come. The exceptions are a pause, a sweep *)
(* that failed (not retried before the next trigger) and a lag the parked      *)
(* driver skips.                                                               *)
NoTriggerLost ==
  unswept /\ ~halted =>
    \/ pending \/ task = "sweeping"
    \/ lagged \/ Holds("Relevant") \/ Holds("Connected") \/ wire = "relevant" \/ joined # "yes"
    \/ paused \/ (task = "finishing" /\ loggedOut) \/ excused

(* Every change of a row is read by a sweep, whatever the network does, while  *)
(* the wallet is in the foreground and logged in: by an event, by the Connected*)
(* that follows a gap, or by the tick when no connection comes about.          *)
ChangesAreSwept ==
  unswept ~> \/ ~unswept \/ excused
             \/ paused \/ ~session \/ ~HostReady \/ halted
=============================================================================
