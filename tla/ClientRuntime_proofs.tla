------------------------ MODULE ClientRuntime_proofs ----------------------
(***************************************************************************)
(* Proofs about ClientRuntime, for any capacity of the channel, any number *)
(* of host switches and any bound on rejected joins.                       *)
(***************************************************************************)
EXTENDS ClientRuntime, TLAPS

\* Joins rejected that the supervisor has not counted yet.
Uncounted == IF at = "leaving" /\ result = "rejected" THEN 1 ELSE 0

\* The rejections since the host last called are those the supervisor has
\* counted, at most: a count is reset by a cycle that a call of the host has
\* ended, or by the latch, which keeps the socket closed until the next call.
StormInv ==
  /\ terminal => at \in {"top", "check", "parked", "done"} /\ storm <= MaxJoinRejects
  /\ ~terminal /\ at # "done" => storm <= joinRejects + Uncounted
  /\ at = "done" => storm <= MaxJoinRejects
  /\ at = "serving" /\ (pulse \/ stopped) => storm = 0
  /\ at = "connecting" /\ stopped => storm = 0
  /\ at = "leaving" /\ result = "clean" => storm = 0
  /\ at = "leaving" <=> result # "none"

\* The host turned off while the socket was being opened.
GateInv ==
  /\ at = "connecting" /\ ~HostReady => missed
  /\ OpenOnlyByRace

\* What pauses the driver for good starts no sweep.
PauseInv ==
  paused /\ ~raced => loggedOut /\ ~pending /\ task # "sweeping"

IInv ==
  /\ TypeOK
  /\ StormInv
  /\ GateInv
  /\ PauseInv
  /\ NoTriggerLost

-----------------------------------------------------------------------------
(* The channel.                                                            *)

\* A message that is sent is there, and what it displaces is reported as a lag.
LEMMA BroadcastKeeps ==
  ASSUME ChannelTypeOK, NEW message \in Messages, Broadcast(message)
  PROVE  /\ ChannelTypeOK'
         /\ Holds(message)'
         /\ lagged => lagged'
         /\ \A m \in Messages : Holds(m) => Holds(m)' \/ lagged'
<1> USE CapacityAssumption DEF ChannelTypeOK, Broadcast
<1>1. CASE Len(inbox) = Capacity
  <2>1. Tail(inbox) \in Seq(Messages) /\ Len(Tail(inbox)) = Capacity - 1
    BY <1>1
  <2>2. inbox' = Append(Tail(inbox), message) /\ lagged' = TRUE
    BY <1>1
  <2>3. /\ inbox' \in Seq(Messages) /\ Len(inbox') = Capacity
        /\ inbox'[Capacity] = message /\ Capacity \in DOMAIN inbox'
    BY <2>1, <2>2
  <2> QED BY <2>2, <2>3 DEF Holds
<1>2. CASE Len(inbox) # Capacity
  <2>1. inbox' = Append(inbox, message) /\ lagged' = lagged
    BY <1>2
  <2>2. /\ inbox' \in Seq(Messages) /\ Len(inbox') = Len(inbox) + 1
        /\ Len(inbox) \in Nat /\ Len(inbox) < Capacity
    BY <1>2, <2>1
  <2>3. inbox'[Len(inbox) + 1] = message /\ Len(inbox) + 1 \in DOMAIN inbox'
    BY <2>1, <2>2
  <2>4. \A i \in DOMAIN inbox : inbox'[i] = inbox[i] /\ i \in DOMAIN inbox'
    BY <2>1
  <2> QED BY <2>1, <2>2, <2>3, <2>4 DEF Holds
<1> QED BY <1>1, <1>2

\* Receiving one message leaves the others.
LEMMA ReceiveKeeps ==
  ASSUME ChannelTypeOK, inbox # <<>>, inbox' = Tail(inbox), lagged' = FALSE
  PROVE  /\ ChannelTypeOK' /\ Head(inbox) \in Messages
         /\ \A m \in Messages : Holds(m) => Holds(m)' \/ Head(inbox) = m
<1> USE DEF ChannelTypeOK
<1>1. /\ Tail(inbox) \in Seq(Messages) /\ Len(Tail(inbox)) = Len(inbox) - 1
      /\ Head(inbox) = inbox[1] /\ Head(inbox) \in Messages /\ Len(inbox) \in Nat \ {0}
  OBVIOUS
<1>2. Capacity \in Nat
  BY CapacityAssumption
<1>3. ASSUME NEW m \in Messages, NEW i \in DOMAIN inbox, inbox[i] = m, i # 1
      PROVE  Holds(m)'
  <2>1. i - 1 \in DOMAIN Tail(inbox) /\ Tail(inbox)[i - 1] = m
    BY <1>1, <1>3
  <2> QED BY <2>1 DEF Holds
<1>4. ChannelTypeOK'
  <2>1. Len(inbox') <= Capacity
    BY <1>1, <1>2
  <2> QED BY <1>1, <2>1
<1>5. ASSUME NEW m \in Messages, Holds(m) PROVE Holds(m)' \/ Head(inbox) = m
  <2>1. PICK i \in DOMAIN inbox : inbox[i] = m
    BY <1>5 DEF Holds
  <2> QED BY <1>1, <1>3, <2>1
<1> QED BY <1>1, <1>4, <1>5

\* A queue that has been drained, or nobody has sent to.
LEMMA EmptyQueue ==
  ASSUME NEW queue, queue = <<>>
  PROVE  queue \in Seq(Messages) /\ Len(queue) <= Capacity
<1>1. Len(queue) = 0
  OBVIOUS
<1> QED BY <1>1, CapacityAssumption

-----------------------------------------------------------------------------
(* The supervisor.                                                         *)

LEMMA GateSteps ==
  ASSUME IInv, Gate \/ CheckPark \/ WakePark
  PROVE  SupervisorTypeOK' /\ StormInv' /\ GateInv'
<1> USE MaxJoinRejectsAssumption
    DEF IInv, TypeOK, SupervisorTypeOK, Places, Gate, CheckPark, WakePark, Finish, flags
<1>1. SupervisorTypeOK'
  OBVIOUS
<1>2. StormInv'
  BY DEF StormInv, Uncounted, ReadyToRun
<1>3. GateInv'
  BY DEF GateInv, OpenOnlyByRace, HostReady, ReadyToRun
<1> QED BY <1>1, <1>2, <1>3

LEMMA ServeSteps ==
  ASSUME IInv, NetworkStep \/ ServePulse \/ RouteBroadcast
  PROVE  SupervisorTypeOK' /\ StormInv' /\ GateInv'
<1> USE MaxJoinRejectsAssumption
    DEF IInv, TypeOK, SupervisorTypeOK, Places, NetworkStep, ServePulse, RouteBroadcast,
        Connected, ConnectFails, JoinAccepted, JoinRejected, SocketDrops, EndCycle, flags
<1>1. SupervisorTypeOK'
  <2>1. joinRejects' \in 0..(MaxJoinRejects - 1) /\ storm' \in Nat
    OBVIOUS
  <2>2. {terminal, stopped, pulse, missed}' \subseteq BOOLEAN /\ on' \in [Switches -> BOOLEAN]
    OBVIOUS
  <2>3. /\ at' \in Places /\ result' \in {"none", "clean", "rejected", "dropped"}
        /\ joined' \in {"no", "asked", "yes"} /\ wire' \in {"none", "relevant", "ignored"}
    OBVIOUS
  <2> QED BY <2>1, <2>2, <2>3
<1>2. StormInv'
  BY DEF StormInv, Uncounted
<1>3. GateInv'
  BY DEF GateInv, OpenOnlyByRace, HostReady
<1> QED BY <1>1, <1>2, <1>3

LEMMA LeaveSteps ==
  ASSUME IInv, Leave \/ BackoffEnds
  PROVE  SupervisorTypeOK' /\ StormInv' /\ GateInv'
<1> USE MaxJoinRejectsAssumption
    DEF IInv, TypeOK, SupervisorTypeOK, Places, Leave, BackoffEnds, Finish, CountReject,
        Retry, flags
<1>1. SupervisorTypeOK'
  <2>1. joinRejects' \in 0..(MaxJoinRejects - 1) /\ storm' \in Nat
    OBVIOUS
  <2>2. {terminal, stopped, pulse, missed}' \subseteq BOOLEAN /\ on' \in [Switches -> BOOLEAN]
    OBVIOUS
  <2>3. /\ at' \in Places /\ result' \in {"none", "clean", "rejected", "dropped"}
        /\ joined' \in {"no", "asked", "yes"} /\ wire' \in {"none", "relevant", "ignored"}
    OBVIOUS
  <2> QED BY <2>1, <2>2, <2>3
<1>2. StormInv'
  BY DEF StormInv, Uncounted
<1>3. GateInv'
  BY DEF GateInv, OpenOnlyByRace, HostReady
<1> QED BY <1>1, <1>2, <1>3

\* A call of the host starts the count of rejections again, and reaches a cycle
\* that serves.
LEMMA HostCalls ==
  ASSUME IInv, StopService \/ \E s \in Switches, value \in BOOLEAN : SetSwitch(s, value)
  PROVE  SupervisorTypeOK' /\ StormInv' /\ GateInv'
<1>1. CASE StopService
  <2> USE <1>1, MaxJoinRejectsAssumption
      DEF IInv, TypeOK, SupervisorTypeOK, StopService, HostCalled, Listening
  <2>1. SupervisorTypeOK'
    OBVIOUS
  <2>2. StormInv'
    BY DEF StormInv, Uncounted
  <2>3. GateInv'
    BY DEF GateInv, OpenOnlyByRace, HostReady
  <2> QED BY <2>1, <2>2, <2>3
<1>2. ASSUME NEW s \in Switches, NEW value \in BOOLEAN, SetSwitch(s, value)
      PROVE  SupervisorTypeOK' /\ StormInv' /\ GateInv'
  <2> USE <1>2, MaxJoinRejectsAssumption
      DEF IInv, TypeOK, SupervisorTypeOK, SetSwitch, HostCalled, Listening
  <2>1. SupervisorTypeOK'
    OBVIOUS
  <2>2. StormInv'
    BY DEF StormInv, Uncounted
  <2>3. GateInv'
    BY DEF GateInv, OpenOnlyByRace, HostReady
  <2> QED BY <2>1, <2>2, <2>3
<1> QED BY <1>1, <1>2

-----------------------------------------------------------------------------
(* The driver.                                                             *)

\* The steps that leave the channel alone.
LEMMA DriverQuietSteps ==
  ASSUME IInv,
         \/ ReadRows \/ EndSweep \/ EndBackoff \/ Exit \/ WakeByPoke \/ Tick
         \/ SessionEnds \/ SessionReturns
  PROVE  DriverTypeOK' /\ PauseInv' /\ UNCHANGED channel
<1> USE DEF IInv, TypeOK, DriverTypeOK, Tasks, ReadRows, EndSweep, EndBackoff, Exit,
        WakeByPoke, Tick, SessionEnds, SessionReturns, MarkUnlessPaused, Mark
<1>1. DriverTypeOK'
  OBVIOUS
<1>2. PauseInv'
  BY DEF PauseInv
<1> QED BY <1>1, <1>2

\* The status the driver keeps is known or not.
LEMMA LatestStatusIsBoolean ==
  ASSUME connected \in BOOLEAN PROVE LatestStatus \in BOOLEAN
<1> DEFINE statuses == SelectSeq(inbox, LAMBDA m : m \in {"Connected", "Down"})
<1>1. LatestStatus = IF statuses = <<>> THEN connected
                     ELSE statuses[Len(statuses)] = "Connected"
  BY DEF LatestStatus
<1> HIDE DEF statuses
<1> QED BY <1>1

LEMMA DrainStep ==
  ASSUME IInv, Drain
  PROVE  DriverTypeOK' /\ PauseInv' /\ ChannelTypeOK'
<1> USE DEF IInv, TypeOK, Drain
<1>1. DriverTypeOK'
  BY LatestStatusIsBoolean DEF DriverTypeOK, Tasks
<1>2. PauseInv'
  BY DEF PauseInv, DriverTypeOK
<1>3. ChannelTypeOK'
  BY EmptyQueue DEF ChannelTypeOK
<1> QED BY <1>1, <1>2, <1>3

LEMMA WakeByEventStep ==
  ASSUME IInv, WakeByEvent
  PROVE  DriverTypeOK' /\ PauseInv' /\ ChannelTypeOK'
<1> USE DEF IInv, TypeOK, WakeByEvent, MarkUnlessPaused, Mark
<1>1. connected' \in BOOLEAN
  BY DEF DriverTypeOK
<1>2. DriverTypeOK'
  BY <1>1 DEF DriverTypeOK, Tasks
<1>3. PauseInv'
  BY DEF PauseInv, DriverTypeOK
<1>4. ChannelTypeOK'
  BY ReceiveKeeps
<1> QED BY <1>2, <1>3, <1>4

\* The host: a call with TRUE ends a pause, whatever the driver does.
LEMMA HostDriver ==
  ASSUME IInv, (NotifyForeground /\ UNCHANGED driverRest) \/ StopWalletEvents
  PROVE  DriverTypeOK' /\ PauseInv'
<1> USE DEF IInv, TypeOK, DriverTypeOK, NotifyForeground, driverRest, StopWalletEvents,
        StopDriver, Mark
<1>1. DriverTypeOK'
  OBVIOUS
<1>2. PauseInv'
  BY DEF PauseInv
<1> QED BY <1>1, <1>2

-----------------------------------------------------------------------------
(* No trigger is lost.                                                     *)

\* What the channel holds for the driver is still there, or reported as a lag.
ChannelKept ==
  /\ ChannelTypeOK'
  /\ lagged => lagged'
  /\ Holds("Relevant") => Holds("Relevant")' \/ lagged'
  /\ Holds("Connected") => Holds("Connected")' \/ lagged'

\* What is on the wire is still there, is sent, or is lost with its socket, and a
\* socket that joins is announced.
WireKept ==
  /\ wire = "relevant" => wire' = "relevant" \/ joined' # "yes" \/ Holds("Relevant")'
  /\ joined # "yes" => joined' # "yes" \/ Holds("Connected")'

LEMMA QuietChannel ==
  ASSUME ChannelTypeOK, UNCHANGED channel PROVE ChannelKept
BY DEF ChannelKept, ChannelTypeOK, channel, Holds

LEMMA BroadcastChannel ==
  ASSUME ChannelTypeOK, NEW message \in Messages, Broadcast(message)
  PROVE  ChannelKept /\ Holds(message)'
BY BroadcastKeeps DEF ChannelKept, Messages

LEMMA TriggersKept ==
  ASSUME NoTriggerLost, ChannelKept, WireKept, UNCHANGED driverVars
  PROVE  NoTriggerLost'
BY DEF NoTriggerLost, ChannelKept, WireKept, driverVars

LEMMA PendingIsKept ==
  ASSUME pending' PROVE NoTriggerLost'
BY DEF NoTriggerLost

LEMMA SupervisorKeeps ==
  ASSUME IInv, SupervisorStep \/ NetworkStep
  PROVE  ChannelKept /\ WireKept
<1> USE DEF IInv, TypeOK
<1>0. {"Connected", "Down", "Relevant", "Ignored"} \subseteq Messages
  BY DEF Messages
<1>1. CASE Gate
  <2>1. Broadcast("Down") \/ UNCHANGED channel
    BY <1>1 DEF Gate, Finish
  <2>2. UNCHANGED <<joined, wire>>
    BY <1>1 DEF Gate
  <2> QED BY <1>0, <2>1, <2>2, QuietChannel, BroadcastChannel DEF WireKept
<1>2. CASE CheckPark \/ WakePark \/ BackoffEnds
  BY <1>2, QuietChannel DEF CheckPark, WakePark, BackoffEnds, WireKept
<1>3. CASE Connected \/ ConnectFails \/ ServePulse
  BY <1>3, QuietChannel DEF Connected, ConnectFails, ServePulse, EndCycle, WireKept
<1>4. CASE JoinAccepted
  <2>1. Broadcast("Connected") /\ wire' = wire
    BY <1>4 DEF JoinAccepted
  <2> QED BY <1>0, <2>1, BroadcastChannel DEF WireKept
<1>5. CASE JoinRejected \/ SocketDrops
  <2>1. Broadcast("Ignored") \/ Broadcast("Down") \/ UNCHANGED channel
    BY <1>5 DEF JoinRejected, SocketDrops
  <2>2. joined' = "no"
    BY <1>5 DEF JoinRejected, SocketDrops, EndCycle
  <2> QED BY <1>0, <2>1, <2>2, QuietChannel, BroadcastChannel DEF WireKept
<1>6. CASE RouteBroadcast
  <2>1. joined' = joined
    BY <1>6 DEF RouteBroadcast
  <2>2. CASE wire = "relevant"
    <3>1. Broadcast("Relevant")
      BY <1>6, <2>2 DEF RouteBroadcast
    <3> QED BY <1>0, <2>1, <3>1, BroadcastChannel DEF WireKept
  <2>3. CASE wire # "relevant"
    <3>1. Broadcast("Ignored")
      BY <1>6, <2>3 DEF RouteBroadcast
    <3> QED BY <1>0, <2>1, <2>3, <3>1, BroadcastChannel DEF WireKept
  <2> QED BY <2>2, <2>3
<1>7. CASE Leave
  <2>1. Broadcast("Down") \/ UNCHANGED channel
    BY <1>7 DEF Leave, Finish, CountReject, Retry
  <2>2. UNCHANGED <<joined, wire>>
    BY <1>7 DEF Leave
  <2> QED BY <1>0, <2>1, <2>2, QuietChannel, BroadcastChannel DEF WireKept
<1> QED BY <1>1, <1>2, <1>3, <1>4, <1>5, <1>6, <1>7 DEF SupervisorStep, NetworkStep

\* The driver turns what it has received into a sweep, unless it is paused, and
\* a sweep reads, fails or finds the wallet logged out.
LEMMA DriverTriggers ==
  ASSUME IInv, DriverStep \/ Tick \/ SessionEnds \/ SessionReturns, UNCHANGED supervisorVars
  PROVE  NoTriggerLost'
<1> USE DEF IInv, TypeOK, DriverTypeOK
<1>0. UNCHANGED <<wire, joined>>
  BY DEF supervisorVars
<1>1. CASE Drain
  BY <1>0, <1>1 DEF Drain, NoTriggerLost, Triggered
<1>2. CASE ReadRows \/ EndSweep \/ EndBackoff \/ Exit \/ WakeByPoke \/ Tick
           \/ SessionEnds \/ SessionReturns
  <2>1. ChannelKept
    BY <1>2, DriverQuietSteps, QuietChannel
  <2>2. CASE ReadRows
    <3>1. CASE ~session /\ task' = "finishing"
      BY <2>2, <3>1 DEF ReadRows, NoTriggerLost
    <3>2. CASE unswept' = FALSE
      BY <3>2 DEF NoTriggerLost
    <3>3. CASE excused' = unswept /\ UNCHANGED unswept
      BY <3>3 DEF NoTriggerLost
    <3> QED BY <2>2, <3>1, <3>2, <3>3 DEF ReadRows
  <2>3. CASE EndSweep
    BY <2>1, <1>0, <2>3 DEF ChannelKept, NoTriggerLost, EndSweep
  <2>4. CASE EndBackoff \/ Exit \/ WakeByPoke \/ SessionEnds \/ SessionReturns
    BY <2>1, <1>0, <2>4
       DEF ChannelKept, NoTriggerLost, EndBackoff, Exit, WakeByPoke, SessionEnds, SessionReturns
  <2>5. CASE Tick
    <3>1. pending' \/ UNCHANGED pending
      BY <2>5 DEF Tick, MarkUnlessPaused, Mark
    <3> QED BY <2>1, <1>0, <2>5, <3>1, PendingIsKept DEF ChannelKept, NoTriggerLost, Tick
  <2> QED BY <1>2, <2>2, <2>3, <2>4, <2>5
<1>3. CASE WakeByEvent
  <2>1. /\ Holds("Relevant") => Holds("Relevant")' \/ Head(inbox) = "Relevant"
        /\ Holds("Connected") => Holds("Connected")' \/ Head(inbox) = "Connected"
    BY <1>3, ReceiveKeeps DEF WakeByEvent, Messages
  <2>2. Head(inbox) \in {"Connected", "Relevant"} => paused \/ pending'
    BY <1>3 DEF WakeByEvent, MarkUnlessPaused, Mark
  <2>3. pending => pending'
    BY <1>3 DEF WakeByEvent, MarkUnlessPaused, Mark
  <2>4. /\ UNCHANGED <<unswept, halted, paused>> /\ task = "parked"
        /\ excused' = (excused \/ (lagged /\ unswept))
    BY <1>3 DEF WakeByEvent
  <2> QED BY <1>0, <2>1, <2>2, <2>3, <2>4 DEF NoTriggerLost
<1> QED BY <1>1, <1>2, <1>3 DEF DriverStep

LEMMA HostTriggers ==
  ASSUME IInv, HostStep
  PROVE  ChannelTypeOK' /\ NoTriggerLost'
<1> USE DEF IInv, TypeOK
<1>1. UNCHANGED <<channel, wire, joined, unswept, task, loggedOut, excused>>
  BY DEF HostStep, SetRealtime, SetSwitch, Notified, driverRest, driverVars, StopWalletEvents,
         StopService, StopDriver
<1>2. ChannelKept
  BY <1>1, QuietChannel
<1>3. CASE pending'
  BY <1>2, <1>3, PendingIsKept DEF ChannelKept
<1>4. CASE ~pending'
  <2>1. halted' \/ UNCHANGED <<pending, paused, halted>>
    BY <1>4 DEF HostStep, SetRealtime, Notified, NotifyForeground, Mark, driverVars,
                StopWalletEvents, StopDriver
  <2> QED BY <1>1, <1>2, <2>1 DEF NoTriggerLost, ChannelKept
<1> QED BY <1>2, <1>3, <1>4 DEF ChannelKept

LEMMA RowTriggers ==
  ASSUME IInv, NEW kind \in {"relevant", "ignored"}, RowChanges(kind)
  PROVE  SupervisorTypeOK' /\ StormInv' /\ GateInv' /\ DriverTypeOK' /\ PauseInv'
         /\ ChannelTypeOK' /\ NoTriggerLost'
<1> USE DEF IInv, TypeOK, RowChanges, flags
<1>1. SupervisorTypeOK'
  BY DEF SupervisorTypeOK
<1>2. StormInv' /\ GateInv'
  BY DEF StormInv, Uncounted, GateInv, OpenOnlyByRace, HostReady
<1>3. DriverTypeOK' /\ PauseInv'
  BY DEF DriverTypeOK, PauseInv
<1>4. ChannelKept
  BY QuietChannel
<1>5. NoTriggerLost'
  <2>1. CASE joined = "yes" /\ kind = "relevant"
    BY <2>1 DEF NoTriggerLost
  <2>2. CASE joined # "yes"
    BY <2>2 DEF NoTriggerLost
  <2>3. CASE kind = "ignored"
    BY <1>4, <2>3 DEF NoTriggerLost, ChannelKept, DriverTypeOK
  <2> QED BY <2>1, <2>2, <2>3
<1> QED BY <1>1, <1>2, <1>3, <1>4, <1>5 DEF ChannelKept

-----------------------------------------------------------------------------
(* The whole step.                                                         *)

LEMMA InitInv == Init => IInv
<1> SUFFICES ASSUME Init PROVE IInv
  OBVIOUS
<1> USE MaxJoinRejectsAssumption, CapacityAssumption
    DEF Init, ChannelInit, SupervisorInit, DriverInit
<1>1. ChannelTypeOK
  BY EmptyQueue DEF ChannelTypeOK
<1>2. SupervisorTypeOK
  <2>1. on \in [Switches -> BOOLEAN] /\ {terminal, stopped, pulse, missed} \subseteq BOOLEAN
    OBVIOUS
  <2>2. joinRejects \in 0..(MaxJoinRejects - 1) /\ storm \in Nat
    OBVIOUS
  <2>3. /\ at \in Places /\ result \in {"none", "clean", "rejected", "dropped"}
        /\ joined \in {"no", "asked", "yes"} /\ wire \in {"none", "relevant", "ignored"}
    BY DEF Places
  <2> QED BY <2>1, <2>2, <2>3 DEF SupervisorTypeOK
<1>3. DriverTypeOK
  <2>1. {pending, paused, halted, poked, connected, loggedOut, session, unswept, excused, raced}
          \subseteq BOOLEAN
    OBVIOUS
  <2> QED BY <2>1 DEF DriverTypeOK, Tasks
<1>4. StormInv /\ GateInv
  BY DEF StormInv, Uncounted, GateInv, OpenOnlyByRace
<1>5. PauseInv /\ NoTriggerLost
  BY DEF PauseInv, NoTriggerLost
<1> QED BY <1>1, <1>2, <1>3, <1>4, <1>5 DEF IInv, TypeOK

\* What one part does not touch keeps its invariant.
LEMMA DriverIdle ==
  ASSUME IInv, UNCHANGED driverVars PROVE DriverTypeOK' /\ PauseInv'
BY DEF IInv, TypeOK, driverVars, DriverTypeOK, PauseInv

LEMMA SupervisorIdle ==
  ASSUME IInv, UNCHANGED supervisorVars PROVE SupervisorTypeOK' /\ StormInv' /\ GateInv'
<1> USE DEF IInv, TypeOK, supervisorVars, flags
<1>1. SupervisorTypeOK'
  BY DEF SupervisorTypeOK
<1>2. StormInv'
  BY DEF StormInv, Uncounted
<1>3. GateInv'
  BY DEF GateInv, OpenOnlyByRace, HostReady
<1> QED BY <1>1, <1>2, <1>3

LEMMA NextInv == IInv /\ [Next]_vars => IInv'
<1> SUFFICES ASSUME IInv, [Next]_vars PROVE IInv'
  OBVIOUS
<1>1. CASE Supervisor \/ Network
  <2>1. (SupervisorStep \/ NetworkStep) /\ UNCHANGED driverVars
    BY <1>1 DEF Supervisor, Network
  <2>2. SupervisorTypeOK' /\ StormInv' /\ GateInv'
    BY <2>1, GateSteps, ServeSteps, LeaveSteps DEF SupervisorStep
  <2>3. ChannelKept /\ WireKept
    BY <2>1, SupervisorKeeps
  <2>4. ChannelTypeOK' /\ NoTriggerLost'
    BY <2>1, <2>3, TriggersKept DEF IInv, ChannelKept
  <2> QED BY <2>1, <2>2, <2>4, DriverIdle DEF IInv, TypeOK
<1>2. CASE \/ Driver \/ FallbackTick
           \/ (SessionEnds \/ SessionReturns) /\ UNCHANGED supervisorVars
  <2>1. /\ DriverStep \/ Tick \/ SessionEnds \/ SessionReturns
        /\ UNCHANGED supervisorVars
    BY <1>2 DEF Driver, FallbackTick
  <2>2. DriverTypeOK' /\ PauseInv' /\ (ChannelTypeOK' \/ UNCHANGED channel)
    BY <2>1, DriverQuietSteps, DrainStep, WakeByEventStep DEF DriverStep
  <2>3. ChannelTypeOK'
    BY <2>2, QuietChannel DEF IInv, TypeOK, ChannelKept
  <2> QED BY <2>1, <2>2, <2>3, SupervisorIdle, DriverTriggers DEF IInv, TypeOK
<1>3. CASE HostStep
  <2>1. /\ StopService \/ \E s \in Switches, value \in BOOLEAN : SetSwitch(s, value)
        /\ \/ NotifyForeground /\ UNCHANGED driverRest
           \/ StopWalletEvents
           \/ UNCHANGED driverVars
    BY <1>3 DEF HostStep, SetRealtime, Notified, StopWalletEvents
  <2>2. DriverTypeOK' /\ PauseInv'
    BY <2>1, HostDriver, DriverIdle
  <2> QED BY <1>3, <2>1, <2>2, HostCalls, HostTriggers DEF IInv, TypeOK
<1>4. CASE \E kind \in {"relevant", "ignored"} : RowChanges(kind)
  BY <1>4, RowTriggers DEF IInv, TypeOK
<1>5. CASE UNCHANGED vars
  <2>1. UNCHANGED channel /\ UNCHANGED supervisorVars /\ UNCHANGED driverVars
    BY <1>5 DEF vars
  <2>2. ChannelKept
    BY <2>1, QuietChannel DEF IInv, TypeOK
  <2>3. WireKept
    BY <2>1 DEF supervisorVars, WireKept
  <2>4. NoTriggerLost'
    BY <2>1, <2>2, <2>3, TriggersKept DEF IInv
  <2>5. ChannelTypeOK'
    BY <2>2 DEF ChannelKept
  <2> QED BY <2>1, <2>4, <2>5, DriverIdle, SupervisorIdle DEF IInv, TypeOK
<1> QED BY <1>1, <1>2, <1>3, <1>4, <1>5 DEF Next, Environment

-----------------------------------------------------------------------------

(* Every state the supervisor, the driver and their host reach together        *)
(* satisfies the inductive invariant.                                          *)
THEOREM Invariance == Spec => []IInv
BY InitInv, NextInv, PTL DEF Spec

(* The channel never holds more than its capacity, the count of rejected joins *)
(* stays below the bound that latches, and every variable keeps its type.      *)
THEOREM TypeCorrect == Spec => []TypeOK
<1>1. IInv => TypeOK
  BY DEF IInv
<1> QED BY <1>1, Invariance, PTL

(* A change of a row that no sweep has read is not forgotten by the driver:    *)
(* whichever events are dropped by a full channel and whenever sockets break,  *)
(* something that will start a sweep remains, or one of the named exceptions.  *)
THEOREM TriggersRemain == Spec => []NoTriggerLost
<1>1. IInv => NoTriggerLost
  BY DEF IInv
<1> QED BY <1>1, Invariance, PTL

(* notify_foreground ends a pause: the driver is paused only while its last    *)
(* sweep found the wallet logged out, but for a call made during that sweep.   *)
THEOREM ForegroundEndsPause == Spec => []PausedOnlyByRace
<1>1. IInv => PausedOnlyByRace
  BY DEF IInv, PauseInv, PausedOnlyByRace
<1> QED BY <1>1, Invariance, PTL

(* The supervisor's count of rejected joins damps a storm: never more than the *)
(* bound are rejected before it stops trying, until the host calls.            *)
THEOREM StormIsDamped == Spec => []StormBound
<1>1. IInv => StormBound
  <2> SUFFICES ASSUME IInv PROVE StormBound
    OBVIOUS
  <2>1. /\ joinRejects \in 0..(MaxJoinRejects - 1) /\ storm \in Nat
        /\ Uncounted \in {0, 1} /\ MaxJoinRejects \in Nat \ {0}
    BY MaxJoinRejectsAssumption DEF IInv, TypeOK, SupervisorTypeOK, Uncounted
  <2>2. storm <= MaxJoinRejects \/ storm <= joinRejects + Uncounted
    BY <2>1 DEF IInv, StormInv
  <2> QED BY <2>1, <2>2 DEF StormBound
<1> QED BY <1>1, Invariance, PTL

(* An open socket of a host that is offline or in the background is about to   *)
(* be closed, or was being opened when the host turned off.                    *)
THEOREM GateHolds == Spec => []OpenOnlyByRace
<1>1. IInv => OpenOnlyByRace
  BY DEF IInv, GateInv
<1> QED BY <1>1, Invariance, PTL
=============================================================================
