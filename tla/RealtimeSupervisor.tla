------------------------- MODULE RealtimeSupervisor -------------------------
(***************************************************************************)
(* The supervisor of the wallet's realtime subscription: gate, connect,    *)
(* join, serve, back off; the host's lifecycle calls; the give-up latch.   *)
(* Delays are not modelled: a back-off ends at some time.                  *)
(*                                                                         *)
(* A definition marked (mutant) is not part of the model: it is what a     *)
(* plausible bug would make of the definition that follows it.             *)
(***************************************************************************)
EXTENDS EventChannel

CONSTANTS
  Switches,                \* what the host reports: "online" and "active" in the code
  MaxJoinRejects           \* MAX_JOIN_REJECT_ATTEMPTS, 9 in the code

ASSUME MaxJoinRejectsAssumption == MaxJoinRejects \in Nat \ {0}

VARIABLES
  on, terminal, stopped,              \* the service's flags; on[s] for each switch
  at,                                 \* where the supervisor is
  pulse,                              \* a pulse waits in the receiver it holds
  joinRejects,                        \* its count of rejected joins
  result,                             \* how the last cycle ended
  joined,                             \* the channel of the open socket
  wire,                               \* a change is on its way over that channel
  missed,                             \* history: the host turned off during a connect
  storm                               \* history: joins rejected since the host last called

flags == <<on, terminal, stopped>>
supervisorVars == <<flags, at, pulse, joinRejects, result, joined, wire, missed, storm>>

Places == {"top", "check", "parked", "connecting", "serving", "leaving", "backoff", "done"}

SupervisorTypeOK ==
  /\ on \in [Switches -> BOOLEAN]
  /\ {terminal, stopped, pulse, missed} \subseteq BOOLEAN
  /\ at \in Places
  /\ joinRejects \in 0..(MaxJoinRejects - 1)
  /\ storm \in Nat
  /\ result \in {"none", "clean", "rejected", "dropped"}
  /\ joined \in {"no", "asked", "yes"}
  /\ wire \in {"none", "relevant", "ignored"}

SupervisorInit ==
  /\ on = [s \in Switches |-> TRUE] /\ terminal = FALSE /\ stopped = FALSE
  /\ at = "top" /\ pulse = FALSE /\ joinRejects = 0 /\ result = "none"
  /\ joined = "no" /\ wire = "none"
  /\ missed = FALSE /\ storm = 0

HostReady == \A s \in Switches : on[s]
ReadyToRun == ~stopped /\ HostReady /\ ~terminal

\* (mutant)
ListeningBetweenCycles == at \in {"check", "parked", "backoff"}

\* The receivers a pulse can reach: each wait makes a fresh one.
Listening == at \in {"check", "parked", "serving", "backoff"}

-----------------------------------------------------------------------------
(* Calls of the host *)

HostCalled ==
  /\ pulse' = (pulse \/ Listening)
  /\ storm' = 0

\* set_online and set_active: the latch is cleared by the edge only.
SetSwitch(s, value) ==
  /\ ~stopped
  /\ on' = [on EXCEPT ![s] = value]
  /\ terminal' = (terminal /\ ~(value /\ ~on[s]))
  /\ missed' = (missed \/ (~value /\ at = "connecting"))
  /\ HostCalled
  /\ UNCHANGED <<stopped, at, joinRejects, result, joined, wire>>

StopService ==
  /\ ~stopped
  /\ stopped' = TRUE
  /\ HostCalled
  /\ UNCHANGED <<on, terminal, at, joinRejects, result, joined, wire, missed>>

-----------------------------------------------------------------------------
(* The gate and the park *)

Finish ==
  /\ at' = "done"
  /\ Broadcast("Down")

Gate ==
  /\ at = "top"
  /\ \/ /\ stopped
        /\ Finish
        /\ UNCHANGED pulse
     \/ /\ ReadyToRun
        /\ at' = "connecting"
        /\ Broadcast("Down")
        /\ UNCHANGED pulse
     \/ /\ ~stopped /\ ~ReadyToRun
        /\ at' = "check"
        /\ pulse' = FALSE
        /\ UNCHANGED channel
  /\ UNCHANGED <<flags, joinRejects, result, joined, wire, missed, storm>>

\* park_until_resume reads the flags after it has made its receiver.
CheckPark ==
  /\ at = "check"
  /\ IF stopped \/ ReadyToRun
     THEN at' = "top" /\ pulse' = FALSE
     ELSE at' = "parked" /\ UNCHANGED pulse
  /\ UNCHANGED <<flags, joinRejects, result, joined, wire, missed, storm, channel>>

WakePark ==
  /\ at = "parked" /\ pulse
  /\ at' = "check"
  /\ pulse' = FALSE
  /\ UNCHANGED <<flags, joinRejects, result, joined, wire, missed, storm, channel>>

-----------------------------------------------------------------------------
(* Connect, join, serve *)

\* The receiver for pulses is made once the socket is open and the join sent.
Connected ==
  /\ at = "connecting"
  /\ at' = "serving"
  /\ joined' = "asked"
  /\ pulse' = FALSE
  /\ UNCHANGED <<flags, joinRejects, result, wire, missed, storm, channel>>

EndCycle(how) ==
  /\ at' = "leaving"
  /\ result' = how
  /\ joined' = "no"
  /\ wire' = "none"
  /\ pulse' = FALSE
  /\ missed' = FALSE

ConnectFails ==
  /\ at = "connecting"
  /\ EndCycle("dropped")
  /\ UNCHANGED <<flags, joinRejects, storm, channel>>

JoinAccepted ==
  /\ at = "serving" /\ joined = "asked"
  /\ joined' = "yes"
  /\ Broadcast("Connected")
  /\ UNCHANGED <<flags, at, pulse, joinRejects, result, wire, missed, storm>>

JoinRejected ==
  /\ at = "serving" /\ joined = "asked"
  /\ Broadcast("Ignored")
  /\ EndCycle("rejected")
  /\ storm' = storm + 1
  /\ UNCHANGED <<flags, joinRejects>>

RouteBroadcast ==
  /\ at = "serving" /\ wire # "none"
  /\ wire' = "none"
  /\ Broadcast(IF wire = "relevant" THEN "Relevant" ELSE "Ignored")
  /\ UNCHANGED <<flags, at, pulse, joinRejects, result, joined, missed, storm>>

\* The socket ends, the server closes the channel, or a heartbeat fails; what is
\* on the wire is lost.
SocketDrops ==
  /\ at = "serving"
  /\ EndCycle("dropped")
  /\ \/ Broadcast("Down")                        \* phx_close or phx_error
     \/ UNCHANGED channel
  /\ UNCHANGED <<flags, joinRejects, storm>>

ServePulse ==
  /\ at = "serving" /\ (stopped \/ pulse)
  /\ EndCycle("clean")
  /\ UNCHANGED <<flags, joinRejects, storm, channel>>

-----------------------------------------------------------------------------
(* The end of a cycle *)

Retry ==
  /\ at' = "backoff"
  /\ Broadcast("Down")
  /\ UNCHANGED terminal

\* (mutant)
CountRejectAndRetry ==
  /\ joinRejects' = (joinRejects + 1) % MaxJoinRejects
  /\ Retry

CountReject ==
  IF joinRejects + 1 >= MaxJoinRejects
  THEN /\ terminal' = TRUE
       /\ joinRejects' = 0
       /\ at' = "top"
       /\ Broadcast("Down")                      \* TerminalError
  ELSE joinRejects' = joinRejects + 1 /\ Retry

Leave ==
  /\ at = "leaving"
  /\ result' = "none"
  /\ pulse' = FALSE
  /\ \/ stopped /\ Finish /\ UNCHANGED <<terminal, joinRejects>>
     \/ /\ ~stopped /\ result = "clean"
        /\ at' = "top"
        /\ joinRejects' = 0
        /\ UNCHANGED <<terminal, channel>>
     \/ ~stopped /\ result = "rejected" /\ CountReject
     \/ ~stopped /\ result = "dropped" /\ Retry /\ UNCHANGED joinRejects
  /\ UNCHANGED <<on, stopped, joined, wire, missed, storm>>

BackoffEnds ==
  /\ at = "backoff"
  /\ at' = "top"
  /\ pulse' = FALSE
  /\ UNCHANGED <<flags, joinRejects, result, joined, wire, missed, storm, channel>>

\* Steps the supervisor takes by itself, and steps that wait for the network.
SupervisorStep ==
  \/ Gate \/ CheckPark \/ WakePark \/ ServePulse \/ RouteBroadcast \/ Leave \/ BackoffEnds
NetworkStep == Connected \/ ConnectFails \/ JoinAccepted \/ JoinRejected \/ SocketDrops

-----------------------------------------------------------------------------

(* Storm damping (Gap-B): without a call of the host, at most MaxJoinRejects   *)
(* joins are rejected before the supervisor stops trying, however transport    *)
(* failures and back-offs come between them.                                   *)
StormBound == storm <= MaxJoinRejects

(* No socket while the host is offline or in the background: an open one has a *)
(* pulse waiting or is being closed, unless the host's call came while it was  *)
(* being opened, a call the supervisor never hears of.                         *)
OpenOnlyByRace ==
  at = "serving" /\ ~HostReady => pulse \/ stopped \/ missed
=============================================================================
