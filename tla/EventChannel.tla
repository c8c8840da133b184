---------------------------- MODULE EventChannel ----------------------------
(***************************************************************************)
(* The broadcast channel between the realtime supervisor and a consumer:   *)
(* a queue of fixed capacity that drops its oldest message when full and   *)
(* tells the consumer, at its next receive, that it has lagged.            *)
(***************************************************************************)
EXTENDS Naturals, Sequences

CONSTANT Capacity          \* 256 in the code

ASSUME CapacityAssumption == Capacity \in Nat \ {0}

VARIABLES
  inbox,                   \* messages the consumer has not received
  lagged                   \* a message has been dropped since its last receive

channel == <<inbox, lagged>>

\* StatusChanged(Subscribed) with the Connected that follows it, StatusChanged of
\* any other status, an Event the driver acts on, and what it ignores. Messages
\* that are always sent together (also an Event and its Change) count as one.
Messages == {"Connected", "Down", "Relevant", "Ignored"}

ChannelTypeOK == inbox \in Seq(Messages) /\ Len(inbox) <= Capacity /\ lagged \in BOOLEAN

ChannelInit == inbox = <<>> /\ lagged = FALSE

Broadcast(message) ==
  /\ inbox' = Append(IF Len(inbox) = Capacity THEN Tail(inbox) ELSE inbox, message)
  /\ lagged' = (lagged \/ Len(inbox) = Capacity)

Holds(message) == \E i \in DOMAIN inbox : inbox[i] = message
=============================================================================
