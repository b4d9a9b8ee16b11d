----------------------------- MODULE Delivery -----------------------------
(***************************************************************************)
(* What the outbox promises to the consumers of the stream: at-least-once  *)
(* delivery of events that were posted, with no delivery of an event after *)
(* its acknowledgement.  Outbox is shown to implement this module.         *)
(***************************************************************************)
EXTENDS Naturals, Sequences

CONSTANT Event

VARIABLES
    posted,     \* the events committed so far
    stream,     \* the deliveries, which may repeat an event
    acked       \* the events that will not be delivered again

deliveryVars == <<posted, stream, acked>>

Delivered == {stream[i] : i \in 1 .. Len(stream)}

DeliveryInit ==
    /\ posted = {}
    /\ stream = <<>>
    /\ acked = {}

PostEvent(e) ==
    /\ e \notin posted
    /\ posted' = posted \cup {e}
    /\ UNCHANGED <<stream, acked>>

\* A delivery, or one that the transport doubles.
Deliver(e) ==
    /\ e \in posted \ acked
    /\ \/ stream' = Append(stream, e)
       \/ stream' = Append(Append(stream, e), e)
    /\ UNCHANGED <<posted, acked>>

Acknowledge(S) ==
    /\ S \subseteq Delivered
    /\ acked' = acked \cup S
    /\ UNCHANGED <<posted, stream>>

DeliveryNext ==
    \/ \E e \in Event : PostEvent(e) \/ Deliver(e)
    \/ \E S \in SUBSET Event : Acknowledge(S)

DeliverySpec == DeliveryInit /\ [][DeliveryNext]_deliveryVars

=============================================================================
