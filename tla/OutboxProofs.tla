---------------------------- MODULE OutboxProofs ----------------------------
(***************************************************************************)
(* Proofs about Outbox for every set of events and workers, every batch    *)
(* size and every number of failures.                                      *)
(***************************************************************************)
EXTENDS Outbox, FiniteSetTheorems, TLAPS

\* The events that have a least one in every part of them: those posted so far, whatever
\* the order in which they were posted.
LeastOK ==
    /\ IsFiniteSet(Posted)
    /\ \A T \in SUBSET Posted : T # {} => \E x \in T : \A y \in T : x <= y

\* Where a worker is tells what it holds: nothing outside a transaction, and nothing sent
\* before it publishes.
PlaceOK ==
    \A w \in Worker :
        /\ place[w] \in {"select"} \cup Ended => claimed[w] = {}
        /\ place[w] # "publish" => sent[w] = {}

\* A row is locked by one session, and while it is locked nobody marks it dispatched.
ClaimsOK ==
    /\ orphans \subseteq Posted \ Dispatched
    /\ \A w \in Worker :
          /\ scan[w] \subseteq Posted
          /\ claimed[w] \subseteq Posted \ Dispatched
          /\ claimed[w] \cap orphans = {}
          /\ \A v \in Worker : v # w => claimed[w] \cap claimed[v] = {}

\* What a worker has sent is in the stream.
SentOK == \A w \in Worker : sent[w] \subseteq Delivered

ClaimInv == TypeOK /\ LeastOK /\ PlaceOK /\ ClaimsOK /\ SentOK /\ DispatchedWasPublished

-----------------------------------------------------------------------------
\* Lemmas about the operators of the model

\* The event that is published next is one that the worker has claimed and not yet sent.
LEMMA NextEventClaimed ==
  ASSUME ClaimInv, NEW w \in Worker, Sends(w)
  PROVE  /\ NextEvent(w) \in claimed[w] \ sent[w]
         /\ NextEvent(w) \in Posted \ Dispatched
         /\ NextEvent(w) \in Event
<1> DEFINE T == claimed[w] \ sent[w]
<1>1. T # {} /\ T \subseteq Posted /\ claimed[w] \subseteq Posted \ Dispatched /\ Posted \subseteq Event
  BY DEF ClaimInv, TypeOK, ClaimsOK, Sends
<1>2. \E x \in T : \A y \in T : x <= y
  BY <1>1 DEF ClaimInv, LeastOK
<1>3. NextEvent(w) \in T
  BY <1>2 DEF NextEvent, Min
<1> QED
  BY <1>1, <1>3

\* So is the row that is tried next one of those of the snapshot.
LEMMA NextRowScanned ==
  ASSUME ClaimInv, NEW w \in Worker, scan[w] # {}
  PROVE  Min(scan[w]) \in scan[w]
<1>1. scan[w] \subseteq Posted
  BY DEF ClaimInv, ClaimsOK
<1>2. \E x \in scan[w] : \A y \in scan[w] : x <= y
  BY <1>1 DEF ClaimInv, LeastOK
<1> QED
  BY <1>2 DEF Min

\* Marking rows changes what is dispatched, and nothing else of a row's identity.
LEMMA MarkEffect ==
  ASSUME TypeOK, NEW S, S \subseteq Posted, MarkDispatched(S)
  PROVE  /\ DOMAIN outbox' = Posted
         /\ Dispatched' = Dispatched \cup S
         /\ outbox' \in [Posted -> [dispatched : BOOLEAN, attempts : Nat, last_error : BOOLEAN,
                                    payload : SUBSET Account]]
<1>1. outbox \in [Posted -> [dispatched : BOOLEAN, attempts : Nat, last_error : BOOLEAN,
                              payload : SUBSET Account]]
  BY DEF TypeOK
<1>2. outbox' = [e \in Posted |->
        IF e \in S
        THEN [dispatched |-> TRUE, attempts |-> outbox[e].attempts + 1, last_error |-> FALSE,
              payload |-> outbox[e].payload]
        ELSE outbox[e]]
  BY DEF MarkDispatched
<1>3. DOMAIN outbox' = Posted
  BY <1>2
<1>4. \A e \in Posted : /\ e \in S => outbox'[e].dispatched = TRUE
                        /\ e \notin S => outbox'[e] = outbox[e]
  BY <1>1, <1>2
<1>5. outbox' \in [Posted -> [dispatched : BOOLEAN, attempts : Nat, last_error : BOOLEAN,
                                    payload : SUBSET Account]]
  BY <1>1, <1>2
<1>6. Dispatched' = Dispatched \cup S
  BY <1>1, <1>3, <1>4 DEF Dispatched, Posted
<1> QED
  BY <1>3, <1>5, <1>6

\* Appending an event to the stream delivers it.
LEMMA AppendDelivers ==
  ASSUME stream \in Seq(Event), NEW e \in Event, stream' = Append(stream, e)
  PROVE  stream' \in Seq(Event) /\ Delivered' = Delivered \cup {e}
<1>1. stream' \in Seq(Event) /\ Len(stream') = Len(stream) + 1 /\ Len(stream) \in Nat
  OBVIOUS
<1>2. \A i \in 1 .. Len(stream) : stream'[i] = stream[i]
  OBVIOUS
<1>3. stream'[Len(stream) + 1] = e
  OBVIOUS
<1> QED
  BY <1>1, <1>2, <1>3 DEF Delivered

\* So does appending it twice.
LEMMA AppendTwiceDelivers ==
  ASSUME stream \in Seq(Event), NEW e \in Event, stream' = Append(Append(stream, e), e)
  PROVE  stream' \in Seq(Event) /\ Delivered' = Delivered \cup {e}
<1>1. stream' \in Seq(Event) /\ Len(stream') = Len(stream) + 2 /\ Len(stream) \in Nat
  OBVIOUS
<1>2. \A i \in 1 .. Len(stream) : stream'[i] = stream[i]
  OBVIOUS
<1>3. stream'[Len(stream) + 1] = e /\ stream'[Len(stream) + 2] = e
  OBVIOUS
<1> QED
  BY <1>1, <1>2, <1>3 DEF Delivered

-----------------------------------------------------------------------------
\* Every step keeps the claims exclusive

\* At the start nothing is posted, claimed or sent.
LEMMA InitClaimInv == Init => ClaimInv
<1> SUFFICES ASSUME Init PROVE ClaimInv
  OBVIOUS
<1>1. Posted = {} /\ Dispatched = {}
  BY DEF Init, Posted, Dispatched
<1>2. TypeOK
  BY <1>1, BatchAssumption, FS_EmptySet DEF Init, TypeOK, Ended, Posted
<1>3. LeastOK
  BY <1>1, FS_EmptySet DEF LeastOK
<1>4. PlaceOK /\ ClaimsOK /\ SentOK /\ DispatchedWasPublished
  BY <1>1 DEF Init, PlaceOK, ClaimsOK, SentOK, DispatchedWasPublished
<1> QED
  BY <1>2, <1>3, <1>4 DEF ClaimInv

\* A new event leaves the claims alone.
LEMMA InsertClaimInv ==
  ASSUME ClaimInv, NEW e \in Event, NEW ends \in SUBSET Account, Insert(e, ends)
  PROVE  ClaimInv' /\ Posted' = Posted \cup {e} /\ Dispatched' = Dispatched
<1> USE DEF ClaimInv
<1>1. /\ e \notin Posted
      /\ outbox' = [f \in Posted \cup {e} |-> IF f = e THEN Fresh(ends) ELSE outbox[f]]
      /\ UNCHANGED <<stream, place, scan, claimed, sent, orphans, broker, faults>>
  BY DEF Insert, worker
<1>2. Posted' = Posted \cup {e} /\ Posted \subseteq Event
  BY <1>1 DEF Posted, TypeOK
<1>3. Dispatched' = Dispatched
  BY <1>1, <1>2 DEF Dispatched, Posted, Fresh
<1>4. TypeOK'
  <2>1. outbox' \in [Posted' -> [dispatched : BOOLEAN, attempts : Nat, last_error : BOOLEAN,
                                 payload : SUBSET Account]]
    BY <1>1, <1>2 DEF TypeOK, Fresh
  <2> QED
    BY <1>1, <1>2, <2>1 DEF TypeOK
<1>5. LeastOK'
  <2>1. IsFiniteSet(Posted')
    BY <1>2, FS_AddElement DEF LeastOK
  <2>2. ASSUME NEW T \in SUBSET Posted', T # {} PROVE \E x \in T : \A y \in T : x <= y
    <3>1. T \ {e} \subseteq Posted /\ T \subseteq Nat
      BY <1>2, EventAssumption
    <3>2. CASE T \ {e} = {}
      <4>1. T = {e} /\ e \in Nat
        BY <2>2, <3>2, EventAssumption
      <4> QED
        BY <4>1
    <3>3. CASE T \ {e} # {}
      <4>1. PICK x \in T \ {e} : \A y \in T \ {e} : x <= y
        BY <3>1, <3>3 DEF LeastOK
      <4>2. CASE e \in T /\ e <= x
        BY <3>1, <4>1, <4>2
      <4>3. CASE ~(e \in T /\ e <= x)
        BY <3>1, <4>1, <4>3
      <4> QED
        BY <4>2, <4>3
    <3> QED
      BY <3>2, <3>3
  <2> QED
    BY <2>1, <2>2 DEF LeastOK
<1>6. PlaceOK'
  BY <1>1 DEF PlaceOK
<1>7. ClaimsOK'
  BY <1>1, <1>2, <1>3 DEF ClaimsOK
<1>8. SentOK' /\ DispatchedWasPublished'
  BY <1>1, <1>3 DEF SentOK, DispatchedWasPublished, Delivered
<1> QED
  BY <1>2, <1>3, <1>4, <1>5, <1>6, <1>7, <1>8

\* A worker that leaves its transaction holds nothing any more.
LEMMA LeaveClaimInv ==
  ASSUME ClaimInv, NEW w \in Worker, NEW p \in {"select"} \cup Ended, Leave(w, p),
         Posted' = Posted, LeastOK',
         outbox' \in [Posted -> [dispatched : BOOLEAN, attempts : Nat, last_error : BOOLEAN,
                                 payload : SUBSET Account]],
         Dispatched' = Dispatched \/ (Dispatched' = Dispatched \cup sent[w] /\ sent[w] \subseteq claimed[w]),
         orphans' = orphans \/ (orphans' = orphans \cup claimed[w] /\ Dispatched' = Dispatched),
         stream' \in Seq(Event), Delivered \subseteq Delivered',
         broker' \in {"up", "down"}, faults' \in 0 .. MaxFaults
  PROVE  ClaimInv'
<1> USE DEF ClaimInv
<1>1. /\ place' = [place EXCEPT ![w] = p]
      /\ scan' = [scan EXCEPT ![w] = {}]
      /\ claimed' = [claimed EXCEPT ![w] = {}]
      /\ sent' = [sent EXCEPT ![w] = {}]
  BY DEF Leave
<1>2. /\ scan \in [Worker -> SUBSET Event] /\ claimed \in [Worker -> SUBSET Event]
      /\ DOMAIN place = Worker /\ sent \in [Worker -> SUBSET Event]
      /\ Posted \subseteq Event
  BY DEF TypeOK
<1>3. TypeOK'
  <2>1. /\ scan' \in [Worker -> SUBSET Event] /\ claimed' \in [Worker -> SUBSET Event]
        /\ sent' \in [Worker -> SUBSET Event]
        /\ place' \in [Worker -> {"select", "claim", "publish"} \cup Ended]
    BY <1>1, <1>2 DEF TypeOK
  <2>2. ASSUME NEW v \in Worker
        PROVE  sent'[v] \subseteq claimed'[v] /\ Cardinality(claimed'[v]) <= BatchSize
    BY <1>1, <1>2, FS_EmptySet, BatchAssumption DEF TypeOK
  <2>3. orphans' \subseteq Event
    BY <1>2 DEF TypeOK
  <2> QED
    BY <1>2, <2>1, <2>2, <2>3 DEF TypeOK
<1>4. PlaceOK'
  BY <1>1, <1>2 DEF PlaceOK, TypeOK, Ended
<1>5. ClaimsOK'
  BY <1>1, <1>2 DEF ClaimsOK
<1>6. SentOK'
  BY <1>1, <1>2 DEF SentOK, TypeOK
<1>7. DispatchedWasPublished'
  BY <1>1 DEF DispatchedWasPublished, SentOK
<1> QED
  BY <1>3, <1>4, <1>5, <1>6, <1>7

\* No step of a worker, of Redis or of PostgreSQL lets two sessions claim one row, marks a
\* row that is not in the stream, or marks one while another session holds it.
LEMMA NextClaimInv == ClaimInv /\ [Next]_vars => ClaimInv'
<1> SUFFICES ASSUME ClaimInv, [Next]_vars PROVE ClaimInv'
  OBVIOUS
<1> USE DEF ClaimInv
<1>1. ASSUME UNCHANGED outbox PROVE Posted' = Posted /\ Dispatched' = Dispatched /\ LeastOK'
  <2>1. Posted' = Posted
    BY <1>1 DEF Posted
  <2> QED
    BY <1>1, <2>1 DEF Dispatched, LeastOK
<1>2. ASSUME UNCHANGED stream PROVE Delivered' = Delivered
  BY <1>2 DEF Delivered
<1>3. ASSUME NEW e \in Event, NEW ends \in Payload[e], Post(e, ends) PROVE ClaimInv'
  BY <1>3, InsertClaimInv, EventAssumption DEF Post
<1>4. ASSUME NEW w \in Worker, Select(w) PROVE ClaimInv'
  <2>1. /\ place[w] = "select"
        /\ scan' = [scan EXCEPT ![w] = Posted \ Dispatched]
        /\ place' = [place EXCEPT ![w] = "claim"]
        /\ UNCHANGED <<outbox, stream, claimed, sent, orphans, broker, faults>>
    BY <1>4 DEF Select
  <2>2. TypeOK'
    BY <1>1, <2>1 DEF TypeOK
  <2>3. PlaceOK'
    BY <2>1 DEF PlaceOK, TypeOK, Ended
  <2>4. ClaimsOK'
    BY <1>1, <2>1 DEF ClaimsOK, TypeOK
  <2> QED
    BY <1>1, <1>2, <2>1, <2>2, <2>3, <2>4 DEF SentOK, DispatchedWasPublished
<1>5. ASSUME NEW w \in Worker, TryRow(w) PROVE ClaimInv'
  <2> DEFINE e == Min(scan[w])
             D == IF RowLocked(e) \/ e \in Dispatched THEN claimed[w] ELSE claimed[w] \cup {e}
  <2>1. /\ place[w] = "claim"
        /\ scan[w] # {}
        /\ Cardinality(claimed[w]) < BatchSize
        /\ scan' = [scan EXCEPT ![w] = @ \ {e}]
        /\ claimed' = [claimed EXCEPT ![w] = D]
        /\ UNCHANGED <<outbox, stream, place, sent, orphans, broker, faults>>
    BY <1>5 DEF TryRow
  <2>2. e \in scan[w] /\ e \in Posted /\ Posted \subseteq Event
    BY <2>1, NextRowScanned DEF ClaimsOK, TypeOK
  <2>3. e \in D \ claimed[w] => e \notin Dispatched /\ e \notin orphans /\ \A v \in Worker : e \notin claimed[v]
    BY DEF RowLocked
  <2>4. D \subseteq Event /\ claimed[w] \subseteq D /\ D \subseteq claimed[w] \cup {e}
    BY <2>2 DEF TypeOK
  <2>5. Cardinality(D) <= BatchSize
    <3>1. IsFiniteSet(claimed[w])
      BY FS_Subset DEF LeastOK, ClaimsOK
    <3>2. Cardinality(claimed[w]) \in Nat
      BY <3>1, FS_CardinalityType
    <3>3. Cardinality(claimed[w] \cup {e}) \in {Cardinality(claimed[w]), Cardinality(claimed[w]) + 1}
      <4> HIDE DEF e
      <4> QED
        BY <3>1, FS_AddElement
    <3>4. Cardinality(claimed[w] \cup {e}) <= BatchSize /\ Cardinality(claimed[w]) <= BatchSize
      <4> HIDE DEF e
      <4> QED
        BY <2>1, <3>2, <3>3, BatchAssumption
    <3> QED
      BY <3>4
  <2> HIDE DEF D
  <2>6. TypeOK'
    <3>1. /\ scan' \in [Worker -> SUBSET Event] /\ claimed' \in [Worker -> SUBSET Event]
      BY <2>1, <2>2, <2>4 DEF TypeOK
    <3>2. \A v \in Worker : sent'[v] \subseteq claimed'[v] /\ Cardinality(claimed'[v]) <= BatchSize
      BY <2>1, <2>4, <2>5 DEF TypeOK
    <3> QED
      BY <1>1, <2>1, <3>1, <3>2 DEF TypeOK
  <2>7. PlaceOK'
    BY <2>1 DEF PlaceOK, TypeOK, Ended
  <2>8. ClaimsOK'
    <3>1. \A v \in Worker : scan'[v] \subseteq scan[v]
      BY <2>1 DEF TypeOK
    <3>2. claimed'[w] = D /\ \A v \in Worker : v # w => claimed'[v] = claimed[v]
      BY <2>1 DEF TypeOK
    <3>3. D \subseteq Posted \ Dispatched /\ D \cap orphans = {}
          /\ \A v \in Worker : v # w => D \cap claimed[v] = {}
      BY <2>2, <2>3, <2>4 DEF ClaimsOK
    <3> QED
      BY <1>1, <2>1, <3>1, <3>2, <3>3 DEF ClaimsOK
  <2> QED
    BY <1>1, <1>2, <2>1, <2>6, <2>7, <2>8 DEF SentOK, DispatchedWasPublished
<1>6. ASSUME NEW w \in Worker, StartPublishing(w) PROVE ClaimInv'
  <2>1. /\ place[w] = "claim"
        /\ scan' = [scan EXCEPT ![w] = {}]
        /\ place' = [place EXCEPT ![w] = "publish"]
        /\ UNCHANGED <<outbox, stream, claimed, sent, orphans, broker, faults>>
    BY <1>6 DEF StartPublishing, SelectEnds
  <2>2. TypeOK'
    BY <1>1, <2>1 DEF TypeOK
  <2>3. PlaceOK'
    BY <2>1 DEF PlaceOK, TypeOK, Ended
  <2>4. ClaimsOK'
    BY <1>1, <2>1 DEF ClaimsOK, TypeOK
  <2> QED
    BY <1>1, <1>2, <2>1, <2>2, <2>3, <2>4 DEF SentOK, DispatchedWasPublished
<1>7. ASSUME NEW w \in Worker, Publish(w) \/ PublishTwice(w) PROVE ClaimInv'
  <2> DEFINE e == NextEvent(w)
  <2>1. /\ Sends(w)
        /\ stream' = Append(stream, e) \/ stream' = Append(Append(stream, e), e)
        /\ sent' = [sent EXCEPT ![w] = @ \cup {e}]
        /\ UNCHANGED <<outbox, place, scan, claimed, orphans, broker>>
        /\ faults' \in 0 .. MaxFaults
    BY <1>7, BatchAssumption DEF Publish, PublishTwice, Fault, TypeOK
  <2>2. e \in claimed[w] /\ e \in Event
    BY <2>1, NextEventClaimed
  <2> HIDE DEF e
  <2>3. stream' \in Seq(Event) /\ Delivered' = Delivered \cup {e}
    BY <2>1, <2>2, AppendDelivers, AppendTwiceDelivers DEF TypeOK
  <2>4. TypeOK'
    <3>1. sent' \in [Worker -> SUBSET Event] /\ \A v \in Worker : sent'[v] \subseteq claimed[v]
      BY <2>1, <2>2 DEF TypeOK
    <3> QED
      BY <1>1, <2>1, <2>3, <3>1 DEF TypeOK
  <2>5. PlaceOK'
    BY <2>1 DEF PlaceOK, TypeOK, Ended, Sends
  <2>6. ClaimsOK'
    BY <1>1, <2>1 DEF ClaimsOK
  <2>7. SentOK'
    BY <2>1, <2>3 DEF SentOK, TypeOK
  <2> QED
    BY <1>1, <2>1, <2>3, <2>4, <2>5, <2>6, <2>7 DEF DispatchedWasPublished
<1>8. ASSUME NEW w \in Worker, Sleep(w) \/ PublishRefused(w) \/ Restart(w) \/ Kill(w) PROVE ClaimInv'
  <2>1. PICK p \in {"select"} \cup Ended : Leave(w, p)
    BY <1>8 DEF Sleep, PublishRefused, Restart, Kill, Ended
  <2>2. UNCHANGED <<outbox, stream, broker>> /\ faults' \in 0 .. MaxFaults
    BY <1>8, BatchAssumption DEF Sleep, PublishRefused, Restart, Kill, Fault, TypeOK
  <2>3. orphans' = orphans \/ orphans' = orphans \cup claimed[w]
    BY <1>8 DEF Sleep, PublishRefused, Restart, Kill
  <2> QED
    BY <1>1, <1>2, <2>1, <2>2, <2>3, LeaveClaimInv DEF TypeOK
<1>9. ASSUME NEW w \in Worker, PublishFails(w) PROVE ClaimInv'
  <2>1. /\ Sends(w)
        /\ stream' \in {stream, Append(stream, NextEvent(w))}
        /\ Leave(w, "raised")
        /\ UNCHANGED <<outbox, orphans, broker>>
        /\ faults' \in 0 .. MaxFaults
    BY <1>9, BatchAssumption DEF PublishFails, Fault, TypeOK
  <2>2. stream' \in Seq(Event) /\ Delivered \subseteq Delivered'
    BY <1>2, <2>1, NextEventClaimed, AppendDelivers DEF TypeOK
  <2> QED
    BY <1>1, <2>1, <2>2, LeaveClaimInv DEF TypeOK, Ended
<1>10. ASSUME NEW w \in Worker, Commit(w) \/ CommitFails(w) PROVE ClaimInv'
  <2>1. /\ claimed[w] = sent[w]
        /\ MarkDispatched(sent[w]) \/ UNCHANGED outbox
        /\ \E p \in {"select"} \cup Ended : Leave(w, p)
        /\ UNCHANGED <<stream, orphans, broker>>
        /\ faults' \in 0 .. MaxFaults
    BY <1>10, BatchAssumption DEF Commit, CommitFails, Fault, TypeOK, Ended
  <2>2. CASE UNCHANGED outbox
    BY <1>1, <1>2, <2>1, <2>2, LeaveClaimInv DEF TypeOK
  <2>3. CASE MarkDispatched(sent[w])
    <3>1. /\ Posted' = Posted
          /\ Dispatched' = Dispatched \cup sent[w]
          /\ outbox' \in [Posted -> [dispatched : BOOLEAN, attempts : Nat, last_error : BOOLEAN,
                                     payload : SUBSET Account]]
      BY <2>1, <2>3, MarkEffect DEF ClaimsOK, Posted
    <3>2. LeastOK'
      BY <3>1 DEF LeastOK
    <3> QED
      BY <1>2, <2>1, <3>1, <3>2, LeaveClaimInv DEF TypeOK
  <2> QED
    BY <2>1, <2>2, <2>3
<1>11. ASSUME Reap \/ Outage \/ Recover \/ UNCHANGED vars PROVE ClaimInv'
  <2>1. /\ UNCHANGED <<outbox, stream, place, scan, claimed, sent>>
        /\ orphans' \in {orphans, {}}
        /\ broker' \in {"up", "down"}
        /\ faults' \in 0 .. MaxFaults
    BY <1>11, BatchAssumption DEF Reap, Outage, Recover, vars, relayed, worker, Fault, TypeOK
  <2>2. TypeOK' /\ PlaceOK' /\ ClaimsOK'
    BY <1>1, <2>1 DEF TypeOK, PlaceOK, ClaimsOK
  <2> QED
    BY <1>1, <1>2, <2>1, <2>2 DEF SentOK, DispatchedWasPublished
<1> QED
  BY <1>3, <1>4, <1>5, <1>6, <1>7, <1>8, <1>9, <1>10, <1>11 DEF Next, Relay, Dispatch, Failure

-----------------------------------------------------------------------------

\* The claims of any number of workers stay exclusive.
THEOREM ClaimsCorrect == Spec => []ClaimInv
<1> QED
  BY InitClaimInv, NextClaimInv, PTL DEF Spec

\* Every variable keeps its type for every value of the constants.
THEOREM OutboxTypeCorrect == Spec => []TypeOK
<1>1. ClaimInv => TypeOK
  BY DEF ClaimInv
<1> QED
  BY <1>1, ClaimsCorrect, PTL

\* Whatever fails, nothing is marked dispatched that is not in the stream.
THEOREM NothingForgotten == Spec => []DispatchedWasPublished
<1>1. ClaimInv => DispatchedWasPublished
  BY DEF ClaimInv
<1> QED
  BY <1>1, ClaimsCorrect, PTL

-----------------------------------------------------------------------------
\* The workers implement at-least-once delivery

\* A step of a worker is an acknowledgement of the events it marks, or changes nothing
\* that the promise names.
LEMMA MarkAcknowledges ==
  ASSUME ClaimInv, NEW w \in Worker, MarkDispatched(sent[w]), UNCHANGED stream
  PROVE  Promise!DeliveryNext
<1>1. sent[w] \subseteq Posted /\ sent[w] \subseteq Event /\ sent[w] \subseteq Promise!Delivered
  BY DEF ClaimInv, TypeOK, ClaimsOK, SentOK, Delivered, Promise!Delivered
<1>2. Posted' = Posted /\ Dispatched' = Dispatched \cup sent[w]
  BY <1>1, MarkEffect DEF ClaimInv, Posted
<1>3. Promise!Acknowledge(sent[w])
  BY <1>1, <1>2 DEF Promise!Acknowledge
<1> QED
  BY <1>1, <1>3 DEF Promise!DeliveryNext

\* An event that a worker adds to the stream is posted and not acknowledged: the claim
\* still holds it.
LEMMA SendDelivers ==
  ASSUME ClaimInv, NEW w \in Worker, Sends(w), UNCHANGED outbox,
         \/ stream' = Append(stream, NextEvent(w))
         \/ stream' = Append(Append(stream, NextEvent(w)), NextEvent(w))
  PROVE  Promise!DeliveryNext
<1>1. NextEvent(w) \in Posted \ Dispatched /\ NextEvent(w) \in Event
  BY NextEventClaimed
<1>2. Posted' = Posted
  BY DEF Posted
<1>3. Dispatched' = Dispatched
  BY <1>2 DEF Dispatched
<1>4. Promise!Deliver(NextEvent(w))
  BY <1>1, <1>2, <1>3 DEF Promise!Deliver
<1> QED
  BY <1>1, <1>4 DEF Promise!DeliveryNext

\* Every step of the workers is a step of the promise or leaves it alone.
LEMMA NextDelivery ==
  ASSUME ClaimInv, [Next]_vars
  PROVE  [Promise!DeliveryNext]_(Promise!deliveryVars)
<1>1. ASSUME UNCHANGED <<outbox, stream>> PROVE UNCHANGED Promise!deliveryVars
  <2>1. Posted' = Posted
    BY <1>1 DEF Posted
  <2> QED
    BY <1>1, <2>1 DEF Promise!deliveryVars, Dispatched
<1>2. ASSUME NEW e \in Event, NEW ends \in Payload[e], Post(e, ends) PROVE Promise!DeliveryNext
  <2>1. Insert(e, ends) /\ ends \in SUBSET Account
    BY <1>2, EventAssumption DEF Post
  <2>2. e \notin Posted /\ UNCHANGED stream
    BY <2>1 DEF Insert
  <2>3. Posted' = Posted \cup {e} /\ Dispatched' = Dispatched
    BY <2>1, InsertClaimInv
  <2>4. Promise!PostEvent(e)
    BY <2>2, <2>3 DEF Promise!PostEvent
  <2> QED
    BY <2>4 DEF Promise!DeliveryNext
<1>3. ASSUME NEW w \in Worker, Publish(w) \/ PublishTwice(w) PROVE Promise!DeliveryNext
  BY <1>3, SendDelivers DEF Publish, PublishTwice
<1>4. ASSUME NEW w \in Worker, PublishFails(w)
      PROVE  Promise!DeliveryNext \/ UNCHANGED Promise!deliveryVars
  BY <1>1, <1>4, SendDelivers DEF PublishFails
<1>5. ASSUME NEW w \in Worker, Commit(w) \/ CommitFails(w)
      PROVE  Promise!DeliveryNext \/ UNCHANGED Promise!deliveryVars
  BY <1>1, <1>5, MarkAcknowledges DEF Commit, CommitFails
<1>6. ASSUME NEW w \in Worker,
             \/ Select(w) \/ TryRow(w) \/ Sleep(w) \/ StartPublishing(w)
             \/ PublishRefused(w) \/ Restart(w) \/ Kill(w)
      PROVE  UNCHANGED <<outbox, stream>>
  BY <1>6 DEF Select, TryRow, Sleep, StartPublishing, PublishRefused, Restart, Kill
<1>7. ASSUME Reap \/ Outage \/ Recover \/ UNCHANGED vars PROVE UNCHANGED <<outbox, stream>>
  BY <1>7 DEF Reap, Outage, Recover, vars, relayed
<1> QED
  BY <1>1, <1>2, <1>3, <1>4, <1>5, <1>6, <1>7 DEF Next, Relay, Dispatch, Failure

\* The workers deliver every event they acknowledge, and none after its acknowledgement.
THEOREM OutboxImplementsDelivery == Spec => ImplementsDelivery
<1>1. Init => Promise!DeliveryInit
  BY DEF Init, Promise!DeliveryInit, Posted, Dispatched
<1>2. ClaimInv /\ [Next]_vars => [Promise!DeliveryNext]_(Promise!deliveryVars)
  BY NextDelivery
<1> QED
  BY <1>1, <1>2, ClaimsCorrect, PTL DEF Spec, ImplementsDelivery, Promise!DeliverySpec

-----------------------------------------------------------------------------
\* Only failures repeat an event

Copies(s, e) == {i \in 1 .. Len(s) : s[i] = e}

\* The copy of e in the stream that no failure explains: e is dispatched, or was sent in a
\* transaction that Redis has answered so far.
Spoken(e) == e \in Dispatched \/ (broker = "up" /\ \E w \in Worker : e \in sent[w])

\* Each copy of an event beyond that one has cost a failure of its own.
CopiesOK ==
    \A e \in Event : /\ Cardinality(Copies(stream, e)) <= faults + 1
                     /\ ~Spoken(e) => Cardinality(Copies(stream, e)) <= faults

CopyInv == ClaimInv /\ CopiesOK

\* The copies of an event can be counted, and appending an event adds one to its copies.
LEMMA CopiesOfAppend ==
  ASSUME NEW s \in Seq(Event), NEW e \in Event, NEW f
  PROVE  /\ Cardinality(Copies(s, f)) \in Nat
         /\ Append(s, e) \in Seq(Event)
         /\ Cardinality(Copies(Append(s, e), f)) =
              Cardinality(Copies(s, f)) + (IF f = e THEN 1 ELSE 0)
<1>1. /\ Len(s) \in Nat /\ Append(s, e) \in Seq(Event)
      /\ Len(Append(s, e)) = Len(s) + 1
      /\ Append(s, e)[Len(s) + 1] = e
      /\ \A i \in 1 .. Len(s) : Append(s, e)[i] = s[i]
  OBVIOUS
<1>2. IsFiniteSet(Copies(s, f)) /\ Cardinality(Copies(s, f)) \in Nat
  <2>1. IsFiniteSet(1 .. Len(s))
    BY <1>1, FS_Interval
  <2>2. Copies(s, f) \in SUBSET (1 .. Len(s))
    BY DEF Copies
  <2>3. IsFiniteSet(Copies(s, f))
    BY <2>1, <2>2, FS_Subset
  <2> QED
    BY <2>3, FS_CardinalityType
<1>3. CASE f = e
  <2>1. Copies(Append(s, e), f) = Copies(s, f) \cup {Len(s) + 1}
    BY <1>1, <1>3 DEF Copies
  <2>2. Len(s) + 1 \notin Copies(s, f)
    BY <1>1 DEF Copies
  <2>3. Cardinality(Copies(s, f) \cup {Len(s) + 1}) = Cardinality(Copies(s, f)) + 1
    BY <1>2, <2>2, FS_AddElement
  <2> QED
    BY <1>1, <1>2, <1>3, <2>1, <2>3
<1>4. CASE f # e
  <2>1. Copies(Append(s, e), f) = Copies(s, f)
    BY <1>1, <1>4 DEF Copies
  <2> QED
    BY <1>1, <1>2, <1>4, <2>1
<1> QED
  BY <1>3, <1>4

\* A worker that leaves its transaction takes with it the copies that it sent: either they
\* are now dispatched, or a failure was counted, or Redis was down already.
LEMMA LeaveCopies ==
  ASSUME CopyInv, NEW w \in Worker, NEW p, Leave(w, p), UNCHANGED broker,
         Dispatched \subseteq Dispatched', faults' \in {faults, faults + 1},
         NEW e \in Event, Cardinality(Copies(stream, e)) \in Nat,
         \/ stream' = stream
         \/ Cardinality(Copies(stream', e)) = Cardinality(Copies(stream, e)) + 1 /\ ~Spoken(e)
         \/ Cardinality(Copies(stream', e)) = Cardinality(Copies(stream, e)),
         faults' = faults + 1 \/ sent[w] \subseteq Dispatched' \/ broker = "down",
         stream' = stream \/ faults' = faults + 1
  PROVE  /\ Cardinality(Copies(stream', e)) <= faults' + 1
         /\ ~Spoken(e)' => Cardinality(Copies(stream', e)) <= faults'
<1>1. faults \in Nat /\ Dispatched \subseteq Dispatched'
  BY BatchAssumption DEF CopyInv, ClaimInv, TypeOK
<1>2. /\ Cardinality(Copies(stream, e)) <= faults + 1
      /\ ~Spoken(e) => Cardinality(Copies(stream, e)) <= faults
  BY DEF CopyInv, CopiesOK
<1>3. CASE faults' = faults + 1
  BY <1>1, <1>2, <1>3
<1>4. CASE faults' = faults
  <2>1. stream' = stream
    BY <1>1, <1>4
  <2>2. Spoken(e) => Spoken(e)'
    <3>1. sent \in [Worker -> SUBSET Event] /\ sent' = [sent EXCEPT ![w] = {}]
      BY DEF CopyInv, ClaimInv, TypeOK, Leave
    <3>2. \A v \in Worker : v # w => sent'[v] = sent[v]
      BY <3>1
    <3>3. sent[w] \subseteq Dispatched' \/ broker # "up"
      BY <1>1, <1>4
    <3>4. ASSUME NEW v \in Worker, e \in sent[v], broker = "up" PROVE Spoken(e)'
      BY <3>2, <3>3, <3>4 DEF Spoken
    <3> QED
      BY <3>4 DEF Spoken
  <2> QED
    BY <1>2, <1>4, <2>1, <2>2
<1> QED
  BY <1>3, <1>4

\* No step adds a copy of an event without a failure, unless it is the first since the
\* last failure.
LEMMA NextCopies ==
  ASSUME CopyInv, [Next]_vars, NEW e \in Event
  PROVE  /\ Cardinality(Copies(stream', e)) <= faults' + 1
         /\ ~Spoken(e)' => Cardinality(Copies(stream', e)) <= faults'
<1> USE DEF CopyInv
<1>1. /\ faults \in Nat /\ stream \in Seq(Event) /\ sent \in [Worker -> SUBSET Event]
      /\ Cardinality(Copies(stream, e)) \in Nat
  BY BatchAssumption, CopiesOfAppend DEF ClaimInv, TypeOK
<1>2. /\ Cardinality(Copies(stream, e)) <= faults + 1
      /\ ~Spoken(e) => Cardinality(Copies(stream, e)) <= faults
  BY DEF CopiesOK
<1>3. ASSUME UNCHANGED outbox PROVE Dispatched' = Dispatched
  BY <1>3 DEF Dispatched, Posted
<1>4. ASSUME NEW w \in Worker, Sends(w) PROVE ~Spoken(NextEvent(w)) /\ NextEvent(w) \in Event
  <2>1. NextEvent(w) \in claimed[w] \ sent[w] /\ NextEvent(w) \in Posted \ Dispatched
        /\ NextEvent(w) \in Event
    BY <1>4, NextEventClaimed
  <2>2. ASSUME NEW v \in Worker PROVE NextEvent(w) \notin sent[v]
    BY <2>1 DEF ClaimInv, ClaimsOK, TypeOK
  <2> QED
    BY <2>1, <2>2 DEF Spoken
<1>5. ASSUME UNCHANGED <<outbox, stream, sent>>,
             UNCHANGED <<broker, faults>> \/ Outage \/ Recover
      PROVE  /\ Cardinality(Copies(stream', e)) <= faults' + 1
             /\ ~Spoken(e)' => Cardinality(Copies(stream', e)) <= faults'
  <2>1. faults' = faults + 1 \/ (faults' = faults /\ (broker' = broker \/ broker' = "up"))
    BY <1>5 DEF Outage, Recover, Fault
  <2>2. CASE faults' = faults + 1
    BY <1>1, <1>2, <1>5, <2>2
  <2>3. CASE faults' = faults /\ (broker' = broker \/ broker' = "up")
    BY <1>2, <1>3, <1>5, <2>3 DEF Spoken
  <2> QED
    BY <2>1, <2>2, <2>3
<1>6. ASSUME NEW f \in Event, NEW ends \in Payload[f], Post(f, ends)
      PROVE  /\ Cardinality(Copies(stream', e)) <= faults' + 1
             /\ ~Spoken(e)' => Cardinality(Copies(stream', e)) <= faults'
  <2>1. Insert(f, ends) /\ ends \in SUBSET Account
    BY <1>6, EventAssumption DEF Post
  <2>2. Dispatched' = Dispatched
    BY <2>1, InsertClaimInv
  <2> QED
    BY <1>2, <2>1, <2>2 DEF Insert, worker, Spoken
<1>7. ASSUME NEW w \in Worker,
             Select(w) \/ TryRow(w) \/ StartPublishing(w)
      PROVE  UNCHANGED <<outbox, stream, sent, broker, faults>>
  BY <1>7 DEF Select, TryRow, StartPublishing
<1>8. ASSUME NEW w \in Worker, Sleep(w) \/ Restart(w)
      PROVE  UNCHANGED <<outbox, stream, sent, broker, faults>>
  <2>1. sent[w] = {}
    BY <1>8 DEF Sleep, Restart, ClaimInv, TypeOK, PlaceOK, SelectEnds, Ended
  <2> QED
    BY <1>1, <1>8, <2>1 DEF Sleep, Restart, Leave
<1>9. ASSUME NEW w \in Worker, Publish(w) \/ PublishTwice(w)
      PROVE  /\ Cardinality(Copies(stream', e)) <= faults' + 1
             /\ ~Spoken(e)' => Cardinality(Copies(stream', e)) <= faults'
  <2> DEFINE n == NextEvent(w)
  <2>1. /\ Sends(w) /\ broker = "up" /\ broker' = "up" /\ Dispatched' = Dispatched
        /\ sent' = [sent EXCEPT ![w] = @ \cup {n}]
        /\ \/ stream' = Append(stream, n) /\ faults' = faults
           \/ stream' = Append(Append(stream, n), n) /\ faults' = faults + 1
    BY <1>3, <1>9 DEF Publish, PublishTwice, Fault
  <2>2. ~Spoken(n) /\ n \in Event
    BY <1>4, <2>1
  <2> HIDE DEF n
  <2>3. Spoken(e)' <=> (Spoken(e) \/ e = n)
    BY <1>1, <2>1, <2>2 DEF Spoken
  <2>4. CASE stream' = Append(stream, n) /\ faults' = faults
    <3>1. Cardinality(Copies(stream', e)) = Cardinality(Copies(stream, e)) + (IF e = n THEN 1 ELSE 0)
      BY <1>1, <2>2, <2>4, CopiesOfAppend
    <3> QED
      BY <1>1, <1>2, <2>2, <2>3, <2>4, <3>1
  <2>5. CASE stream' = Append(Append(stream, n), n) /\ faults' = faults + 1
    <3>1. Append(stream, n) \in Seq(Event)
      BY <1>1, <2>2
    <3>2. /\ Cardinality(Copies(stream', e)) =
                Cardinality(Copies(Append(stream, n), e)) + (IF e = n THEN 1 ELSE 0)
          /\ Cardinality(Copies(Append(stream, n), e)) =
                Cardinality(Copies(stream, e)) + (IF e = n THEN 1 ELSE 0)
      BY <1>1, <2>2, <2>5, <3>1, CopiesOfAppend
    <3> QED
      BY <1>1, <1>2, <2>2, <2>3, <2>5, <3>2
  <2> QED
    BY <2>1, <2>4, <2>5
<1>10. ASSUME NEW w \in Worker, PublishFails(w)
      PROVE  /\ Cardinality(Copies(stream', e)) <= faults' + 1
             /\ ~Spoken(e)' => Cardinality(Copies(stream', e)) <= faults'
  <2>1. /\ Sends(w) /\ Leave(w, "raised") /\ UNCHANGED broker /\ faults' = faults + 1
        /\ stream' = stream \/ stream' = Append(stream, NextEvent(w))
        /\ Dispatched' = Dispatched
    BY <1>3, <1>10 DEF PublishFails, Fault
  <2>2. CASE stream' = Append(stream, NextEvent(w))
    <3>1. Cardinality(Copies(stream', e)) =
            Cardinality(Copies(stream, e)) + (IF e = NextEvent(w) THEN 1 ELSE 0)
      BY <1>1, <1>4, <2>1, <2>2, CopiesOfAppend
    <3> QED
      BY <1>1, <1>4, <2>1, <3>1, LeaveCopies
  <2> QED
    BY <1>1, <2>1, <2>2, LeaveCopies
<1>11. ASSUME NEW w \in Worker, PublishRefused(w) \/ Commit(w) \/ CommitFails(w) \/ Kill(w)
      PROVE  /\ Cardinality(Copies(stream', e)) <= faults' + 1
             /\ ~Spoken(e)' => Cardinality(Copies(stream', e)) <= faults'
  <2>1. /\ UNCHANGED <<broker, stream>>
        /\ faults' \in {faults, faults + 1}
        /\ \E p \in {"select"} \cup Ended : Leave(w, p)
    BY <1>11 DEF PublishRefused, Commit, CommitFails, Kill, Fault, Ended
  <2>2. UNCHANGED outbox \/ MarkDispatched(sent[w])
    BY <1>11 DEF PublishRefused, Commit, CommitFails, Kill
  <2>3. MarkDispatched(sent[w]) => Dispatched' = Dispatched \cup sent[w]
    BY MarkEffect DEF ClaimInv, ClaimsOK, TypeOK
  <2>4. faults' = faults + 1 \/ broker = "down" \/ MarkDispatched(sent[w])
    BY <1>11 DEF PublishRefused, Commit, CommitFails, Kill, Fault
  <2>5. Dispatched \subseteq Dispatched'
    BY <1>3, <2>2, <2>3
  <2>6. faults' = faults + 1 \/ sent[w] \subseteq Dispatched' \/ broker = "down"
    BY <2>3, <2>4
  <2> QED
    BY <1>1, <2>1, <2>5, <2>6, LeaveCopies
<1>12. ASSUME Reap \/ Outage \/ Recover \/ UNCHANGED vars
       PROVE  /\ UNCHANGED <<outbox, stream, sent>>
              /\ UNCHANGED <<broker, faults>> \/ Outage \/ Recover
  BY <1>12 DEF Reap, Outage, Recover, vars, relayed, worker
<1>13. CASE \E f \in Event : \E ends \in Payload[f] : Post(f, ends)
  BY <1>6, <1>13
<1>14. CASE \E w \in Worker : Dispatch(w) \/ Failure(w)
  BY <1>5, <1>7, <1>8, <1>9, <1>10, <1>11, <1>14 DEF Dispatch, Failure
<1>15. CASE Reap \/ Outage \/ Recover \/ UNCHANGED vars
  BY <1>5, <1>12, <1>15
<1> QED
  BY <1>13, <1>14, <1>15 DEF Next, Relay

\* However the workers, Redis and PostgreSQL interleave, an event is in the stream at
\* most once more often than there were failures.
THEOREM DuplicatesCounted == Spec => []DuplicatesNeedFailures
<1>1. Init => CopyInv
  <2> SUFFICES ASSUME Init PROVE CopiesOK
    BY InitClaimInv DEF CopyInv
  <2>1. \A e \in Event : Copies(stream, e) = {}
    BY DEF Init, Copies
  <2>2. Cardinality({}) = 0 /\ faults = 0
    BY FS_EmptySet DEF Init
  <2> QED
    BY <2>1, <2>2 DEF CopiesOK
<1>2. CopyInv /\ [Next]_vars => CopyInv'
  BY NextClaimInv, NextCopies DEF CopyInv, CopiesOK
<1>3. CopyInv => DuplicatesNeedFailures
  <2> SUFFICES ASSUME CopyInv, NEW e \in Posted
               PROVE  Cardinality(Copies(stream, e)) <= 1 + faults
    BY DEF DuplicatesNeedFailures, Copies
  <2>1. e \in Event /\ faults \in Nat /\ Cardinality(Copies(stream, e)) <= faults + 1
    BY BatchAssumption DEF CopyInv, CopiesOK, ClaimInv, TypeOK
  <2> QED
    BY <2>1
<1> QED
  BY <1>1, <1>2, <1>3, PTL DEF Spec

-----------------------------------------------------------------------------
\* The order of the stream, with one worker

\* One worker, whose database session dies with it.
SoleWorker == ~Lingering /\ \A v, w \in Worker : v = w

\* Two events that tell of an account they share.
Share(e, f) == outbox[e].payload \cap outbox[f].payload # {}

\* The batch is taken from the rows in their order, and leaves out none that must precede
\* what it has.
BatchInOrder ==
    \A w \in Worker :
        /\ \A f \in claimed[w], e \in scan[w] : f < e
        /\ \A f \in claimed[w] \cup scan[w], e \in Posted :
              e < f /\ Share(e, f) => e \in claimed[w] \cup scan[w] \cup Dispatched

\* An event is in the stream after every earlier one that tells of an account they share.
StreamInOrder ==
    \A i \in 1 .. Len(stream) :
        /\ stream[i] \in Posted
        /\ \A e \in Posted :
              e < stream[i] /\ Share(e, stream[i]) => \E j \in 1 .. i - 1 : stream[j] = e

SequenceInv == orphans = {} /\ BatchInOrder /\ StreamInOrder

\* The row that is tried next, and the event that is published next, is the first.
LEMMA LeastIsFirst ==
  ASSUME ClaimInv, NEW T \in SUBSET Posted, T # {}
  PROVE  Min(T) \in T /\ \A y \in T : Min(T) <= y
<1>1. \E x \in T : \A y \in T : x <= y
  BY DEF ClaimInv, LeastOK
<1> QED
  BY <1>1 DEF Min

\* Rows keep what they tell of.
LEMMA NextPayload ==
  ASSUME ClaimInv, [Next]_vars
  PROVE  /\ Posted \subseteq Posted' /\ \A e \in Posted : outbox'[e].payload = outbox[e].payload
         /\ Dispatched \subseteq Dispatched'
<1>1. CASE outbox' = outbox
  BY <1>1 DEF Posted, Dispatched
<1>2. ASSUME NEW e, NEW ends, Insert(e, ends)
      PROVE  /\ Posted \subseteq Posted' /\ \A f \in Posted : outbox'[f].payload = outbox[f].payload
             /\ Dispatched \subseteq Dispatched'
  BY <1>2 DEF Insert, Posted, Dispatched
<1>3. ASSUME NEW S, MarkDispatched(S)
      PROVE  /\ Posted \subseteq Posted' /\ \A f \in Posted : outbox'[f].payload = outbox[f].payload
             /\ Dispatched \subseteq Dispatched'
  BY <1>3 DEF MarkDispatched, Posted, Dispatched
<1>4. \/ outbox' = outbox
      \/ \E e, ends : Insert(e, ends)
      \/ \E w \in Worker : MarkDispatched(sent[w])
  BY DEF Next, Post, Relay, Dispatch, Failure, Select, TryRow, Sleep, StartPublishing, Publish,
         PublishRefused, Commit, Restart, PublishTwice, PublishFails, CommitFails, Kill, Reap,
         Outage, Recover, relayed, vars
<1> QED
  BY <1>1, <1>2, <1>3, <1>4

\* Everything that must precede the next event of a batch has been delivered.
LEMMA NextEventFollows ==
  ASSUME ClaimInv, SequenceInv, NEW w \in Worker, Sends(w),
         NEW e \in Posted, e < NextEvent(w), Share(e, NextEvent(w))
  PROVE  e \in Delivered
<1> USE DEF ClaimInv, SequenceInv
<1>1. /\ NextEvent(w) \in claimed[w] /\ claimed[w] \ sent[w] # {}
      /\ claimed[w] \ sent[w] \subseteq Posted /\ NextEvent(w) \in Nat /\ e \in Nat
  BY EventAssumption, NextEventClaimed DEF ClaimsOK, TypeOK
<1>2. \A f \in claimed[w] \ sent[w] : NextEvent(w) <= f
  BY <1>1, LeastIsFirst DEF NextEvent
<1>3. e \in claimed[w] \cup scan[w] \cup Dispatched
  BY <1>1 DEF BatchInOrder
<1>4. e \notin claimed[w] \ sent[w]
  <2> HIDE DEF ClaimInv, SequenceInv
  <2> SUFFICES ASSUME e \in claimed[w] \ sent[w] PROVE FALSE
    OBVIOUS
  <2>1. NextEvent(w) <= e /\ NextEvent(w) \in Nat /\ e \in Nat
    BY ONLY <1>1, <1>2, e \in claimed[w] \ sent[w]
  <2>2. e < NextEvent(w)
    OBVIOUS
  <2> HIDE DEF NextEvent
  <2> QED
    BY ONLY <2>1, <2>2
<1>5. e \notin scan[w]
  <2> SUFFICES ASSUME e \in scan[w] PROVE FALSE
    OBVIOUS
  <2>1. NextEvent(w) < e /\ NextEvent(w) \in Nat /\ e \in Nat
    BY <1>1, Zenon DEF BatchInOrder
  <2>2. e < NextEvent(w)
    OBVIOUS
  <2> QED
    BY ONLY <2>1, <2>2
<1> QED
  BY <1>3, <1>4, <1>5 DEF SentOK, DispatchedWasPublished

\* A stream that ends with the next event of a batch is still in order.
LEMMA AppendInOrder ==
  ASSUME ClaimInv, SequenceInv, NEW w \in Worker, Sends(w), UNCHANGED outbox,
         \/ stream' = Append(stream, NextEvent(w))
         \/ stream' = Append(Append(stream, NextEvent(w)), NextEvent(w))
  PROVE  StreamInOrder'
<1> DEFINE e == NextEvent(w)
           n == Len(stream)
<1>1. e \in Posted /\ stream \in Seq(Event) /\ n \in Nat /\ e \in Event
  BY NextEventClaimed DEF ClaimInv, TypeOK
<1>2. \A f \in Posted : f < e /\ Share(f, e) => \E j \in 1 .. n : stream[j] = f
  BY NextEventFollows DEF Delivered
<1>3. Posted' = Posted /\ \A f, g : Share(f, g)' = Share(f, g)
  BY DEF Posted, Share
<1>4. \A i \in 1 .. n : stream[i] \in Posted /\ \A f \in Posted :
          f < stream[i] /\ Share(f, stream[i]) => \E j \in 1 .. i - 1 : stream[j] = f
  BY DEF SequenceInv, StreamInOrder
<1> HIDE DEF e
<1>5. /\ Len(stream') \in {n + 1, n + 2}
      /\ \A i \in 1 .. n : stream'[i] = stream[i]
      /\ \A i \in 1 .. Len(stream') : i \in 1 .. n \/ (i > n /\ stream'[i] = e)
  BY <1>1 DEF e
<1> SUFFICES ASSUME NEW i \in 1 .. Len(stream')
             PROVE  /\ stream'[i] \in Posted
                    /\ \A f \in Posted : f < stream'[i] /\ Share(f, stream'[i]) =>
                                             \E j \in 1 .. i - 1 : stream'[j] = f
  BY <1>3 DEF StreamInOrder
<1>6. CASE i \in 1 .. n
  <2>1. \A j \in 1 .. i - 1 : stream'[j] = stream[j]
    BY <1>1, <1>5, <1>6
  <2> QED
    BY <1>4, <1>5, <1>6, <2>1
<1>7. CASE i > n /\ stream'[i] = e
  <2>1. \A j \in 1 .. n : j \in 1 .. i - 1 /\ stream'[j] = stream[j]
    BY <1>1, <1>5, <1>7
  <2> QED
    BY <1>1, <1>2, <1>7, <2>1
<1> QED
  BY <1>5, <1>6, <1>7

LEMMA InitSequence == Init => SequenceInv
  BY DEF Init, SequenceInv, BatchInOrder, StreamInOrder

\* No failure or restart of a sole worker brings its stream out of order.
LEMMA NextSequence ==
  ASSUME SoleWorker, ClaimInv, SequenceInv, [Next]_vars
  PROVE  SequenceInv'
<1> USE DEF ClaimInv, SequenceInv
<1>1. /\ Posted \subseteq Posted' /\ Dispatched \subseteq Dispatched'
      /\ \A e, f \in Posted : Share(e, f)' = Share(e, f)
  BY NextPayload DEF Share
<1>2. /\ \A w \in Worker : scan[w] \subseteq Posted /\ claimed[w] \subseteq Posted
      /\ Posted \subseteq Nat
      /\ scan \in [Worker -> SUBSET Event] /\ claimed \in [Worker -> SUBSET Event]
  BY EventAssumption DEF ClaimsOK, TypeOK
\* A new event is later than those it shares an account with.
<1>3. ASSUME NEW e \in Event, NEW ends \in Payload[e], Post(e, ends) PROVE SequenceInv'
  <2>1. /\ Posted' = Posted \cup {e} /\ e \notin Posted /\ e \in Nat
        /\ UNCHANGED <<stream, scan, claimed, orphans>>
    BY <1>3, EventAssumption DEF Post, Insert, worker, Posted
  <2>2. \A f \in Posted : Share(e, f)' => f < e
    BY <1>3 DEF Post, Insert, Share, Posted, Fresh
  <2>3. \A f \in Posted : ~(e < f /\ Share(e, f)')
    <3> SUFFICES ASSUME NEW f \in Posted, Share(e, f)', e < f PROVE FALSE
      OBVIOUS
    <3>1. e \in Nat /\ f \in Nat /\ f < e /\ e < f
      BY <1>2, <2>1, <2>2
    <3> QED
      BY ONLY <3>1
  <2>4. BatchInOrder'
    <3> SUFFICES ASSUME NEW w \in Worker
                 PROVE  /\ \A f \in claimed[w], g \in scan[w] : f < g
                        /\ \A f \in claimed[w] \cup scan[w], g \in Posted' :
                              g < f /\ Share(g, f)' => g \in claimed[w] \cup scan[w] \cup Dispatched'
      BY <2>1 DEF BatchInOrder
    <3> QED
      BY <1>1, <1>2, <2>1, <2>3 DEF BatchInOrder
  <2>5. StreamInOrder'
    <3> SUFFICES ASSUME NEW i \in 1 .. Len(stream)
                 PROVE  /\ stream[i] \in Posted'
                        /\ \A g \in Posted' : g < stream[i] /\ Share(g, stream[i])' =>
                                                  \E j \in 1 .. i - 1 : stream[j] = g
      BY <2>1 DEF StreamInOrder
    <3> QED
      BY <1>1, <2>1, <2>3 DEF StreamInOrder
  <2> QED
    BY <2>1, <2>4, <2>5
\* Everything else posts nothing.
<1>4. ASSUME UNCHANGED outbox
      PROVE  /\ Posted' = Posted /\ Dispatched' = Dispatched
             /\ \A e, f : Share(e, f)' = Share(e, f)
  BY <1>4 DEF Posted, Dispatched, Share
<1>5. ASSUME UNCHANGED stream, Posted' = Posted PROVE StreamInOrder'
  <2> SUFFICES ASSUME NEW i \in 1 .. Len(stream)
               PROVE  /\ stream[i] \in Posted
                      /\ \A g \in Posted : g < stream[i] /\ Share(g, stream[i])' =>
                                                \E j \in 1 .. i - 1 : stream[j] = g
    BY <1>5 DEF StreamInOrder
  <2>1. /\ stream[i] \in Posted
        /\ \A g \in Posted : g < stream[i] /\ Share(g, stream[i]) => \E j \in 1 .. i - 1 : stream[j] = g
    BY DEF StreamInOrder
  <2> QED
    BY ONLY <1>1, <1>5, <2>1
<1>6. ASSUME NEW w \in Worker, NEW p, Leave(w, p) PROVE BatchInOrder'
  <2>1. \A v \in Worker : scan'[v] = {} /\ claimed'[v] = {}
    BY <1>2, <1>6 DEF Leave, SoleWorker
  <2> QED
    BY <2>1 DEF BatchInOrder
<1>7. ASSUME NEW w \in Worker, Select(w) PROVE SequenceInv'
  <2>1. /\ place[w] = "select" /\ claimed[w] = {}
        /\ scan' = [scan EXCEPT ![w] = Posted \ Dispatched]
        /\ UNCHANGED <<outbox, stream, claimed, orphans>>
    BY <1>7 DEF Select, PlaceOK
  <2>2. \A v \in Worker : claimed'[v] = {} /\ scan'[v] = Posted \ Dispatched
    BY <1>2, <2>1 DEF SoleWorker
  <2>3. BatchInOrder'
    BY <1>4, <2>1, <2>2 DEF BatchInOrder
  <2> QED
    BY <1>4, <1>5, <2>1, <2>3
<1>8. ASSUME NEW w \in Worker, TryRow(w) PROVE SequenceInv'
  <2> DEFINE e == Min(scan[w])
             D == IF RowLocked(e) \/ e \in Dispatched THEN claimed[w] ELSE claimed[w] \cup {e}
  <2>1. /\ scan[w] # {}
        /\ scan' = [scan EXCEPT ![w] = @ \ {e}]
        /\ claimed' = [claimed EXCEPT ![w] = D]
        /\ UNCHANGED <<outbox, stream, orphans>>
    BY <1>8 DEF TryRow
  <2>2. e \in scan[w] /\ \A f \in scan[w] : e <= f
    BY <1>2, <2>1, LeastIsFirst
  <2> HIDE DEF e
  <2>3. ~RowLocked(e)
    <3>1. e \notin claimed[w]
      <4> SUFFICES ASSUME e \in claimed[w] PROVE FALSE
        OBVIOUS
      <4>1. e < e /\ e \in Nat
        BY <1>2, <2>2 DEF BatchInOrder
      <4> QED
        BY ONLY <4>1
    <3> QED
      BY <3>1 DEF RowLocked, SoleWorker
  <2>4. D = IF e \in Dispatched THEN claimed[w] ELSE claimed[w] \cup {e}
    BY <2>3
  <2> HIDE DEF D
  <2>5. \A v \in Worker : v = w /\ scan'[v] = scan[w] \ {e} /\ claimed'[v] = D
    BY <1>2, <2>1 DEF SoleWorker
  <2>6. \A f \in D, g \in scan[w] \ {e} : f < g
    <3> SUFFICES ASSUME NEW f \in D, NEW g \in scan[w], g # e PROVE f < g
      OBVIOUS
    <3>1. CASE f \in claimed[w]
      BY <3>1 DEF BatchInOrder
    <3>2. CASE f = e
      <4>1. e <= g /\ e \in Nat /\ g \in Nat /\ g # e
        BY <1>2, <2>2
      <4> QED
        BY ONLY <3>2, <4>1
    <3> QED
      BY <2>4, <3>1, <3>2
  <2>7. \A f \in D \cup (scan[w] \ {e}), g \in Posted :
            g < f /\ Share(g, f) => g \in D \cup (scan[w] \ {e}) \cup Dispatched
    <3>1. D \cup (scan[w] \ {e}) \subseteq claimed[w] \cup scan[w]
      BY <2>2, <2>4
    <3>2. claimed[w] \cup scan[w] \cup Dispatched \subseteq D \cup (scan[w] \ {e}) \cup Dispatched
      BY <2>2, <2>4
    <3> QED
      BY <3>1, <3>2 DEF BatchInOrder
  <2>8. BatchInOrder'
    BY <1>4, <2>1, <2>5, <2>6, <2>7 DEF BatchInOrder
  <2> QED
    BY <1>4, <1>5, <2>1, <2>8
\* What is left of the snapshot comes after the batch.
<1>9. ASSUME NEW w \in Worker, StartPublishing(w) PROVE SequenceInv'
  <2>1. /\ scan' = [scan EXCEPT ![w] = {}]
        /\ UNCHANGED <<outbox, stream, claimed, orphans>>
    BY <1>9 DEF StartPublishing
  <2>2. \A v \in Worker : v = w /\ scan'[v] = {} /\ claimed'[v] = claimed[w]
    BY <1>2, <2>1 DEF SoleWorker
  <2>3. \A f \in claimed[w], g \in Posted :
            g < f /\ Share(g, f) => g \in claimed[w] \cup Dispatched
    <3> SUFFICES ASSUME NEW f \in claimed[w], NEW g \in Posted, g < f, Share(g, f), g \in scan[w]
                 PROVE  FALSE
      BY DEF BatchInOrder
    <3>1. f < g /\ f \in Nat /\ g \in Nat
      BY <1>2 DEF BatchInOrder
    <3> QED
      BY <3>1
  <2>4. BatchInOrder'
    BY <1>4, <2>1, <2>2, <2>3 DEF BatchInOrder
  <2> QED
    BY <1>4, <1>5, <2>1, <2>4
<1>10. ASSUME NEW w \in Worker, Publish(w) \/ PublishTwice(w) PROVE SequenceInv'
  <2>1. /\ Sends(w)
        /\ stream' = Append(stream, NextEvent(w))
           \/ stream' = Append(Append(stream, NextEvent(w)), NextEvent(w))
        /\ UNCHANGED <<outbox, scan, claimed, orphans>>
    BY <1>10 DEF Publish, PublishTwice
  <2>2. BatchInOrder'
    BY <1>4, <2>1 DEF BatchInOrder
  <2> QED
    BY <2>1, <2>2, AppendInOrder
<1>11. ASSUME NEW w \in Worker, PublishFails(w) PROVE SequenceInv'
  <2>1. /\ Sends(w)
        /\ stream' \in {stream, Append(stream, NextEvent(w))}
        /\ Leave(w, "raised")
        /\ UNCHANGED <<outbox, orphans>>
    BY <1>11 DEF PublishFails
  <2> QED
    BY <1>4, <1>5, <1>6, <2>1, AppendInOrder
<1>12. ASSUME NEW w \in Worker,
              Sleep(w) \/ PublishRefused(w) \/ Restart(w) \/ Kill(w) \/ Commit(w) \/ CommitFails(w)
       PROVE  SequenceInv'
  <2>1. /\ \E p : Leave(w, p)
        /\ UNCHANGED stream
        /\ orphans' = orphans
    BY <1>12 DEF Sleep, PublishRefused, Restart, Kill, Commit, CommitFails, SoleWorker
  <2>2. UNCHANGED outbox \/ MarkDispatched(sent[w])
    BY <1>12 DEF Sleep, PublishRefused, Restart, Kill, Commit, CommitFails
  <2>3. Posted' = Posted
    BY <2>2 DEF MarkDispatched, Posted
  <2> QED
    BY <1>5, <1>6, <2>1, <2>3
<1>13. ASSUME Reap \/ Outage \/ Recover \/ UNCHANGED vars PROVE SequenceInv'
  <2>1. UNCHANGED <<outbox, stream, scan, claimed>> /\ orphans' \in {orphans, {}}
    BY <1>13 DEF Reap, Outage, Recover, vars, relayed, worker
  <2>2. BatchInOrder'
    BY <1>4, <2>1 DEF BatchInOrder
  <2> QED
    BY <1>4, <1>5, <2>1, <2>2
<1> QED
  BY <1>3, <1>7, <1>8, <1>9, <1>10, <1>11, <1>12, <1>13 DEF Next, Relay, Dispatch, Failure

\* Through failures, kills and restarts, one worker whose sessions die with it adds the
\* events of each account to the stream in the order of occurred_at, but for repetitions.
THEOREM OneWorkerKeepsOrder ==
  ASSUME SoleWorker
  PROVE  Spec => []StreamInOrder
<1>1. ClaimInv /\ SequenceInv /\ [Next]_vars => (ClaimInv /\ SequenceInv)'
  BY NextClaimInv, NextSequence
<1>2. SequenceInv => StreamInOrder
  BY DEF SequenceInv
<1> QED
  BY <1>1, <1>2, InitClaimInv, InitSequence, PTL DEF Spec

=============================================================================
