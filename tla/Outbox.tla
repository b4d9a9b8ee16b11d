------------------------------ MODULE Outbox ------------------------------
(***************************************************************************)
(* The outbox workers: each repeats dispatch_batch, one transaction that   *)
(* claims undispatched events with FOR UPDATE SKIP LOCKED, adds them to a  *)
(* Redis stream one by one, and commits their dispatch metadata.  Redis    *)
(* commands fail, are doubled or lose their answer, Redis is unavailable   *)
(* for a while, commits fail, workers are killed and restarted.            *)
(***************************************************************************)
EXTENDS Integers, Sequences, FiniteSets, FiniteSetsExt

CONSTANTS
    Event,      \* outbox events, numbered in the order of occurred_at
    Account,
    Payload,    \* what each event may say: the accounts of the transfer it announces
    Worker,
    BatchSize,  \* the LIMIT of the statement
    Lingering,  \* may the database session of a killed worker outlive it
    MaxFaults   \* bound on failures

ASSUME EventAssumption == Event \subseteq Nat /\ Payload \in [Event -> SUBSET SUBSET Account]
ASSUME BatchAssumption == BatchSize \in Nat \ {0} /\ MaxFaults \in Nat /\ Lingering \in BOOLEAN

VARIABLES
    outbox,     \* table "outbox_events"
    stream,     \* the Redis stream
    place,      \* where each worker is in dispatch_batch, or why it has ended: "raised"
                \* out of a publication, or "down"
    scan,       \* the rows of the statement's snapshot that are yet to be tried
    claimed,    \* the rows each worker has locked
    sent,       \* of these, the ones it added to the stream and marked in its session
    orphans,    \* rows locked by sessions of killed workers
    broker,     \* is Redis "up" or "down"
    faults

worker == <<place, scan, claimed, sent>>
relayed == <<outbox, stream, worker, orphans>>
vars == <<relayed, broker, faults>>

Fresh(ends) == [dispatched |-> FALSE, attempts |-> 0, last_error |-> FALSE, payload |-> ends]

Ended == {"raised", "down"}
Posted == DOMAIN outbox
Dispatched == {e \in Posted : outbox[e].dispatched}
Delivered == {stream[i] : i \in 1 .. Len(stream)}

\* Mutant: the statement locks nothing.
RowNeverLocked(e) == FALSE

RowLocked(e) == e \in orphans \/ \E w \in Worker : e \in claimed[w]

\* The event that w adds to the stream next: rows come in the order of occurred_at.
NextEvent(w) == Min(claimed[w] \ sent[w])

\* The transaction of w is over and w goes on at the place p.
Leave(w, p) ==
    /\ place' = [place EXCEPT ![w] = p]
    /\ scan' = [scan EXCEPT ![w] = {}]
    /\ claimed' = [claimed EXCEPT ![w] = {}]
    /\ sent' = [sent EXCEPT ![w] = {}]

\* The rows of S with the metadata of a successful dispatch.
MarkDispatched(S) ==
    outbox' = [e \in Posted |->
        IF e \in S
        THEN [dispatched |-> TRUE, attempts |-> outbox[e].attempts + 1, last_error |-> FALSE,
              payload |-> outbox[e].payload]
        ELSE outbox[e]]

Fault == faults < MaxFaults /\ faults' = faults + 1

-----------------------------------------------------------------------------

Init ==
    /\ outbox = [e \in {} |-> Fresh({})]
    /\ stream = <<>>
    /\ place = [w \in Worker |-> "select"]
    /\ scan = [w \in Worker |-> {}]
    /\ claimed = [w \in Worker |-> {}]
    /\ sent = [w \in Worker |-> {}]
    /\ orphans = {}
    /\ broker = "up"
    /\ faults = 0

\* The row of an event is committed together with its transfer.
Insert(e, ends) ==
    /\ e \notin Posted
    /\ outbox' = [f \in Posted \cup {e} |-> IF f = e THEN Fresh(ends) ELSE outbox[f]]
    /\ UNCHANGED <<stream, worker, orphans, broker, faults>>

\* What the transfer service commits: transfers that share an account in the order of
\* their stamps (MoneyMovement shows that it does).
Post(e, ends) ==
    /\ \A f \in Posted : outbox[f].payload \cap ends # {} => f < e
    /\ Insert(e, ends)

\* Mutant: the worker reads on from the latest event that was dispatched.
SelectFromCursor(w) ==
    /\ place[w] = "select"
    /\ scan' = [scan EXCEPT ![w] = {e \in Posted : \A d \in Dispatched : d < e}]
    /\ place' = [place EXCEPT ![w] = "claim"]
    /\ UNCHANGED <<outbox, stream, claimed, sent, orphans, broker, faults>>

\* The statement starts: its snapshot fixes the undispatched rows.
Select(w) ==
    /\ place[w] = "select"
    /\ scan' = [scan EXCEPT ![w] = Posted \ Dispatched]
    /\ place' = [place EXCEPT ![w] = "claim"]
    /\ UNCHANGED <<outbox, stream, claimed, sent, orphans, broker, faults>>

\* Mutant: a row is published although it was dispatched since the snapshot.
TryRowStale(w) ==
    /\ place[w] = "claim"
    /\ scan[w] # {}
    /\ Cardinality(claimed[w]) < BatchSize
    /\ LET e == Min(scan[w])
       IN  /\ scan' = [scan EXCEPT ![w] = @ \ {e}]
           /\ claimed' = [claimed EXCEPT ![w] = IF RowLocked(e) THEN @ ELSE @ \cup {e}]
    /\ UNCHANGED <<outbox, stream, place, sent, orphans, broker, faults>>

\* Mutant: the limit of the batch is off by one.
TryRowPastLimit(w) ==
    /\ place[w] = "claim"
    /\ scan[w] # {}
    /\ Cardinality(claimed[w]) <= BatchSize
    /\ LET e == Min(scan[w])
       IN  /\ scan' = [scan EXCEPT ![w] = @ \ {e}]
           /\ claimed' = [claimed EXCEPT ![w] =
                IF RowLocked(e) \/ e \in Dispatched THEN @ ELSE @ \cup {e}]
    /\ UNCHANGED <<outbox, stream, place, sent, orphans, broker, faults>>

\* The next row is locked, skipped because another session holds it, or dropped because
\* it has been dispatched since the snapshot.
TryRow(w) ==
    /\ place[w] = "claim"
    /\ scan[w] # {}
    /\ Cardinality(claimed[w]) < BatchSize
    /\ LET e == Min(scan[w])
       IN  /\ scan' = [scan EXCEPT ![w] = @ \ {e}]
           /\ claimed' = [claimed EXCEPT ![w] =
                IF RowLocked(e) \/ e \in Dispatched THEN @ ELSE @ \cup {e}]
    /\ UNCHANGED <<outbox, stream, place, sent, orphans, broker, faults>>

SelectEnds(w) ==
    /\ place[w] = "claim"
    /\ scan[w] = {} \/ Cardinality(claimed[w]) = BatchSize

\* The batch is empty: the transaction commits nothing, and run sleeps before the next.
Sleep(w) ==
    /\ SelectEnds(w)
    /\ claimed[w] = {}
    /\ Leave(w, "select")
    /\ UNCHANGED <<outbox, stream, orphans, broker, faults>>

StartPublishing(w) ==
    /\ SelectEnds(w)
    /\ claimed[w] # {}
    /\ place' = [place EXCEPT ![w] = "publish"]
    /\ scan' = [scan EXCEPT ![w] = {}]
    /\ UNCHANGED <<outbox, stream, claimed, sent, orphans, broker, faults>>

\* The next event of the batch is to be added to the stream.
Sends(w) == place[w] = "publish" /\ claimed[w] # sent[w]

\* xadd returns, and the row is marked in the session.
Publish(w) ==
    /\ Sends(w)
    /\ broker = "up"
    /\ stream' = Append(stream, NextEvent(w))
    /\ sent' = [sent EXCEPT ![w] = @ \cup {NextEvent(w)}]
    /\ UNCHANGED <<outbox, place, scan, claimed, orphans, broker, faults>>

\* xadd loses its answer and the client library sends it again.
PublishTwice(w) ==
    /\ Sends(w)
    /\ broker = "up"
    /\ Fault
    /\ stream' = Append(Append(stream, NextEvent(w)), NextEvent(w))
    /\ sent' = [sent EXCEPT ![w] = @ \cup {NextEvent(w)}]
    /\ UNCHANGED <<outbox, place, scan, claimed, orphans, broker>>

\* xadd raises, with or without effect: attempts and last_error are set in the session
\* and the exception rolls them back on its way out of run, which ends the worker.
PublishFails(w) ==
    /\ Sends(w)
    /\ broker = "up"
    /\ Fault
    /\ stream' \in {stream, Append(stream, NextEvent(w))}
    /\ Leave(w, "raised")
    /\ UNCHANGED <<outbox, orphans, broker>>

\* Redis is down: xadd raises without effect, each time that a worker tries.
PublishRefused(w) ==
    /\ Sends(w)
    /\ broker = "down"
    /\ Leave(w, "raised")
    /\ UNCHANGED <<outbox, stream, orphans, broker, faults>>

\* Mutant: the whole batch is marked and committed before it is published.
CommitEarly(w) ==
    /\ place[w] = "publish"
    /\ MarkDispatched(claimed[w])
    /\ Leave(w, "select")
    /\ UNCHANGED <<stream, orphans, broker, faults>>

Commit(w) ==
    /\ place[w] = "publish"
    /\ claimed[w] = sent[w]
    /\ MarkDispatched(sent[w])
    /\ Leave(w, "select")
    /\ UNCHANGED <<stream, orphans, broker, faults>>

\* The commit raises in the worker, whether or not it took effect.
CommitFails(w) ==
    /\ place[w] = "publish"
    /\ claimed[w] = sent[w]
    /\ Fault
    /\ MarkDispatched(sent[w]) \/ UNCHANGED outbox
    /\ Leave(w, "down")
    /\ UNCHANGED <<stream, orphans, broker>>

\* The worker is killed; its database session may hold its locks for a while.
Kill(w) ==
    /\ place[w] \notin Ended
    /\ Fault
    /\ orphans' \in IF Lingering THEN {orphans, orphans \cup claimed[w]} ELSE {orphans}
    /\ Leave(w, "down")
    /\ UNCHANGED <<outbox, stream, broker>>

\* PostgreSQL notices that the client of these sessions is gone.
Reap ==
    /\ orphans # {}
    /\ orphans' = {}
    /\ UNCHANGED <<outbox, stream, worker, broker, faults>>

Restart(w) ==
    /\ place[w] \in Ended
    /\ Leave(w, "select")
    /\ UNCHANGED <<outbox, stream, orphans, broker, faults>>

Outage ==
    /\ broker = "up"
    /\ Fault
    /\ broker' = "down"
    /\ UNCHANGED relayed

Recover ==
    /\ broker = "down"
    /\ broker' = "up"
    /\ UNCHANGED <<relayed, faults>>

Dispatch(w) ==
    \/ Select(w) \/ TryRow(w) \/ Sleep(w) \/ StartPublishing(w)
    \/ Publish(w) \/ PublishRefused(w) \/ Commit(w) \/ Restart(w)

Failure(w) == PublishTwice(w) \/ PublishFails(w) \/ CommitFails(w) \/ Kill(w)

\* Everything but the transfer service.
Relay ==
    \/ \E w \in Worker : Dispatch(w) \/ Failure(w)
    \/ Reap \/ Outage \/ Recover

Next ==
    \/ \E e \in Event : \E ends \in Payload[e] : Post(e, ends)
    \/ Relay

Spec == Init /\ [][Next]_vars

\* Workers run and are restarted, Redis comes back (docs/runbook.md:35), and dead
\* sessions are reaped.
Fairness ==
    /\ WF_vars(Reap) /\ WF_vars(Recover)
    /\ \A w \in Worker : WF_vars(Dispatch(w))

FairSpec == Spec /\ Fairness

-----------------------------------------------------------------------------
\* Properties

TypeOK ==
    /\ Posted \subseteq Event
    /\ outbox \in [Posted -> [dispatched : BOOLEAN, attempts : Nat, last_error : BOOLEAN,
                              payload : SUBSET Account]]
    /\ stream \in Seq(Event)
    /\ place \in [Worker -> {"select", "claim", "publish"} \cup Ended]
    /\ scan \in [Worker -> SUBSET Event]
    /\ claimed \in [Worker -> SUBSET Event] /\ sent \in [Worker -> SUBSET Event]
    /\ \A w \in Worker : sent[w] \subseteq claimed[w] /\ Cardinality(claimed[w]) <= BatchSize
    /\ orphans \subseteq Event
    /\ broker \in {"up", "down"}
    /\ faults \in 0 .. MaxFaults

\* However many workers poll and whatever fails, no event is marked dispatched that is
\* not in the stream: "Delivery is at least once" (docs/architecture.md:34).
DispatchedWasPublished == Dispatched \subseteq Delivered

\* Only failures repeat an event: locks and the recheck of dispatched rows keep two
\* workers that read the same snapshot from publishing the same event, and an outage
\* of Redis, however many attempts it refuses, repeats the events before it once.
DuplicatesNeedFailures ==
    \A e \in Posted : Cardinality({i \in 1 .. Len(stream) : stream[i] = e}) <= 1 + faults

\* The workers deliver each posted event at least once and never again once dispatched.
Promise == INSTANCE Delivery WITH posted <- Posted, acked <- Dispatched
ImplementsDelivery == Promise!DeliverySpec

\* What a monitor of the table sees: "Monitor events with a non-null last_error or rising
\* attempts" (docs/runbook.md:36).  While a worker is down for a failed publication, the
\* rows show it.
FailuresRecorded ==
    (\E w \in Worker : place[w] = "raised") =>
        \E e \in Posted : outbox[e].last_error \/ outbox[e].attempts > 0

\* Every posted event is dispatched once failures stop, however often Redis refused it
\* before: the worker that each refusal ends is restarted, and its claims are free.
EventuallyDispatched == \A e \in Event : (e \in Posted) ~> (e \in Dispatched)

=============================================================================
