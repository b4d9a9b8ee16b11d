--------------------------- MODULE MoneyMovement ---------------------------
(***************************************************************************)
(* The transfer service and the outbox workers over one database: a        *)
(* transfer commits its event into the very table that the workers claim   *)
(* from, in the same transaction.  An event is known by the instant at     *)
(* which its transfer was stamped, which is its occurred_at.               *)
(***************************************************************************)
EXTENDS TransferService

CONSTANTS Worker, BatchSize, Lingering, MaxFailures

\* Clients send finitely many requests, each as often as faults make it.
ASSUME FiniteAssumption == IsFiniteSet(Request)
ASSUME RelayAssumption == BatchSize \in Nat \ {0} /\ MaxFailures \in Nat /\ Lingering \in BOOLEAN

VARIABLES
    events,     \* the rows of "outbox_events"
    stream, place, scan, claimed, sent, orphans, broker,
    failures

\* The readings of the clock: one for each transfer that is accepted.
Instant == 1 .. Cardinality(Request) + MaxFaults

Relay == INSTANCE Outbox WITH
    outbox <- events, faults <- failures, MaxFaults <- MaxFailures,
    Event <- Instant, Payload <- [e \in Instant |-> {{a, b} : a \in Account, b \in Account}]

relayVars == <<events, stream, place, scan, claimed, sent, orphans, broker, failures>>
systemVars == <<vars, relayVars>>

-----------------------------------------------------------------------------

SystemInit == Init /\ Relay!Init

\* Mutant: the row of the event is not added to the transaction.
CommitBesideEvent(r) ==
    /\ CommitOk(r)
    /\ UNCHANGED relayVars

\* add_transfer adds the row of the event, stamped like the transfer, to its transaction.
CommitWithEvent(r) ==
    /\ CommitOk(r)
    /\ Relay!Insert(stamp[r], Ends(Cmd(r)))

\* Everything else that a handler does leaves the table of events alone.
Serve(r) ==
    \/ CommitWithEvent(r)
    \/ Transact(r) /\ outbox' = outbox /\ UNCHANGED relayVars

ServeOpener(o) == Open(o) /\ UNCHANGED relayVars

ServiceFault ==
    /\ \E p \in Process : LoseAnswer(p) \/ Abort(p) \/ PoolTimesOut(p)
    /\ UNCHANGED relayVars

RelayStep == Relay!Relay /\ UNCHANGED vars

SystemNext ==
    \/ \E r \in Request : Serve(r)
    \/ \E o \in Opener : ServeOpener(o)
    \/ ServiceFault
    \/ RelayStep

\* Handlers keep running, workers are restarted, Redis and its sessions recover.
SystemFairness ==
    /\ \A r \in Request : WF_systemVars(Serve(r))
    /\ \A o \in Opener : WF_systemVars(ServeOpener(o))
    /\ WF_systemVars(Relay!Reap /\ UNCHANGED vars)
    /\ WF_systemVars(Relay!Recover /\ UNCHANGED vars)
    /\ \A w \in Worker : WF_systemVars(Relay!Dispatch(w) /\ UNCHANGED vars)

SystemSpec == SystemInit /\ [][SystemNext]_systemVars /\ SystemFairness

-----------------------------------------------------------------------------
\* Properties

\* The transfer that an event announces.
Announced(e) == CHOOSE t \in 1 .. Len(transfers) : transfers[t].created_at = e

\* The events of a that the stream has shown so far, in the order of their first delivery.
Seen(a) == {e \in Relay!Delivered : a \in Ends(transfers[Announced(e)])}
FirstAt(e) == CHOOSE i \in 1 .. Len(stream) : stream[i] = e /\ \A j \in 1 .. i - 1 : stream[j] # e
FirstSeen(a) ==
    CHOOSE s \in Bijection(1 .. Cardinality(Seen(a)), Seen(a)) :
        \A i, j \in 1 .. Cardinality(Seen(a)) : i < j => FirstAt(s[i]) < FirstAt(s[j])

\* A consumer that drops repetitions by event_id reads the transfers of an account in the
\* order of its statement and skips none, through retries of clients, dead transactions,
\* failures of Redis and kills: as long as one worker runs, and its database session dies
\* with it.  (With two workers, or with a lingering session, it does not hold.)
StreamFollowsStatement ==
    \A a \in Account :
        LET listed == Statement(a)
        IN  IsPrefix(FirstSeen(a), [i \in 1 .. Len(listed) |-> transfers[listed[i].transfer].created_at])

\* What Outbox assumes of its environment is what the transfer service does: it inserts an
\* event once, and the events of an account in the order of occurred_at.
ImplementsOutbox == Relay!Spec

\* Every transfer that was ever committed, in whatever order commits overtake each other,
\* is dispatched to the consumers in the end.
EveryTransferAnnounced ==
    \A e \in Instant :
        (\E t \in 1 .. Len(transfers) : transfers[t].created_at = e) ~> (e \in Relay!Dispatched)

=============================================================================
