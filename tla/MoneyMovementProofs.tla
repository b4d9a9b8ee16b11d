------------------------ MODULE MoneyMovementProofs ------------------------
(***************************************************************************)
(* Proof that the transfer service is the environment that Outbox assumes: *)
(* it inserts the events of an account in the order of occurred_at.  And   *)
(* that with one worker the stream repeats the statement of each account.  *)
(***************************************************************************)
EXTENDS MoneyMovement, TransferServiceProofs, FiniteSetTheorems

\* The requests that may still read the clock in their present attempt.
Unstamped == {r \in Request : pc[r] \notin {"commit", "answered"}}

\* The clock is read once in every attempt, and only faults make another attempt.
ClockOK == clock + Cardinality(Unstamped) <= Cardinality(Request) + faults

\* The stamp of a transfer about to be committed is a reading of the clock.
StampRead == \A r \in Request : pc[r] = "commit" => stamp[r] \in 1 .. clock

\* A row of the table of events says of which transfer it was committed with.
EventsTell ==
    \A e \in DOMAIN events :
        \E t \in 1 .. Len(transfers) :
            transfers[t].created_at = e /\ events[e].payload = Ends(transfers[t])

\* What an event may say: the two accounts of a transfer.
Pairs == {{a, b} : a \in Account, b \in Account}

SystemInv == ClockOK /\ StampRead /\ EventsTell

-----------------------------------------------------------------------------

\* The service takes its own steps in the composition, and the workers take none of them.
LEMMA SystemStep == [SystemNext]_systemVars => [Next]_vars
  BY DEF SystemNext, systemVars, Serve, CommitWithEvent, ServeOpener, ServiceFault, RelayStep,
         Next, Transact

\* Every attempt of a request is paid for: by the request itself or by a fault.
LEMMA NextClock ==
  ASSUME LockInv, ClockOK, [Next]_vars
  PROVE  ClockOK'
<1>1. /\ clock \in Nat /\ faults \in Nat /\ IsFiniteSet(Request)
      /\ pc \in [Process -> {"idle", "key", "lookup", "select", "rows", "commit", "insert", "answered"}]
      /\ \A r \in Request : r \in Process
  BY FiniteAssumption, BoundAssumption DEF LockInv, TypeOK, Process
<1>2. /\ IsFiniteSet(Unstamped) /\ Cardinality(Unstamped) \in Nat
      /\ Cardinality(Request) \in Nat
  BY <1>1, FS_Subset, FS_CardinalityType DEF Unstamped
<1>3. ASSUME Unstamped' \subseteq Unstamped
      PROVE  Cardinality(Unstamped') <= Cardinality(Unstamped) /\ Cardinality(Unstamped') \in Nat
  BY <1>2, <1>3, FS_Subset, FS_CardinalityType
<1>4. ASSUME NEW r \in Request, Accept(r) PROVE ClockOK'
  <2>1. /\ r \in Unstamped /\ Unstamped' = Unstamped \ {r}
        /\ clock' = clock + 1 /\ faults' = faults
    BY <1>1, <1>4 DEF Accept, Unstamped
  <2>2. Cardinality(Unstamped') = Cardinality(Unstamped) - 1
    BY <1>2, <2>1, FS_RemoveElement
  <2> QED
    BY <1>1, <1>2, <2>1, <2>2 DEF ClockOK
<1>5. ASSUME NEW p \in Process, LoseAnswer(p) \/ Abort(p) PROVE ClockOK'
  <2>1. /\ Unstamped' \subseteq Unstamped \cup {p}
        /\ clock' = clock /\ faults' = faults + 1
    BY <1>1, <1>5 DEF LoseAnswer, Abort, Fault, Answers, Unstamped
  <2>2. /\ IsFiniteSet(Unstamped \cup {p})
        /\ Cardinality(Unstamped \cup {p}) \in {Cardinality(Unstamped), Cardinality(Unstamped) + 1}
    BY <1>2, FS_AddElement
  <2>3. Cardinality(Unstamped') <= Cardinality(Unstamped \cup {p}) /\ Cardinality(Unstamped') \in Nat
    BY <2>1, <2>2, FS_Subset, FS_CardinalityType
  <2> QED
    BY <1>1, <1>2, <2>1, <2>2, <2>3 DEF ClockOK
<1>6. ASSUME clock' = clock, faults' \in {faults, faults + 1}, Unstamped' \subseteq Unstamped PROVE ClockOK'
  BY <1>1, <1>2, <1>3, <1>6 DEF ClockOK
<1>7. ASSUME NEW r \in Request, Transact(r), ~Accept(r)
      PROVE  clock' = clock /\ faults' \in {faults, faults + 1} /\ Unstamped' \subseteq Unstamped
  BY <1>1, <1>7 DEF Transact, RefuseKey, Send, LockKey, LookupFinds, LookupMisses, SelectRows,
         LockRow, Refuse, CommitOk, CommitFails, EndsWith, Answers, Fault, Unstamped
<1>8. ASSUME NEW o \in Opener, Open(o)
      PROVE  clock' = clock /\ faults' \in {faults, faults + 1} /\ Unstamped' \subseteq Unstamped
  <2>1. \A r \in Request : pc'[r] = pc[r]
    BY <1>1, <1>8, RequestAssumption DEF Open, RefuseAccount, CheckAccount, InsertAccount, Answers, Fault
  <2> QED
    BY <1>8, <2>1 DEF Open, RefuseAccount, CheckAccount, InsertAccount, Fault, Unstamped
<1>9. ASSUME NEW p \in Process, PoolTimesOut(p)
      PROVE  clock' = clock /\ faults' \in {faults, faults + 1} /\ Unstamped' \subseteq Unstamped
  BY <1>1, <1>9 DEF PoolTimesOut, Answers, Unstamped
<1>10. ASSUME UNCHANGED vars PROVE clock' = clock /\ faults' \in {faults, faults + 1} /\ Unstamped' \subseteq Unstamped
  BY <1>10 DEF vars, Unstamped
<1> QED
  BY <1>4, <1>5, <1>6, <1>7, <1>8, <1>9, <1>10 DEF Next, Terminating

\* A stamp is taken from the clock and kept until the commit.
LEMMA NextStampRead ==
  ASSUME LockInv, StampRead, [Next]_vars
  PROVE  StampRead'
<1> SUFFICES ASSUME NEW r \in Request, pc'[r] = "commit" PROVE stamp'[r] \in 1 .. clock'
  BY DEF StampRead
<1>1. clock \in Nat /\ stamp \in [Request -> Nat] /\ r \in Process
  BY DEF LockInv, TypeOK, Process
<1>2. CASE pc[r] = "commit"
  <2>1. stamp'[r] = stamp[r] /\ stamp[r] \in 1 .. clock
    BY <1>2, CommitWaits DEF StampRead
  <2> QED
    BY <1>1, <2>1, ClockGrows
<1>3. CASE pc[r] # "commit"
  <2>1. Accept(r)
    BY <1>1, <1>3, NextPlace
  <2> QED
    BY <1>1, <2>1 DEF Accept
<1> QED
  BY <1>2, <1>3

\* The workers keep what each event says, and take none away.
LEMMA RelayKeepsEvents ==
  ASSUME Relay!Relay
  PROVE  DOMAIN events' = DOMAIN events /\ \A e \in DOMAIN events : events'[e].payload = events[e].payload
<1>1. CASE events' = events
  BY <1>1
<1>2. ASSUME NEW S, Relay!MarkDispatched(S)
      PROVE  DOMAIN events' = DOMAIN events /\ \A e \in DOMAIN events : events'[e].payload = events[e].payload
  BY <1>2 DEF Relay!MarkDispatched, Relay!Posted
<1>3. \/ events' = events
      \/ \E w \in Worker : Relay!MarkDispatched(sent[w])
  BY DEF Relay!Relay, Relay!Dispatch, Relay!Failure, Relay!Select, Relay!TryRow, Relay!Sleep,
         Relay!StartPublishing, Relay!Publish, Relay!PublishRefused, Relay!Commit, Relay!Restart,
         Relay!PublishTwice, Relay!PublishFails, Relay!CommitFails, Relay!Kill, Relay!Reap,
         Relay!Outage, Relay!Recover, Relay!relayed
<1> QED
  BY <1>1, <1>2, <1>3

\* A committed transfer stays where it is in the table.
LEMMA TransfersStay ==
  ASSUME LockInv, [Next]_vars, NEW t \in 1 .. Len(transfers)
  PROVE  t \in 1 .. Len(transfers') /\ transfers'[t] = transfers[t]
<1>1. CASE \E r \in Request : CommitOk(r)
  <2>1. PICK r \in Request : CommitOk(r)
    BY <1>1
  <2>2. Len(transfers) \in Nat /\ Len(transfers') = Len(transfers) + 1 /\ transfers'[t] = transfers[t]
    BY <2>1, CommitEffect
  <2> QED
    BY <2>2
<1>2. CASE \A r \in Request : ~CommitOk(r)
  BY <1>2, OnlyCommitPosts
<1> QED
  BY <1>1, <1>2

\* The event that a commit inserts is later than every event of its two accounts.
LEMMA CommitPosts ==
  ASSUME LockInv, BooksInv, SystemInv, NEW r \in Request, CommitWithEvent(r)
  PROVE  /\ stamp[r] \in Instant /\ Ends(Cmd(r)) \in Pairs
         /\ Relay!Post(stamp[r], Ends(Cmd(r)))
         /\ DOMAIN events' = DOMAIN events \cup {stamp[r]}
         /\ events'[stamp[r]].payload = Ends(transfers'[Len(transfers')])
         /\ transfers'[Len(transfers')].created_at = stamp[r]
         /\ Len(transfers') \in 1 .. Len(transfers')
         /\ \A e \in DOMAIN events : events'[e] = events[e]
<1> DEFINE c == Cmd(r)
           n == Len(transfers) + 1
<1>1. CommitOk(r) /\ Relay!Insert(stamp[r], Ends(c)) /\ pc[r] = "commit"
  BY DEF CommitWithEvent, CommitOk
<1>2. /\ c \in Command /\ DOMAIN snap[r] = {c.source, c.destination}
      /\ Len(transfers) \in Nat /\ Len(transfers') = n
      /\ transfers'[n] = [source |-> c.source, destination |-> c.destination, amount |-> c.amount,
                          currency |-> c.currency, created_at |-> stamp[r]]
  BY <1>1, CommitEffect
<1>3. /\ stamp[r] \notin DOMAIN events
      /\ events' = [f \in DOMAIN events \cup {stamp[r]} |->
                       IF f = stamp[r] THEN Relay!Fresh(Ends(c)) ELSE events[f]]
  BY <1>1 DEF Relay!Insert, Relay!Posted
<1>4. stamp[r] \in Instant
  <2>1. stamp[r] \in 1 .. clock /\ clock \in Nat /\ faults \in 0 .. MaxFaults
    BY <1>1 DEF SystemInv, StampRead, LockInv, TypeOK
  <2>2. /\ Cardinality(Unstamped) \in Nat /\ Cardinality(Request) \in Nat
    BY FiniteAssumption, FS_Subset, FS_CardinalityType DEF Unstamped
  <2>3. clock + Cardinality(Unstamped) <= Cardinality(Request) + faults
    BY DEF SystemInv, ClockOK
  <2> QED
    BY <2>1, <2>2, <2>3, BoundAssumption DEF Instant
<1>5. ASSUME NEW f \in DOMAIN events, events[f].payload \cap Ends(c) # {} PROVE f < stamp[r]
  <2>1. PICK t \in 1 .. Len(transfers) :
            transfers[t].created_at = f /\ events[f].payload = Ends(transfers[t])
    BY DEF SystemInv, EventsTell
  <2>2. Ends(transfers[t]) \cap DOMAIN snap[r] # {}
    BY <1>2, <1>5, <2>1 DEF Ends
  <2> QED
    BY <1>1, <2>1, <2>2 DEF BooksInv, StampsOK
<1>6. Relay!Post(stamp[r], Ends(c))
  BY <1>1, <1>5 DEF Relay!Post, Relay!Posted
<1>7. Ends(c) \in Pairs
  BY <1>2 DEF Ends, Command, Pairs
<1>8. events'[stamp[r]].payload = Ends(transfers'[n]) /\ transfers'[n].created_at = stamp[r]
  BY <1>2, <1>3 DEF Relay!Fresh, Ends
<1> QED
  BY <1>2, <1>3, <1>4, <1>6, <1>7, <1>8

\* Every step keeps the table of events true to the table of transfers.
LEMMA NextSystem ==
  ASSUME LockInv, BooksInv, SystemInv, [SystemNext]_systemVars
  PROVE  SystemInv'
<1> USE DEF SystemInv
<1>1. [Next]_vars
  BY SystemStep
<1>2. ClockOK' /\ StampRead'
  BY <1>1, NextClock, NextStampRead
<1>3. \A t \in 1 .. Len(transfers) : t \in 1 .. Len(transfers') /\ transfers'[t] = transfers[t]
  BY <1>1, TransfersStay
<1>4. ASSUME DOMAIN events' = DOMAIN events,
             \A e \in DOMAIN events : events'[e].payload = events[e].payload
      PROVE  EventsTell'
  BY <1>3, <1>4 DEF EventsTell, Ends
<1>5. CASE \E r \in Request : CommitWithEvent(r)
  <2>1. PICK r \in Request : CommitWithEvent(r)
    BY <1>5
  <2>2. /\ DOMAIN events' = DOMAIN events \cup {stamp[r]}
        /\ events'[stamp[r]].payload = Ends(transfers'[Len(transfers')])
        /\ transfers'[Len(transfers')].created_at = stamp[r]
        /\ Len(transfers') \in 1 .. Len(transfers')
        /\ \A e \in DOMAIN events : events'[e] = events[e]
    BY <2>1, CommitPosts
  <2> QED
    BY <1>2, <1>3, <2>2 DEF EventsTell, Ends
<1>6. CASE RelayStep
  BY <1>2, <1>4, <1>6, RelayKeepsEvents DEF RelayStep
<1>7. CASE UNCHANGED events
  BY <1>2, <1>4, <1>7
<1> QED
  BY <1>5, <1>6, <1>7 DEF SystemNext, Serve, ServeOpener, ServiceFault, systemVars, relayVars

LEMMA InitSystem == SystemInit => SystemInv
<1> SUFFICES ASSUME SystemInit PROVE SystemInv
  OBVIOUS
<1>1. Unstamped = Request /\ clock = 0 /\ faults = 0
  BY DEF SystemInit, Init, Unstamped, Process
<1>2. Cardinality(Request) \in Nat
  BY FiniteAssumption, FS_CardinalityType
<1>3. \A r \in Request : pc[r] # "commit"
  BY DEF SystemInit, Init, Process
<1>4. DOMAIN events = {}
  BY DEF SystemInit, Relay!Init
<1> QED
  BY <1>1, <1>2, <1>3, <1>4 DEF SystemInv, ClockOK, StampRead, EventsTell

\* A step of the system is a step of the outbox: a commit posts its event, and everything
\* else that the service does leaves the outbox alone.
LEMMA NextOutbox ==
  ASSUME LockInv, BooksInv, SystemInv, [SystemNext]_systemVars
  PROVE  [Relay!Next]_(Relay!vars)
<1>1. CASE UNCHANGED relayVars
  BY <1>1 DEF relayVars, Relay!vars, Relay!relayed, Relay!worker
<1>2. CASE \E r \in Request : CommitWithEvent(r)
  <2>1. PICK r \in Request : CommitWithEvent(r)
    BY <1>2
  <2>2. /\ stamp[r] \in Instant /\ Ends(Cmd(r)) \in Pairs
        /\ Relay!Post(stamp[r], Ends(Cmd(r)))
    BY <2>1, CommitPosts
  <2> QED
    BY <2>2 DEF Relay!Next, Pairs
<1>3. CASE RelayStep
  BY <1>3 DEF RelayStep, Relay!Next
<1> QED
  BY <1>1, <1>2, <1>3 DEF SystemNext, Serve, ServeOpener, ServiceFault, systemVars

\* For any number of clients, faults and workers, the transfer service feeds the outbox as
\* Outbox assumes, so that what holds of Outbox holds of the system.
THEOREM SystemImplementsOutbox == SystemSpec => ImplementsOutbox
<1>1. SystemSpec => Spec
  BY SystemStep, PTL DEF SystemSpec, SystemInit, Spec
<1>2. SystemInit => Relay!Init
  BY DEF SystemInit
<1> QED
  BY <1>1, <1>2, BooksCorrect, InitSystem, NextSystem, NextOutbox, PTL
     DEF SystemSpec, ImplementsOutbox, Relay!Spec

-----------------------------------------------------------------------------
\* The workers of the system are those of Outbox, of which OutboxProofs has proved more

Workers == INSTANCE OutboxProofs WITH
    outbox <- events, faults <- failures, MaxFaults <- MaxFailures,
    Event <- Instant, Payload <- [e \in Instant |-> {{a, b} : a \in Account, b \in Account}]

\* What OutboxProofs takes of its constants holds of those of the system.
LEMMA WorkersAssumptions == Workers!EventAssumption /\ Workers!BatchAssumption
  BY RelayAssumption DEF Workers!EventAssumption, Workers!BatchAssumption, Instant

\* The operators of the two instances are the same.
LEMMA SameOperators ==
  /\ Relay!Posted = Workers!Posted /\ Relay!Dispatched = Workers!Dispatched
  /\ \A S : Relay!Min(S) = Workers!Min(S) /\ Relay!Cardinality(S) = Workers!Cardinality(S)
  /\ \A e : Relay!RowLocked(e) <=> Workers!RowLocked(e)
  /\ \A S : Relay!MarkDispatched(S) <=> Workers!MarkDispatched(S)
  /\ \A w, p : Relay!Leave(w, p) <=> Workers!Leave(w, p)
  /\ Relay!Fault <=> Workers!Fault
  BY DEF Relay!Posted, Workers!Posted, Relay!Dispatched, Workers!Dispatched, Relay!Min, Workers!Min,
         Relay!Cardinality, Workers!Cardinality, Relay!RowLocked, Workers!RowLocked,
         Relay!MarkDispatched, Workers!MarkDispatched, Relay!Leave, Workers!Leave,
         Relay!Fault, Workers!Fault

\* So are their choices of a row, of an event and of the end of a batch.
LEMMA SameChoices ==
  /\ \A w : Relay!NextEvent(w) = Workers!NextEvent(w)
  /\ \A w : Relay!Sends(w) <=> Workers!Sends(w)
  /\ \A w : Relay!SelectEnds(w) <=> Workers!SelectEnds(w)
  BY SameOperators DEF Relay!NextEvent, Workers!NextEvent, Relay!Sends, Workers!Sends,
         Relay!SelectEnds, Workers!SelectEnds

\* Hence each step of the one is that step of the other.
LEMMA SameInit == Relay!Init => Workers!Init
  BY DEF Relay!Init, Workers!Init, Relay!Fresh, Workers!Fresh

LEMMA SameDispatch ==
  ASSUME NEW w, Relay!Dispatch(w) PROVE Workers!Dispatch(w)
<1>1. Relay!Select(w) => Workers!Select(w)
  BY SameOperators DEF Relay!Select, Workers!Select
<1>2. Relay!TryRow(w) => Workers!TryRow(w)
  BY SameOperators DEF Relay!TryRow, Workers!TryRow
<1>3. Relay!Sleep(w) \/ Relay!StartPublishing(w) => Workers!Sleep(w) \/ Workers!StartPublishing(w)
  BY SameOperators, SameChoices
     DEF Relay!Sleep, Workers!Sleep, Relay!StartPublishing, Workers!StartPublishing
<1>4. Relay!Publish(w) \/ Relay!PublishRefused(w) => Workers!Publish(w) \/ Workers!PublishRefused(w)
  BY SameOperators, SameChoices
     DEF Relay!Publish, Workers!Publish, Relay!PublishRefused, Workers!PublishRefused
<1>5. Relay!Commit(w) \/ Relay!Restart(w) => Workers!Commit(w) \/ Workers!Restart(w)
  BY SameOperators
     DEF Relay!Commit, Workers!Commit, Relay!Restart, Workers!Restart, Relay!Ended, Workers!Ended
<1> QED
  BY <1>1, <1>2, <1>3, <1>4, <1>5 DEF Relay!Dispatch, Workers!Dispatch

LEMMA SameFailure ==
  ASSUME NEW w, Relay!Failure(w) PROVE Workers!Failure(w)
<1>1. Relay!PublishTwice(w) \/ Relay!PublishFails(w) => Workers!PublishTwice(w) \/ Workers!PublishFails(w)
  BY SameOperators, SameChoices
     DEF Relay!PublishTwice, Workers!PublishTwice, Relay!PublishFails, Workers!PublishFails
<1>2. Relay!CommitFails(w) => Workers!CommitFails(w)
  BY SameOperators DEF Relay!CommitFails, Workers!CommitFails
<1>3. Relay!Kill(w) => Workers!Kill(w)
  BY SameOperators DEF Relay!Kill, Workers!Kill, Relay!Ended, Workers!Ended
<1> QED
  BY <1>1, <1>2, <1>3 DEF Relay!Failure, Workers!Failure

LEMMA SameStep == [Relay!Next]_(Relay!vars) => [Workers!Next]_(Workers!vars)
<1>1. UNCHANGED Relay!vars => UNCHANGED Workers!vars
  BY DEF Relay!vars, Workers!vars, Relay!relayed, Workers!relayed, Relay!worker, Workers!worker
<1>2. ASSUME NEW e, NEW ends, Relay!Post(e, ends) PROVE Workers!Post(e, ends)
  BY <1>2, SameOperators
     DEF Relay!Post, Workers!Post, Relay!Insert, Workers!Insert, Relay!Fresh, Workers!Fresh,
         Relay!worker, Workers!worker
<1>3. Relay!Reap \/ Relay!Outage \/ Relay!Recover => Workers!Reap \/ Workers!Outage \/ Workers!Recover
  BY SameOperators
     DEF Relay!Reap, Workers!Reap, Relay!Outage, Workers!Outage, Relay!Recover, Workers!Recover,
         Relay!relayed, Workers!relayed, Relay!worker, Workers!worker
<1>4. Relay!Relay => Workers!Relay
  BY <1>3, SameDispatch, SameFailure DEF Relay!Relay, Workers!Relay
<1> QED
  BY <1>1, <1>2, <1>4 DEF Relay!Next, Workers!Next

\* A sole worker of the system has what OutboxProofs proves of one.
LEMMA NextWorkers ==
  ASSUME Workers!SoleWorker, Workers!ClaimInv, Workers!SequenceInv, [Relay!Next]_(Relay!vars)
  PROVE  (Workers!ClaimInv /\ Workers!SequenceInv)'
<1>1. [Workers!Next]_(Workers!vars)
  BY SameStep
<1>2. Workers!ClaimInv'
  BY <1>1, WorkersAssumptions, Workers!NextClaimInv
<1>3. Workers!SequenceInv'
  BY <1>1, WorkersAssumptions, Workers!NextSequence
<1> QED
  BY <1>2, <1>3

LEMMA InitWorkers == SystemInit => Workers!ClaimInv /\ Workers!SequenceInv
  BY SameInit, WorkersAssumptions, Workers!InitClaimInv, Workers!InitSequence DEF SystemInit

-----------------------------------------------------------------------------
\* What the stream tells of the statements

\* Each transfer is announced by an event of its own.
EachAnnounced ==
    \A t \in 1 .. Len(transfers) :
        /\ transfers[t].created_at \in DOMAIN events
        /\ events[transfers[t].created_at].payload = Ends(transfers[t])
        /\ \A u \in 1 .. Len(transfers) : transfers[u].created_at = transfers[t].created_at => u = t

\* Each account of a transfer has one entry of it.
EntryOfEach ==
    /\ \A e, f \in entries : e.account = f.account /\ e.transfer = f.transfer => e = f
    /\ \A t \in 1 .. Len(transfers) : \A a \in Ends(transfers[t]) :
          \E e \in entries : e.account = a /\ e.transfer = t

AnnounceInv == EachAnnounced /\ EntriesOK /\ EntryOfEach

\* The instants at which the transfers of a were stamped.
Stamps(a) == {transfers[t].created_at : t \in {u \in 1 .. Len(transfers) : a \in Ends(transfers[u])}}

\* A commit announces its transfer and writes both its entries.
LEMMA CommitAnnounces ==
  ASSUME LockInv, BooksInv, SystemInv, AnnounceInv, NEW r \in Request, CommitWithEvent(r)
  PROVE  AnnounceInv'
<1> DEFINE c == Cmd(r)
           n == Len(transfers) + 1
           x == [transfer |-> n, account |-> c.source, amount |-> -c.amount]
           y == [transfer |-> n, account |-> c.destination, amount |-> c.amount]
<1>1. CommitOk(r) /\ stamp[r] \notin DOMAIN events
  BY DEF CommitWithEvent, Relay!Insert, Relay!Posted
<1>2. /\ c.source # c.destination /\ Len(transfers) \in Nat /\ Len(transfers') = n
      /\ \A i \in 1 .. Len(transfers) : transfers'[i] = transfers[i]
  BY <1>1, CommitEffect
<1>3. /\ entries' = entries \cup {x, y}
      /\ \A e \in entries : e.transfer \in 1 .. Len(transfers)
      /\ Ends(transfers'[n]) = {c.source, c.destination}
      /\ transfers'[n].created_at = stamp[r]
  BY <1>1, CommitEntries, Zenon
<1>4. /\ DOMAIN events' = DOMAIN events \cup {stamp[r]}
      /\ events'[stamp[r]].payload = Ends(transfers'[n])
      /\ \A e \in DOMAIN events : events'[e] = events[e]
  BY <1>2, CommitPosts
<1>5. /\ x.transfer = n /\ y.transfer = n /\ x.account = c.source /\ y.account = c.destination
  OBVIOUS
<1> HIDE DEF c, x, y
<1>6. /\ \A i \in 1 .. n : i \in 1 .. Len(transfers) \/ i = n
      /\ n \notin 1 .. Len(transfers)
  BY <1>2
<1> HIDE DEF n
<1>7. \A i \in 1 .. Len(transfers) : Ends(transfers'[i]) = Ends(transfers[i])
  BY <1>2 DEF Ends
<1>8. EachAnnounced'
  <2> DEFINE at(i) == transfers'[i].created_at
  <2> SUFFICES ASSUME NEW t \in 1 .. n
               PROVE  /\ at(t) \in DOMAIN events' /\ events'[at(t)].payload = Ends(transfers'[t])
                      /\ \A u \in 1 .. n : at(u) = at(t) => u = t
    BY <1>2 DEF EachAnnounced, Ends
  <2>1. \A i \in 1 .. Len(transfers) :
           /\ at(i) \in DOMAIN events /\ events[at(i)].payload = Ends(transfers'[i])
           /\ \A j \in 1 .. Len(transfers) : at(j) = at(i) => j = i
    BY <1>2, <1>7 DEF AnnounceInv, EachAnnounced
  <2>2. at(n) = stamp[r]
    BY <1>3
  <2> HIDE DEF at
  <2> QED
    BY <1>1, <1>4, <1>6, <2>1, <2>2
<1>9. EntriesOK'
  <2>1. IsFiniteSet(entries')
    <3>1. IsFiniteSet(entries \cup {x})
      BY FS_AddElement DEF AnnounceInv, EntriesOK
    <3>2. IsFiniteSet((entries \cup {x}) \cup {y})
      BY <3>1, FS_AddElement
    <3>3. entries' = (entries \cup {x}) \cup {y}
      BY <1>3
    <3> QED
      BY <3>2, <3>3
  <2>2. \A e \in entries' : e.account \in Ends(transfers'[e.transfer])
    BY <1>3, <1>5, <1>7 DEF AnnounceInv, EntriesOK
  <2> QED
    BY <2>1, <2>2 DEF EntriesOK, Ends
<1>10. EntryOfEach'
  <2>1. ASSUME NEW e \in entries', NEW f \in entries', e.account = f.account, e.transfer = f.transfer
        PROVE  e = f
    <3>1. CASE e \in entries /\ f \in entries
      BY <2>1, <3>1 DEF AnnounceInv, EntryOfEach
    <3>2. CASE ~(e \in entries /\ f \in entries)
      BY <1>2, <1>3, <1>5, <1>6, <2>1, <3>2
    <3> QED
      BY <3>1, <3>2
  <2>2. ASSUME NEW t \in 1 .. n, NEW a \in Ends(transfers'[t])
        PROVE  \E e \in entries' : e.account = a /\ e.transfer = t
    <3>1. CASE t = n
      BY <1>3, <1>5, <2>2, <3>1
    <3>2. CASE t \in 1 .. Len(transfers)
      BY <1>3, <1>7, <2>2, <3>2 DEF AnnounceInv, EntryOfEach
    <3> QED
      BY <1>6, <3>1, <3>2
  <2> QED
    BY <1>2, <2>1, <2>2 DEF EntryOfEach, Ends
<1> QED
  BY <1>8, <1>9, <1>10 DEF AnnounceInv

\* No other step touches transfers, entries or what an event says.
LEMMA NextAnnounce ==
  ASSUME LockInv, BooksInv, SystemInv, AnnounceInv, [SystemNext]_systemVars
  PROVE  AnnounceInv'
<1>1. CASE \E r \in Request : CommitWithEvent(r)
  BY <1>1, CommitAnnounces
<1>2. CASE \A r \in Request : ~CommitWithEvent(r)
  <2>1. \A r \in Request : ~CommitOk(r)
    <3> SUFFICES ASSUME NEW r \in Request, CommitOk(r) PROVE FALSE
      OBVIOUS
    <3>1. outbox' # outbox
      <4>1. outbox \subseteq 1 .. Len(transfers) /\ Len(transfers) \in Nat
        BY DEF LockInv, TypeOK
      <4>2. outbox' = outbox \cup {Len(transfers) + 1}
        BY CommitEffect
      <4> QED
        BY <4>1, <4>2
    <3>2. outbox' = outbox
      BY <1>2 DEF SystemNext, Serve, ServeOpener, ServiceFault, RelayStep, systemVars, vars,
            Open, RefuseAccount, CheckAccount, InsertAccount, LoseAnswer, Abort, PoolTimesOut, Terminating, tables
    <3> QED
      BY <3>1, <3>2
  <2>2. UNCHANGED <<transfers, entries>>
    BY <2>1, SystemStep, OnlyCommitPosts
  <2>3. /\ DOMAIN events' = DOMAIN events
        /\ \A e \in DOMAIN events : events'[e].payload = events[e].payload
    BY <1>2, RelayKeepsEvents
       DEF SystemNext, Serve, ServeOpener, ServiceFault, RelayStep, systemVars, relayVars
  <2> QED
    BY <2>2, <2>3 DEF AnnounceInv, EachAnnounced, EntriesOK, EntryOfEach, Ends
<1> QED
  BY <1>1, <1>2

LEMMA InitAnnounce == SystemInit => AnnounceInv
<1> SUFFICES ASSUME SystemInit PROVE AnnounceInv
  OBVIOUS
<1>1. transfers = <<>> /\ entries = {}
  BY DEF SystemInit, Init
<1>2. 1 .. Len(transfers) = {}
  BY <1>1
<1> QED
  BY <1>1, <1>2, FS_EmptySet DEF AnnounceInv, EachAnnounced, EntriesOK, EntryOfEach

\* A statement lists the stamps of its account's transfers.
LEMMA StatementListsStamps ==
  ASSUME LockInv, AnnounceInv, NEW a
  PROVE  LET n == Len(Statement(a))
             listed == [i \in 1 .. n |-> transfers[Statement(a)[i].transfer].created_at]
         IN  n \in Nat /\ Stamps(a) \subseteq Nat /\ Enumerates(listed, n, Stamps(a))
<1> DEFINE own == Own(a)
           n == Cardinality(own)
           k == [e \in own |-> StampOf[e]]
<1>1. IsFiniteSet(own) /\ \A e \in own : e \in entries /\ e.account = a
  BY FS_Subset DEF Own, AnnounceInv, EntriesOK
<1>2. \A e \in own : /\ e.transfer \in 1 .. Len(transfers) /\ a \in Ends(transfers[e.transfer])
                     /\ StampOf[e] = transfers[e.transfer].created_at /\ StampOf[e] \in Nat
  BY <1>1, StampsRead DEF AnnounceInv, EntriesOK
\* No two entries of one account have the same stamp.
<1>3. \A e, f \in own : StampOf[e] = StampOf[f] => e = f
  <2> SUFFICES ASSUME NEW e \in own, NEW f \in own, StampOf[e] = StampOf[f] PROVE e = f
    OBVIOUS
  <2>1. e.transfer = f.transfer
    BY <1>2 DEF AnnounceInv, EachAnnounced
  <2> QED
    BY <1>1, <2>1 DEF AnnounceInv, EntryOfEach
<1>4. PICK s : Increasing(s, own, k)
  <2>1. k \in [own -> Int] /\ \A e, f \in own : k[e] = k[f] => e = f
    BY <1>2, <1>3
  <2> HIDE DEF own, k
  <2> QED
    BY <1>1, <2>1, IncreasingExists
<1>5. s \in [1 .. n -> own]
  BY <1>4 DEF Increasing, Bijection, Injection
<1>6. Increasing(s, own, StampOf)
  <2>1. \A i \in 1 .. n : k[s[i]] = StampOf[s[i]]
    BY <1>5
  <2> QED
    BY <1>4, <2>1 DEF Increasing
<1>7. n \in Nat /\ Statement(a) = s
  BY <1>6, StatementIsList DEF AnnounceInv
<1>8. Len(Statement(a)) = n
  <2> HIDE DEF n
  <2> QED
    BY <1>5, <1>7
<1> DEFINE listed == [i \in 1 .. n |-> transfers[s[i].transfer].created_at]
<1>9. \A i \in 1 .. n : listed[i] = StampOf[s[i]] /\ s[i] \in own
  BY <1>2, <1>5
<1>10. \A e \in own : StampOf[e] \in Stamps(a)
  BY <1>2 DEF Stamps
<1>11. \A x \in Stamps(a) : \E e \in own : StampOf[e] = x
  <2> SUFFICES ASSUME NEW t \in 1 .. Len(transfers), a \in Ends(transfers[t])
               PROVE  \E e \in own : StampOf[e] = transfers[t].created_at
    BY DEF Stamps
  <2>1. PICK e \in entries : e.account = a /\ e.transfer = t
    BY DEF AnnounceInv, EntryOfEach
  <2>2. e \in own
    BY <2>1 DEF Own
  <2> QED
    BY <1>2, <2>1, <2>2
<1>12. \A e \in own : \E i \in 1 .. n : s[i] = e
  BY <1>4 DEF Increasing, Bijection, Surjection
<1>13. \A i, j \in 1 .. n : i < j => StampOf[s[i]] < StampOf[s[j]]
  BY <1>6 DEF Increasing
<1>14. Stamps(a) \subseteq Nat
  BY <1>2, <1>11
<1>15. Enumerates(listed, n, Stamps(a))
  <2>1. listed \in [1 .. n -> Stamps(a)]
    <3>1. \A i \in 1 .. n : listed[i] \in Stamps(a)
      BY <1>9, <1>10
    <3> QED
      BY <3>1
  <2> HIDE DEF listed, own, n
  <2>2. \A x \in Stamps(a) : \E i \in 1 .. n : listed[i] = x
    BY <1>9, <1>11, <1>12
  <2>3. \A i, j \in 1 .. n : i < j => listed[i] < listed[j]
    BY <1>9, <1>13
  <2> QED
    BY <2>1, <2>2, <2>3 DEF Enumerates
<1> QED
  BY <1>7, <1>8, <1>14, <1>15

\* What OutboxProofs shows of the stream, in terms of the tables of the system.
LEMMA StreamFacts ==
  ASSUME LockInv, SystemInv, AnnounceInv, Workers!SequenceInv
  PROVE  /\ DOMAIN events \subseteq Nat
         /\ \A e \in DOMAIN events :
               /\ Announced(e) \in 1 .. Len(transfers)
               /\ transfers[Announced(e)].created_at = e
               /\ events[e].payload = Ends(transfers[Announced(e)])
         /\ \A i \in 1 .. Len(stream) :
               /\ stream[i] \in DOMAIN events
               /\ \A e \in DOMAIN events :
                     e < stream[i] /\ events[e].payload \cap events[stream[i]].payload # {}
                       => \E j \in 1 .. i - 1 : stream[j] = e
<1>1. ASSUME NEW e \in DOMAIN events
      PROVE  /\ Announced(e) \in 1 .. Len(transfers)
             /\ transfers[Announced(e)].created_at = e
             /\ events[e].payload = Ends(transfers[Announced(e)])
  <2>1. \E t \in 1 .. Len(transfers) : transfers[t].created_at = e
    BY DEF SystemInv, EventsTell
  <2>2. Announced(e) \in 1 .. Len(transfers) /\ transfers[Announced(e)].created_at = e
    BY <2>1 DEF Announced
  <2> QED
    BY <2>2 DEF AnnounceInv, EachAnnounced
<1>2. DOMAIN events \subseteq Nat
  <2> SUFFICES ASSUME NEW e \in DOMAIN events PROVE e \in Nat
    OBVIOUS
  <2>1. PICK t \in 1 .. Len(transfers) : transfers[t].created_at = e
    BY DEF SystemInv, EventsTell
  <2> QED
    BY <2>1, TransferStamped
<1>3. \A i \in 1 .. Len(stream) :
         /\ stream[i] \in DOMAIN events
         /\ \A e \in DOMAIN events :
               e < stream[i] /\ events[e].payload \cap events[stream[i]].payload # {}
                 => \E j \in 1 .. i - 1 : stream[j] = e
  BY Zenon DEF Workers!SequenceInv, Workers!StreamInOrder, Workers!Posted, Workers!Share
<1> QED
  BY <1>1, <1>2, <1>3

\* The stream shows the first events of an account, in the order of their stamps.
LEMMA SeenListsStamps ==
  ASSUME LockInv, SystemInv, AnnounceInv, Workers!SequenceInv, stream \in Seq(Instant), NEW a
  PROVE  LET m == Cardinality(Seen(a))
         IN  /\ m \in Nat /\ Len(FirstSeen(a)) = m /\ Enumerates(FirstSeen(a), m, Seen(a))
             /\ InitialPart(Seen(a), Stamps(a))
<1> DEFINE seen == Seen(a)
           m == Cardinality(seen)
           k == [e \in seen |-> FirstAt(e)]
<1>1. \A e \in seen : /\ e \in Relay!Delivered /\ e \in DOMAIN events /\ e \in Nat
                      /\ a \in Ends(transfers[Announced(e)]) /\ a \in events[e].payload
                      /\ Announced(e) \in 1 .. Len(transfers) /\ transfers[Announced(e)].created_at = e
  <2> SUFFICES ASSUME NEW e \in Relay!Delivered, a \in Ends(transfers[Announced(e)])
               PROVE  /\ e \in DOMAIN events /\ e \in Nat /\ a \in events[e].payload
                      /\ Announced(e) \in 1 .. Len(transfers) /\ transfers[Announced(e)].created_at = e
    BY DEF Seen
  <2>1. e \in DOMAIN events
    BY StreamFacts DEF Relay!Delivered
  <2> QED
    BY <2>1, StreamFacts
<1>2. \A e \in seen : /\ FirstAt(e) \in 1 .. Len(stream) /\ FirstAt(e) \in Int
                      /\ stream[FirstAt(e)] = e /\ \A j \in 1 .. FirstAt(e) - 1 : stream[j] # e
  <2> SUFFICES ASSUME NEW e \in seen
               PROVE  /\ FirstAt(e) \in 1 .. Len(stream) /\ FirstAt(e) \in Int
                      /\ stream[FirstAt(e)] = e /\ \A j \in 1 .. FirstAt(e) - 1 : stream[j] # e
    OBVIOUS
  <2>1. \E i \in 1 .. Len(stream) : stream[i] = e
    BY <1>1 DEF Relay!Delivered
  <2>2. \E i \in 1 .. Len(stream) : stream[i] = e /\ \A j \in 1 .. i - 1 : stream[j] # e
    BY <2>1, FirstOccurrence
  <2> QED
    BY <2>2 DEF FirstAt
<1>3. IsFiniteSet(seen) /\ m \in Nat
  <2>1. seen \subseteq {stream[i] : i \in 1 .. Len(stream)}
    BY <1>1 DEF Relay!Delivered
  <2>2. \A e \in seen : e \in Instant
    BY <2>1
  <2>3. Cardinality(Request) + MaxFaults \in Nat
    BY FiniteAssumption, FS_CardinalityType, BoundAssumption
  <2>4. IsFiniteSet(Instant)
    BY <2>3, FS_Interval DEF Instant
  <2> QED
    BY <2>2, <2>4, FS_Subset, FS_CardinalityType
\* An earlier event of the account is in the stream already.
<1>4. ASSUME NEW x \in seen, NEW y \in DOMAIN events, a \in events[y].payload, y < x
      PROVE  y \in seen /\ FirstAt(y) < FirstAt(x)
  <2>1. FirstAt(x) \in 1 .. Len(stream) /\ stream[FirstAt(x)] = x /\ a \in events[x].payload
    BY <1>1, <1>2
  <2>2. PICK j \in 1 .. FirstAt(x) - 1 : stream[j] = y
    BY <1>4, <2>1, StreamFacts
  <2>3. j \in 1 .. Len(stream) /\ y \in Relay!Delivered
    BY <2>1, <2>2 DEF Relay!Delivered
  <2>4. y \in seen
    BY <1>4, <2>3, StreamFacts DEF Seen
  <2>5. ~(j < FirstAt(y))
    BY <1>2, <2>2, <2>4
  <2>6. FirstAt(y) \in Int /\ j \in Int /\ FirstAt(x) \in Int /\ j < FirstAt(x)
    BY <1>2, <2>1, <2>2, <2>4
  <2> QED
    BY ONLY <2>4, <2>5, <2>6
<1>5. \A x, y \in seen : FirstAt(x) = FirstAt(y) => x = y
  BY <1>2
<1> HIDE DEF seen
<1>6. \E s : Increasing(s, seen, k)
  <2>1. k \in [seen -> Int] /\ \A x, y \in seen : k[x] = k[y] => x = y
    BY <1>2, <1>5
  <2> HIDE DEF k
  <2> QED
    BY <1>3, <2>1, IncreasingExists
<1> DEFINE In(s) == \A i, j \in 1 .. m : i < j => FirstAt(s[i]) < FirstAt(s[j])
<1> HIDE DEF m
<1>7. \E s \in Bijection(1 .. m, seen) : In(s)
  <2>1. PICK s : Increasing(s, seen, k)
    BY <1>6
  <2>2. s \in Bijection(1 .. m, seen) /\ \A i, j \in 1 .. m : i < j => k[s[i]] < k[s[j]]
    BY <2>1, Zenon DEF Increasing, m
  <2>3. \A i \in 1 .. m : s[i] \in seen
    BY <2>2 DEF Bijection, Injection
  <2> QED
    BY <2>2, <2>3
<1> DEFINE d == FirstSeen(a)
<1>8. d \in Bijection(1 .. m, seen) /\ In(d)
  <2>1. d = CHOOSE s \in Bijection(1 .. m, seen) : In(s)
    BY Zenon DEF FirstSeen, m, seen
  <2> HIDE DEF In, d
  <2> QED
    BY <1>7, <2>1, Zenon
<1> HIDE DEF d
<1>9. d \in [1 .. m -> seen] /\ \A x \in seen : \E i \in 1 .. m : d[i] = x
  BY <1>8 DEF Bijection, Injection, Surjection
<1>10. \A i, j \in 1 .. m : i < j => d[i] < d[j]
  <2> SUFFICES ASSUME NEW i \in 1 .. m, NEW j \in 1 .. m, i < j PROVE d[i] < d[j]
    OBVIOUS
  <2>1. d[i] \in seen /\ d[j] \in seen
    BY <1>9
  <2>2. FirstAt(d[i]) < FirstAt(d[j]) /\ FirstAt(d[i]) \in Int /\ FirstAt(d[j]) \in Int
    BY <1>2, <1>8, <2>1
  <2>3. ~(d[j] < d[i])
    <3> SUFFICES ASSUME d[j] < d[i] PROVE FALSE
      OBVIOUS
    <3>1. FirstAt(d[j]) < FirstAt(d[i])
      BY <1>1, <1>4, <2>1
    <3> QED
      BY ONLY <2>2, <3>1
  <2>4. d[i] # d[j]
    BY <2>2
  <2>5. d[i] \in Nat /\ d[j] \in Nat
    BY <1>1, <2>1
  <2> QED
    BY ONLY <2>3, <2>4, <2>5
<1>11. Enumerates(d, m, seen) /\ Len(d) = m
  BY <1>3, <1>9, <1>10 DEF Enumerates
<1>12. seen \subseteq Stamps(a)
  BY <1>1 DEF Stamps
<1>13. ASSUME NEW x \in seen, NEW y \in Stamps(a), y < x PROVE y \in seen
  <2>1. PICK t \in 1 .. Len(transfers) : a \in Ends(transfers[t]) /\ y = transfers[t].created_at
    BY DEF Stamps
  <2>2. y \in DOMAIN events /\ a \in events[y].payload
    BY <2>1 DEF AnnounceInv, EachAnnounced
  <2> QED
    BY <1>4, <1>13, <2>2
<1> QED
  BY <1>3, <1>11, <1>12, <1>13 DEF d, m, seen, InitialPart

\* Two increasing lists, one of them of the first numbers of the other's set.
LEMMA StreamFollows ==
  ASSUME LockInv, SystemInv, AnnounceInv, Workers!SequenceInv, stream \in Seq(Instant)
  PROVE  StreamFollowsStatement
<1> SUFFICES ASSUME NEW a \in Account
             PROVE  LET listed == Statement(a)
                    IN  IsPrefix(FirstSeen(a), [i \in 1 .. Len(listed) |-> transfers[listed[i].transfer].created_at])
  BY DEF StreamFollowsStatement
<1> DEFINE n == Len(Statement(a))
           m == Cardinality(Seen(a))
           d == FirstSeen(a)
           s == [i \in 1 .. n |-> transfers[Statement(a)[i].transfer].created_at]
<1>1. n \in Nat /\ Stamps(a) \subseteq Nat /\ Enumerates(s, n, Stamps(a))
  BY StatementListsStamps
<1>2. /\ m \in Nat /\ Len(d) = m /\ Enumerates(d, m, Seen(a)) /\ InitialPart(Seen(a), Stamps(a))
  BY SeenListsStamps
<1> HIDE DEF n, m, d
<1>3. Len(s) = n /\ DOMAIN s = 1 .. n
  BY <1>1
<1>4. DOMAIN d = 1 .. m
  BY <1>2 DEF Enumerates
<1> HIDE DEF s
<1>5. m <= n /\ \A i \in 1 .. m : d[i] = s[i]
  <2>1. Stamps(a) \subseteq Int
    BY <1>1
  <2> QED
    BY ONLY <1>1, <1>2, <2>1, EnumerationPrefix, SMTT(120)
<1>6. SubSeq(d, 1, m) = SubSeq(s, 1, m)
  <2>1. SubSeq(d, 1, m) = [i \in 1 .. m |-> d[i]] /\ SubSeq(s, 1, m) = [i \in 1 .. m |-> s[i]]
    BY <1>2, <1>3, <1>4, <1>5
  <2> QED
    BY <1>5, <2>1
<1> QED
  BY <1>2, <1>3, <1>5, <1>6 DEF IsPrefix, n, d, s

\* With one worker, whose database session dies with it, a consumer that drops repetitions
\* reads the transfers of each account in the order of its statement and skips none: for any
\* clients and accounts, whatever fails and however often it is tried again.
THEOREM StreamAlwaysFollows ==
  ASSUME Workers!SoleWorker
  PROVE  SystemSpec => []StreamFollowsStatement
<1> DEFINE Inv == SystemInv /\ AnnounceInv /\ Workers!ClaimInv /\ Workers!SequenceInv
<1>1. SystemInit => Inv
  BY InitSystem, InitAnnounce, InitWorkers
<1>2. LockInv /\ BooksInv /\ Inv /\ [SystemNext]_systemVars => Inv'
  BY NextSystem, NextAnnounce, NextOutbox, NextWorkers
<1>3. LockInv /\ Inv => StreamFollowsStatement
  <2>1. Workers!ClaimInv => stream \in Seq(Instant)
    BY DEF Workers!ClaimInv, Workers!TypeOK
  <2> QED
    BY <2>1, StreamFollows
<1>4. SystemSpec => Spec
  BY SystemStep, PTL DEF SystemSpec, SystemInit, Spec
<1> HIDE DEF Inv
<1> QED
  BY <1>1, <1>2, <1>3, <1>4, BooksCorrect, PTL DEF SystemSpec

=============================================================================
