------------------------------ MODULE Startup ------------------------------
(***************************************************************************)
(* How the processes come up on an empty or an existing database: each API *)
(* process runs create_schema in its lifespan before it serves, a worker   *)
(* polls at once, for it is started as soon as the API is started.  A      *)
(* process that raises ends and is started again by the operator.          *)
(***************************************************************************)
EXTENDS Naturals, Sequences, FiniteSets, Functions

CONSTANTS
    Api,        \* API processes over one database
    Poller,     \* outbox workers
    Tables,     \* the tables of the metadata, in the order of their dependencies
    Outbox,     \* the one that workers read
    MaxCrashes  \* bound on kills

ASSUME TablesAssumption ==
    Tables \in Seq(Range(Tables)) /\ IsInjective(Tables) /\ Outbox \in Range(Tables)
ASSUME CrashAssumption == Api \cap Poller = {} /\ MaxCrashes \in Nat

VARIABLES
    schema,     \* the tables that are committed
    place,      \* where each process is
    looked,     \* how many tables the API process has looked for
    missing,    \* those it did not find, in order
    created,    \* how many of these it has created in its transaction
    crashes

vars == <<schema, place, looked, missing, created, crashes>>

-----------------------------------------------------------------------------

\* The tables that p has created and not yet committed.
Uncommitted(p) == {missing[p][i] : i \in 1 .. created[p]}

\* The transaction of p, if any, is over.
Goes(p, to) ==
    /\ place' = [place EXCEPT ![p] = to]
    /\ looked' = [q \in Api |-> IF q = p THEN 0 ELSE looked[q]]
    /\ missing' = [q \in Api |-> IF q = p THEN <<>> ELSE missing[q]]
    /\ created' = [q \in Api |-> IF q = p THEN 0 ELSE created[q]]

\* A database that is empty, or kept from an earlier start.
Init ==
    /\ schema \in {{}, Range(Tables)}
    /\ place = [p \in Api \cup Poller |-> "down"]
    /\ looked = [p \in Api |-> 0]
    /\ missing = [p \in Api |-> <<>>]
    /\ created = [p \in Api |-> 0]
    /\ crashes = 0

Start(p) ==
    /\ place[p] = "down"
    /\ Goes(p, IF p \in Api THEN "look" ELSE "poll")
    /\ UNCHANGED <<schema, crashes>>

\* Mutant: the tables are created whether or not they exist.
LookForNothing(p) ==
    /\ place[p] = "look"
    /\ looked[p] < Len(Tables)
    /\ looked' = [looked EXCEPT ![p] = @ + 1]
    /\ missing' = [missing EXCEPT ![p] = Append(@, Tables[looked[p] + 1])]
    /\ UNCHANGED <<schema, place, created, crashes>>

\* create_all looks for every table before it creates the first one.
Look(p) ==
    /\ place[p] = "look"
    /\ looked[p] < Len(Tables)
    /\ looked' = [looked EXCEPT ![p] = @ + 1]
    /\ LET t == Tables[looked[p] + 1]
       IN  missing' = [missing EXCEPT ![p] = IF t \in schema THEN @ ELSE Append(@, t)]
    /\ UNCHANGED <<schema, place, created, crashes>>

Looked(p) ==
    /\ place[p] = "look"
    /\ looked[p] = Len(Tables)
    /\ place' = [place EXCEPT ![p] = "create"]
    /\ UNCHANGED <<schema, looked, missing, created, crashes>>

\* Mutant: each statement commits on its own.
CreateAutocommitted(p) ==
    /\ place[p] = "create"
    /\ created[p] < Len(missing[p])
    /\ LET t == missing[p][created[p] + 1]
       IN  IF t \in schema
           THEN Goes(p, "down") /\ UNCHANGED schema
           ELSE /\ created' = [created EXCEPT ![p] = @ + 1]
                /\ schema' = schema \cup {t}
                /\ UNCHANGED <<place, looked, missing>>
    /\ UNCHANGED crashes

\* CREATE TABLE waits for a transaction that is creating the same table, and raises if the
\* table is there by then: the lifespan fails and the process ends.
Create(p) ==
    /\ place[p] = "create"
    /\ created[p] < Len(missing[p])
    /\ LET t == missing[p][created[p] + 1]
       IN  /\ \A q \in Api \ {p} : t \notin Uncommitted(q)
           /\ IF t \in schema
              THEN Goes(p, "down")
              ELSE /\ created' = [created EXCEPT ![p] = @ + 1]
                   /\ UNCHANGED <<place, looked, missing>>
    /\ UNCHANGED <<schema, crashes>>

\* engine.begin commits all tables at once, and the application starts to serve.
CommitSchema(p) ==
    /\ place[p] = "create"
    /\ created[p] = Len(missing[p])
    /\ schema' = schema \cup Uncommitted(p)
    /\ Goes(p, "up")
    /\ UNCHANGED crashes

\* The first dispatch_batch of a worker, which raises if there is no table to read.
FirstPoll(w) ==
    /\ place[w] = "poll"
    /\ Goes(w, IF Outbox \in schema THEN "up" ELSE "down")
    /\ UNCHANGED <<schema, crashes>>

Crash(p) ==
    /\ place[p] # "down"
    /\ crashes < MaxCrashes
    /\ crashes' = crashes + 1
    /\ Goes(p, "down")
    /\ UNCHANGED schema

Lifespan(p) == Start(p) \/ Look(p) \/ Looked(p) \/ Create(p) \/ CommitSchema(p)
Runs(w) == Start(w) \/ FirstPoll(w)

AllUp == (\A p \in Api \cup Poller : place[p] = "up") /\ UNCHANGED vars

Next ==
    \/ \E p \in Api : Lifespan(p)
    \/ \E w \in Poller : Runs(w)
    \/ \E p \in Api \cup Poller : Crash(p)
    \/ AllUp

\* The operator starts what has ended; PostgreSQL grants what is waited for.
Fairness ==
    /\ \A p \in Api : WF_vars(Lifespan(p))
    /\ \A w \in Poller : WF_vars(Runs(w))

Spec == Init /\ [][Next]_vars /\ Fairness

-----------------------------------------------------------------------------
\* Properties

\* Whoever dies or loses the race in the middle of create_schema, no other process ever
\* sees a part of the schema, and none serves without all of it.
SchemaIsWhole ==
    /\ schema \in {{}, Range(Tables)}
    /\ (\E p \in Api \cup Poller : place[p] = "up") => schema = Range(Tables)

\* API processes that race to create the schema and workers that come before it all get up
\* in the end, and stay: each failed start finds more than the one before.
EventuallyUp == \A p \in Api \cup Poller : <>[](place[p] = "up")

=============================================================================
