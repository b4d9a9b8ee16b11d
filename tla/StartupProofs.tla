--------------------------- MODULE StartupProofs ---------------------------
(***************************************************************************)
(* Proofs about Startup for any number of API processes and workers, any   *)
(* tables and any number of kills.                                         *)
(***************************************************************************)
EXTENDS Startup, TLAPS

\* What an API process knows is the tables it looked for and did not find; it has created
\* no more than these.
StartupTyped ==
    /\ schema \subseteq Range(Tables)
    /\ place \in [Api \cup Poller -> {"down", "look", "poll", "create", "up"}]
    /\ looked \in [Api -> 0 .. Len(Tables)]
    /\ missing \in [Api -> Seq(Range(Tables))]
    /\ created \in [Api -> Nat]
    /\ \A p \in Api : created[p] <= Len(missing[p])

\* As long as the database is empty, no table that was looked for has been found.
MissesAll(p) ==
    /\ place[p] = "create" => looked[p] = Len(Tables)
    /\ schema = {} => \A i \in 1 .. looked[p] : Tables[i] \in Range(missing[p])

StartupInv == StartupTyped /\ (\A p \in Api : MissesAll(p)) /\ SchemaIsWhole

-----------------------------------------------------------------------------

LEMMA TablesFacts ==
  /\ Len(Tables) \in Nat
  /\ \A i \in 1 .. Len(Tables) : Tables[i] \in Range(Tables)
  /\ \A t \in Range(Tables) : \E i \in 1 .. Len(Tables) : t = Tables[i]
  /\ Range(Tables) # {}
<1>1. Tables \in Seq(Range(Tables)) /\ Outbox \in Range(Tables)
  BY TablesAssumption, Zenon
<1>2. Len(Tables) \in Nat /\ DOMAIN Tables = 1 .. Len(Tables)
  BY <1>1
<1> QED
  BY <1>1, <1>2 DEF Range

\* What a process has created and not committed are tables that it missed: all of them once
\* it is done.
LEMMA CreatedAreMissing ==
  ASSUME NEW s \in Seq(Range(Tables)), NEW n \in Nat, n <= Len(s)
  PROVE  /\ {s[i] : i \in 1 .. n} \subseteq Range(Tables)
         /\ n = Len(s) => {s[i] : i \in 1 .. n} = Range(s)
  BY DEF Range

LEMMA RangeAppended ==
  ASSUME NEW s \in Seq(Range(Tables)), NEW t \in Range(Tables)
  PROVE  /\ Append(s, t) \in Seq(Range(Tables)) /\ Len(Append(s, t)) = Len(s) + 1
         /\ Range(s) \subseteq Range(Append(s, t)) /\ t \in Range(Append(s, t))
<1> DEFINE u == Append(s, t)
<1>1. /\ u \in Seq(Range(Tables)) /\ Len(u) = Len(s) + 1 /\ Len(s) \in Nat
      /\ \A i \in 1 .. Len(s) : u[i] = s[i]
      /\ u[Len(s) + 1] = t
      /\ DOMAIN u = 1 .. Len(s) + 1 /\ DOMAIN s = 1 .. Len(s)
  OBVIOUS
<1> HIDE DEF u
<1>2. Range(s) \subseteq Range(u) /\ t \in Range(u)
  BY <1>1 DEF Range
<1> QED
  BY <1>1, <1>2 DEF u

\* The end of a transaction leaves nothing of it behind.
LEMMA GoneInv ==
  ASSUME StartupInv, NEW p \in Api \cup Poller,
         NEW to \in {"down", "look", "poll", "up"}, Goes(p, to),
         schema' = schema, to = "up" => schema = Range(Tables)
  PROVE  StartupInv'
<1> USE DEF StartupInv
<1>1. StartupTyped'
  BY TablesFacts DEF StartupTyped, Goes
<1>2. ASSUME NEW q \in Api PROVE MissesAll(q)'
  <2>1. CASE q = p
    <3>1. looked'[q] = 0 /\ place'[q] # "create"
      BY <2>1 DEF Goes, StartupTyped
    <3> QED
      BY <3>1, TablesFacts DEF MissesAll
  <2>2. CASE q # p
    <3>1. looked'[q] = looked[q] /\ missing'[q] = missing[q] /\ place'[q] = place[q]
      BY <2>2 DEF Goes, StartupTyped
    <3> QED
      BY <3>1 DEF MissesAll
  <2> QED
    BY <2>1, <2>2
<1>3. SchemaIsWhole'
  BY DEF StartupTyped, SchemaIsWhole, Goes
<1> QED
  BY <1>1, <1>2, <1>3

\* No step of any process shows others a part of the schema.
LEMMA NextStartup ==
  ASSUME StartupInv, [Next]_vars
  PROVE  StartupInv'
<1> USE DEF StartupInv
<1>1. ASSUME NEW p \in Api \cup Poller, Start(p) PROVE StartupInv'
  BY <1>1, GoneInv DEF Start
<1>2. ASSUME NEW p \in Api, Look(p) PROVE StartupInv'
  <2> DEFINE t == Tables[looked[p] + 1]
             m == IF t \in schema THEN missing[p] ELSE Append(missing[p], t)
  <2>1. /\ looked[p] \in Nat /\ looked[p] + 1 \in 1 .. Len(Tables)
        /\ t \in Range(Tables)
        /\ missing[p] \in Seq(Range(Tables))
        /\ created[p] \in Nat /\ created[p] <= Len(missing[p])
    BY <1>2, TablesFacts DEF Look, StartupTyped
  <2>2. /\ looked' = [looked EXCEPT ![p] = @ + 1]
        /\ missing' = [missing EXCEPT ![p] = m]
        /\ place[p] = "look" /\ UNCHANGED <<schema, place, created, crashes>>
    BY <1>2 DEF Look
  <2> HIDE DEF t
  <2>3. /\ m \in Seq(Range(Tables)) /\ created[p] <= Len(m)
        /\ Range(missing[p]) \subseteq Range(m)
        /\ t \notin schema => t \in Range(m)
    BY <2>1, RangeAppended
  <2> HIDE DEF m
  <2>4. StartupTyped'
    BY <2>1, <2>2, <2>3 DEF StartupTyped
  <2>5. ASSUME NEW q \in Api PROVE MissesAll(q)'
    <3>1. CASE q # p
      BY <2>2, <3>1 DEF MissesAll, StartupTyped
    <3>2. CASE q = p
      <4>1. /\ looked'[q] = looked[p] + 1 /\ missing'[q] = m /\ place'[q] = "look"
            /\ schema' = schema
        BY <2>2, <3>2 DEF StartupTyped
      <4>2. schema = {} => \A i \in 1 .. looked[p] + 1 : Tables[i] \in Range(m)
        BY <2>1, <2>3, <3>2 DEF MissesAll, t
      <4> QED
        BY <4>1, <4>2 DEF MissesAll
    <3> QED
      BY <3>1, <3>2
  <2>6. SchemaIsWhole'
    BY <2>2 DEF SchemaIsWhole
  <2> QED
    BY <2>4, <2>5, <2>6
<1>3. ASSUME NEW p \in Api, Looked(p) PROVE StartupInv'
  BY <1>3 DEF Looked, StartupTyped, MissesAll, SchemaIsWhole
<1>4. ASSUME NEW p \in Api, Create(p) PROVE StartupInv'
  <2> DEFINE t == missing[p][created[p] + 1]
  <2>1. CASE t \in schema
    BY <1>4, <2>1, GoneInv DEF Create
  <2>2. CASE t \notin schema
    <3>1. /\ created' = [created EXCEPT ![p] = @ + 1] /\ created[p] < Len(missing[p])
          /\ UNCHANGED <<schema, place, looked, missing>>
      BY <1>4, <2>2 DEF Create
    <3>2. StartupTyped'
      BY <3>1 DEF StartupTyped
    <3> QED
      BY <3>1, <3>2 DEF MissesAll, SchemaIsWhole
  <2> QED
    BY <2>1, <2>2
<1>5. ASSUME NEW p \in Api, CommitSchema(p) PROVE StartupInv'
  <2>1. /\ place[p] = "create" /\ created[p] = Len(missing[p])
        /\ missing[p] \in Seq(Range(Tables)) /\ created[p] \in Nat
        /\ schema' = schema \cup Uncommitted(p) /\ Goes(p, "up")
    BY <1>5 DEF CommitSchema, StartupTyped
  <2>2. Uncommitted(p) \subseteq Range(Tables) /\ Uncommitted(p) = Range(missing[p])
    BY <2>1, CreatedAreMissing DEF Uncommitted
  <2>3. schema = {} => Range(missing[p]) = Range(Tables)
    <3>1. ASSUME schema = {}, NEW t \in Range(Tables) PROVE t \in Range(missing[p])
      <4>1. PICK i \in 1 .. Len(Tables) : t = Tables[i]
        BY TablesFacts
      <4> QED
        BY <2>1, <3>1, <4>1 DEF MissesAll
    <3> QED
      BY <2>2, <3>1
  <2>4. schema' = Range(Tables)
    BY <2>1, <2>2, <2>3 DEF SchemaIsWhole
  <2>5. StartupTyped'
    BY <2>1, <2>4 DEF StartupTyped, Goes
  <2>6. ASSUME NEW q \in Api PROVE MissesAll(q)'
    BY <2>1, <2>4, TablesFacts DEF StartupTyped, MissesAll, Goes
  <2>7. SchemaIsWhole'
    BY <2>4 DEF SchemaIsWhole
  <2> QED
    BY <2>5, <2>6, <2>7
<1>6. ASSUME NEW w \in Poller, FirstPoll(w) PROVE StartupInv'
  <2>1. Outbox \in schema => schema = Range(Tables)
    BY DEF SchemaIsWhole
  <2> QED
    BY <1>6, <2>1, GoneInv DEF FirstPoll
<1>7. ASSUME NEW p \in Api \cup Poller, Crash(p) PROVE StartupInv'
  BY <1>7, GoneInv DEF Crash
<1>8. CASE UNCHANGED vars
  BY <1>8 DEF vars, StartupTyped, MissesAll, SchemaIsWhole
<1> QED
  BY <1>1, <1>2, <1>3, <1>4, <1>5, <1>6, <1>7, <1>8 DEF Next, Lifespan, Runs, AllUp

LEMMA InitStartup == Init => StartupInv
<1> SUFFICES ASSUME Init PROVE StartupInv
  OBVIOUS
<1>1. StartupTyped
  BY TablesFacts DEF Init, StartupTyped
<1>2. \A p \in Api : MissesAll(p)
  BY DEF Init, MissesAll
<1>3. SchemaIsWhole
  BY DEF Init, SchemaIsWhole
<1> QED
  BY <1>1, <1>2, <1>3 DEF StartupInv

\* However many API processes race to create the schema, and whoever is killed in the
\* middle of it, no process sees a part of it and none serves without all of it.
THEOREM SchemaAlwaysWhole == Spec => []SchemaIsWhole
<1>1. StartupInv => SchemaIsWhole
  BY DEF StartupInv
<1> QED
  BY <1>1, InitStartup, NextStartup, PTL DEF Spec

=============================================================================
