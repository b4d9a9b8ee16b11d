----------------------- MODULE TransferServiceProofs -----------------------
(***************************************************************************)
(* Proofs about TransferService for every set of requests, accounts and    *)
(* keys, every workload and every number of faults.                        *)
(***************************************************************************)
EXTENDS TransferService, FoldLemmas

\* What a request holds at each place of create_transfer.
SessionOK ==
    /\ \A o \in Opener : pc[o] \in {"idle", "insert", "answered"}
    /\ \A r \in Request :
          /\ pc[r] # "insert"
          /\ DOMAIN snap[r] \cup want[r] \subseteq Ends(Cmd(r))
          /\ want[r] \subseteq DOMAIN accounts
          /\ pc[r] \notin {"rows", "commit"} => DOMAIN snap[r] = {} /\ want[r] = {}
          /\ pc[r] = "commit" => want[r] = {} /\ Verdict(r) = "none"

\* A row is locked by one request, the slot of a key by one request.
LocksExclusive ==
    \A r, q \in Request :
        r # q => /\ DOMAIN snap[r] \cap DOMAIN snap[q] = {}
                 /\ HoldsKey(r) /\ HoldsKey(q) => Hash[KeyOf(r)] # Hash[KeyOf(q)]

LockInv == TypeOK /\ SessionOK /\ LocksExclusive /\ SnapshotsCurrent

\* A transfer is stamped later than every transfer committed on the rows it holds.
StampsOK ==
    /\ \A i \in 1 .. Len(transfers) : transfers[i].created_at <= clock
    /\ \A r \in Request : pc[r] = "commit" =>
          /\ stamp[r] <= clock
          /\ \A i \in 1 .. Len(transfers) :
                Ends(transfers[i]) \cap DOMAIN snap[r] # {} => transfers[i].created_at < stamp[r]

\* Only usable keys reach a transaction, and a bound key keeps the command it was bound by.
KeysOK ==
    /\ \A r \in Request : pc[r] \notin {"idle", "answered"} => KeyOf(r) \in UsableKey
    /\ \A k \in DOMAIN idempotency :
          /\ k \in UsableKey
          /\ PostingOf(transfers[idempotency[k].transfer]) = PostingOf(idempotency[k].fingerprint)

\* A client that was told of a transfer was told of the one its key is bound to.
AnswersOK ==
    \A r \in Request :
        /\ answer[r].status = "created" => answer[r].transfer # 0
        /\ answer[r].transfer # 0 =>
              /\ KeyOf(r) \in DOMAIN idempotency
              /\ idempotency[KeyOf(r)] = [fingerprint |-> Cmd(r), transfer |-> answer[r].transfer]

\* An opener that reaches the insert has passed the check of create_account.
OpenersOK == \A o \in Opener : pc[o] = "insert" => opening[o].row.balance >= 0

\* No balance leaves the range of its column.
BalancesInColumn == \A a \in DOMAIN accounts : accounts[a].balance \in 0 .. MaxBalance

BooksInv ==
    /\ OpenersOK /\ BalancesInColumn /\ LookupStaysMissed /\ ExactlyOncePerKey
    /\ StampsOK /\ StatementOrder
    /\ KeysOK /\ AnswersOK /\ AnswersAgree

-----------------------------------------------------------------------------
\* Lemmas about the operators of the model

\* A table stays a table when a row is stored.
LEMMA BindTable ==
  ASSUME NEW f, NEW S, NEW T, IsTable(f, S, T), NEW x \in S, NEW v \in T
  PROVE  IsTable(Bind(f, x, v), S, T) /\ DOMAIN Bind(f, x, v) = DOMAIN f \cup {x}
  BY DEF IsTable, Bind

\* The row that is locked next is one of the rows that are still to be locked.
LEMMA NextRowWanted ==
  ASSUME TypeOK, SessionOK, NEW r \in Request, want[r] # {}
  PROVE  NextRow(r) \in want[r]
<1>1. Cmd(r) \in Command /\ want[r] \subseteq Account /\ want[r] \subseteq {Cmd(r).source, Cmd(r).destination}
  BY DEF TypeOK, SessionOK, Ends, Cmd
<1>2. \A a \in want[r] : a \in Nat /\ (a = Cmd(r).source \/ a = Cmd(r).destination)
  BY <1>1, AccountAssumption
<1>3. \E a \in want[r] : \A b \in want[r] : a <= b
  BY <1>2
<1> QED
  BY <1>3 DEF NextRow, Min

-----------------------------------------------------------------------------

\* At the start no request holds a lock, a row or a snapshot.
LEMMA InitLockInv == Init => LockInv
  <1> SUFFICES ASSUME Init PROVE LockInv
    OBVIOUS
  <1>1. TypeOK
    BY RequestAssumption, InitialAssumption, BoundAssumption
     DEF Init, TypeOK, IsTable, EmptyTable, Process, NoAnswer, Status, StoredRow, AccountRow
  <1>2. SessionOK
    BY RequestAssumption DEF Init, SessionOK, EmptyTable, Process
  <1>3. LocksExclusive /\ SnapshotsCurrent
    BY DEF Init, LocksExclusive, SnapshotsCurrent, EmptyTable, HoldsKey, Process
  <1> QED
    BY <1>1, <1>2, <1>3 DEF LockInv

\* What the verdict of create_transfer leaves of a request about to commit: it holds both
\* rows, in one currency, the source can pay, and the balances move by the amount.
LEMMA SettledRows ==
  ASSUME TypeOK, SessionOK, NEW r \in Request, pc[r] = "commit"
  PROVE  LET c == Cmd(r)
         IN  /\ DOMAIN snap[r] = {c.source, c.destination}
             /\ c.source # c.destination
             /\ c.amount \in Nat \ {0}
             /\ c.amount <= snap[r][c.source].balance
             /\ snap[r][c.source].currency = c.currency
             /\ snap[r][c.destination].currency = c.currency
             /\ Settled(r) = [a \in {c.source, c.destination} |->
                   [currency |-> c.currency,
                    balance |-> IF a = c.source THEN snap[r][a].balance - c.amount
                                ELSE snap[r][a].balance + c.amount]]
<1> DEFINE c == Cmd(r)
<1>1. c \in Command /\ DOMAIN snap[r] \subseteq {c.source, c.destination} /\ IsTable(snap[r], Account, StoredRow)
  BY DEF TypeOK, SessionOK, Cmd, Ends
<1>2. Verdict(r) = "none"
  BY DEF SessionOK
<1>3. /\ {c.source, c.destination} \subseteq DOMAIN snap[r]
      /\ c.amount # 0
      /\ \A a \in {c.source, c.destination} : snap[r][a].currency = c.currency
      /\ ~(snap[r][c.source].balance < c.amount)
      /\ c.source # c.destination
  BY <1>2 DEF Verdict, Ends
<1>4. c.amount \in Nat /\ snap[r][c.source] \in StoredRow /\ snap[r][c.destination] \in StoredRow
  BY <1>1, <1>3 DEF IsTable, Command
<1>5. Settled(r) = [a \in {c.source, c.destination} |->
                   [currency |-> c.currency,
                    balance |-> IF a = c.source THEN snap[r][a].balance - c.amount
                                ELSE snap[r][a].balance + c.amount]]
  BY <1>1, <1>3, <1>4 DEF Settled, IsTable, StoredRow
<1> QED
  BY <1>1, <1>3, <1>4, <1>5 DEF StoredRow

-----------------------------------------------------------------------------
\* Every step keeps the locks and the snapshots in order

\* No step of any handler, client or fault breaks the types, the exclusion of the locks or
\* the agreement of a snapshot with the committed row.
LEMMA NextLockInv == LockInv /\ [Next]_vars => LockInv'
<1> SUFFICES ASSUME LockInv, [Next]_vars PROVE LockInv'
  OBVIOUS
<1> USE RequestAssumption
<1>1. ASSUME NEW r \in Request, RefuseKey(r) \/ LookupFinds(r) \/ Refuse(r) \/ CommitFails(r)
      PROVE  LockInv'
  <2>1. UNCHANGED <<tables, inputs, clock, faults>>
    BY <1>1 DEF RefuseKey, LookupFinds, Refuse, CommitFails
  <2>2. PICK a \in [status : Status, transfer : 0 .. Len(transfers)] : EndsWith(r, a)
    <3>1. \A st \in Status : Refusal(st) \in [status : Status, transfer : 0 .. Len(transfers)]
      BY DEF Refusal, LockInv, TypeOK
    <3>2. CASE LookupFinds(r)
      <4>1. KeyOf(r) \in DOMAIN idempotency
        BY <3>2 DEF LookupFinds
      <4>2. idempotency[KeyOf(r)].transfer \in 1 .. Len(transfers)
        BY <4>1 DEF LockInv, TypeOK, IsTable
      <4> QED
        <5>1. \/ EndsWith(r, [status |-> "replayed", transfer |-> idempotency[KeyOf(r)].transfer])
              \/ EndsWith(r, Refusal("conflict"))
          BY <3>2 DEF LookupFinds
        <5>2. /\ [status |-> "replayed", transfer |-> idempotency[KeyOf(r)].transfer]
                   \in [status : Status, transfer : 0 .. Len(transfers)]
              /\ Refusal("conflict") \in [status : Status, transfer : 0 .. Len(transfers)]
          BY <3>1, <4>2 DEF Status, LockInv, TypeOK
        <5> QED
          BY <5>1, <5>2
    <3> QED
      BY <1>1, <3>1, <3>2 DEF RefuseKey, Refuse, CommitFails, Verdict, Status
  <2>3. TypeOK'
    BY <2>1, <2>2 DEF LockInv, TypeOK, EndsWith, Answers, tables, inputs, IsTable, EmptyTable, Process
  <2>4. SessionOK'
    BY <2>1, <2>2 DEF LockInv, TypeOK, SessionOK, EndsWith, Answers, tables, inputs, EmptyTable, Process, Cmd, Verdict
  <2>5. LocksExclusive'
    BY <2>1, <2>2 DEF LockInv, TypeOK, LocksExclusive, EndsWith, Answers, inputs, EmptyTable, Process, KeyOf, HoldsKey
  <2>6. SnapshotsCurrent'
    BY <2>1, <2>2 DEF LockInv, TypeOK, SnapshotsCurrent, EndsWith, Answers, tables, EmptyTable
  <2> QED
    BY <2>3, <2>4, <2>5, <2>6 DEF LockInv
<1>2. ASSUME NEW r \in Request, Send(r) \/ LockKey(r) \/ LookupMisses(r) PROVE LockInv'
  <2>1. UNCHANGED <<tables, inputs, session, answer, clock, faults>>
    BY <1>2 DEF Send, LockKey, LookupMisses
  <2>2. TypeOK'
    BY <1>2, <2>1 DEF LockInv, TypeOK, Send, LockKey, LookupMisses, tables, inputs, session, Process
  <2>3. SessionOK'
    <3>1. \A q \in Request : Verdict(q)' = Verdict(q) /\ Cmd(q)' = Cmd(q)
      BY <2>1 DEF Verdict, Cmd, inputs, session
    <3>2. PICK v \in {"key", "lookup", "select"} : pc' = [pc EXCEPT ![r] = v]
      BY <1>2 DEF Send, LockKey, LookupMisses
    <3>3. pc[r] \notin {"rows", "commit"}
      BY <1>2 DEF Send, LockKey, LookupMisses
    <3> QED
      BY <2>1, <3>1, <3>2, <3>3 DEF LockInv, TypeOK, SessionOK, tables, session, Process
  <2>4. LocksExclusive'
    <3>1. \A q \in Request : KeyOf(q)' = KeyOf(q)
      BY <2>1 DEF KeyOf, inputs
    <3>2. \A q \in Request : HoldsKey(q)' =>
             HoldsKey(q) \/ (q = r /\ \A u \in Request : ~KeyBusy(r, u))
      BY <1>2 DEF LockInv, TypeOK, Process, Send, LockKey, LookupMisses, HoldsKey
    <3>3. snap' = snap
      BY <2>1 DEF session
    <3> QED
      BY <3>1, <3>2, <3>3 DEF LockInv, LocksExclusive, KeyBusy
  <2>5. SnapshotsCurrent'
    BY <2>1 DEF LockInv, SnapshotsCurrent, tables, session
  <2> QED
    BY <2>2, <2>3, <2>4, <2>5 DEF LockInv
<1>3. ASSUME NEW r \in Request, SelectRows(r) PROVE LockInv'
  <2>1. TypeOK'
    BY <1>3 DEF LockInv, TypeOK, SelectRows, tables, inputs, Process, IsTable
  <2>2. SessionOK'
    BY <1>3 DEF LockInv, TypeOK, SessionOK, SelectRows, tables, inputs, Process, Cmd, Verdict
  <2>3. LocksExclusive'
    BY <1>3 DEF LockInv, TypeOK, LocksExclusive, SelectRows, inputs, Process, KeyOf, HoldsKey
  <2>4. SnapshotsCurrent'
    BY <1>3 DEF LockInv, SnapshotsCurrent, SelectRows, tables
  <2> QED
    BY <2>1, <2>2, <2>3, <2>4 DEF LockInv
<1>4. ASSUME NEW r \in Request, LockRow(r) PROVE LockInv'
  <2> DEFINE a == NextRow(r)
  <2>1. a \in want[r]
    BY <1>4, NextRowWanted DEF LockRow, LockInv
  <2>2. a \in DOMAIN accounts /\ a \in Account /\ accounts[a] \in StoredRow /\ a \in Ends(Cmd(r))
    BY <2>1 DEF LockInv, TypeOK, SessionOK, IsTable
  <2>3. /\ \A q \in Request : ~RowBusy(r, q, a)
        /\ snap' = [snap EXCEPT ![r] = Bind(snap[r], a, accounts[a])]
        /\ want' = [want EXCEPT ![r] = want[r] \ {a}]
        /\ UNCHANGED <<tables, pc, inputs, stamp, answer, clock, faults>>
    BY <1>4 DEF LockRow
  <2> HIDE DEF a
  <2>4. IsTable(Bind(snap[r], a, accounts[a]), Account, StoredRow)
    BY <2>2, BindTable DEF LockInv, TypeOK
  <2>5. DOMAIN Bind(snap[r], a, accounts[a]) = DOMAIN snap[r] \cup {a}
    BY DEF Bind
  <2>6. TypeOK'
    BY <2>3, <2>4 DEF LockInv, TypeOK, tables, inputs
  <2>7. SessionOK'
    <3>1. \A q \in Request : Cmd(q)' = Cmd(q) /\ (q # r => Verdict(q)' = Verdict(q))
      BY <2>3 DEF LockInv, TypeOK, inputs, Cmd, Verdict
    <3>2. pc[r] = "rows" /\ pc' = pc /\ accounts' = accounts
      BY <1>4, <2>3 DEF LockRow, tables
    <3> QED
      BY <2>2, <2>3, <2>5, <3>1, <3>2 DEF LockInv, TypeOK, SessionOK
  <2>8. LocksExclusive'
    BY <2>3, <2>5 DEF LockInv, TypeOK, LocksExclusive, inputs, KeyOf, HoldsKey, RowBusy
  <2>9. SnapshotsCurrent'
    BY <2>2, <2>3 DEF LockInv, TypeOK, SnapshotsCurrent, tables, Bind
  <2> QED
    BY <2>6, <2>7, <2>8, <2>9 DEF LockInv
<1>5. ASSUME NEW r \in Request, Accept(r) PROVE LockInv'
  <2>1. TypeOK'
    BY <1>5 DEF LockInv, TypeOK, Accept, tables, inputs, Process
  <2>2. SessionOK'
    <3>1. \A q \in Request : Verdict(q)' = Verdict(q) /\ Cmd(q)' = Cmd(q)
      BY <1>5 DEF Accept, Verdict, Cmd, inputs
    <3> QED
      BY <1>5, <3>1 DEF LockInv, TypeOK, SessionOK, Accept, tables, Process
  <2>3. LocksExclusive'
    BY <1>5 DEF LockInv, TypeOK, LocksExclusive, Accept, inputs, Process, KeyOf, HoldsKey
  <2>4. SnapshotsCurrent'
    BY <1>5 DEF LockInv, SnapshotsCurrent, Accept, tables
  <2> QED
    BY <2>1, <2>2, <2>3, <2>4 DEF LockInv
<1>6. ASSUME NEW r \in Request, CommitOk(r) PROVE LockInv'
  <2> DEFINE c == Cmd(r)
             t == Len(transfers) + 1
  <2>1. /\ pc[r] = "commit"
        /\ accounts' = [a \in DOMAIN accounts |->
                          IF a \in DOMAIN snap[r] THEN Settled(r)[a] ELSE accounts[a]]
        /\ transfers' = Append(transfers,
             [source |-> c.source, destination |-> c.destination,
              amount |-> c.amount, currency |-> c.currency, created_at |-> stamp[r]])
        /\ entries' = entries \cup
             {[transfer |-> t, account |-> c.source, amount |-> -c.amount],
              [transfer |-> t, account |-> c.destination, amount |-> c.amount]}
        /\ idempotency' = Bind(idempotency, KeyOf(r), [fingerprint |-> Fingerprint(c), transfer |-> t])
        /\ outbox' = outbox \cup {t}
        /\ UNCHANGED <<inputs, clock>>
    BY <1>6 DEF CommitOk
  <2>10. PICK reply \in {[status |-> "created", transfer |-> t], Refusal("unavailable")} : EndsWith(r, reply)
    BY <1>6 DEF CommitOk
  <2>2. c \in Command /\ KeyOf(r) \in Key /\ stamp[r] \in Nat /\ Len(transfers) \in Nat
    BY DEF LockInv, TypeOK, Cmd, KeyOf
  <2>3. /\ DOMAIN snap[r] = {c.source, c.destination}
        /\ \A a \in DOMAIN snap[r] : Settled(r)[a] \in StoredRow
    <3>1. IsTable(snap[r], Account, StoredRow)
      BY DEF LockInv, TypeOK
    <3>2. /\ DOMAIN snap[r] = {c.source, c.destination}
          /\ Settled(r) = [a \in {c.source, c.destination} |->
                [currency |-> c.currency,
                 balance |-> IF a = c.source THEN snap[r][a].balance - c.amount
                             ELSE snap[r][a].balance + c.amount]]
      BY <2>1, SettledRows DEF LockInv
    <3>3. \A a \in DOMAIN snap[r] : snap[r][a].balance \in Int
      BY <3>1 DEF IsTable, StoredRow
    <3> QED
      BY <2>2, <3>2, <3>3 DEF StoredRow, Command
  <2>4. IsTable(accounts', Account, StoredRow) /\ DOMAIN accounts' = DOMAIN accounts
    BY <2>1, <2>3 DEF LockInv, TypeOK, IsTable
  <2>5. Len(transfers') = t
    BY <2>1, <2>2 DEF LockInv, TypeOK
  <2>6. TypeOK'
    <3>1. /\ transfers' \in Seq([source : Account, destination : Account, amount : Nat,
                                 currency : Currency, created_at : Nat])
          /\ entries' \subseteq [transfer : 1 .. Len(transfers'), account : Account, amount : Int]
          /\ outbox' \subseteq 1 .. Len(transfers')
      BY <2>1, <2>2, <2>5 DEF LockInv, TypeOK, Command
    <3>2. IsTable(idempotency', Key, [fingerprint : Command, transfer : 1 .. Len(transfers')])
      <4>1. IsTable(idempotency, Key, [fingerprint : Command, transfer : 1 .. t])
        BY <2>2 DEF LockInv, TypeOK, IsTable
      <4>2. [fingerprint |-> Fingerprint(c), transfer |-> t] \in [fingerprint : Command, transfer : 1 .. t]
        BY <2>2 DEF Fingerprint
      <4> QED
        BY <2>1, <2>2, <2>5, <4>1, <4>2, BindTable
    <3>3. answer' \in [Process -> [status : Status, transfer : 0 .. Len(transfers')]]
      <4>1. reply \in [status : Status, transfer : 0 .. Len(transfers')]
        BY <2>2, <2>5 DEF Refusal, Status
      <4>2. answer \in [Process -> [status : Status, transfer : 0 .. Len(transfers')]]
        BY <2>2, <2>5 DEF LockInv, TypeOK
      <4> QED
        BY <2>10, <4>1, <4>2 DEF EndsWith, Answers
    <3>4. faults' \in 0 .. MaxFaults
      BY <1>6, BoundAssumption DEF LockInv, TypeOK, CommitOk, Fault
    <3> QED
      BY <2>1, <2>10, <2>2, <2>4, <3>4, <3>1, <3>2, <3>3 DEF LockInv, TypeOK, EndsWith, Answers, inputs, IsTable, EmptyTable, Process
  <2>7. SessionOK'
    <3>1. \A q \in Request : q # r => Verdict(q)' = Verdict(q) /\ Cmd(q)' = Cmd(q)
      BY <2>1, <2>10 DEF Verdict, Cmd, inputs, EndsWith, Answers, LockInv, TypeOK
    <3> QED
      BY <2>1, <2>10, <2>4, <3>1 DEF LockInv, TypeOK, SessionOK, EndsWith, Answers, EmptyTable, Process
  <2>8. LocksExclusive'
    BY <2>1, <2>10 DEF LockInv, TypeOK, LocksExclusive, EndsWith, Answers, inputs, EmptyTable, Process, KeyOf, HoldsKey
  <2>9. SnapshotsCurrent'
    BY <2>1, <2>10, <2>4 DEF LockInv, TypeOK, SnapshotsCurrent, LocksExclusive, EndsWith, Answers, EmptyTable
  <2> QED
    BY <2>6, <2>7, <2>8, <2>9 DEF LockInv
<1>7. ASSUME NEW o \in Opener, Open(o) PROVE LockInv'
  <2>1. UNCHANGED <<transfers, entries, idempotency, outbox, inputs, session, clock>> /\ faults' \in 0 .. MaxFaults
    BY <1>7, BoundAssumption DEF LockInv, TypeOK, Open, RefuseAccount, CheckAccount, InsertAccount, Fault, tables
  <2>2. /\ \A a \in DOMAIN accounts : a \in DOMAIN accounts' /\ accounts'[a] = accounts[a]
        /\ IsTable(accounts', Account, StoredRow)
    <3>1. opening[o].account \in Account /\ opening[o].row \in StoredRow
      BY DEF LockInv, TypeOK
    <3>2. IsTable(accounts, Account, StoredRow)
      BY DEF LockInv, TypeOK
    <3>3. CASE accounts' = accounts
      BY <3>2, <3>3
    <3>4. CASE /\ opening[o].account \notin DOMAIN accounts
               /\ accounts' = Bind(accounts, opening[o].account, opening[o].row)
      <4>1. IsTable(accounts', Account, StoredRow)
        BY <3>1, <3>2, <3>4, BindTable
      <4> QED
        BY <3>4, <4>1 DEF Bind
    <3> QED
      BY <1>7, <3>3, <3>4 DEF Open, RefuseAccount, CheckAccount, InsertAccount, InsertRefused, tables
  <2>3. PICK v \in {"insert", "answered"} : pc' = [pc EXCEPT ![o] = v]
    BY <1>7 DEF Open, RefuseAccount, CheckAccount, InsertAccount, Answers, Fault
  <2>4. answer' \in [Process -> [status : Status, transfer : 0 .. Len(transfers)]]
    <3>1. \A st \in Status : Refusal(st) \in [status : Status, transfer : 0 .. Len(transfers)]
      BY DEF Refusal, LockInv, TypeOK
    <3>2. answer' = answer \/ \E st \in Status : answer' = [answer EXCEPT ![o] = Refusal(st)]
      BY <1>7 DEF Open, RefuseAccount, CheckAccount, InsertAccount, Answers, Fault, Status
    <3> DEFINE A == [status : Status, transfer : 0 .. Len(transfers)]
    <3>3. answer \in [Process -> A] /\ o \in Process
      BY DEF LockInv, TypeOK, Process
    <3> HIDE DEF A
    <3>4. answer' \in [Process -> A]
      BY <3>1, <3>2, <3>3 DEF A
    <3> QED
      BY <3>4 DEF A
  <2>5. TypeOK'
    BY <2>1, <2>2, <2>3, <2>4 DEF LockInv, TypeOK, inputs, session, Process
  <2>6. SessionOK'
    <3>1. \A q \in Request : Verdict(q)' = Verdict(q) /\ Cmd(q)' = Cmd(q)
      BY <2>1 DEF Verdict, Cmd, inputs, session
    <3> QED
      BY <2>1, <2>2, <2>3, <3>1 DEF LockInv, TypeOK, SessionOK, session, Process
  <2>7. LocksExclusive'
    BY <2>1, <2>3 DEF LockInv, TypeOK, LocksExclusive, inputs, session, Process, KeyOf, HoldsKey
  <2>8. SnapshotsCurrent'
    BY <2>1, <2>2 DEF LockInv, SnapshotsCurrent, session
  <2> QED
    BY <2>5, <2>6, <2>7, <2>8 DEF LockInv
<1>8. ASSUME NEW p \in Process, LoseAnswer(p) PROVE LockInv'
  <2>1. TypeOK'
    BY <1>8, BoundAssumption DEF LockInv, TypeOK, LoseAnswer, Fault, tables, inputs, session, NoAnswer, Status
  <2>2. SessionOK'
    <3>1. \A q \in Request : Verdict(q)' = Verdict(q) /\ Cmd(q)' = Cmd(q)
      BY <1>8 DEF LoseAnswer, Verdict, Cmd, inputs, session
    <3> QED
      BY <1>8, <3>1 DEF LockInv, TypeOK, SessionOK, LoseAnswer, tables, session, Process
  <2>3. LocksExclusive'
    BY <1>8 DEF LockInv, TypeOK, LocksExclusive, LoseAnswer, inputs, session, Process, KeyOf, HoldsKey
  <2>4. SnapshotsCurrent'
    BY <1>8 DEF LockInv, SnapshotsCurrent, LoseAnswer, tables, session
  <2> QED
    BY <2>1, <2>2, <2>3, <2>4 DEF LockInv
<1>9. ASSUME NEW p \in Process, Abort(p) PROVE LockInv'
  <2> DEFINE A == [status : Status, transfer : 0 .. Len(transfers)]
  <2>1. PICK place \in {"idle", "answered"}, reply \in {answer[p], Refusal("unavailable")} :
           /\ pc' = [pc EXCEPT ![p] = place]
           /\ answer' = [answer EXCEPT ![p] = reply]
    BY <1>9 DEF LockInv, TypeOK, Abort, Answers
  <2>2. TypeOK'
    <3>1. /\ snap' = [q \in Request |-> snap'[q]]
          /\ \A q \in Request : IsTable(snap'[q], Account, StoredRow)
      BY <1>9 DEF LockInv, TypeOK, Abort, IsTable, EmptyTable
    <3>2. want' \in [Request -> SUBSET Account] /\ stamp' \in [Request -> Nat]
      BY <1>9 DEF LockInv, TypeOK, Abort
    <3>3. faults' \in 0 .. MaxFaults
      BY <1>9, BoundAssumption DEF LockInv, TypeOK, Abort, Fault
    <3>4. answer \in [Process -> A] /\ Refusal("unavailable") \in A
      BY DEF LockInv, TypeOK, Refusal, Status
    <3>5. answer' \in [Process -> A]
      <4> HIDE DEF A
      <4> QED
        BY <2>1, <3>4
    <3> QED
      BY <1>9, <2>1, <3>1, <3>2, <3>3, <3>5 DEF LockInv, TypeOK, Abort, tables, inputs
  <2>3. SessionOK'
    <3>1. \A q \in Request : q # p => Verdict(q)' = Verdict(q) /\ Cmd(q)' = Cmd(q)
      BY <1>9 DEF Abort, Verdict, Cmd, inputs
    <3> QED
      BY <1>9, <2>1, <3>1 DEF LockInv, TypeOK, SessionOK, Abort, tables, Process, EmptyTable, Cmd, inputs
  <2>4. LocksExclusive'
    BY <1>9, <2>1 DEF LockInv, TypeOK, LocksExclusive, Abort, inputs, Process, KeyOf, HoldsKey, EmptyTable
  <2>5. SnapshotsCurrent'
    BY <1>9 DEF LockInv, SnapshotsCurrent, Abort, tables, EmptyTable
  <2> QED
    BY <2>2, <2>3, <2>4, <2>5 DEF LockInv
<1>10. ASSUME NEW p \in Process, PoolTimesOut(p) PROVE LockInv'
  <2> DEFINE A == [status : Status, transfer : 0 .. Len(transfers)]
  <2>1. TypeOK'
    <3>1. answer \in [Process -> A] /\ Refusal("unavailable") \in A
      BY DEF LockInv, TypeOK, Refusal, Status
    <3>2. answer' \in [Process -> A]
      <4> HIDE DEF A
      <4> QED
        BY <1>10, <3>1 DEF PoolTimesOut, Answers
    <3> QED
      BY <1>10, <3>2 DEF LockInv, TypeOK, PoolTimesOut, Answers, tables, inputs, session
  <2>2. SessionOK'
    <3>1. \A q \in Request : Verdict(q)' = Verdict(q) /\ Cmd(q)' = Cmd(q)
      BY <1>10 DEF PoolTimesOut, Verdict, Cmd, inputs, session
    <3> QED
      BY <1>10, <3>1 DEF LockInv, TypeOK, SessionOK, PoolTimesOut, Answers, tables, session, Process
  <2>3. LocksExclusive'
    BY <1>10 DEF LockInv, TypeOK, LocksExclusive, PoolTimesOut, Answers, inputs, session, Process, KeyOf, HoldsKey
  <2>4. SnapshotsCurrent'
    BY <1>10 DEF LockInv, SnapshotsCurrent, PoolTimesOut, tables, session
  <2> QED
    BY <2>1, <2>2, <2>3, <2>4 DEF LockInv
<1>11. CASE UNCHANGED vars
  <2> USE <1>11 DEF vars, tables, session, inputs
  <2>1. TypeOK'
    BY DEF LockInv, TypeOK
  <2>2. SessionOK'
    BY DEF LockInv, SessionOK, Cmd, Verdict
  <2> QED
    BY <2>1, <2>2 DEF LockInv, LocksExclusive, SnapshotsCurrent, HoldsKey, KeyOf
<1> QED
  BY <1>1, <1>2, <1>3, <1>4, <1>5, <1>6, <1>7, <1>8, <1>9, <1>10, <1>11 DEF Next, Transact, Terminating

\* What holds of the locks holds in every reachable state: in particular the model
\* is type-correct and no request ever writes from a snapshot that went stale.
THEOREM LocksCorrect == Spec => []LockInv
<1>1. Init => LockInv
  BY InitLockInv
<1>2. LockInv /\ [Next]_vars => LockInv'
  BY NextLockInv
<1> QED
  BY <1>1, <1>2, PTL DEF Spec

\* The snapshots that concurrent requests decide and write from are never stale: for any
\* number of requests and accounts, FOR UPDATE makes read-check-write safe.
THEOREM SnapshotsStayCurrent == Spec => []SnapshotsCurrent
<1>1. LockInv => SnapshotsCurrent
  BY DEF LockInv
<1> QED
  BY <1>1, LocksCorrect, PTL

-----------------------------------------------------------------------------
\* What a commit does to the books

\* A commit appends one transfer, binds one free key to it, announces it with one event and
\* moves the two balances from rows that are current.
LEMMA CommitEffect ==
  ASSUME LockInv, NEW r \in Request, CommitOk(r)
  PROVE  LET c == Cmd(r)
             n == Len(transfers) + 1
         IN  /\ c \in Command
             /\ pc[r] = "commit"
             /\ {c.source, c.destination} \subseteq DOMAIN accounts
             /\ DOMAIN snap[r] = {c.source, c.destination}
             /\ c.source # c.destination
             /\ c.amount \in Nat \ {0}
             /\ c.amount <= accounts[c.source].balance
             /\ accounts[c.destination].balance + c.amount <= MaxBalance
             /\ accounts[c.source].currency = c.currency
             /\ accounts[c.destination].currency = c.currency
             /\ accounts' = [a \in DOMAIN accounts |->
                   IF a = c.source
                   THEN [currency |-> c.currency, balance |-> accounts[a].balance - c.amount]
                   ELSE IF a = c.destination
                   THEN [currency |-> c.currency, balance |-> accounts[a].balance + c.amount]
                   ELSE accounts[a]]
             /\ Len(transfers) \in Nat
             /\ Len(transfers') = n
             /\ \A i \in 1 .. Len(transfers) : transfers'[i] = transfers[i]
             /\ transfers'[n] = [source |-> c.source, destination |-> c.destination, amount |-> c.amount,
                                 currency |-> c.currency, created_at |-> stamp[r]]
             /\ KeyOf(r) \notin DOMAIN idempotency
             /\ idempotency' = Bind(idempotency, KeyOf(r), [fingerprint |-> c, transfer |-> n])
             /\ outbox' = outbox \cup {n}
             /\ \E a \in {[status |-> "created", transfer |-> n], Refusal("unavailable")} : EndsWith(r, a)
             /\ UNCHANGED <<inputs, clock>>
<1> DEFINE c == Cmd(r)
           n == Len(transfers) + 1
<1>1. c \in Command /\ Len(transfers) \in Nat
  BY DEF LockInv, TypeOK, Cmd
<1>2. pc[r] = "commit" /\ ~CommitRefused(r)
  BY DEF CommitOk
<1>3. /\ DOMAIN snap[r] = {c.source, c.destination}
      /\ c.source # c.destination
      /\ c.amount \in Nat \ {0}
      /\ c.amount <= snap[r][c.source].balance
      /\ snap[r][c.source].currency = c.currency
      /\ snap[r][c.destination].currency = c.currency
      /\ Settled(r) = [a \in {c.source, c.destination} |->
            [currency |-> c.currency,
             balance |-> IF a = c.source THEN snap[r][a].balance - c.amount
                         ELSE snap[r][a].balance + c.amount]]
  BY <1>2, SettledRows DEF LockInv
<1>4. \A a \in {c.source, c.destination} :
         a \in DOMAIN accounts /\ snap[r][a] = accounts[a] /\ accounts[a].balance \in Int
  BY <1>3 DEF LockInv, TypeOK, SnapshotsCurrent, IsTable, StoredRow
<1>5. KeyOf(r) \notin DOMAIN idempotency /\ accounts[c.destination].balance + c.amount <= MaxBalance
  <2>1. Settled(r)[c.destination].balance = accounts[c.destination].balance + c.amount
    BY <1>3, <1>4
  <2>2. ~(Settled(r)[c.destination].balance > MaxBalance)
    BY <1>2 DEF CommitRefused
  <2> QED
    BY <1>1, <1>2, <1>3, <1>4, <2>1, <2>2, BalanceAssumption DEF CommitRefused
<1>6. accounts' = [a \in DOMAIN accounts |->
                   IF a = c.source
                   THEN [currency |-> c.currency, balance |-> accounts[a].balance - c.amount]
                   ELSE IF a = c.destination
                   THEN [currency |-> c.currency, balance |-> accounts[a].balance + c.amount]
                   ELSE accounts[a]]
  <2>1. accounts' = [a \in DOMAIN accounts |->
                        IF a \in DOMAIN snap[r] THEN Settled(r)[a] ELSE accounts[a]]
    BY DEF CommitOk
  <2> QED
    BY <2>1, <1>3, <1>4
<1>7. /\ Len(transfers') = n
      /\ \A i \in 1 .. Len(transfers) : transfers'[i] = transfers[i]
      /\ transfers'[n] = [source |-> c.source, destination |-> c.destination, amount |-> c.amount,
                          currency |-> c.currency, created_at |-> stamp[r]]
  <2>1. transfers' = Append(transfers,
           [source |-> c.source, destination |-> c.destination, amount |-> c.amount,
            currency |-> c.currency, created_at |-> stamp[r]])
    BY DEF CommitOk
  <2>2. transfers \in Seq([source : Account, destination : Account, amount : Nat,
                           currency : Currency, created_at : Nat])
    BY DEF LockInv, TypeOK
  <2> QED
    BY <2>1, <2>2
<1>8. /\ idempotency' = Bind(idempotency, KeyOf(r), [fingerprint |-> c, transfer |-> n])
      /\ outbox' = outbox \cup {n}
      /\ \E a \in {[status |-> "created", transfer |-> n], Refusal("unavailable")} : EndsWith(r, a)
      /\ UNCHANGED <<inputs, clock>>
  BY DEF CommitOk, Fingerprint
<1> QED
  BY <1>1, <1>2, <1>3, <1>4, <1>5, <1>6, <1>7, <1>8

\* Nothing but a commit of a transfer writes these tables.
LEMMA OnlyCommitPosts ==
  ASSUME [Next]_vars, \A r \in Request : ~CommitOk(r)
  PROVE  UNCHANGED <<transfers, entries, idempotency, outbox, inputs>>
  BY DEF Next, Transact, RefuseKey, Send, LockKey, LookupFinds, LookupMisses, SelectRows, LockRow,
         Refuse, Accept, CommitFails, Open, RefuseAccount, CheckAccount, InsertAccount,
         LoseAnswer, Abort, PoolTimesOut, Terminating, vars, tables

\* Nothing but a commit writes the account rows: an account keeps its row when another
\* opens.
LEMMA OnlyCommitMoves ==
  ASSUME LockInv, OpenersOK, [Next]_vars, \A r \in Request : ~CommitOk(r)
  PROVE  \/ UNCHANGED accounts
         \/ \E o \in Opener :
               /\ opening[o].account \in Account \ DOMAIN accounts
               /\ opening[o].row \in AccountRow
               /\ accounts' = Bind(accounts, opening[o].account, opening[o].row)
<1>1. CASE \E o \in Opener : InsertAccount(o) /\ ~InsertRefused(o)
  <2>1. PICK o \in Opener : InsertAccount(o) /\ ~InsertRefused(o)
    BY <1>1
  <2>2. opening[o].account \in Account /\ opening[o].row \in StoredRow /\ opening[o].row.balance >= 0
    BY <2>1 DEF LockInv, TypeOK, OpenersOK, InsertAccount
  <2>3. opening[o].row \in AccountRow
    BY <2>1, <2>2, BalanceAssumption DEF InsertRefused, StoredRow, AccountRow
  <2> QED
    BY <2>1, <2>2, <2>3 DEF InsertAccount, InsertRefused
<1>2. CASE \A o \in Opener : InsertAccount(o) => InsertRefused(o)
  BY <1>2 DEF Next, Transact, RefuseKey, Send, LockKey, LookupFinds, LookupMisses, SelectRows, LockRow,
         Refuse, Accept, CommitFails, Open, RefuseAccount, CheckAccount, InsertAccount,
         LoseAnswer, Abort, PoolTimesOut, Terminating, vars, tables
<1> QED
  BY <1>1, <1>2

-----------------------------------------------------------------------------
\* Every step keeps the books in order

\* The books are in order before the first transfer.
LEMMA InitBooksInv == Init => BooksInv
<1> SUFFICES ASSUME Init PROVE BooksInv
  OBVIOUS
<1>1. BalancesInColumn
  BY InitialAssumption DEF Init, BalancesInColumn, IsTable, AccountRow
<1>2. \A r \in Request : answer[r] = NoAnswer /\ pc[r] = "idle"
  BY DEF Init, Process
<1>3. Len(transfers) = 0 /\ DOMAIN idempotency = {} /\ clock = 0
  BY DEF Init, EmptyTable
<1>4. OpenersOK
  BY DEF Init, OpenersOK, Process
<1>5. LookupStaysMissed /\ KeysOK
  BY <1>2, <1>3 DEF LookupStaysMissed, KeysOK
<1>6. ExactlyOncePerKey /\ StatementOrder
  BY <1>3 DEF ExactlyOncePerKey, StatementOrder
<1>7. StampsOK
  BY <1>2, <1>3 DEF StampsOK
<1>8. AnswersOK /\ AnswersAgree
  BY <1>2 DEF AnswersOK, AnswersAgree, NoAnswer
<1> QED
  BY <1>1, <1>4, <1>5, <1>6, <1>7, <1>8 DEF BooksInv

\* Where a handler can be after a step that moves it.
LEMMA NextPlace ==
  ASSUME LockInv, [Next]_vars, NEW p \in Process, pc'[p] # pc[p]
  PROVE  \/ pc'[p] \in {"idle", "answered"}
         \/ p \in Request /\ Send(p) /\ pc'[p] = "key"
         \/ p \in Request /\ LockKey(p) /\ pc'[p] = "lookup"
         \/ p \in Request /\ LookupMisses(p) /\ pc'[p] = "select"
         \/ p \in Request /\ SelectRows(p) /\ pc'[p] = "rows"
         \/ p \in Request /\ Accept(p) /\ pc'[p] = "commit"
         \/ p \in Opener /\ CheckAccount(p) /\ pc'[p] = "insert"
<1>1. pc \in [Process -> {"idle", "key", "lookup", "select", "rows", "commit", "insert", "answered"}]
  BY DEF LockInv, TypeOK
<1>2. CASE \E r \in Request : Transact(r)
  BY <1>1, <1>2 DEF Process, Transact, RefuseKey, Send, LockKey, LookupFinds, LookupMisses, SelectRows,
         LockRow, Refuse, Accept, CommitOk, CommitFails, EndsWith, Answers
<1>3. CASE \E o \in Opener : Open(o)
  BY <1>1, <1>3 DEF Process, Open, RefuseAccount, CheckAccount, InsertAccount, Answers, Fault
<1>4. CASE \E q \in Process : LoseAnswer(q) \/ Abort(q) \/ PoolTimesOut(q)
  BY <1>1, <1>4 DEF LoseAnswer, Abort, PoolTimesOut, Answers
<1> QED
  BY <1>2, <1>3, <1>4 DEF Next, Terminating, vars

\* The wall clock never goes back: stampings are ordered as they happen.
LEMMA ClockGrows ==
  ASSUME [Next]_vars
  PROVE  clock' = clock \/ clock' = clock + 1
  BY DEF Next, Transact, RefuseKey, Send, LockKey, LookupFinds, LookupMisses, SelectRows, LockRow,
         Refuse, Accept, CommitOk, CommitFails, Open, RefuseAccount, CheckAccount, InsertAccount,
         LoseAnswer, Abort, PoolTimesOut, Terminating, vars

\* A request about to commit keeps what it holds until it moves.
LEMMA CommitWaits ==
  ASSUME LockInv, [Next]_vars, NEW r \in Request, pc[r] = "commit", pc'[r] = "commit"
  PROVE  snap'[r] = snap[r] /\ stamp'[r] = stamp[r]
<1>1. pc \in [Process -> {"idle", "key", "lookup", "select", "rows", "commit", "insert", "answered"}]
  BY DEF LockInv, TypeOK
<1>2. /\ snap = [q \in Request |-> snap[q]]
      /\ stamp \in [Request -> Nat]
      /\ r \in Process
  BY DEF LockInv, TypeOK, Process
<1>3. ASSUME NEW q \in Request, Transact(q) PROVE snap'[r] = snap[r] /\ stamp'[r] = stamp[r]
  BY <1>1, <1>2, <1>3 DEF Transact, RefuseKey, Send, LockKey, LookupFinds, LookupMisses, SelectRows,
         LockRow, Refuse, Accept, CommitOk, CommitFails, EndsWith, Answers, session
<1>4. ASSUME NEW o \in Opener, Open(o) PROVE snap'[r] = snap[r] /\ stamp'[r] = stamp[r]
  BY <1>4 DEF Open, RefuseAccount, CheckAccount, InsertAccount, session
<1>5. ASSUME NEW q \in Process, LoseAnswer(q) \/ Abort(q) \/ PoolTimesOut(q)
      PROVE  snap'[r] = snap[r] /\ stamp'[r] = stamp[r]
  BY <1>1, <1>2, <1>5 DEF LoseAnswer, Abort, PoolTimesOut, Answers, session
<1> QED
  BY <1>3, <1>4, <1>5 DEF Next, Terminating, vars, session

\* Only openers that passed the check of create_account reach the insert.
LEMMA NextOpenersOK ==
  ASSUME LockInv, LockInv', OpenersOK, [Next]_vars
  PROVE  OpenersOK'
<1> SUFFICES ASSUME NEW o \in Opener, pc'[o] = "insert" PROVE opening'[o].row.balance >= 0
  BY DEF OpenersOK
<1>1. UNCHANGED opening
  BY OnlyCommitPosts DEF inputs, CommitOk
<1>2. CASE pc[o] = "insert"
  BY <1>1, <1>2 DEF OpenersOK
<1>3. CASE pc[o] # "insert"
  <2>1. o \in Process
    BY DEF Process
  <2>2. CheckAccount(o)
    BY <1>3, <2>1, NextPlace
  <2> QED
    BY <1>1, <2>2 DEF CheckAccount
<1> QED
  BY <1>2, <1>3

\* No step overdraws an account or exceeds the column: a commit writes from current rows
\* that its verdict has checked, and the database refuses a balance that is too wide.
LEMMA NextBalances ==
  ASSUME LockInv, OpenersOK, BalancesInColumn, [Next]_vars
  PROVE  BalancesInColumn'
<1>1. CASE \E r \in Request : CommitOk(r)
  <2>1. PICK r \in Request : CommitOk(r)
    BY <1>1
  <2>2. \A a \in DOMAIN accounts : accounts[a].balance \in 0 .. MaxBalance
    BY DEF BalancesInColumn
  <2> DEFINE c == Cmd(r)
  <2>3. /\ c.source # c.destination
        /\ c.amount \in Nat \ {0}
        /\ c.amount <= accounts[c.source].balance
        /\ accounts[c.destination].balance + c.amount <= MaxBalance
        /\ accounts' = [a \in DOMAIN accounts |->
              IF a = c.source
              THEN [currency |-> c.currency, balance |-> accounts[a].balance - c.amount]
              ELSE IF a = c.destination
              THEN [currency |-> c.currency, balance |-> accounts[a].balance + c.amount]
              ELSE accounts[a]]
    BY <2>1, CommitEffect
  <2> HIDE DEF c
  <2> QED
    BY <2>2, <2>3, BalanceAssumption DEF BalancesInColumn
<1>2. CASE \A r \in Request : ~CommitOk(r)
  <2>1. CASE UNCHANGED accounts
    BY <2>1 DEF BalancesInColumn
  <2>2. CASE \E o \in Opener :
               /\ opening[o].account \in Account \ DOMAIN accounts
               /\ opening[o].row \in AccountRow
               /\ accounts' = Bind(accounts, opening[o].account, opening[o].row)
    BY <2>2 DEF BalancesInColumn, Bind, AccountRow
  <2> QED
    BY <1>2, <2>1, <2>2, OnlyCommitMoves
<1> QED
  BY <1>1, <1>2

\* No step binds a key that another request has looked up in vain, for that request
\* still holds the lock of the slot.
LEMMA NextLookupStaysMissed ==
  ASSUME LockInv, LockInv', LookupStaysMissed, [Next]_vars
  PROVE  LookupStaysMissed'
<1>1. CASE \E r \in Request : CommitOk(r)
  <2>1. PICK r \in Request : CommitOk(r)
    BY <1>1
  <2>2. /\ pc[r] = "commit"
        /\ pc' = [pc EXCEPT ![r] = "answered"]
        /\ DOMAIN idempotency' = DOMAIN idempotency \cup {KeyOf(r)}
        /\ UNCHANGED request
    BY <2>1, CommitEffect DEF EndsWith, Answers, Bind, inputs
  <2>3. ASSUME NEW q \in Request, q # r, pc[q] \in {"select", "rows", "commit"}
        PROVE  KeyOf(q) # KeyOf(r)
    BY <2>2, <2>3 DEF LockInv, LocksExclusive, HoldsKey
  <2> QED
    BY <2>2, <2>3 DEF LockInv, TypeOK, Process, LookupStaysMissed, KeyOf
<1>2. CASE \A r \in Request : ~CommitOk(r)
  <2>1. UNCHANGED <<idempotency, request>>
    BY <1>2, OnlyCommitPosts DEF inputs
  <2>2. ASSUME NEW q \in Request, pc'[q] \in {"select", "rows", "commit"}
        PROVE  \/ pc[q] \in {"select", "rows", "commit"}
               \/ KeyOf(q) \notin DOMAIN idempotency
    <3>1. q \in Process
      BY DEF Process
    <3> QED
      BY <2>2, <3>1, NextPlace DEF LookupMisses, SelectRows, Accept
  <2> QED
    BY <2>1, <2>2 DEF LookupStaysMissed, KeyOf
<1> QED
  BY <1>1, <1>2

\* A commit adds one key and one event for its transfer, and no other step adds either.
LEMMA NextExactlyOnce ==
  ASSUME LockInv, ExactlyOncePerKey, [Next]_vars
  PROVE  ExactlyOncePerKey'
<1>1. CASE \E r \in Request : CommitOk(r)
  <2>1. PICK r \in Request : CommitOk(r)
    BY <1>1
  <2> DEFINE n == Len(transfers) + 1
  <2>2. /\ Len(transfers) \in Nat
        /\ Len(transfers') = n
        /\ outbox' = outbox \cup {n}
        /\ KeyOf(r) \notin DOMAIN idempotency
        /\ idempotency' = Bind(idempotency, KeyOf(r), [fingerprint |-> Cmd(r), transfer |-> n])
    BY <2>1, CommitEffect
  <2>3. \A k \in DOMAIN idempotency : idempotency[k].transfer \in 1 .. Len(transfers)
    BY DEF LockInv, TypeOK, IsTable
  <2>4. /\ DOMAIN idempotency' = DOMAIN idempotency \cup {KeyOf(r)}
        /\ idempotency'[KeyOf(r)].transfer = n
        /\ \A k \in DOMAIN idempotency : idempotency'[k] = idempotency[k]
    BY <2>2 DEF Bind
  <2>5. ASSUME NEW t \in 1 .. Len(transfers) PROVE
           /\ t \in outbox'
           /\ \E k \in DOMAIN idempotency' :
                 \A l \in DOMAIN idempotency' : idempotency'[l].transfer = t <=> l = k
    <3>1. /\ t \in outbox
          /\ \E k \in DOMAIN idempotency :
                \A l \in DOMAIN idempotency : idempotency[l].transfer = t <=> l = k
      BY DEF ExactlyOncePerKey
    <3> QED
      BY <3>1, <2>2, <2>4
  <2>6. \A l \in DOMAIN idempotency' : idempotency'[l].transfer = n <=> l = KeyOf(r)
    BY <2>2, <2>3, <2>4
  <2> QED
    BY <2>2, <2>4, <2>5, <2>6 DEF ExactlyOncePerKey
<1>2. CASE \A r \in Request : ~CommitOk(r)
  BY <1>2, OnlyCommitPosts DEF ExactlyOncePerKey
<1> QED
  BY <1>1, <1>2

\* A key stays bound to the command that it was bound by.
LEMMA NextKeysOK ==
  ASSUME LockInv, KeysOK, [Next]_vars
  PROVE  KeysOK'
<1>1. UNCHANGED request
  BY OnlyCommitPosts DEF inputs, CommitOk
<1>2. ASSUME NEW r \in Request, pc'[r] \notin {"idle", "answered"}
      PROVE  KeyOf(r)' \in UsableKey
  <2>1. r \in Process
    BY DEF Process
  <2>2. KeyOf(r)' = KeyOf(r)
    BY <1>1 DEF KeyOf
  <2>3. \/ pc[r] \notin {"idle", "answered"}
        \/ KeyOf(r) \in UsableKey
    BY <1>2, <2>1, RequestAssumption, NextPlace
       DEF Send, LockKey, LookupMisses, SelectRows, Accept
  <2> QED
    BY <2>2, <2>3 DEF KeysOK
<1>3. ASSUME NEW k \in DOMAIN idempotency'
      PROVE  /\ k \in UsableKey
             /\ PostingOf(transfers'[idempotency'[k].transfer]) = PostingOf(idempotency'[k].fingerprint)
  <2>1. CASE \E r \in Request : CommitOk(r)
    <3>1. PICK r \in Request : CommitOk(r)
      BY <2>1
    <3> DEFINE n == Len(transfers) + 1
    <3>2. /\ pc[r] = "commit"
          /\ DOMAIN idempotency' = DOMAIN idempotency \cup {KeyOf(r)}
          /\ \A l \in DOMAIN idempotency : l # KeyOf(r) => idempotency'[l] = idempotency[l]
          /\ idempotency'[KeyOf(r)] = [fingerprint |-> Cmd(r), transfer |-> n]
          /\ KeyOf(r) \notin DOMAIN idempotency
      BY <3>1, CommitEffect DEF Bind
    <3>3. CASE k = KeyOf(r)
      <4>1. PostingOf(transfers'[n]) = PostingOf(Cmd(r))
        <5>1. transfers'[n] = [source |-> Cmd(r).source, destination |-> Cmd(r).destination,
                               amount |-> Cmd(r).amount, currency |-> Cmd(r).currency,
                               created_at |-> stamp[r]]
          BY <3>1, CommitEffect
        <5> QED
          BY <5>1 DEF PostingOf
      <4> QED
        BY <3>2, <3>3, <4>1 DEF KeysOK
    <3>4. CASE k # KeyOf(r)
      <4>1. k \in DOMAIN idempotency /\ idempotency'[k] = idempotency[k]
        BY <3>2, <3>4
      <4>2. idempotency[k].transfer \in 1 .. Len(transfers)
        BY <4>1 DEF LockInv, TypeOK, IsTable
      <4>3. transfers'[idempotency[k].transfer] = transfers[idempotency[k].transfer]
        BY <3>1, <4>2, CommitEffect
      <4> QED
        BY <4>1, <4>3 DEF KeysOK
    <3> QED
      BY <3>3, <3>4
  <2>2. CASE \A r \in Request : ~CommitOk(r)
    BY <1>3, <2>2, OnlyCommitPosts DEF KeysOK
  <2> QED
    BY <2>1, <2>2
<1> QED
  BY <1>2, <1>3 DEF KeysOK, PostingOf

\* A transfer is stamped while its rows are locked, hence after every transfer committed on
\* them, and it is committed before the locks are given back.
LEMMA NextStamps ==
  ASSUME LockInv, LockInv', StampsOK, StatementOrder, [Next]_vars
  PROVE  StampsOK' /\ StatementOrder'
<1>1. CASE \E r \in Request : CommitOk(r)
  <2>1. PICK r \in Request : CommitOk(r)
    BY <1>1
  <2> DEFINE n == Len(transfers) + 1
             t == transfers'[n]
  <2>2. /\ Len(transfers) \in Nat
        /\ Len(transfers') = n
        /\ \A i \in 1 .. Len(transfers) : transfers'[i] = transfers[i]
        /\ Ends(t) = DOMAIN snap[r]
        /\ t.created_at = stamp[r]
        /\ pc[r] = "commit"
        /\ pc' = [pc EXCEPT ![r] = "answered"]
        /\ snap' = [snap EXCEPT ![r] = EmptyTable]
        /\ stamp' = [stamp EXCEPT ![r] = 0]
        /\ clock' = clock
    <3>1. t = [source |-> Cmd(r).source, destination |-> Cmd(r).destination,
               amount |-> Cmd(r).amount, currency |-> Cmd(r).currency, created_at |-> stamp[r]]
      BY <2>1, CommitEffect
    <3>2. DOMAIN snap[r] = {Cmd(r).source, Cmd(r).destination}
      BY <2>1, CommitEffect
    <3>3. Ends(t) = DOMAIN snap[r] /\ t.created_at = stamp[r]
      BY <3>1, <3>2 DEF Ends
    <3>4. /\ Len(transfers) \in Nat
          /\ Len(transfers') = n
          /\ \A i \in 1 .. Len(transfers) : transfers'[i] = transfers[i]
          /\ pc[r] = "commit"
          /\ \E a \in {[status |-> "created", transfer |-> n], Refusal("unavailable")} : EndsWith(r, a)
          /\ clock' = clock
      BY <2>1, CommitEffect
    <3> QED
      BY <3>3, <3>4 DEF EndsWith, Answers
  <2> HIDE DEF t
  <2>3. StampsOK'
    <3>1. \A i \in 1 .. n : transfers'[i].created_at <= clock
      BY <2>2 DEF StampsOK, t
    <3>2. ASSUME NEW q \in Request, pc'[q] = "commit"
          PROVE  /\ stamp'[q] <= clock
                 /\ \A i \in 1 .. n :
                       Ends(transfers'[i]) \cap DOMAIN snap'[q] # {} => transfers'[i].created_at < stamp'[q]
      <4>1. q # r /\ pc[q] = "commit" /\ snap'[q] = snap[q] /\ stamp'[q] = stamp[q]
        BY <2>2, <3>2 DEF LockInv, TypeOK, Process
      <4>2. Ends(t) \cap DOMAIN snap[q] = {}
        BY <2>2, <4>1 DEF LockInv, LocksExclusive
      <4> QED
        BY <2>2, <4>1, <4>2 DEF StampsOK, t
    <3> QED
      BY <2>2, <3>1, <3>2 DEF StampsOK
  <2>4. ASSUME NEW i \in 1 .. n, NEW j \in 1 .. n,
               i < j, Ends(transfers'[i]) \cap Ends(transfers'[j]) # {}
        PROVE  transfers'[i].created_at < transfers'[j].created_at
    <3>1. i \in 1 .. Len(transfers) /\ transfers'[i] = transfers[i]
      BY <2>2, <2>4
    <3>2. CASE j = n
      BY <2>2, <2>4, <3>1, <3>2 DEF StampsOK, t
    <3>3. CASE j # n
      <4>1. j \in 1 .. Len(transfers) /\ transfers'[j] = transfers[j]
        BY <2>2, <3>3
      <4> QED
        BY <2>4, <3>1, <4>1 DEF StatementOrder
    <3> QED
      BY <3>2, <3>3
  <2> QED
    BY <2>2, <2>3, <2>4 DEF StatementOrder
<1>2. CASE \A r \in Request : ~CommitOk(r)
  <2>1. UNCHANGED transfers
    BY <1>2, OnlyCommitPosts
  <2>2. clock \in Nat /\ clock' \in Nat /\ clock <= clock'
    BY ClockGrows DEF LockInv, TypeOK
  <2>3. \A i \in 1 .. Len(transfers) : transfers[i].created_at \in Nat
    <3> DEFINE T == [source : Account, destination : Account, amount : Nat,
                     currency : Currency, created_at : Nat]
    <3>1. transfers \in Seq(T)
      BY DEF LockInv, TypeOK
    <3>2. \A x \in T : x.created_at \in Nat
      OBVIOUS
    <3> HIDE DEF T
    <3>3. \A i \in 1 .. Len(transfers) : transfers[i] \in T
      BY <3>1
    <3> QED
      BY <3>2, <3>3
  <2>4. ASSUME NEW r \in Request, pc'[r] = "commit"
        PROVE  /\ stamp'[r] <= clock'
               /\ \A i \in 1 .. Len(transfers) :
                     Ends(transfers[i]) \cap DOMAIN snap'[r] # {} => transfers[i].created_at < stamp'[r]
    <3>1. CASE pc[r] = "commit"
      <4>1. snap'[r] = snap[r] /\ stamp'[r] = stamp[r]
        BY <2>4, <3>1, CommitWaits
      <4>2. stamp[r] \in Nat
        BY DEF LockInv, TypeOK
      <4> QED
        BY <2>2, <3>1, <4>1, <4>2 DEF StampsOK
    <3>2. CASE pc[r] # "commit"
      <4>1. Accept(r)
        BY <2>4, <3>2, NextPlace DEF Process
      <4>2. stamp'[r] = clock + 1 /\ clock' = clock + 1
        BY <4>1 DEF Accept, LockInv, TypeOK
      <4> QED
        BY <2>2, <2>3, <4>2 DEF StampsOK
    <3> QED
      BY <3>1, <3>2
  <2>5. \A i \in 1 .. Len(transfers) : transfers[i].created_at <= clock'
    BY <2>2, <2>3 DEF StampsOK
  <2>6. StampsOK'
    BY <2>1, <2>4, <2>5 DEF StampsOK
  <2>7. StatementOrder'
    BY <2>1 DEF StatementOrder
  <2> QED
    BY <2>6, <2>7
<1> QED
  BY <1>1, <1>2

\* How the answer of a request changes.
LEMMA NextAnswer ==
  ASSUME LockInv, [Next]_vars, NEW r \in Request, answer'[r] # answer[r]
  PROVE  \/ answer'[r].transfer = 0 /\ answer'[r].status # "created"
         \/ /\ LookupFinds(r)
            /\ idempotency[KeyOf(r)].fingerprint = Cmd(r)
            /\ answer'[r] = [status |-> "replayed", transfer |-> idempotency[KeyOf(r)].transfer]
         \/ /\ CommitOk(r)
            /\ answer'[r] = [status |-> "created", transfer |-> Len(transfers) + 1]
<1>1. /\ answer = [p \in Process |-> answer[p]]
      /\ r \in Process
      /\ r \notin Opener
  BY RequestAssumption DEF LockInv, TypeOK, Process
<1>2. ASSUME NEW q \in Request, Transact(q)
      PROVE  \/ q = r
             \/ answer'[r] = answer[r]
  BY <1>1, <1>2 DEF Process, Transact, RefuseKey, Send, LockKey, LookupFinds, LookupMisses, SelectRows,
         LockRow, Refuse, Accept, CommitOk, CommitFails, EndsWith, Answers
<1>3. CASE Transact(r)
  <2>1. CASE RefuseKey(r) \/ Refuse(r) \/ CommitFails(r)
    <3>1. PICK st \in Status \ {"created"} : EndsWith(r, Refusal(st))
      BY <2>1 DEF RefuseKey, Refuse, CommitFails, Verdict, Status
    <3> QED
      BY <1>1, <3>1 DEF EndsWith, Answers, Refusal
  <2>2. CASE LookupFinds(r)
    <3>1. CASE idempotency[KeyOf(r)].fingerprint = Cmd(r)
      BY <1>1, <2>2, <3>1 DEF LookupFinds, Fingerprint, EndsWith, Answers
    <3>2. CASE idempotency[KeyOf(r)].fingerprint # Cmd(r)
      BY <1>1, <2>2, <3>2 DEF LookupFinds, Fingerprint, EndsWith, Answers, Refusal
    <3> QED
      BY <3>1, <3>2
  <2>3. CASE CommitOk(r)
    <3> DEFINE made == [status |-> "created", transfer |-> Len(transfers) + 1]
    <3>1. \E a \in {made, Refusal("unavailable")} : EndsWith(r, a)
      BY <2>3, CommitEffect
    <3>2. answer'[r] \in {made, Refusal("unavailable")}
      BY <1>1, <3>1 DEF EndsWith, Answers
    <3> QED
      BY <2>3, <3>2 DEF Refusal
  <2>4. CASE Send(r) \/ LockKey(r) \/ LookupMisses(r) \/ SelectRows(r) \/ LockRow(r) \/ Accept(r)
    BY <2>4 DEF Send, LockKey, LookupMisses, SelectRows, LockRow, Accept
  <2> QED
    BY <1>3, <2>1, <2>2, <2>3, <2>4 DEF Transact
<1>4. ASSUME NEW o \in Opener, Open(o) PROVE answer'[r] = answer[r]
  BY <1>1, <1>4 DEF Process, Open, RefuseAccount, CheckAccount, InsertAccount, Answers, Fault
<1>5. ASSUME NEW p \in Process, LoseAnswer(p) \/ Abort(p) \/ PoolTimesOut(p)
      PROVE  answer'[r] \in {answer[r], NoAnswer, Refusal("unavailable")}
  BY <1>1, <1>5 DEF LoseAnswer, Abort, PoolTimesOut, Answers
<1>6. CASE UNCHANGED vars
  BY <1>6 DEF vars
<1> QED
  BY <1>2, <1>3, <1>4, <1>5, <1>6 DEF Next, Terminating, NoAnswer, Refusal

\* The places of create_transfer that turn a request down.
LEMMA RefusalSource ==
  ASSUME LockInv, [Next]_vars, NEW r \in Request, answer'[r] # answer[r],
         answer'[r].status \notin {"none", "created", "replayed", "conflict", "unavailable"}
  PROVE  RefuseKey(r) \/ Refuse(r) \/ CommitFails(r)
<1>1. /\ answer = [p \in Process |-> answer[p]]
      /\ r \in Process
      /\ r \notin Opener
  BY RequestAssumption DEF LockInv, TypeOK, Process
<1>2. ASSUME NEW q \in Request, Transact(q) PROVE q = r
  BY <1>1, <1>2 DEF Process, Transact, RefuseKey, Send, LockKey, LookupFinds, LookupMisses, SelectRows,
         LockRow, Refuse, Accept, CommitOk, CommitFails, EndsWith, Answers
<1>3. ~LookupFinds(r) /\ ~CommitOk(r)
  <2>1. ASSUME NEW a, EndsWith(r, a) PROVE answer'[r] = a
    BY <1>1, <2>1 DEF EndsWith, Answers
  <2> QED
    BY <2>1 DEF LookupFinds, CommitOk, Refusal
<1>4. ~(Send(r) \/ LockKey(r) \/ LookupMisses(r) \/ SelectRows(r) \/ LockRow(r) \/ Accept(r))
  BY DEF Send, LockKey, LookupMisses, SelectRows, LockRow, Accept
<1>5. ASSUME NEW o \in Opener PROVE ~Open(o)
  BY <1>1, <1>5 DEF Process, Open, RefuseAccount, CheckAccount, InsertAccount, Answers, Fault
<1>6. ASSUME NEW p \in Process PROVE ~LoseAnswer(p) /\ ~Abort(p) /\ ~PoolTimesOut(p)
  BY <1>1 DEF LoseAnswer, Abort, PoolTimesOut, Answers, Refusal, NoAnswer
<1>7. ~UNCHANGED vars
  BY DEF vars
<1> QED
  BY <1>2, <1>3, <1>4, <1>5, <1>6, <1>7 DEF Next, Terminating, Transact

\* A client is told only of the transfer that its key is bound to, with its own command.
LEMMA NextAnswers ==
  ASSUME LockInv, LockInv', KeysOK, KeysOK', AnswersOK, AnswersAgree, [Next]_vars
  PROVE  AnswersOK' /\ AnswersAgree'
<1>1. UNCHANGED request
  BY OnlyCommitPosts DEF inputs, CommitOk
<1>2. \A r \in Request : KeyOf(r)' = KeyOf(r) /\ Cmd(r)' = Cmd(r)
  BY <1>1 DEF KeyOf, Cmd
<1>3. \A k \in DOMAIN idempotency : k \in DOMAIN idempotency' /\ idempotency'[k] = idempotency[k]
  <2>1. ASSUME NEW r \in Request, CommitOk(r)
        PROVE  \A k \in DOMAIN idempotency : k \in DOMAIN idempotency' /\ idempotency'[k] = idempotency[k]
    BY <2>1, CommitEffect DEF Bind
  <2> QED
    BY <2>1, OnlyCommitPosts
<1>4. ASSUME NEW r \in Request
      PROVE  /\ answer'[r].status = "created" => answer'[r].transfer # 0
             /\ answer'[r].transfer # 0 =>
                   /\ KeyOf(r) \in DOMAIN idempotency'
                   /\ idempotency'[KeyOf(r)] = [fingerprint |-> Cmd(r), transfer |-> answer'[r].transfer]
  <2>1. CASE answer'[r] = answer[r]
    BY <1>3, <2>1 DEF AnswersOK
  <2>2. CASE answer'[r].transfer = 0 /\ answer'[r].status # "created"
    BY <2>2
  <2>3. CASE /\ LookupFinds(r)
             /\ idempotency[KeyOf(r)].fingerprint = Cmd(r)
             /\ answer'[r] = [status |-> "replayed", transfer |-> idempotency[KeyOf(r)].transfer]
    <3>1. KeyOf(r) \in DOMAIN idempotency
      BY <2>3 DEF LookupFinds
    <3>2. idempotency[KeyOf(r)] \in [fingerprint : Command, transfer : 1 .. Len(transfers)]
      BY <3>1 DEF LockInv, TypeOK, IsTable
    <3> QED
      BY <1>3, <2>3, <3>1, <3>2
  <2>4. CASE CommitOk(r) /\ answer'[r] = [status |-> "created", transfer |-> Len(transfers) + 1]
    <3>1. /\ Len(transfers) \in Nat
          /\ idempotency' = Bind(idempotency, KeyOf(r), [fingerprint |-> Cmd(r), transfer |-> Len(transfers) + 1])
      BY <2>4, CommitEffect
    <3> QED
      BY <2>4, <3>1 DEF Bind
  <2> QED
    BY <2>1, <2>2, <2>3, <2>4, NextAnswer
<1>5. AnswersOK'
  BY <1>2, <1>4 DEF AnswersOK
<1>6. ASSUME NEW r \in Request, NEW q \in Request, r # q, KeyOf(r) = KeyOf(q),
             answer'[r].status = "created"
      PROVE  answer'[q].status # "created"
  <2> SUFFICES ASSUME answer'[q].status = "created" PROVE FALSE
    OBVIOUS
  <2>1. ASSUME answer'[r] = answer[r], answer'[q] = answer[q] PROVE FALSE
    <3>1. answer[r].status = "created" /\ answer[q].status = "created"
      BY <1>6, <2>1
    <3>2. answer[r].transfer # 0 /\ answer[q].transfer # 0
      BY <3>1 DEF AnswersOK
    <3>3. {answer[r].status, answer[q].status} # {"created"}
      BY <1>6, <3>2 DEF AnswersAgree
    <3> QED
      BY <3>1, <3>3
  <2>2. ASSUME NEW u \in Request, NEW v \in Request, u # v, KeyOf(u) = KeyOf(v),
               answer'[u].status = "created", answer'[v].status = "created", answer'[u] # answer[u]
        PROVE  FALSE
    <3>1. \/ answer'[u].transfer = 0 /\ answer'[u].status # "created"
          \/ answer'[u] = [status |-> "replayed", transfer |-> idempotency[KeyOf(u)].transfer]
          \/ CommitOk(u)
      BY <2>2, NextAnswer
    <3>2. CommitOk(u)
      BY <2>2, <3>1
    <3>3. /\ KeyOf(u) \notin DOMAIN idempotency
          /\ \E a \in {[status |-> "created", transfer |-> Len(transfers) + 1], Refusal("unavailable")} :
                EndsWith(u, a)
      BY <3>2, CommitEffect
    <3>4. answer'[v] = answer[v]
      BY <2>2, <3>3 DEF EndsWith, Answers, LockInv, TypeOK, Process
    <3> QED
      BY <2>2, <3>3, <3>4 DEF AnswersOK
  <2> QED
    BY <1>6, <2>1, <2>2
<1>7. ASSUME NEW r \in Request, NEW q \in Request, KeyOf(r) = KeyOf(q),
             answer'[r].transfer # 0, answer'[q].transfer # 0
      PROVE  /\ answer'[r].transfer = answer'[q].transfer
             /\ PostingOf(transfers'[answer'[r].transfer]) = PostingOf(Cmd(r))
             /\ r # q => {answer'[r].status, answer'[q].status} # {"created"}
  <2>1. answer'[r].transfer = answer'[q].transfer
    <3>1. idempotency'[KeyOf(r)] = [fingerprint |-> Cmd(r), transfer |-> answer'[r].transfer]
      BY <1>4, <1>7
    <3>2. idempotency'[KeyOf(q)] = [fingerprint |-> Cmd(q), transfer |-> answer'[q].transfer]
      BY <1>4, <1>7
    <3>3. idempotency'[KeyOf(r)].transfer = idempotency'[KeyOf(q)].transfer
      BY <1>7
    <3> QED
      BY <3>1, <3>2, <3>3
  <2>2. PostingOf(transfers'[answer'[r].transfer]) = PostingOf(Cmd(r))
    <3>1. /\ KeyOf(r) \in DOMAIN idempotency'
          /\ idempotency'[KeyOf(r)] = [fingerprint |-> Cmd(r), transfer |-> answer'[r].transfer]
      BY <1>4, <1>7
    <3> QED
      BY <3>1 DEF KeysOK, PostingOf
  <2>3. r # q => {answer'[r].status, answer'[q].status} # {"created"}
    BY <1>6, <1>7
  <2> QED
    BY <2>1, <2>2, <2>3
<1> QED
  BY <1>2, <1>5, <1>7 DEF AnswersAgree, PostingOf

-----------------------------------------------------------------------------

\* For every workload and every number of faults: no balance leaves the range of its
\* column, a key that was looked up in vain stays free until the request is through,
\* each transfer has one key and one event, all clients of a key are told of the same
\* transfer, and statements list transfers in the order in which they were posted.
THEOREM BooksCorrect == Spec => [](LockInv /\ BooksInv)
<1>1. Init => LockInv /\ BooksInv
  BY InitLockInv, InitBooksInv
<1>2. LockInv /\ BooksInv /\ [Next]_vars => (LockInv /\ BooksInv)'
  <2> SUFFICES ASSUME LockInv, BooksInv, [Next]_vars PROVE (LockInv /\ BooksInv)'
    OBVIOUS
  <2>1. LockInv'
    BY NextLockInv
  <2> USE DEF BooksInv
  <2>2. OpenersOK' /\ BalancesInColumn' /\ ExactlyOncePerKey' /\ KeysOK'
    BY <2>1, NextOpenersOK, NextBalances, NextExactlyOnce, NextKeysOK
  <2>3. LookupStaysMissed' /\ StampsOK' /\ StatementOrder' /\ AnswersOK' /\ AnswersAgree'
    BY <2>1, <2>2, NextLookupStaysMissed, NextStamps, NextAnswers
  <2> QED
    BY <2>1, <2>2, <2>3
<1> QED
  BY <1>1, <1>2, PTL DEF Spec

\* No interleaving of transfers, retries and openings spends more than the committed row
\* of an account holds at the moment of the commit, or credits past the column.
THEOREM NeverOverdrawn == Spec => NoOverdraft
<1> DEFINE Covered == \A t \in Len(transfers) + 1 .. Len(transfers') :
                         /\ transfers'[t].amount <= accounts[transfers'[t].source].balance
                         /\ accounts[transfers'[t].destination].balance + transfers'[t].amount <= MaxBalance
<1>1. LockInv /\ [Next]_vars => Covered
  <2> SUFFICES ASSUME LockInv, [Next]_vars, NEW t \in Len(transfers) + 1 .. Len(transfers')
               PROVE  /\ transfers'[t].amount <= accounts[transfers'[t].source].balance
                      /\ accounts[transfers'[t].destination].balance + transfers'[t].amount <= MaxBalance
    OBVIOUS
  <2>1. Len(transfers) \in Nat
    BY DEF LockInv, TypeOK
  <2>2. CASE \A r \in Request : ~CommitOk(r)
    BY <2>1, <2>2, OnlyCommitPosts
  <2>3. ASSUME NEW r \in Request, CommitOk(r)
        PROVE  /\ transfers'[t].amount <= accounts[transfers'[t].source].balance
               /\ accounts[transfers'[t].destination].balance + transfers'[t].amount <= MaxBalance
    <3>1. t = Len(transfers) + 1
      <4>1. Len(transfers') = Len(transfers) + 1
        BY <2>3, CommitEffect
      <4>2. t \in Len(transfers) + 1 .. Len(transfers) + 1
        BY <4>1
      <4> QED
        BY <2>1, <4>2
    <3>2. transfers'[t] = [source |-> Cmd(r).source, destination |-> Cmd(r).destination,
                           amount |-> Cmd(r).amount, currency |-> Cmd(r).currency,
                           created_at |-> stamp[r]]
      BY <2>3, <3>1, CommitEffect
    <3>3. /\ Cmd(r).amount <= accounts[Cmd(r).source].balance
          /\ accounts[Cmd(r).destination].balance + Cmd(r).amount <= MaxBalance
      BY <2>3, CommitEffect
    <3> QED
      BY <3>2, <3>3
  <2> QED
    BY <2>2, <2>3
<1>2. LockInv /\ [Next]_vars => [Covered]_vars
  BY <1>1
<1> QED
  BY <1>2, LocksCorrect, PTL DEF Spec, NoOverdraft

\* A key found free stays free for the request that locked its slot, so that the race of two
\* first requests of a key cannot post twice.
THEOREM KeysStayReserved == Spec => []LookupStaysMissed
<1>1. LockInv /\ BooksInv => LookupStaysMissed
  BY DEF BooksInv
<1> QED
  BY <1>1, BooksCorrect, PTL

\* Every committed transfer has one key and its event, whatever dies or is retried.
THEOREM PostedOnce == Spec => []ExactlyOncePerKey
<1>1. LockInv /\ BooksInv => ExactlyOncePerKey
  BY DEF BooksInv
<1> QED
  BY <1>1, BooksCorrect, PTL

\* All clients of a key that succeed are told of one transfer, which is the one they asked for.
THEOREM AnswersCorrect == Spec => []AnswersAgree
<1>1. LockInv /\ BooksInv => AnswersAgree
  BY DEF BooksInv
<1> QED
  BY <1>1, BooksCorrect, PTL

\* Statements list the transfers of an account in the order in which they changed its balance,
\* as long as the clock that stamps them does not go back.
THEOREM StatementsOrdered == Spec => []StatementOrder
<1>1. LockInv /\ BooksInv => StatementOrder
  BY DEF BooksInv
<1> QED
  BY <1>1, BooksCorrect, PTL

\* Every variable keeps its type, for every value of the constants.
THEOREM TypeCorrect == Spec => []TypeOK
  BY LocksCorrect, PTL DEF LockInv

-----------------------------------------------------------------------------
\* What each step may never do

\* A client is told that its transfer failed only while its key is free: for every
\* workload and number of faults, a retry is never refused after its posting.
THEOREM RefusalsCorrect == Spec => NoRefusalAfterPosting
<1>1. LockInv /\ BooksInv /\ [Next]_vars =>
        [\A r \in Request :
          (answer'[r] # answer[r] /\ answer'[r].status \notin {"none", "created", "replayed", "conflict", "unavailable"})
            => KeyOf(r) \notin DOMAIN idempotency]_vars
  <2> SUFFICES ASSUME LockInv, BooksInv, [Next]_vars, NEW r \in Request, answer'[r] # answer[r],
                      answer'[r].status \notin {"none", "created", "replayed", "conflict", "unavailable"}
               PROVE  KeyOf(r) \notin DOMAIN idempotency
    OBVIOUS
  <2>1. CASE RefuseKey(r)
    BY <2>1 DEF RefuseKey, BooksInv, KeysOK
  <2>2. CASE Refuse(r) \/ CommitFails(r)
    BY <2>2 DEF Refuse, CommitFails, BooksInv, LookupStaysMissed
  <2>3. RefuseKey(r) \/ Refuse(r) \/ CommitFails(r)
    BY RefusalSource
  <2> QED
    BY <2>1, <2>2, <2>3
<1> QED
  BY <1>1, BooksCorrect, PTL DEF Spec, NoRefusalAfterPosting

-----------------------------------------------------------------------------
\* The service implements the ledger

\* The tables start as the ledger does.
LEMMA InitLedger == Init => Abstract!LedgerInit
  BY DEF Init, Abstract!LedgerInit, Posted, EmptyTable, Abstract!EmptyTable

\* Every step of the service is a posting, an opening or no step of the ledger.
LEMMA NextLedger ==
  ASSUME LockInv, BooksInv, [Next]_vars
  PROVE  [Abstract!LedgerNext]_(Abstract!ledgerVars)
<1>1. ASSUME NEW r \in Request, CommitOk(r)
      PROVE  Abstract!Post(KeyOf(r), PostingOf(Cmd(r))) /\ KeyOf(r) \in Key
                /\ PostingOf(Cmd(r)) \in Abstract!Posting
  <2> DEFINE c == Cmd(r)
             n == Len(transfers) + 1
  <2>1. /\ c \in Command
        /\ {c.source, c.destination} \subseteq DOMAIN accounts
        /\ c.source # c.destination
        /\ c.amount \in Nat \ {0}
        /\ c.amount <= accounts[c.source].balance
        /\ accounts[c.destination].balance + c.amount <= MaxBalance
        /\ accounts[c.source].currency = c.currency
        /\ accounts[c.destination].currency = c.currency
        /\ accounts' = [a \in DOMAIN accounts |->
              IF a = c.source
              THEN [currency |-> c.currency, balance |-> accounts[a].balance - c.amount]
              ELSE IF a = c.destination
              THEN [currency |-> c.currency, balance |-> accounts[a].balance + c.amount]
              ELSE accounts[a]]
    BY <1>1, CommitEffect
  <2>2. KeyOf(r) \in Key
    BY DEF LockInv, TypeOK, KeyOf
  <2>3. accounts[c.source] \in AccountRow /\ accounts[c.destination] \in AccountRow
    BY <2>1 DEF LockInv, TypeOK, IsTable, StoredRow, AccountRow, BooksInv, BalancesInColumn
  <2>4. PostingOf(c) \in Abstract!Posting
    BY <2>1, <2>3, BalanceAssumption DEF Command, PostingOf, Abstract!Posting, AccountRow
  <2>5. Abstract!MayPost(PostingOf(c))
    BY <2>1 DEF PostingOf, Abstract!MayPost
  <2>6. accounts' = [accounts EXCEPT ![c.source].balance = @ - c.amount,
                                     ![c.destination].balance = @ + c.amount]
    <3>1. accounts = [a \in DOMAIN accounts |-> accounts[a]]
      BY DEF LockInv, TypeOK, IsTable
    <3> QED
      BY <2>1, <2>3, <3>1 DEF AccountRow
  <2>7. KeyOf(r) \notin DOMAIN Posted /\ Posted' = Abstract!Bind(Posted, KeyOf(r), PostingOf(c))
    <3>1. /\ Len(transfers) \in Nat
          /\ \A i \in 1 .. Len(transfers) : transfers'[i] = transfers[i]
          /\ transfers'[n] = [source |-> c.source, destination |-> c.destination, amount |-> c.amount,
                              currency |-> c.currency, created_at |-> stamp[r]]
          /\ KeyOf(r) \notin DOMAIN idempotency
          /\ idempotency' = Bind(idempotency, KeyOf(r), [fingerprint |-> c, transfer |-> n])
      BY <1>1, CommitEffect
    <3>2. PostingOf(transfers'[n]) = PostingOf(c)
      BY <3>1 DEF PostingOf
    <3>3. \A k \in DOMAIN idempotency :
             /\ idempotency'[k] = idempotency[k]
             /\ transfers'[idempotency[k].transfer] = transfers[idempotency[k].transfer]
      <4>1. \A k \in DOMAIN idempotency : idempotency[k].transfer \in 1 .. Len(transfers)
        BY DEF LockInv, TypeOK, IsTable
      <4> QED
        BY <3>1, <4>1 DEF Bind
    <3>4. /\ DOMAIN idempotency' = DOMAIN idempotency \cup {KeyOf(r)}
          /\ idempotency'[KeyOf(r)].transfer = n
      BY <3>1 DEF Bind
    <3>5. Posted' = [k \in DOMAIN idempotency' |-> PostingOf(transfers'[idempotency'[k].transfer])]
      BY DEF Posted, PostingOf
    <3> HIDE DEF c
    <3> QED
      BY <3>1, <3>2, <3>3, <3>4, <3>5 DEF Posted, Abstract!Bind
  <2> QED
    BY <2>2, <2>4, <2>5, <2>6, <2>7 DEF Abstract!Post, PostingOf
<1>2. CASE \A r \in Request : ~CommitOk(r)
  <2>1. Posted' = Posted
    BY <1>2, OnlyCommitPosts DEF Posted, PostingOf
  <2>2. CASE UNCHANGED accounts
    BY <2>1, <2>2 DEF Abstract!ledgerVars
  <2>3. CASE \E o \in Opener :
               /\ opening[o].account \in Account \ DOMAIN accounts
               /\ opening[o].row \in AccountRow
               /\ accounts' = Bind(accounts, opening[o].account, opening[o].row)
    <3>1. PICK o \in Opener :
               /\ opening[o].account \in Account \ DOMAIN accounts
               /\ opening[o].row \in AccountRow
               /\ accounts' = Bind(accounts, opening[o].account, opening[o].row)
      BY <2>3
    <3>2. Abstract!OpenAccount(opening[o].account, opening[o].row)
      BY <2>1, <3>1 DEF Abstract!OpenAccount, Bind, Abstract!Bind
    <3> QED
      BY <3>1, <3>2 DEF Abstract!LedgerNext, AccountRow, Abstract!AccountRow
  <2> QED
    BY <1>2, <2>2, <2>3, OnlyCommitMoves DEF BooksInv
<1> QED
  BY <1>1, <1>2 DEF Abstract!LedgerNext

\* Every behaviour of the service, whatever its requests, races and faults, is a
\* behaviour of the ledger that opens accounts and posts transfers in single steps.
THEOREM ServiceImplementsLedger == Spec => ImplementsLedger
<1>1. Init => Abstract!LedgerInit
  BY InitLedger
<1>2. LockInv /\ BooksInv /\ [Next]_vars => [Abstract!LedgerNext]_(Abstract!ledgerVars)
  BY NextLedger
<1> QED
  BY <1>1, <1>2, BooksCorrect, PTL DEF Spec, ImplementsLedger, Abstract!LedgerSpec

-----------------------------------------------------------------------------
\* What clients that race to open an account are told, and the order in which requests wait.

\* An opener that was told it created the account finds it there, in its currency.
CreatorsOK ==
    \A o \in Opener : answer[o].status = "created" =>
        /\ opening[o].account \in DOMAIN accounts
        /\ accounts[opening[o].account].currency = opening[o].row.currency

\* A request has locked the least of its rows first.
RowsOrdered ==
    \A r \in Request : \A a \in DOMAIN snap[r] : \A b \in want[r] : a < b

\* The rows that requests have yet to lock, and that these have a last one in every part.
Wanted == {b \in Account : \E r \in Request : b \in want[r]}
HasLast(W) == \A T \in SUBSET W : T # {} => \E x \in T : \A y \in T : y <= x

OrderInv == RowsOrdered /\ HasLast(Wanted)

-----------------------------------------------------------------------------
\* Who opened an account

\* No step takes an account away or changes its currency.
LEMMA AccountsStay ==
  ASSUME LockInv, OpenersOK, [Next]_vars, NEW a \in DOMAIN accounts
  PROVE  a \in DOMAIN accounts' /\ accounts'[a].currency = accounts[a].currency
<1>1. CASE \E r \in Request : CommitOk(r)
  <2>1. PICK r \in Request : CommitOk(r)
    BY <1>1
  <2> DEFINE c == Cmd(r)
  <2>2. /\ accounts[c.source].currency = c.currency
        /\ accounts[c.destination].currency = c.currency
        /\ accounts' = [b \in DOMAIN accounts |->
              IF b = c.source
              THEN [currency |-> c.currency, balance |-> accounts[b].balance - c.amount]
              ELSE IF b = c.destination
              THEN [currency |-> c.currency, balance |-> accounts[b].balance + c.amount]
              ELSE accounts[b]]
    BY <2>1, CommitEffect
  <2> HIDE DEF c
  <2> QED
    BY <2>2
<1>2. CASE \A r \in Request : ~CommitOk(r)
  BY <1>2, OnlyCommitMoves DEF Bind
<1> QED
  BY <1>1, <1>2

\* An opener is told that it created the account by the step that stores its row.
LEMMA CreatorStores ==
  ASSUME LockInv, [Next]_vars, NEW o \in Opener,
         answer'[o].status = "created", answer[o].status # "created"
  PROVE  /\ opening[o].account \notin DOMAIN accounts
         /\ accounts' = Bind(accounts, opening[o].account, opening[o].row)
         /\ \A p \in Opener : p # o => answer'[p] = answer[p]
<1>1. /\ DOMAIN answer = Process /\ o \in Process /\ o \notin Request
      /\ \A p \in Opener : p \in Process
  BY RequestAssumption DEF LockInv, TypeOK, Process
<1>2. ASSUME NEW r \in Request, Transact(r) PROVE answer'[o] = answer[o]
  BY <1>1, <1>2 DEF Transact, RefuseKey, Send, LockKey, LookupFinds, LookupMisses, SelectRows,
         LockRow, Refuse, Accept, CommitOk, CommitFails, EndsWith, Answers
<1>3. ASSUME NEW p \in Process, LoseAnswer(p) \/ Abort(p) \/ PoolTimesOut(p)
      PROVE  answer'[o] \in {answer[o], NoAnswer, Refusal("unavailable")}
  BY <1>1, <1>3 DEF LoseAnswer, Abort, PoolTimesOut, Answers
<1>4. PICK p \in Opener : Open(p)
  BY <1>2, <1>3 DEF Next, Terminating, vars, NoAnswer, Refusal
<1>5. p = o /\ InsertAccount(o) /\ ~InsertRefused(o)
  BY <1>1, <1>4 DEF Open, RefuseAccount, CheckAccount, InsertAccount, Answers, Fault, Refusal
<1> QED
  BY <1>1, <1>5 DEF InsertAccount, InsertRefused, Answers

\* So no second opener can be told so: its insert would find the row.
LEMMA NextCreators ==
  ASSUME LockInv, OpenersOK, CreatorsOK, OneCreator, [Next]_vars
  PROVE  CreatorsOK' /\ OneCreator'
<1>1. UNCHANGED opening
  BY OnlyCommitPosts DEF inputs, CommitOk
<1>2. \A o \in Opener : answer[o].status = "created" =>
        /\ opening[o].account \in DOMAIN accounts'
        /\ accounts'[opening[o].account].currency = opening[o].row.currency
  BY AccountsStay DEF CreatorsOK
<1>3. ASSUME NEW o \in Opener, answer'[o].status = "created", answer[o].status # "created"
      PROVE  /\ opening[o].account \notin DOMAIN accounts
             /\ opening[o].account \in DOMAIN accounts'
             /\ accounts'[opening[o].account].currency = opening[o].row.currency
             /\ \A p \in Opener : p # o => answer'[p] = answer[p]
  BY <1>3, CreatorStores DEF Bind
<1>4. CreatorsOK'
  BY <1>1, <1>2, <1>3 DEF CreatorsOK
<1>5. ASSUME NEW o \in Opener, NEW p \in Opener, o # p,
             answer'[o].status = "created", answer'[p].status = "created"
      PROVE  opening[o].account # opening[p].account
  <2>1. CASE answer[o].status # "created"
    BY <1>3, <1>5, <2>1 DEF CreatorsOK
  <2>2. CASE answer[p].status # "created"
    BY <1>3, <1>5, <2>2 DEF CreatorsOK
  <2>3. CASE answer[o].status = "created" /\ answer[p].status = "created"
    BY <1>5, <2>3 DEF OneCreator
  <2> QED
    BY <2>1, <2>2, <2>3
<1> QED
  BY <1>1, <1>4, <1>5 DEF OneCreator, CreatorsOK

\* Of the clients that race to open an account, one is told that it did.
THEOREM OneCreatorOnly == Spec => []OneCreator
<1>1. Init => CreatorsOK /\ OneCreator
  BY DEF Init, CreatorsOK, OneCreator, NoAnswer, Process
<1>2. (LockInv /\ BooksInv) /\ (CreatorsOK /\ OneCreator) /\ [Next]_vars => (CreatorsOK /\ OneCreator)'
  BY NextCreators DEF BooksInv
<1> QED
  BY <1>1, <1>2, BooksCorrect, PTL DEF Spec

-----------------------------------------------------------------------------
\* How requests wait

\* A step leaves the rows of a request alone, ends its transaction, or selects or locks rows.
LEMMA RowsStep ==
  ASSUME LockInv, [Next]_vars, NEW r \in Request
  PROVE  \/ snap'[r] = snap[r] /\ want'[r] = want[r]
         \/ DOMAIN snap'[r] = {} /\ want'[r] = {}
         \/ SelectRows(r) \/ LockRow(r)
<1>1. snap = [q \in Request |-> snap[q]] /\ want \in [Request -> SUBSET Account]
  BY DEF LockInv, TypeOK
<1>2. CASE \E q \in Request : Transact(q)
  BY <1>1, <1>2 DEF Transact, RefuseKey, Send, LockKey, LookupFinds, LookupMisses, SelectRows,
         LockRow, Refuse, Accept, CommitOk, CommitFails, EndsWith, Answers, session, EmptyTable
<1>3. CASE \E o \in Opener : Open(o)
  BY <1>3 DEF Open, RefuseAccount, CheckAccount, InsertAccount, session
<1>4. CASE \E p \in Process : LoseAnswer(p) \/ Abort(p) \/ PoolTimesOut(p)
  BY <1>1, <1>4 DEF LoseAnswer, Abort, PoolTimesOut, session, EmptyTable
<1> QED
  BY <1>2, <1>3, <1>4 DEF Next, Terminating, vars, session

\* The row that is locked next is the least of those to be locked.
LEMMA NextRowLeast ==
  ASSUME LockInv, NEW r \in Request, want[r] # {}
  PROVE  NextRow(r) \in want[r] /\ \A b \in want[r] : NextRow(r) <= b
<1>1. Cmd(r) \in Command /\ want[r] \subseteq Account /\ want[r] \subseteq {Cmd(r).source, Cmd(r).destination}
  BY DEF LockInv, TypeOK, SessionOK, Ends, Cmd
<1>2. \A a \in want[r] : a \in Nat /\ (a = Cmd(r).source \/ a = Cmd(r).destination)
  BY <1>1, AccountAssumption
<1>3. \E a \in want[r] : \A b \in want[r] : a <= b
  BY <1>2
<1> QED
  BY <1>3 DEF NextRow, Min

\* A set of numbers with a last one in every part keeps one when a number joins it.
LEMMA LastOfMore ==
  ASSUME NEW W \in SUBSET Nat, NEW n \in Nat, HasLast(W)
  PROVE  HasLast(W \cup {n})
<1> SUFFICES ASSUME NEW T \in SUBSET (W \cup {n}), T # {}
             PROVE  \E x \in T : \A y \in T : y <= x
  BY DEF HasLast
<1>1. CASE T \ {n} = {}
  <2>1. T = {n}
    BY <1>1
  <2> QED
    BY <2>1
<1>2. CASE T \ {n} # {}
  <2>1. PICK x \in T \ {n} : \A y \in T \ {n} : y <= x
    BY <1>2 DEF HasLast
  <2>2. CASE n \in T /\ x <= n
    BY <2>1, <2>2
  <2>3. CASE ~(n \in T /\ x <= n)
    BY <2>1, <2>3
  <2> QED
    BY <2>2, <2>3
<1> QED
  BY <1>1, <1>2

\* Every step keeps the rows of a request in order, and adds at most two to those wanted.
LEMMA NextOrder ==
  ASSUME LockInv, OrderInv, [Next]_vars
  PROVE  OrderInv'
<1>1. want \in [Request -> SUBSET Account] /\ Account \subseteq Nat
  BY AccountAssumption DEF LockInv, TypeOK
<1>2. ASSUME NEW r \in Request PROVE \A a \in DOMAIN snap'[r] : \A b \in want'[r] : a < b
  <2>1. CASE SelectRows(r)
    BY <2>1 DEF SelectRows, LockInv, SessionOK
  <2>2. CASE LockRow(r)
    <3>1. NextRow(r) \in want[r] /\ \A b \in want[r] : NextRow(r) <= b
      BY <2>2, NextRowLeast DEF LockRow
    <3>2. /\ want'[r] = want[r] \ {NextRow(r)}
          /\ DOMAIN snap'[r] = DOMAIN snap[r] \cup {NextRow(r)}
      <4>1. snap = [q \in Request |-> snap[q]]
        BY DEF LockInv, TypeOK
      <4> QED
        BY <1>1, <2>2, <4>1 DEF LockRow, Bind
    <3>3. want[r] \subseteq Nat
      BY <1>1
    <3> QED
      BY <3>1, <3>2, <3>3 DEF OrderInv, RowsOrdered
  <2> QED
    BY <2>1, <2>2, RowsStep DEF OrderInv, RowsOrdered
<1>3. HasLast(Wanted')
  <2>1. CASE \E r \in Request : SelectRows(r)
    <3>1. PICK r \in Request : SelectRows(r)
      BY <2>1
    <3> DEFINE c == Cmd(r)
    <3>2. c.source \in Nat /\ c.destination \in Nat
      BY AccountAssumption DEF LockInv, TypeOK, Cmd, Command
    <3>3. Wanted' \subseteq (Wanted \cup {c.source}) \cup {c.destination}
      BY <1>1, <3>1 DEF Wanted, SelectRows, Ends
    <3>4. Wanted \subseteq Nat
      BY <1>1 DEF Wanted
    <3> HIDE DEF c
    <3>5. HasLast((Wanted \cup {c.source}) \cup {c.destination})
      BY <3>2, <3>4, LastOfMore DEF OrderInv
    <3> QED
      BY <3>3, <3>5 DEF HasLast
  <2>2. CASE \A r \in Request : ~SelectRows(r)
    <3>1. ASSUME NEW r \in Request PROVE want'[r] \subseteq want[r]
      BY <1>1, <2>2, RowsStep DEF LockRow
    <3>2. Wanted' \subseteq Wanted
      BY <3>1 DEF Wanted
    <3> QED
      BY <3>2 DEF OrderInv, HasLast
  <2> QED
    BY <2>1, <2>2
<1> QED
  BY <1>2, <1>3 DEF OrderInv, RowsOrdered, HasLast

\* Of requests that wait, the one that waits for the last row waits for one that does not:
\* the holder of that row wants a later one, or nothing.
LEMMA OrderedRowsUnblock ==
  ASSUME LockInv, OrderInv
  PROVE  NoWaitCycle
<1> SUFFICES ASSUME NEW S \in SUBSET Request, S # {},
                    \A r \in S : \E q \in S : WaitsFor(r, q)
             PROVE  FALSE
  BY DEF NoWaitCycle
<1>1. \A r \in S : pc[r] = "key" \/ (pc[r] = "rows" /\ want[r] # {})
  BY DEF WaitsFor
<1> DEFINE T == {b \in Account : \E r \in S : pc[r] = "rows" /\ want[r] # {} /\ b = NextRow(r)}
<1>2. ASSUME NEW r \in S, pc[r] = "rows" PROVE NextRow(r) \in T /\ NextRow(r) \in want[r]
  <2>1. NextRow(r) \in want[r] /\ want[r] # {}
    BY <1>1, <1>2, NextRowLeast
  <2> QED
    BY <1>2, <2>1 DEF LockInv, TypeOK
<1>3. T # {}
  <2>1. PICK r \in S : TRUE
    OBVIOUS
  <2>2. PICK q \in S : WaitsFor(r, q)
    BY <2>1
  <2>3. CASE pc[r] = "rows"
    BY <1>2, <2>3
  <2>4. CASE pc[r] = "key"
    <3>1. pc[q] = "rows"
      BY <1>1, <2>2, <2>4 DEF WaitsFor, KeyBusy, HoldsKey
    <3> QED
      BY <1>2, <3>1
  <2> QED
    BY <1>1, <2>3, <2>4
<1>4. T \subseteq Wanted
  BY <1>2 DEF Wanted
<1>5. PICK x \in T : \A y \in T : y <= x
  BY <1>3, <1>4 DEF OrderInv, HasLast
<1>6. PICK r \in S : pc[r] = "rows" /\ want[r] # {} /\ x = NextRow(r)
  BY <1>5
<1>7. PICK q \in S : x \in DOMAIN snap[q]
  BY <1>6 DEF WaitsFor, RowBusy
<1>8. pc[q] = "rows"
  BY <1>1, <1>7 DEF LockInv, SessionOK
<1>9. NextRow(q) \in T /\ x < NextRow(q)
  BY <1>2, <1>7, <1>8 DEF OrderInv, RowsOrdered
<1>10. NextRow(q) \in Nat /\ x \in Nat
  BY <1>5, <1>9, AccountAssumption
<1> QED
  BY <1>5, <1>9, <1>10

\* However many requests wait for keys and rows, some request among them waits for none of
\* them: PostgreSQL never finds a deadlock.
THEOREM NoDeadlock == Spec => []NoWaitCycle
<1>1. Init => OrderInv
  <2> SUFFICES ASSUME Init PROVE OrderInv
    OBVIOUS
  <2>1. Wanted = {} /\ \A r \in Request : want[r] = {}
    BY DEF Init, Wanted
  <2> QED
    BY <2>1 DEF OrderInv, RowsOrdered, HasLast
<1>2. (LockInv /\ BooksInv) /\ OrderInv /\ [Next]_vars => OrderInv'
  BY NextOrder
<1>3. (LockInv /\ BooksInv) /\ OrderInv => NoWaitCycle
  BY OrderedRowsUnblock
<1> QED
  BY <1>1, <1>2, <1>3, BooksCorrect, PTL DEF Spec

-----------------------------------------------------------------------------
\* Balances and entries

\* The sum of the amounts of some entries, of none and of one.
AmountOf(S) == MapThenSumSet(LAMBDA e : e.amount, S)

LEMMA AmountOfNoneAndOne ==
  /\ AmountOf({}) = 0
  /\ \A e : e.amount \in Int => AmountOf({e}) = e.amount
<1> DEFINE Eqn(g, S) == g = [T \in SUBSET S |->
                               IF T = {} THEN 0
                               ELSE LET x == CHOOSE x \in T : TRUE IN x.amount + g[T \ {x}]]
<1>1. ASSUME NEW S PROVE AmountOf(S) = (CHOOSE g : Eqn(g, S))[S]
  BY Zenon DEF AmountOf, MapThenSumSet, MapThenFoldSet
<1>2. AmountOf({}) = 0
  <2>1. Eqn([T \in SUBSET {} |-> 0], {})
    OBVIOUS
  <2>2. Eqn(CHOOSE g : Eqn(g, {}), {})
    BY <2>1, Zenon
  <2> DEFINE it == CHOOSE g : Eqn(g, {})
  <2> HIDE DEF it
  <2>3. it[{}] = 0
    BY <2>2 DEF it
  <2> QED
    BY <1>1, <2>3 DEF it
<1>3. ASSUME NEW e, e.amount \in Int PROVE AmountOf({e}) = e.amount
  <2> DEFINE s == {e}
             k == [T \in SUBSET s |-> IF T = {} THEN 0 ELSE e.amount]
  <2>1. ASSUME NEW T \in SUBSET s, T # {}
        PROVE  (CHOOSE x \in T : TRUE) = e /\ T \ {e} = {}
    <3>1. T = {e}
      BY <2>1
    <3>2. (CHOOSE x \in {e} : TRUE) = e
      OBVIOUS
    <3> QED
      BY <3>1, <3>2
  <2>2. Eqn(k, s)
    <3>1. {} \in SUBSET s /\ k[{}] = 0
      OBVIOUS
    <3>2. ASSUME NEW T \in SUBSET s, T # {}
          PROVE  LET x == CHOOSE x \in T : TRUE IN x.amount + k[T \ {x}] = e.amount
      BY <1>3, <2>1, <3>1, <3>2
    <3> QED
      BY <3>2
  <2> HIDE DEF k
  <2>3. Eqn(CHOOSE g : Eqn(g, s), s)
    BY <2>2, Zenon
  <2> DEFINE it == CHOOSE g : Eqn(g, s)
  <2> HIDE DEF it
  <2>4. it = [T \in SUBSET s |-> IF T = {} THEN 0
                                 ELSE LET x == CHOOSE x \in T : TRUE IN x.amount + it[T \ {x}]]
    BY <2>3 DEF it
  <2>5. it[{}] = 0
    BY <2>4
  <2>6. s \in SUBSET s /\ s # {} /\ (CHOOSE x \in s : TRUE) = e /\ s \ {e} = {}
    BY <2>1
  <2>7. it[s] = e.amount + it[s \ {e}]
    BY <2>4, <2>6
  <2>8. it[s] = e.amount
    BY <1>3, <2>5, <2>6, <2>7
  <2>9. AmountOf(s) = it[s]
    BY <1>1, Zenon DEF it
  <2> QED
    BY <2>8, <2>9
<1> QED
  BY <1>2, <1>3

\* The entries of an account that a step adds.
NewEntries(a) == {e \in entries' \ entries : e.account = a}

LEMMA CommitMovesBalances ==
  ASSUME LockInv, NEW r \in Request, CommitOk(r), NEW a \in DOMAIN accounts
  PROVE  accounts'[a].balance - accounts[a].balance = AmountOf(NewEntries(a))
<1> DEFINE c == Cmd(r)
           t == Len(transfers) + 1
           x == [transfer |-> t, account |-> c.source, amount |-> -c.amount]
           y == [transfer |-> t, account |-> c.destination, amount |-> c.amount]
<1>1. /\ c.source # c.destination /\ c.amount \in Nat
      /\ accounts' = [b \in DOMAIN accounts |->
            IF b = c.source
            THEN [currency |-> c.currency, balance |-> accounts[b].balance - c.amount]
            ELSE IF b = c.destination
            THEN [currency |-> c.currency, balance |-> accounts[b].balance + c.amount]
            ELSE accounts[b]]
  BY CommitEffect
<1>2. accounts[a].balance \in Int
  BY DEF LockInv, TypeOK, IsTable, StoredRow
<1>3. x \notin entries /\ y \notin entries
  BY DEF LockInv, TypeOK
<1>4. entries' = entries \cup {x, y}
  BY DEF CommitOk
<1>5. /\ x.account = c.source /\ x.amount = -c.amount
      /\ y.account = c.destination /\ y.amount = c.amount
  OBVIOUS
<1> HIDE DEF c, t, x, y
<1>6. entries' \ entries = {x, y}
  BY <1>3, <1>4
<1>7. CASE a = c.source
  <2>1. NewEntries(a) = {x}
    BY <1>1, <1>5, <1>6, <1>7 DEF NewEntries
  <2>2. AmountOf({x}) = -c.amount
    BY <1>1, <1>5, AmountOfNoneAndOne
  <2>3. accounts'[a].balance = accounts[a].balance - c.amount
    BY <1>1, <1>7
  <2> QED
    BY <1>1, <1>2, <2>1, <2>2, <2>3
<1>8. CASE a = c.destination
  <2>1. NewEntries(a) = {y}
    BY <1>1, <1>5, <1>6, <1>8 DEF NewEntries
  <2>2. AmountOf({y}) = c.amount
    BY <1>1, <1>5, AmountOfNoneAndOne
  <2>3. accounts'[a].balance = accounts[a].balance + c.amount
    BY <1>1, <1>8
  <2> QED
    BY <1>1, <1>2, <2>1, <2>2, <2>3
<1>9. CASE a # c.source /\ a # c.destination
  <2>1. NewEntries(a) = {}
    BY <1>5, <1>6, <1>9 DEF NewEntries
  <2>2. accounts'[a].balance = accounts[a].balance
    BY <1>1, <1>9
  <2> QED
    BY <1>2, <2>1, <2>2, AmountOfNoneAndOne
<1> QED
  BY <1>7, <1>8, <1>9

\* The balance of every account moves by exactly the entries that a transaction adds for it,
\* however many requests read and write the same rows.
THEOREM BalancesAlwaysFollow == Spec => BalancesFollowEntries
<1> DEFINE Follow == \A a \in DOMAIN accounts :
                        /\ accounts'[a].currency = accounts[a].currency
                        /\ accounts'[a].balance - accounts[a].balance = AmountOf(NewEntries(a))
<1>1. LockInv /\ BooksInv /\ [Next]_vars => [Follow]_vars
  <2> SUFFICES ASSUME LockInv, BooksInv, [Next]_vars, NEW a \in DOMAIN accounts
               PROVE  /\ accounts'[a].currency = accounts[a].currency
                      /\ accounts'[a].balance - accounts[a].balance = AmountOf(NewEntries(a))
    OBVIOUS
  <2>1. accounts'[a].currency = accounts[a].currency
    BY AccountsStay DEF BooksInv
  <2>2. CASE \E r \in Request : CommitOk(r)
    BY <2>1, <2>2, CommitMovesBalances
  <2>3. CASE \A r \in Request : ~CommitOk(r)
    <3>1. accounts'[a] = accounts[a]
      BY <2>3, OnlyCommitMoves DEF BooksInv, Bind
    <3>2. NewEntries(a) = {}
      BY <2>3, OnlyCommitPosts DEF NewEntries
    <3>3. accounts[a].balance \in Int
      BY DEF LockInv, TypeOK, IsTable, StoredRow
    <3> QED
      BY <2>1, <3>1, <3>2, <3>3, AmountOfNoneAndOne
  <2> QED
    BY <2>2, <2>3
<1>2. Follow <=> \A a \in DOMAIN accounts :
          /\ accounts'[a].currency = accounts[a].currency
          /\ accounts'[a].balance - accounts[a].balance =
                MapThenSumSet(LAMBDA e : e.amount, {e \in entries' \ entries : e.account = a})
  BY Zenon DEF AmountOf, NewEntries
<1>3. Spec => [][Follow]_vars
  BY <1>1, BooksCorrect, PTL DEF Spec
<1> HIDE DEF Follow
<1> QED
  BY <1>2, <1>3, PTL DEF BalancesFollowEntries

-----------------------------------------------------------------------------
\* Statements

StampOf == [e \in entries |-> transfers[e.transfer].created_at]
Amounts(s, n) == [i \in 1 .. n |-> s[i].amount]

\* An account of the start is never closed, and s is a list of its entries by which its
\* balance came about, without an overdraft on the way.
AddUp(a, s, n) ==
    /\ \A m \in 1 .. n : InitialAccounts[a].balance + SumSeq(Amounts(s, m)) \in 0 .. MaxBalance
    /\ InitialAccounts[a].balance + SumSeq(Amounts(s, n)) = accounts[a].balance

Accounted(a) ==
    /\ a \in DOMAIN accounts
    /\ \E s : Increasing(s, Own(a), StampOf) /\ AddUp(a, s, Cardinality(Own(a)))

EntriesOK ==
    /\ IsFiniteSet(entries)
    /\ \A e \in entries : e.account \in Ends(transfers[e.transfer])

ReconcileInv == EntriesOK /\ \A a \in DOMAIN InitialAccounts : Accounted(a)

\* What the entries of a commit are.
LEMMA CommitEntries ==
  ASSUME LockInv, NEW r \in Request, CommitOk(r)
  PROVE  LET c == Cmd(r)
             t == Len(transfers) + 1
             x == [transfer |-> t, account |-> c.source, amount |-> -c.amount]
             y == [transfer |-> t, account |-> c.destination, amount |-> c.amount]
         IN  /\ entries' = entries \cup {x, y} /\ x \notin entries /\ y \notin entries
             /\ \A a : Own(a)' = IF a = c.source THEN Own(a) \cup {x}
                                ELSE IF a = c.destination THEN Own(a) \cup {y}
                                ELSE Own(a)
             /\ \A e \in entries : e.transfer \in 1 .. Len(transfers) /\ e.amount \in Int
                                   /\ transfers'[e.transfer] = transfers[e.transfer]
             /\ Ends(transfers'[t]) = {c.source, c.destination}
             /\ transfers'[t].created_at = stamp[r]
<1> DEFINE c == Cmd(r)
           t == Len(transfers) + 1
           x == [transfer |-> t, account |-> c.source, amount |-> -c.amount]
           y == [transfer |-> t, account |-> c.destination, amount |-> c.amount]
<1>1. /\ c.source # c.destination
      /\ \A i \in 1 .. Len(transfers) : transfers'[i] = transfers[i]
      /\ transfers'[t] = [source |-> c.source, destination |-> c.destination, amount |-> c.amount,
                          currency |-> c.currency, created_at |-> stamp[r]]
  BY CommitEffect
<1>2. \A e \in entries : e.transfer \in 1 .. Len(transfers) /\ e.amount \in Int
  BY DEF LockInv, TypeOK
<1>3. x.transfer = t /\ y.transfer = t /\ x.account = c.source /\ y.account = c.destination
  OBVIOUS
<1>4. x \notin entries /\ y \notin entries
  <2>1. t \notin 1 .. Len(transfers)
    BY DEF LockInv, TypeOK
  <2> HIDE DEF t, x, y
  <2> QED
    BY <1>2, <1>3, <2>1
<1>5. entries' = entries \cup {x, y}
  BY DEF CommitOk
<1>6. Ends(transfers'[t]) = {c.source, c.destination} /\ transfers'[t].created_at = stamp[r]
  BY <1>1 DEF Ends
<1> HIDE DEF c, t, x, y
<1>7. \A a : Own(a)' = {e \in entries' : e.account = a}
  BY DEF Own
<1>8. ASSUME NEW a
      PROVE  Own(a)' = IF a = c.source THEN Own(a) \cup {x}
                       ELSE IF a = c.destination THEN Own(a) \cup {y}
                       ELSE Own(a)
  <2>1. Own(a)' = {e \in entries \cup {x, y} : e.account = a}
    BY <1>5, <1>7
  <2>2. CASE a = c.source
    BY <1>1, <1>3, <2>1, <2>2 DEF Own
  <2>3. CASE a = c.destination
    BY <1>1, <1>3, <2>1, <2>3 DEF Own
  <2>4. CASE a # c.source /\ a # c.destination
    BY <1>3, <2>1, <2>4 DEF Own
  <2> QED
    BY <1>1, <2>2, <2>3, <2>4
<1>9. \A e \in entries : e.transfer \in 1 .. Len(transfers) /\ e.amount \in Int
                         /\ transfers'[e.transfer] = transfers[e.transfer]
  BY <1>1, <1>2
<1> QED
  BY ONLY <1>4, <1>5, <1>6, <1>8, <1>9, Zenon DEF c, t, x, y

\* An entry that is later than all others of its account, and brings the balance to what is
\* allowed, keeps the account accounted for.
LEMMA EntryAccounted ==
  ASSUME NEW a, InitialAccounts[a].balance \in Int, IsFiniteSet(Own(a)),
         \A z \in Own(a) : z.amount \in Int,
         Accounted(a), NEW e, e \notin Own(a), e.amount \in Int, Own(a)' = Own(a) \cup {e},
         \A z \in Own(a) : StampOf'[z] = StampOf[z] /\ StampOf'[z] < StampOf'[e],
         a \in DOMAIN accounts', accounts'[a].balance = accounts[a].balance + e.amount,
         accounts'[a].balance \in 0 .. MaxBalance
  PROVE  Accounted(a)'
<1> DEFINE own == Own(a)
           n == Cardinality(own)
           own1 == own \cup {e}
           stamp0 == StampOf
           stamp1 == StampOf'
           bal == InitialAccounts[a].balance
<1>1. PICK s : Increasing(s, own, stamp0) /\ AddUp(a, s, n)
  BY DEF Accounted
<1> DEFINE r == [i \in 1 .. n + 1 |-> IF i = n + 1 THEN e ELSE s[i]]
<1>0. /\ IsFiniteSet(own) /\ e \notin own /\ \A x \in own : stamp1[x] = stamp0[x] /\ stamp1[x] < stamp1[e]
      /\ \A x \in own : x.amount \in Int
  OBVIOUS
<1> HIDE DEF own, stamp0, stamp1
<1>2. n \in Nat /\ Cardinality(own1) = n + 1 /\ Increasing(r, own1, stamp1)
  BY ONLY <1>0, <1>1, IncreasingExtended
<1>n. n \in Nat
  BY <1>2
<1>3. \A i \in 1 .. n : s[i].amount \in Int
  BY <1>0, <1>1 DEF Increasing, Bijection, Injection
<1> HIDE DEF n
<1>4. /\ \A m \in 1 .. n : bal + SumSeq(Amounts(s, m)) \in 0 .. MaxBalance
      /\ bal + SumSeq(Amounts(s, n)) = accounts[a].balance
  BY <1>1 DEF AddUp
<1>5. \A m \in 0 .. n : Amounts(r, m) = Amounts(s, m)
  <2> SUFFICES ASSUME NEW m \in 0 .. n PROVE Amounts(r, m) = Amounts(s, m)
    OBVIOUS
  <2>1. \A i \in 1 .. m : i \in 1 .. n + 1 /\ i # n + 1
    BY ONLY <1>n, m \in 0 .. n
  <2>2. \A i \in 1 .. m : r[i] = s[i]
    BY <2>1
  <2> HIDE DEF r
  <2> QED
    BY <2>2 DEF Amounts
<1>6. Amounts(r, n + 1) = Append(Amounts(s, n), e.amount) /\ Amounts(s, n) \in Seq(Int)
  <2>1. /\ n + 1 \in 1 .. n + 1
        /\ \A i \in 1 .. n + 1 : i \in 1 .. n \/ i = n + 1
        /\ \A i \in 1 .. n : i \in 1 .. n + 1 /\ i # n + 1
    BY ONLY <1>n
  <2>2. r[n + 1] = e /\ \A i \in 1 .. n : r[i] = s[i]
    BY <2>1
  <2> HIDE DEF r
  <2> DEFINE q == Amounts(s, n)
             p == Amounts(r, n + 1)
  <2>3. q \in [1 .. n -> Int] /\ \A i \in 1 .. n : q[i] = s[i].amount
    BY <1>3 DEF Amounts
  <2>4. p \in [1 .. n + 1 -> Int] /\ p[n + 1] = e.amount /\ \A i \in 1 .. n : p[i] = s[i].amount
    BY <1>3, <2>1, <2>2 DEF Amounts
  <2> HIDE DEF p, q
  <2>5. q \in Seq(Int) /\ Len(q) = n /\ p \in Seq(Int) /\ Len(p) = n + 1
    BY ONLY <1>n, <2>3, <2>4
  <2>6. p = Append(q, e.amount)
    BY ONLY <1>n, <2>1, <2>3, <2>4, <2>5, e.amount \in Int
  <2> QED
    BY <2>5, <2>6 DEF p, q
<1>7. /\ SumSeq(Amounts(s, n)) \in Int
      /\ SumSeq(Amounts(r, n + 1)) = SumSeq(Amounts(s, n)) + e.amount
  BY <1>6, SumAppended
<1>8. bal + SumSeq(Amounts(r, n + 1)) = accounts'[a].balance
  BY <1>4, <1>7
<1>9. ASSUME NEW m \in 1 .. n + 1 PROVE bal + SumSeq(Amounts(r, m)) \in 0 .. MaxBalance
  <2>1. CASE m = n + 1
    BY <1>8, <2>1
  <2>2. CASE m # n + 1
    <3>1. m \in 1 .. n /\ m \in 0 .. n
      BY ONLY <1>n, <2>2, m \in 1 .. n + 1
    <3> QED
      BY <1>4, <1>5, <3>1
  <2> QED
    BY <2>1, <2>2
<1> HIDE DEF r, own1
<1>10. \E z : /\ Increasing(z, own1, stamp1)
              /\ \A m \in 1 .. n + 1 : bal + SumSeq(Amounts(z, m)) \in 0 .. MaxBalance
              /\ bal + SumSeq(Amounts(z, n + 1)) = accounts'[a].balance
  BY <1>2, <1>8, <1>9
<1> HIDE DEF bal
<1>11. Own(a)' = own1 /\ StampOf' = stamp1 /\ Cardinality(own1) = n + 1
  BY <1>2 DEF own, own1, stamp1
<1>12. \A z : AddUp(a, z, Cardinality(Own(a)))' <=>
           /\ \A m \in 1 .. Cardinality(Own(a)') : bal + SumSeq(Amounts(z, m)) \in 0 .. MaxBalance
           /\ bal + SumSeq(Amounts(z, Cardinality(Own(a)'))) = accounts'[a].balance
  BY Zenon DEF AddUp, bal
<1> QED
  BY <1>10, <1>11, <1>12, Zenon DEF Accounted

LEMMA NextReconcile ==
  ASSUME LockInv, BooksInv, BooksInv', ReconcileInv, [Next]_vars
  PROVE  ReconcileInv'
<1>0. EntriesOK /\ \A a \in DOMAIN InitialAccounts : Accounted(a)
  BY DEF ReconcileInv
<1>1. CASE \A r \in Request : ~CommitOk(r)
  <2>1. UNCHANGED <<transfers, entries>>
    BY <1>1, OnlyCommitPosts
  <2>2. EntriesOK'
    BY <1>0, <2>1 DEF EntriesOK
  <2>3. ASSUME NEW a \in DOMAIN InitialAccounts PROVE Accounted(a)'
    <3>1. Accounted(a) /\ a \in DOMAIN accounts
      BY <1>0 DEF Accounted
    <3>2. a \in DOMAIN accounts' /\ accounts'[a] = accounts[a]
      BY <1>1, <3>1, OnlyCommitMoves DEF BooksInv, Bind
    <3>3. Own(a)' = Own(a) /\ StampOf' = StampOf
      BY <2>1 DEF Own, StampOf
    <3> QED
      BY <3>1, <3>2, <3>3, Zenon DEF Accounted, AddUp
  <2> QED
    BY <2>2, <2>3 DEF ReconcileInv
<1>2. ASSUME NEW r \in Request, CommitOk(r) PROVE ReconcileInv'
  <2> DEFINE c == Cmd(r)
             t == Len(transfers) + 1
             x == [transfer |-> t, account |-> c.source, amount |-> -c.amount]
             y == [transfer |-> t, account |-> c.destination, amount |-> c.amount]
  <2>1. /\ entries' = entries \cup {x, y} /\ x \notin entries /\ y \notin entries
        /\ \A a : Own(a)' = IF a = c.source THEN Own(a) \cup {x}
                            ELSE IF a = c.destination THEN Own(a) \cup {y}
                            ELSE Own(a)
        /\ \A e \in entries : e.transfer \in 1 .. Len(transfers) /\ e.amount \in Int
                              /\ transfers'[e.transfer] = transfers[e.transfer]
        /\ Ends(transfers'[t]) = {c.source, c.destination}
        /\ transfers'[t].created_at = stamp[r]
    BY <1>2, CommitEntries
  <2>2. /\ c.source # c.destination /\ c.amount \in Nat
        /\ DOMAIN snap[r] = {c.source, c.destination}
        /\ accounts' = [a \in DOMAIN accounts |->
              IF a = c.source
              THEN [currency |-> c.currency, balance |-> accounts[a].balance - c.amount]
              ELSE IF a = c.destination
              THEN [currency |-> c.currency, balance |-> accounts[a].balance + c.amount]
              ELSE accounts[a]]
    BY <1>2, CommitEffect
  <2>3. \A i \in 1 .. Len(transfers) :
           Ends(transfers[i]) \cap DOMAIN snap[r] # {} => transfers[i].created_at < stamp[r]
    BY <1>2 DEF CommitOk, BooksInv, StampsOK
  <2>4. /\ x.transfer = t /\ x.account = c.source /\ x.amount = -c.amount
        /\ y.transfer = t /\ y.account = c.destination /\ y.amount = c.amount
    OBVIOUS
  <2> HIDE DEF c, t, x, y
  <2>5. EntriesOK'
    <3>1. IsFiniteSet(entries')
      <4>1. IsFiniteSet(entries \cup {x})
        BY <1>0, FS_AddElement DEF EntriesOK
      <4>2. IsFiniteSet((entries \cup {x}) \cup {y})
        BY <4>1, FS_AddElement
      <4>3. entries' = (entries \cup {x}) \cup {y}
        BY <2>1
      <4> QED
        BY <4>2, <4>3
    <3>2. ASSUME NEW e \in entries PROVE e.account \in Ends(transfers'[e.transfer])
      BY <1>0, <2>1 DEF EntriesOK
    <3>3. x.account \in Ends(transfers'[x.transfer]) /\ y.account \in Ends(transfers'[y.transfer])
      BY <2>1, <2>4
    <3> QED
      BY <2>1, <3>1, <3>2, <3>3 DEF EntriesOK
  <2>6. \A e \in entries : StampOf[e] = transfers[e.transfer].created_at /\ StampOf'[e] = StampOf[e]
    <3>1. StampOf' = [e \in entries' |-> transfers'[e.transfer].created_at]
      BY DEF StampOf
    <3>2. \A e \in entries : e \in entries'
      BY <2>1
    <3> QED
      BY <2>1, <3>1, <3>2 DEF StampOf
  <2>7. StampOf'[x] = stamp[r] /\ StampOf'[y] = stamp[r]
    BY <2>1, <2>4 DEF StampOf
  <2>8. ASSUME NEW a \in DOMAIN InitialAccounts, NEW e \in {x, y}, a = e.account
        PROVE  Accounted(a)'
    <3>1. Accounted(a) /\ a \in DOMAIN accounts /\ InitialAccounts[a].balance \in Int
      BY <1>0, InitialAssumption DEF Accounted, IsTable, AccountRow
    <3>2. IsFiniteSet(Own(a)) /\ Own(a) \subseteq entries
      BY <1>0, FS_Subset DEF Own, EntriesOK
    <3>3. e \notin Own(a) /\ Own(a)' = Own(a) \cup {e}
      BY <2>1, <2>2, <2>4, <2>8, <3>2
    <3>4. a \in DOMAIN accounts' /\ accounts[a].balance \in Int
      BY <2>2, <3>1 DEF LockInv, TypeOK, IsTable, StoredRow
    <3>5. e.amount \in Int /\ accounts'[a].balance = accounts[a].balance + e.amount
      BY <2>2, <2>4, <2>8, <3>1, <3>4
    <3>6. accounts'[a].balance \in 0 .. MaxBalance
      BY <3>4 DEF BooksInv, BalancesInColumn
    <3>7. ASSUME NEW z \in Own(a)
          PROVE  StampOf'[z] = StampOf[z] /\ StampOf'[z] < StampOf'[e] /\ z.amount \in Int
      <4>1. z \in entries /\ z.account = a
        BY DEF Own
      <4>2. a \in Ends(transfers[z.transfer]) /\ z.transfer \in 1 .. Len(transfers)
        BY <1>0, <2>1, <4>1 DEF EntriesOK
      <4>3. a \in DOMAIN snap[r]
        BY <2>2, <2>4, <2>8
      <4>4. transfers[z.transfer].created_at < stamp[r]
        BY <2>3, <4>2, <4>3
      <4> QED
        BY <2>1, <2>6, <2>7, <2>8, <4>1, <4>4
    <3> QED
      BY ONLY <3>1, <3>2, <3>3, <3>4, <3>5, <3>6, <3>7, EntryAccounted
  <2>9. ASSUME NEW a \in DOMAIN InitialAccounts, a # c.source, a # c.destination
        PROVE  Accounted(a)'
    <3>1. Accounted(a) /\ a \in DOMAIN accounts
      BY <1>0 DEF Accounted
    <3>2. a \in DOMAIN accounts' /\ accounts'[a] = accounts[a]
      BY <2>2, <2>9, <3>1
    <3>3. Own(a)' = Own(a)
      BY <2>1, <2>9
    <3>4. Own(a) \subseteq entries /\ IsFiniteSet(Own(a))
      BY <1>0, FS_Subset DEF Own, EntriesOK
    <3>5. \A s : Increasing(s, Own(a), StampOf) => Increasing(s, Own(a), StampOf')
      <4> SUFFICES ASSUME NEW s, Increasing(s, Own(a), StampOf) PROVE Increasing(s, Own(a), StampOf')
        OBVIOUS
      <4> DEFINE own == Own(a)
                 n == Cardinality(own)
      <4>1. s \in [1 .. n -> own]
        BY DEF Increasing, Bijection, Injection
      <4> HIDE DEF n
      <4>2. \A i \in 1 .. n : StampOf'[s[i]] = StampOf[s[i]]
        BY <2>6, <3>4, <4>1
      <4> QED
        BY <4>2 DEF Increasing, n
    <3> QED
      BY <3>1, <3>2, <3>3, <3>5, Zenon DEF Accounted, AddUp
  <2>10. \A a : a = c.source \/ a = c.destination \/ (a # c.source /\ a # c.destination)
    OBVIOUS
  <2>11. ASSUME NEW a \in DOMAIN InitialAccounts PROVE Accounted(a)'
    BY <2>4, <2>8, <2>9
  <2> QED
    BY <2>5, <2>11 DEF ReconcileInv
<1> QED
  BY <1>1, <1>2

LEMMA InitReconcile == Init => ReconcileInv
<1> SUFFICES ASSUME Init PROVE ReconcileInv
  OBVIOUS
<1>1. entries = {} /\ accounts = InitialAccounts
  BY DEF Init
<1>2. EntriesOK
  BY <1>1, FS_EmptySet DEF EntriesOK
<1>3. ASSUME NEW a \in DOMAIN InitialAccounts PROVE Accounted(a)
  <2> DEFINE s == [i \in {} |-> 0]
  <2>1. Own(a) = {} /\ Cardinality(Own(a)) = 0 /\ 1 .. 0 = {}
    BY <1>1, FS_EmptySet DEF Own
  <2>2. Increasing(s, Own(a), StampOf)
    <3>1. s \in [{} -> {}]
      OBVIOUS
    <3> HIDE DEF s
    <3> QED
      BY <2>1, <3>1 DEF Increasing, Bijection, Injection, Surjection, IsInjective
  <2> HIDE DEF s
  <2>3. Amounts(s, 0) = <<>>
    BY <2>1 DEF Amounts
  <2>4. InitialAccounts[a].balance \in Int
    BY InitialAssumption DEF IsTable, AccountRow
  <2>5. AddUp(a, s, 0)
    BY <1>1, <2>1, <2>3, <2>4, SumAppended DEF AddUp
  <2> QED
    BY <1>1, <2>1, <2>2, <2>5 DEF Accounted
<1> QED
  BY <1>2, <1>3 DEF ReconcileInv

\* The stamps are instants, and an entry has that of its transfer.
LEMMA TransferStamped ==
  ASSUME LockInv, NEW t \in 1 .. Len(transfers)
  PROVE  transfers[t].created_at \in Nat
<1> DEFINE T == [source : Account, destination : Account, amount : Nat,
                 currency : Currency, created_at : Nat]
<1>1. transfers \in Seq(T)
  BY DEF LockInv, TypeOK
<1>2. \A z \in T : z.created_at \in Nat
  OBVIOUS
<1> HIDE DEF T
<1>3. \A i \in 1 .. Len(transfers) : transfers[i] \in T
  BY ONLY <1>1
<1> QED
  BY <1>2, <1>3

LEMMA StampsRead ==
  ASSUME LockInv, NEW e \in entries
  PROVE  /\ e.transfer \in 1 .. Len(transfers)
         /\ StampOf[e] = transfers[e.transfer].created_at /\ StampOf[e] \in Nat
<1>1. e.transfer \in 1 .. Len(transfers)
  BY DEF LockInv, TypeOK
<1> QED
  BY <1>1, TransferStamped DEF StampOf

\* A statement is the list of its entries that increases in created_at, if there is one.
LEMMA StatementIsList ==
  ASSUME LockInv, EntriesOK, NEW a, NEW s, Increasing(s, Own(a), StampOf)
  PROVE  LET n == Cardinality(Own(a))
         IN  /\ n \in Nat /\ s \in [1 .. n -> Own(a)] /\ Statement(a) = s
             /\ \A e \in Own(a) : StampOf[e] = transfers[e.transfer].created_at /\ StampOf[e] \in Nat
<1> DEFINE own == Own(a)
           n == Cardinality(own)
           k == [e \in own |-> StampOf[e]]
<1>1. IsFiniteSet(own) /\ own \subseteq entries
  BY FS_Subset DEF Own, EntriesOK
<1>2. \A e \in own : StampOf[e] = transfers[e.transfer].created_at /\ StampOf[e] \in Nat
  BY <1>1, StampsRead
<1>n. n \in Nat
  BY <1>1, FS_CardinalityType
<1> HIDE DEF own
<1>4. s \in Bijection(1 .. n, own) /\ s \in [1 .. n -> own]
  BY DEF Increasing, Bijection, Injection, own
<1>5. Increasing(s, own, k)
  <2>1. \A i \in 1 .. n : k[s[i]] = StampOf[s[i]]
    BY <1>4
  <2> QED
    BY <2>1 DEF Increasing, own
<1>6. Sorted(Statement(a), own, k)
  <2> DEFINE In(z) == \A i, j \in DOMAIN z :
                         i < j => transfers[z[i].transfer].created_at <= transfers[z[j].transfer].created_at
             st == CHOOSE z \in Bijection(1 .. n, own) : In(z)
  <2>1. In(s)
    <3> SUFFICES ASSUME NEW i \in 1 .. n, NEW j \in 1 .. n, i < j
                 PROVE  transfers[s[i].transfer].created_at <= transfers[s[j].transfer].created_at
      BY <1>4
    <3>1. k[s[i]] < k[s[j]]
      BY <1>5 DEF Increasing
    <3>2. s[i] \in own /\ s[j] \in own
      BY <1>4
    <3> QED
      BY <1>2, <3>1, <3>2
  <2> HIDE DEF n
  <2>2. Statement(a) = st
    BY Zenon DEF Statement, own, n
  <2>3. st \in Bijection(1 .. n, own) /\ In(st)
    <3> HIDE DEF In
    <3> QED
      BY <1>4, <2>1, Zenon
  <2> HIDE DEF st
  <2>4. st \in [1 .. n -> own] /\ DOMAIN st = 1 .. n
    BY <2>3 DEF Bijection, Injection
  <2>5. \A i, j \in 1 .. n : i < j => k[st[i]] <= k[st[j]]
    BY <1>2, <2>3, <2>4
  <2> QED
    BY <2>2, <2>3, <2>5 DEF Sorted, n
<1>7. Statement(a) = s
  <2>1. k \in [own -> Int]
    BY <1>2
  <2> HIDE DEF k
  <2> QED
    BY <1>1, <1>5, <1>6, <2>1, IncreasingIsOnly
<1> QED
  BY <1>n, <1>2, <1>4, <1>7 DEF own

\* The statement of an account, added up from its opening balance, explains its balance at
\* every moment, and shows no overdraft on the way, whatever the order of the commits.
THEOREM StatementsAlwaysReconcile == Spec => []StatementsReconcile
<1>1. LockInv /\ BooksInv /\ ReconcileInv => StatementsReconcile
  <2> SUFFICES ASSUME LockInv, ReconcileInv, NEW a \in DOMAIN InitialAccounts
               PROVE  /\ \A n \in 1 .. Len(Statement(a)) : RunningBalance(a, n) \in 0 .. MaxBalance
                      /\ RunningBalance(a, Len(Statement(a))) = accounts[a].balance
    BY DEF StatementsReconcile
  <2> DEFINE n == Cardinality(Own(a))
  <2>1. PICK s : Increasing(s, Own(a), StampOf) /\ AddUp(a, s, n)
    BY DEF ReconcileInv, Accounted
  <2>2. n \in Nat /\ s \in [1 .. n -> Own(a)] /\ Statement(a) = s
    BY <2>1, StatementIsList DEF ReconcileInv
  <2> HIDE DEF n
  <2>3. Len(Statement(a)) = n
    BY <2>2
  <2>4. \A m : RunningBalance(a, m) = InitialAccounts[a].balance + SumSeq(Amounts(s, m))
    BY <2>2, Zenon DEF RunningBalance, SumSeq, Amounts
  <2> QED
    BY <2>1, <2>3, <2>4 DEF AddUp
<1>2. LockInv /\ BooksInv /\ (LockInv /\ BooksInv)' /\ ReconcileInv /\ [Next]_vars => ReconcileInv'
  BY NextReconcile
<1> QED
  BY <1>1, <1>2, InitReconcile, BooksCorrect, PTL DEF Spec

=============================================================================
