-------------------------- MODULE TransferService --------------------------
(***************************************************************************)
(* MoneyMovementService over its PostgreSQL unit of work: transfers and    *)
(* account openings of concurrent clients, each inside one READ COMMITTED  *)
(* transaction.  A transfer takes the advisory lock of its idempotency     *)
(* key, looks the key up, locks the account rows in the order of their     *)
(* identifiers, decides, and commits balances, transfer, entries, key and  *)
(* outbox event together.  A client may lose an answer, a transaction may  *)
(* die at any point, before its commit or after it took effect, and the    *)
(* pool may run dry; a client may then send the same request again.        *)
(***************************************************************************)
EXTENDS Books, SequencesExt

CONSTANTS
    Request,    \* the client requests that post transfers
    Opener,     \* the client requests that open accounts
    Slot,       \* the 64-bit values that keys are hashed to
    Hash,       \* hashtextextended: keys to slots, not necessarily injective
    Wording,    \* what a command says besides the posting (reference, spelling)
    Workload,   \* what the requests may ask for: assignments of a key and a command
    Openings,   \* what the openers may ask for: assignments of an account and its row
    UsableKey,  \* the keys of 1 to 128 characters that are not blank
    UsableWording,  \* the wordings whose reference has at most 140 characters
    PoolSize,   \* connections the engine hands out at a time
    MaxFaults   \* bound on lost answers, dead transactions and broken connections

Process == Request \cup Opener

\* CreateTransferCommand; an amount of 0 stands for those Money.from_value refuses.
Command == [source : Account, destination : Account, amount : Nat,
            currency : Currency, wording : Wording]

\* A row before the database has checked its balance.
StoredRow == [currency : Currency, balance : Int]

ASSUME RequestAssumption ==
    /\ Request \cap Opener = {}
    /\ Hash \in [Key -> Slot]
    /\ Workload \subseteq [Request -> [key : Key, command : Command]]
    /\ UsableKey \subseteq Key
    /\ UsableWording \subseteq Wording
    /\ Openings \subseteq [Opener -> [account : Account, row : StoredRow]]

ASSUME BoundAssumption == PoolSize \in Nat \ {0} /\ MaxFaults \in Nat

VARIABLES
    accounts,       \* table "accounts"
    transfers,      \* table "transfers", in the order of the commits
    entries,        \* table "ledger_entries"
    idempotency,    \* table "idempotency_records"
    outbox,         \* table "outbox_events": the transfers with an event
    pc,             \* where the handler of each client request is
    request,        \* the key and the command of each transfer request
    opening,        \* the account and the row of each opener
    want,           \* account rows that lock_accounts selected and has yet to lock
    snap,           \* account rows locked, with the snapshots taken of them
    stamp,          \* created_at of the transfer about to be committed
    answer,         \* the answer the client got
    clock,          \* the wall clock, in readings
    faults          \* lost answers, dead transactions and broken connections so far

tables == <<accounts, transfers, entries, idempotency, outbox>>
inputs == <<request, opening>>
session == <<want, snap, stamp>>
vars == <<tables, pc, inputs, session, answer, clock, faults>>

-----------------------------------------------------------------------------
\* Vocabulary

KeyOf(r) == request[r].key
Cmd(r) == request[r].command
Ends(c) == {c.source, c.destination}

\* Mutant: the two accounts are put in order before they are hashed.
FingerprintOfEnds(c) == [ends |-> Ends(c), amount |-> c.amount, currency |-> c.currency]

\* json.dumps of every field but the key; SHA-256 is taken to be injective.
Fingerprint(c) == c

\* The part of a command or of a transfer that the books are kept by.
PostingOf(x) == [source |-> x.source, destination |-> x.destination,
                 amount |-> x.amount, currency |-> x.currency]

NoAnswer == [status |-> "none", transfer |-> 0]
Refusal(status) == [status |-> status, transfer |-> 0]
Status == {"none", "created", "replayed", "conflict", "not_found", "invalid",
           "mismatch", "insufficient", "duplicate", "error", "unavailable"}

\* Mutant: the advisory lock is given back after the lookup.
HoldsKeyForLookup(r) == pc[r] = "lookup"

\* The handlers that hold a database connection, and an advisory lock.
InSession == {p \in Process : pc[p] \in {"key", "lookup", "select", "rows", "commit", "insert"}}
HoldsKey(r) == pc[r] \in {"lookup", "select", "rows", "commit"}

\* Mutant: no advisory lock.
KeyNeverBusy(r, q) == FALSE

\* Mutant: SELECT without FOR UPDATE.
RowNeverBusy(r, q, a) == FALSE

\* Mutant: the row locks are given back before the commit.
RowBusyUntilAccepted(r, q, a) == q # r /\ pc[q] = "rows" /\ a \in DOMAIN snap[q]

\* A request waits until no other one holds the slot of its key or the row a.
KeyBusy(r, q) == q # r /\ HoldsKey(q) /\ Hash[KeyOf(q)] = Hash[KeyOf(r)]
RowBusy(r, q, a) == q # r /\ a \in DOMAIN snap[q]

\* Mutant: the rows are locked as the command names them.
NextRowAsCommanded(r) ==
    IF Cmd(r).source \in want[r] THEN Cmd(r).source ELSE Cmd(r).destination

\* The row lock_accounts asks for next: ORDER BY account_id.
NextRow(r) == Min(want[r])

\* The balances the transfer of r leaves, from the snapshots it took.
Settled(r) ==
    LET c == Cmd(r)
    IN  [snap[r] EXCEPT ![c.source].balance = @ - c.amount,
                        ![c.destination].balance = @ + c.amount]

\* Mutant: the width of the column is not enforced.
CommitRefusedForKey(r) == KeyOf(r) \in DOMAIN idempotency

\* Does the unit of work refuse the rows of r: a used key, or a Numeric(20, 4) overflow.
CommitRefused(r) ==
    \/ KeyOf(r) \in DOMAIN idempotency
    \/ Settled(r)[Cmd(r).destination].balance > MaxBalance

Answers(p, a) ==
    /\ pc' = [pc EXCEPT ![p] = "answered"]
    /\ answer' = [answer EXCEPT ![p] = a]

\* One more fault, of those the bound allows.
Fault == faults < MaxFaults /\ faults' = faults + 1

\* The transaction of r ends, which releases its locks, with an answer for the client.
EndsWith(r, a) ==
    /\ Answers(r, a)
    /\ snap' = [snap EXCEPT ![r] = EmptyTable]
    /\ want' = [want EXCEPT ![r] = {}]
    /\ stamp' = [stamp EXCEPT ![r] = 0]

-----------------------------------------------------------------------------
\* create_transfer

Init ==
    /\ accounts = InitialAccounts
    /\ transfers = <<>>
    /\ entries = {}
    /\ idempotency = EmptyTable
    /\ outbox = {}
    /\ pc = [p \in Process |-> "idle"]
    /\ request \in Workload
    /\ opening \in Openings
    /\ want = [r \in Request |-> {}]
    /\ snap = [r \in Request |-> EmptyTable]
    /\ stamp = [r \in Request |-> 0]
    /\ answer = [p \in Process |-> NoAnswer]
    /\ clock = 0
    /\ faults = 0

\* A blank or an overlong key is refused before a transaction starts.
RefuseKey(r) ==
    /\ pc[r] = "idle"
    /\ KeyOf(r) \notin UsableKey
    /\ EndsWith(r, Refusal("invalid"))
    /\ UNCHANGED <<tables, inputs, clock, faults>>

\* The handler checks a connection out of the pool and asks for the advisory lock.
Send(r) ==
    /\ pc[r] = "idle"
    /\ KeyOf(r) \in UsableKey
    /\ Cardinality(InSession) < PoolSize
    /\ pc' = [pc EXCEPT ![r] = "key"]
    /\ UNCHANGED <<tables, inputs, session, answer, clock, faults>>

\* pg_advisory_xact_lock returns.
LockKey(r) ==
    /\ pc[r] = "key"
    /\ \A q \in Request : ~KeyBusy(r, q)
    /\ pc' = [pc EXCEPT ![r] = "lookup"]
    /\ UNCHANGED <<tables, inputs, session, answer, clock, faults>>

\* The key is known: the transfer is replayed, or the reuse is refused.
LookupFinds(r) ==
    /\ pc[r] = "lookup"
    /\ KeyOf(r) \in DOMAIN idempotency
    /\ LET known == idempotency[KeyOf(r)]
       IN  IF known.fingerprint = Fingerprint(Cmd(r))
           THEN EndsWith(r, [status |-> "replayed", transfer |-> known.transfer])
           ELSE EndsWith(r, Refusal("conflict"))
    /\ UNCHANGED <<tables, inputs, clock, faults>>

LookupMisses(r) ==
    /\ pc[r] = "lookup"
    /\ KeyOf(r) \notin DOMAIN idempotency
    /\ pc' = [pc EXCEPT ![r] = "select"]
    /\ UNCHANGED <<tables, inputs, session, answer, clock, faults>>

\* lock_accounts starts: the statement's snapshot fixes the rows that match.
SelectRows(r) ==
    /\ pc[r] = "select"
    /\ want' = [want EXCEPT ![r] = Ends(Cmd(r)) \cap DOMAIN accounts]
    /\ pc' = [pc EXCEPT ![r] = "rows"]
    /\ UNCHANGED <<tables, inputs, snap, stamp, answer, clock, faults>>

\* FOR UPDATE locks the next row and reads what its last writer committed.
LockRow(r) ==
    /\ pc[r] = "rows"
    /\ want[r] # {}
    /\ LET a == NextRow(r)
       IN  /\ \A q \in Request : ~RowBusy(r, q, a)
           /\ snap' = [snap EXCEPT ![r] = Bind(@, a, accounts[a])]
           /\ want' = [want EXCEPT ![r] = @ \ {a}]
    /\ UNCHANGED <<tables, pc, inputs, stamp, answer, clock, faults>>

\* list_ledger_entries: the entries of a, ORDER BY created_at.
Own(a) == {e \in entries : e.account = a}

Statement(a) ==
    CHOOSE s \in Bijection(1 .. Cardinality(Own(a)), Own(a)) :
        \A i, j \in DOMAIN s :
            i < j => transfers[s[i].transfer].created_at <= transfers[s[j].transfer].created_at

\* Mutant: a missing account gets a status that the API does not know.
VerdictUnknown(r) ==
    IF Ends(Cmd(r)) \subseteq DOMAIN snap[r] THEN "insufficient" ELSE "unknown_account"

\* The checks of create_transfer, Money.from_value and Transfer.request, in order.
Verdict(r) ==
    LET c == Cmd(r)
        rows == snap[r]
    IN  CASE ~(Ends(c) \subseteq DOMAIN rows)                     -> "not_found"
          [] c.amount = 0                                         -> "invalid"
          [] \E a \in Ends(c) : rows[a].currency # c.currency     -> "mismatch"
          [] rows[c.source].balance < c.amount                    -> "insufficient"
          [] c.source = c.destination
                \/ c.wording \notin UsableWording                 -> "invalid"
          [] OTHER                                                -> "none"

\* Mutant: the service tries a refused transfer again.
RefuseAndRetry(r) ==
    /\ pc[r] = "rows"
    /\ want[r] = {}
    /\ Verdict(r) # "none"
    /\ pc' = [pc EXCEPT ![r] = "key"]
    /\ snap' = [snap EXCEPT ![r] = EmptyTable]
    /\ UNCHANGED <<tables, inputs, want, stamp, answer, clock, faults>>

Refuse(r) ==
    /\ pc[r] = "rows"
    /\ want[r] = {}
    /\ Verdict(r) # "none"
    /\ EndsWith(r, Refusal(Verdict(r)))
    /\ UNCHANGED <<tables, inputs, clock, faults>>

\* Transfer.request stamps the transfer while both rows are locked.
Accept(r) ==
    /\ pc[r] = "rows"
    /\ want[r] = {}
    /\ Verdict(r) = "none"
    /\ clock' = clock + 1
    /\ stamp' = [stamp EXCEPT ![r] = clock + 1]
    /\ pc' = [pc EXCEPT ![r] = "commit"]
    /\ UNCHANGED <<tables, inputs, want, snap, answer, faults>>

\* Mutant: the event is left to a transaction of its own, and forgotten.
CommitWithoutEvent(r) ==
    /\ pc[r] = "commit"
    /\ ~CommitRefused(r)
    /\ LET c == Cmd(r)
           t == Len(transfers) + 1
       IN  /\ accounts' = [a \in DOMAIN accounts |->
                              IF a \in DOMAIN snap[r] THEN Settled(r)[a] ELSE accounts[a]]
           /\ transfers' = Append(transfers,
                [source |-> c.source, destination |-> c.destination,
                 amount |-> c.amount, currency |-> c.currency, created_at |-> stamp[r]])
           /\ idempotency' = Bind(idempotency, KeyOf(r),
                [fingerprint |-> Fingerprint(c), transfer |-> t])
           /\ EndsWith(r, [status |-> "created", transfer |-> t])
    /\ UNCHANGED <<entries, outbox, inputs, clock, faults>>

\* add_transfer and commit: every table is written in the same transaction.  When the
\* connection breaks before the commit is acknowledged, the client gets a 500 all the same.
CommitOk(r) ==
    /\ pc[r] = "commit"
    /\ ~CommitRefused(r)
    /\ LET c == Cmd(r)
           t == Len(transfers) + 1
       IN  /\ accounts' = [a \in DOMAIN accounts |->
                              IF a \in DOMAIN snap[r] THEN Settled(r)[a] ELSE accounts[a]]
           /\ transfers' = Append(transfers,
                [source |-> c.source, destination |-> c.destination,
                 amount |-> c.amount, currency |-> c.currency, created_at |-> stamp[r]])
           /\ entries' = entries \cup
                {[transfer |-> t, account |-> c.source, amount |-> -c.amount],
                 [transfer |-> t, account |-> c.destination, amount |-> c.amount]}
           /\ idempotency' = Bind(idempotency, KeyOf(r),
                [fingerprint |-> Fingerprint(c), transfer |-> t])
           /\ outbox' = outbox \cup {t}
           /\ \/ EndsWith(r, [status |-> "created", transfer |-> t]) /\ UNCHANGED faults
              \/ EndsWith(r, Refusal("unavailable")) /\ Fault
    /\ UNCHANGED <<inputs, clock>>

\* The database refuses a row: the exception escapes the service as a 500.
CommitFails(r) ==
    /\ pc[r] = "commit"
    /\ CommitRefused(r)
    /\ EndsWith(r, Refusal("error"))
    /\ UNCHANGED <<tables, inputs, clock, faults>>

Transact(r) ==
    \/ RefuseKey(r) \/ Send(r) \/ LockKey(r) \/ LookupFinds(r) \/ LookupMisses(r)
    \/ SelectRows(r) \/ LockRow(r) \/ Refuse(r) \/ Accept(r)
    \/ CommitOk(r) \/ CommitFails(r)

-----------------------------------------------------------------------------
\* create_account

\* A negative opening balance is refused before a transaction starts.
RefuseAccount(o) ==
    /\ pc[o] = "idle"
    /\ opening[o].row.balance < 0
    /\ Answers(o, Refusal("invalid"))
    /\ UNCHANGED <<tables, inputs, session, clock, faults>>

\* session.get: the handler looks whether the account exists, without a lock.
CheckAccount(o) ==
    /\ pc[o] = "idle"
    /\ opening[o].row.balance >= 0
    /\ Cardinality(InSession) < PoolSize
    /\ IF opening[o].account \in DOMAIN accounts
       THEN Answers(o, Refusal("duplicate"))
       ELSE pc' = [pc EXCEPT ![o] = "insert"] /\ UNCHANGED answer
    /\ UNCHANGED <<tables, inputs, session, clock, faults>>

\* Mutant: the insert replaces the row of a taken key.
InsertRefusedForWidth(o) == opening[o].row.balance > MaxBalance

\* Does the database refuse the row: the primary key is taken by now, or an overflow.
InsertRefused(o) ==
    \/ opening[o].account \in DOMAIN accounts
    \/ opening[o].row.balance > MaxBalance

\* The row is flushed and committed; the acknowledgement may be lost, as in CommitOk.
InsertAccount(o) ==
    /\ pc[o] = "insert"
    /\ IF InsertRefused(o)
       THEN Answers(o, Refusal("error")) /\ UNCHANGED <<accounts, faults>>
       ELSE /\ accounts' = Bind(accounts, opening[o].account, opening[o].row)
            /\ \/ Answers(o, Refusal("created")) /\ UNCHANGED faults
               \/ Answers(o, Refusal("unavailable")) /\ Fault
    /\ UNCHANGED <<transfers, entries, idempotency, outbox, inputs, session, clock>>

Open(o) == RefuseAccount(o) \/ CheckAccount(o) \/ InsertAccount(o)

-----------------------------------------------------------------------------
\* Faults, and the specification

\* The client never sees the answer, or sees a refusal or a 500, and asks again.
LoseAnswer(p) ==
    /\ pc[p] = "answered"
    /\ Fault
    /\ pc' = [pc EXCEPT ![p] = "idle"]
    /\ answer' = [answer EXCEPT ![p] = NoAnswer]
    /\ UNCHANGED <<tables, inputs, session, clock>>

\* The transaction dies before its commit and is rolled back: the client gets a 500, or
\* loses its own connection as well and asks again.
Abort(p) ==
    /\ p \in InSession
    /\ Fault
    /\ \/ Answers(p, Refusal("unavailable"))
       \/ pc' = [pc EXCEPT ![p] = "idle"] /\ UNCHANGED answer
    /\ snap' = [r \in Request |-> IF r = p THEN EmptyTable ELSE snap[r]]
    /\ want' = [r \in Request |-> IF r = p THEN {} ELSE want[r]]
    /\ stamp' = [r \in Request |-> IF r = p THEN 0 ELSE stamp[r]]
    /\ UNCHANGED <<tables, inputs, clock>>

\* A handler waits for a connection while all are in use, until the pool's timeout: a 500.
PoolTimesOut(p) ==
    /\ pc[p] = "idle"
    /\ \/ p \in Request /\ KeyOf(p) \in UsableKey
       \/ p \in Opener /\ opening[p].row.balance >= 0
    /\ Cardinality(InSession) >= PoolSize
    /\ Answers(p, Refusal("unavailable"))
    /\ UNCHANGED <<tables, inputs, session, clock, faults>>

Terminating ==
    /\ \A p \in Process : pc[p] = "answered"
    /\ UNCHANGED vars

Next ==
    \/ \E r \in Request : Transact(r)
    \/ \E o \in Opener : Open(o)
    \/ \E p \in Process : LoseAnswer(p) \/ Abort(p) \/ PoolTimesOut(p)
    \/ Terminating

Spec == Init /\ [][Next]_vars

\* PostgreSQL grants a free lock to a waiter, and every handler keeps running.
Fairness ==
    /\ \A r \in Request : WF_vars(Transact(r))
    /\ \A o \in Opener : WF_vars(Open(o))

FairSpec == Spec /\ Fairness

-----------------------------------------------------------------------------
\* Properties

TypeOK ==
    /\ IsTable(accounts, Account, StoredRow)
    /\ transfers \in Seq([source : Account, destination : Account, amount : Nat,
                          currency : Currency, created_at : Nat])
    /\ entries \subseteq [transfer : 1 .. Len(transfers), account : Account, amount : Int]
    /\ IsTable(idempotency, Key, [fingerprint : Command, transfer : 1 .. Len(transfers)])
    /\ outbox \subseteq 1 .. Len(transfers)
    /\ pc \in [Process -> {"idle", "key", "lookup", "select", "rows", "commit", "insert", "answered"}]
    /\ request \in [Request -> [key : Key, command : Command]]
    /\ opening \in [Opener -> [account : Account, row : StoredRow]]
    /\ want \in [Request -> SUBSET Account]
    /\ snap = [r \in Request |-> snap[r]]
    /\ \A r \in Request : IsTable(snap[r], Account, StoredRow)
    /\ stamp \in [Request -> Nat]
    /\ answer \in [Process -> [status : Status, transfer : 0 .. Len(transfers)]]
    /\ clock \in Nat
    /\ faults \in 0 .. MaxFaults

\* A transfer is committed only if the committed row of its source holds the amount at that
\* moment, whatever was committed since the request read it: concurrent transfers never
\* spend the same money twice (docs/threat-model.md:15).  Nor does its credit push the row
\* of the destination past the width of the column.
NoOverdraft ==
    [][\A t \in Len(transfers) + 1 .. Len(transfers') :
          LET new == transfers'[t]
          IN  /\ new.amount <= accounts[new.source].balance
              /\ accounts[new.destination].balance + new.amount <= MaxBalance]_vars

\* A balance moves by exactly the ledger entries that its transaction adds: no
\* update computed from an old snapshot overwrites the one another request committed.
BalancesFollowEntries ==
    [][\A a \in DOMAIN accounts :
          /\ accounts'[a].currency = accounts[a].currency
          /\ accounts'[a].balance - accounts[a].balance =
                MapThenSumSet(LAMBDA e : e.amount, {e \in entries' \ entries : e.account = a})]_vars

\* The snapshot that a request decides and writes from is the committed row for as
\* long as the request holds it, whatever the other requests do in between.
SnapshotsCurrent ==
    \A r \in Request : \A a \in DOMAIN snap[r] :
        a \in DOMAIN accounts /\ snap[r][a] = accounts[a]

\* The advisory lock serializes the requests of a key "including when no record
\* exists yet" (database.py:131): once a lookup has missed, nobody binds the key
\* before that request is through.
LookupStaysMissed ==
    \A r \in Request : pc[r] \in {"select", "rows", "commit"} => KeyOf(r) \notin DOMAIN idempotency

\* Every committed transfer is bound to one key and announced by one event.
ExactlyOncePerKey ==
    \A t \in 1 .. Len(transfers) :
        /\ t \in outbox
        /\ \E k \in DOMAIN idempotency :
              \A l \in DOMAIN idempotency : idempotency[l].transfer = t <=> l = k

\* However requests of one key race or are sent again, those that succeed are told
\* of one and the same transfer, which is what they asked for, and only one of them
\* is told that it created it.
AnswersAgree ==
    \A r, q \in Request :
        (KeyOf(r) = KeyOf(q) /\ answer[r].transfer # 0 /\ answer[q].transfer # 0)
          => /\ answer[r].transfer = answer[q].transfer
             /\ PostingOf(transfers[answer[r].transfer]) = PostingOf(Cmd(r))
             /\ r # q => {answer[r].status, answer[q].status} # {"created"}

\* A client is told that its transfer was refused only when, at that moment, its key has
\* no transfer, so that the refusal never hides one that went through.  (A 500 for want
\* of a connection, "unavailable", says nothing either way: AnswersAgree covers the retry.)
NoRefusalAfterPosting ==
    [][\A r \in Request :
          (answer'[r] # answer[r]
              /\ answer'[r].status \notin {"none", "created", "replayed", "conflict", "unavailable"})
            => KeyOf(r) \notin DOMAIN idempotency]_vars

\* The statement of an account, which list_ledger_entries orders by created_at,
\* lists the transfers in the order in which they changed its balance.
StatementOrder ==
    \A i, j \in 1 .. Len(transfers) :
        (i < j /\ Ends(transfers[i]) \cap Ends(transfers[j]) # {})
          => transfers[i].created_at < transfers[j].created_at

\* A client that adds up the statement of an account, from its opening balance on, never
\* finds it overdrawn on the way, and comes out at the balance that the account shows.
RunningBalance(a, n) ==
    InitialAccounts[a].balance +
        FoldLeft(LAMBDA x, y : x + y, 0, [i \in 1 .. n |-> Statement(a)[i].amount])

StatementsReconcile ==
    \A a \in DOMAIN InitialAccounts :
        /\ \A n \in 1 .. Len(Statement(a)) : RunningBalance(a, n) \in 0 .. MaxBalance
        /\ RunningBalance(a, Len(Statement(a))) = accounts[a].balance

\* Of the clients that race to open an account only one is told that it did, and
\* the account has the currency that this client asked for.
OneCreator ==
    \A o, p \in Opener :
        (answer[o].status = "created" /\ answer[p].status = "created"
            /\ opening[o].account = opening[p].account)
          => /\ o = p
             /\ accounts[opening[o].account].currency = opening[o].row.currency

\* Row locks taken in one order, after the lock of the key, never leave a set of
\* requests that all wait for each other (README.md:18).
WaitsFor(r, q) ==
    \/ pc[r] = "key" /\ KeyBusy(r, q)
    \/ pc[r] = "rows" /\ want[r] # {} /\ RowBusy(r, q, NextRow(r))

NoWaitCycle ==
    \A S \in (SUBSET Request) \ {{}} : \E r \in S : \A q \in S : ~WaitsFor(r, q)

\* The posting bound to each key, as the clients of the abstract ledger see it.
Posted ==
    [k \in DOMAIN idempotency |-> PostingOf(transfers[idempotency[k].transfer])]

\* With the keys, balances and transfers it commits the service implements the ledger
\* that posts a transfer in one step.
Abstract == INSTANCE Ledger WITH posted <- Posted
ImplementsLedger == Abstract!LedgerSpec

\* Every client is answered in the end, for good, once answers stop getting lost.
EveryRequestAnswered == \A p \in Process : <>[](pc[p] = "answered")

=============================================================================
