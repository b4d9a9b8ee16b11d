# Verification of the money movement ledger service

TLA+ models of the service under `src/`, checked with TLC on small instances, and TLAPS proofs of
what the models promise: of the transfer core and its books, the outbox, their composition, the
risk review, its evaluation, the start-up and the arithmetic of money.
`PROJECT.json` ties every definition to the lines it is translated from, every run to its
properties, and every property to a mutant of the model that breaks it.

## The system and its parts

| part | state it keeps | operations | what is hard about it | what makes it correct |
|---|---|---|---|---|
| Transfer service (`application/service.py`) | none of its own: a unit of work per request | `create_transfer`, `create_account`, `get_transfer`, `list_ledger_entries` | concurrent requests over the same accounts and keys; lost answers and retries; a decision taken on a snapshot | no money spent twice, one posting per key, the same answer to all clients of a key |
| PostgreSQL unit of work (`infrastructure/database.py`) | five tables, sessions, advisory and row locks, the connection pool | lookup under the key's lock, `lock_accounts`, `add_transfer`, `commit`, rollback | lock order, READ COMMITTED snapshots, atomic commit, integrity errors | snapshots never stale, no cycle of waiting, all tables or none |
| Domain model (`domain/model.py`) | immutable values | `Money.from_value`, `Transfer.request` | the moment at which `created_at` is taken | statements in posting order, entries that balance |
| Outbox dispatcher and worker (`infrastructure/outbox.py`, `worker.py`) | dispatch columns of `outbox_events`, the Redis stream | `dispatch_batch`, the polling loop | two stores without a common commit; several workers; kills, failing or doubled commands | at least once, no repetition without a failure, nothing forgotten |
| Risk review (`risk_review/workflow.py`) | one conversation per review: evidence, trace, step | `review`, tools, `_finalize`, `_fail_closed` | an arbitrary model behind the gateway, in any order, within a budget | no queue below the case's minimum, grounded and explained results, fail-closed |
| Gateways (`risk_review/gateway.py`) | none | `next_action` of the baseline and of the HTTP gateway | malformed answers; thresholds written twice | the baseline agrees with the guardrails; errors are caught |
| Evaluation (`risk_review/evaluation.py`, `scripts/`) | outcomes of the cases so far | `evaluate`, the live smoke test | a model that answers anything, in words that redaction changes and cuts | a gate that passes exactly what it should |
| Start-up (`api/app.py` lifespan, `create_schema`, `worker.py`) | the schema | `create_schema`, the first poll | processes that start together, a worker that starts early | the schema whole or absent, everybody up in the end |
| Retriever, redaction, HTTP mapping, configuration | none that changes | pure functions | floating-point ranking, regular expressions | see "Not modelled" |

The API calls the service inside one request; the service reaches the database through one unit of
work, that is one transaction, per call. The service and the outbox worker share only the table
`outbox_events`: a transfer commits its event, the worker claims it later (`MoneyMovement`). The risk
review shares nothing with either ("It cannot call transfer commands, mutate accounts",
docs/architecture.md).

## Modules

| module | models | about |
|---|---|---|
| `Books` | constants, account rows, postings | shared by the two next ones |
| `Ledger` | what the service promises | abstract: a transfer is posted and an account opened in one step |
| `TransferService` | `service.py`, `database.py`, `model.py` | one action per statement that can block or be overtaken |
| `TransferServiceProofs` | | the theorems about `TransferService` |
| `Delivery` | what the outbox promises | abstract: at-least-once delivery, none after the acknowledgement |
| `Outbox` | `outbox.py`, `worker.py` | one action per row tried, command sent and commit |
| `OutboxProofs` | | the theorems about `Outbox` |
| `MoneyMovement` | the whole of `compose.yaml` but Redis's persistence | `TransferService` composed with an instance of `Outbox`: they share the table of events |
| `MoneyMovementProofs` | | the theorems about this composition |
| `RiskReview` | `workflow.py`, the HTTP gateway of `gateway.py`, the contract of `retrieval.py` | one action per kind of answer of the model |
| `RiskReviewProofs` | | the theorems about `RiskReview` |
| `BaselineReview` | the baseline gateway of `gateway.py` | the answers of the deterministic baseline, as steps of `RiskReview` |
| `Evaluation` | `evaluation.py`, `scripts/run_risk_review_evals.py`, `scripts/live_risk_review_smoke.py` | reviews of a suite, case by case, and their gate |
| `Startup` | the lifespan of `app.py`, `create_schema`, the first poll of `worker.py` | processes that come up together |
| `Money` | `Money.from_value`, the `Numeric(20, 4)` columns | the arithmetic of one transfer after the other |
| `EvaluationProofs`, `StartupProofs`, `MoneyProofs` | | the theorems about these three |
| `FoldLemmas` | | what sums over sequences and finite sets, sorted lists and their first parts are, for any size; used by the proofs |
| `MCTransferService`, `MCOutbox`, `MCMoneyMovement`, `MCRiskReview`, `MCEvaluation`, `MCStartup`, `MCMoney` | | instances for TLC |

Operators whose comment starts with "Mutant:" are variations of the definition below them with a
bug that the code could plausibly have (a guard dropped, an order swapped, an off-by-one). No
specification uses them; `PROJECT.json` says which property rejects which.

### TransferService

A request goes through the places of `pc`, one for each point at which `create_transfer` may be
overtaken, may wait, or may die:

    idle -Send-> key -LockKey-> lookup -LookupMisses-> select -SelectRows-> rows
         -LockRow*-> rows -Accept-> commit -CommitOk / CommitFails-> answered

with `RefuseKey`, `LookupFinds` (replay or conflict) and `Refuse` as early ends. `key` waits for
`pg_advisory_xact_lock`; `SelectRows` is the snapshot of the `SELECT ... FOR UPDATE`, which decides
*which* rows match; `LockRow` waits for one row at a time in the order of the identifiers and reads
the version that its last holder committed, as READ COMMITTED does. `Verdict` is the chain of checks
in the order of the code. `Accept` takes `created_at`. `CommitOk` writes the five tables at once from
the *snapshots* (`row.balance = snapshot.balance`), not from the table, so that a stale snapshot
would really overwrite. `CommitFails` is the database's refusal (primary key, width of
`Numeric(20, 4)`), which escapes as a 500. `EndsWith` is `__aexit__`: the locks go with the
transaction. An opener has one place between the unlocked `session.get` and the insert.

Failures, bounded by `MaxFaults`: `LoseAnswer`, after which the client sends the same request again;
`Abort`, a transaction that dies before its commit, of which the client hears by a 500 or not at all;
and a connection that breaks after the commit and before its acknowledgement, so that `CommitOk` and
`InsertAccount` take effect and the client gets a 500 all the same. `PoolTimesOut` is the pool's
checkout timeout, a 500 for a request that found every connection in use (not bounded: it takes a
full pool). All these 500s are the answer `unavailable`, which says nothing of whether the transfer
was made; `error` is left for what the database refuses. A client that got one may ask again, as
after any refusal (`LoseAnswer`).

Keys are hashed to a `Slot` by a function that need not be injective. SHA-256 is taken to be
injective. A command's amount, accounts and currency are compared as values; `wording` stands for
whatever else the fingerprint covers (reference, spelling of the amount): two commands that differ
in it alone conflict, and what is not a `UsableWording` is a reference over 140 characters, which
`Transfer.request` refuses last. An amount of 0 stands for all amounts that `Money.from_value` refuses.
`clock` counts readings of the wall clock: it is assumed not to go back between two transfers that
share an account, nor to return one instant twice (all application processes share a clock of
microseconds; a clock that is set back breaks `StatementOrder`, which the code cannot prevent).

### Outbox

`Select` fixes the snapshot of undispatched rows, `TryRow` locks, skips or drops the next one until
the batch is full, `Publish` is one `xadd` with the marking in the session, `Commit` makes the marks
visible. Failures: `PublishFails` (`xadd` raises, with or without effect: the marks, the attempts
and `last_error` are rolled back and the worker ends), `PublishTwice` (the client library repeats
the command after a lost answer), `CommitFails` (with or without effect), `Kill` (with `Lingering`,
the database session keeps its locks until `Reap`), `Restart`. During an `Outage` Redis refuses
every command, as often as workers try (`PublishRefused` costs no fault), until `Recover`. `Relay`
is all this together; `Post` is the environment: the commits of the transfer service, which come in
any order except that the events of one account come in the order of `occurred_at`.

### MoneyMovement

`CommitOk` of `TransferService` and `Insert` of `Outbox` are one step (`CommitWithEvent`), as in
`add_transfer`; every other step belongs to one of the two. An event is named by the reading of the
clock at which its transfer was stamped, so that the order of events is that of `occurred_at`.
`ImplementsOutbox` discharges what `Outbox` assumes in `Post`: under the system's own steps the
instance of `Outbox` behaves as its specification, hence all that is checked and proved of `Outbox`
holds of the system. TLC checks it on the instance; `MoneyMovementProofs` proves it.

### RiskReview, BaselineReview and Evaluation

Each action is one turn of the loop of `review`. The model may answer with any tool request or any
recommendation of `Advice` at any step, whatever tools were offered; the provider's answer may have
any of the faults of `ProviderFault`, and whether it fails closed follows from the exception it
raises and the two `except` clauses. The retriever may rank anything (its query contains the model's
text), but finds something whenever a policy fits the case's context, which is part of the query.
`reason_codes` are a set, since their order carries nothing; `evidence` is a sequence, since the
limit cuts it. `evidence_ids` holds first occurrences only, as `dict.fromkeys` leaves them. A summary
is the sentence that `_safe_summary` chooses, by name; `model_words` stands for the redacted words of
the model. Whether these words still read like an identifier is a flag of the advice (`identifying`):
`redact_text` cuts at 500 characters *after* it has replaced what it found, and may so end a longer
run of digits where it looks like one. The thresholds are written down wherever the code repeats them (`Signals`,
`PolicyContext`, `Summary`, `BaselineSignals`), so that a copy can be wrong on its own.

`Evaluation` reviews the cases of a suite one after the other with the steps of `BaselineReview`
(`evaluate`) or of `RiskReview` (the smoke test, whose provider may answer anything). An outcome notes
whether the visible text reads like an identifier (`Leaked`, the `contains_direct_identifier` of both
harnesses): the passages, the trace and the sentences of a summary are fixed texts that do not, so
that only a model's own words can. It is
instantiated with the defaults of the workflow and with what the packaged policies find.

### Startup

`Look` asks the catalog for one table after the other, `Create` creates the missing ones inside the
transaction of `engine.begin`, waiting for another transaction that creates the same table and
failing if that one commits; `CommitSchema` makes all of them visible. A worker's `FirstPoll` fails
without the table. `Start` is the operator's (compose.yaml restarts nothing).

### Money

Amounts are integers in units finer than the ledger's scale (`Grain` of them in 0.0001), so that
ties exist. `HalfEven` is `quantize`, `Stored` is what PostgreSQL's `numeric(20, 4)` does to what it
is given, rounding half away from zero. The API's schema admits four decimals at most; for amounts
the service and the domain take any decimal, and it is their rounding that is modelled. An opening
balance does not pass through `Money`: `create_account` hands it to the column, which would round it,
and only the schema keeps it exact (`Admitted`; the instance offers balances below zero, finer than
the scale and wider than the column, which it refuses).

## Runs

| run | instance | what it shows |
|---|---|---|
| `Contention` | 3 requests of 3 keys (two in one slot), 3 accounts, every combination of directions, one unit of room in the widest balance | `NoOverdraft`, `SnapshotsCurrent`, `NoWaitCycle`, `StatementOrder`, `StatementsReconcile`, `BalancesFollowEntries`, refinement of `Ledger` |
| `Retries` | 2 requests of one key, equal or different, and a third of another; pool of 2; 2 faults, fair | `LookupStaysMissed`, `ExactlyOncePerKey`, `AnswersAgree`, `NoRefusalAfterPosting`, refinement of `Ledger` under faults; `EveryRequestAnswered` |
| `AccountRace` | 2 openers of one account, 2 transfers, every refused command (an overlong reference too), 1 fault, too wide a balance | `TypeOK`, `OneCreator`, `BalancesFollowEntries`, refinement |
| `TwoWorkers` | 3 events, 2 workers, batch of 2, 2 failures or outages, lingering sessions, fair | `DispatchedWasPublished`, `DuplicatesNeedFailures`, refinement of `Delivery`, `EventuallyDispatched` |
| `MoneyMovement` | 2 requests (a retry, or transfers that share an account or not), an opener, 1 worker; 1 fault of the service, 2 failures of the outbox; fair | `StreamFollowsStatement`, `ImplementsOutbox`, `EveryTransferAnnounced` |
| `Guardrails` | 64 cases on both sides of every threshold, 3 steps, limit of 2 passages, fair | `MinimumHolds`, `StandardIsSure`, `EvidenceGrounded`, `AdviceExplained`, `SummaryAgrees`, `TraceTellsSteps`, `ReviewEnds` |
| `Evaluation` | the shipped suite of 20 cases; the boundary cases with every expectation, alone and after another case; the 3 cases of the smoke test | `GateIsExact`, `BaselineNeedsNoGuardrail`, `SmokeFailsClosedOrLeaks` |
| `Startup` | 2 API processes, 1 worker, the five tables, 2 kills, fair | `SchemaIsWhole`, `EventuallyUp` |
| `Money` | 2 transfers, 3 accounts, 4 fine units in a unit, amounts from below zero to above all widths, openings that the schema admits or refuses | `RoundsHalfEven`, `ExactBooks` |
| `Monitoring`, `RequiredPolicy`, `ProviderErrors` | | expected to fail, see "Findings" |

Why the bounds are enough: three requests are the least that make a cycle of waiting longer than two
and a row that is awaited by one request while another is ahead of it; three accounts the least for
transfers that share one account only; two requests of a key the least for a race, and two faults
let both answers get lost or a transaction die and its retry lose the answer. In `Contention`
balances of 3, 1 and 0 under a column that holds 3, with amounts 1 and 2, make a transfer depend on
those before it at both ends: what its source still holds, and what its destination has room for. In
`Retries` the third request spends the money of the first two. For the outbox, three events with
shared accounts 1-2 and 2-3 and a batch of two let a batch end inside an account's history; two
faults let a kill follow a doubled command, or an outage follow a kill. In `MoneyMovement` two
transfers are enough for commits that overtake each other, and the service and the worker share
nothing but the table, so that the interleavings within each are those of its own runs. A guardrail
depends on one case and one recommendation, and a gate on one outcome at a time, so that suites of
two cases show a good outcome beside a bad one. Rounding depends on the parity of a unit and the
position within it, which units 0 to 6 with 4 positions cover, and the second transfer meets
balances that the first one left. Each property has a mutant that the same run rejects, so that the
case it is about does happen in the run.

No run switches the deadlock check off: `Terminating`, `Ended`, `Reported` and `AllUp` let finished
systems stutter, workers poll for ever, and `Money` refuses what is invalid for ever.

### Fairness

- `TransferService`: weak fairness of each handler. PostgreSQL wakes a waiter when a lock is free,
  the pool gives a free connection to a waiting handler, and the event loop runs every task. Faults
  and timeouts are not fair. Weak fairness is enough because, in the bounded runs, a lock that keeps being taken
  is taken by requests that end.
- `Outbox`: weak fairness of each worker's own steps, of its restart, of `Reap` and of `Recover`. The
  restart is what docs/runbook.md:35 asks of the operator; compose.yaml itself has no restart policy, so that
  without the operator the property does not hold. Failures are bounded by `MaxFaults`, the
  attempts that an outage refuses are not: an event whose publication fails for ever while others
  succeed is outside the property.
- `MoneyMovement`: both of these.
- `Startup`: weak fairness of each process, its start by the operator included.
- `RiskReview`: weak fairness of the review. The HTTP client of the gateway has a timeout.

## Proofs

The proofs hold for every value of the constants, from the assumptions that the modules name: account
identifiers are ordered like numbers (`AccountAssumption`), inputs have their types
(`RequestAssumption`, `EventAssumption`, `CaseAssumption`, `AdviceAssumption`, `SuiteAssumption`), the
pool, the batch and the limits of a review are within the ranges that the code validates
(`BoundAssumption`, `BatchAssumption`, `RelayAssumption`, `LimitAssumption`), every context has its policy and the cases of
the smoke script expect no less than their signals demand (`BaselineAssumption`, `SmokeAssumption`,
both true of what is packaged), the outbox is among the tables (`TablesAssumption`), there are
finitely many requests (`FiniteAssumption`, in `MoneyMovement` only) and finitely many accounts
(`WidthAssumption`, in `Money` only, whose total is over all of them). TLC evaluates each of them on
every run.

`TransferServiceProofs`, for every set of requests, accounts, keys, slots and openers, every workload,
pool size and number of faults:

1. `LocksCorrect == Spec => []LockInv`. `LockInv` strengthens `SnapshotsCurrent` to something
   inductive: types; `SessionOK`, what a session can hold at each place (rows of its own command
   only, nothing outside `rows` and `commit`, and at `commit` a verdict that is still "none");
   `LocksExclusive`, one holder for each row and slot. The step that needs it all is another
   request's commit: it changes rows, but only those it holds, hence none of ours.
2. `BooksCorrect == Spec => [](LockInv /\ BooksInv)`, by the same scheme on top of 1. `BooksInv`
   adds to the checked properties: `StampsOK` (a request's stamp is later than that of every
   transfer committed on rows it holds: what makes `StatementOrder` inductive), `KeysOK` (a bound
   key keeps its command), `AnswersOK` (a client was told what its key is bound to: what makes
   `AnswersAgree` inductive), `OpenersOK`. `CommitEffect` states once what a commit does,
   `OnlyCommitPosts` and `OnlyCommitMoves` that nothing else touches those tables; each conjunct
   then has a lemma of its own (`NextBalances`, `NextLookupStaysMissed`, ...).
3. From these: `TypeCorrect`, `SnapshotsStayCurrent`, `KeysStayReserved`, `PostedOnce`,
   `AnswersCorrect`, `StatementsOrdered`, and two action properties: `RefusalsCorrect`, and
   `NeverOverdrawn`, which compares each posting with the balances of the table at its commit. That
   balances stay within the column (`BalancesInColumn`) would not do: it holds without any row lock,
   while an account's money is spent twice.
4. `ServiceImplementsLedger == Spec => ImplementsLedger`: under the mapping that reads the posting
   of each key out of `idempotency` and `transfers`, a successful `CommitOk` is `Post`, a
   successful insert is `OpenAccount`, and every other step stutters.

5. `OneCreatorOnly`: an opener that was told it created the account finds it there (`CreatorsOK`), so
   that a second insert is refused.
6. `NoDeadlock == Spec => []NoWaitCycle`. Two invariants: a request has locked the least of its rows
   first (`RowsOrdered`), and every part of the rows that anybody still wants has a last one
   (`HasLast`; each `SelectRows` adds at most two rows). If all requests of a set waited for one
   another, some of them would wait for rows, since a request that waits for its key holds nothing;
   the holder of the last row that they wait for would then wait for a later one.
7. `BalancesAlwaysFollow == Spec => BalancesFollowEntries`: the sum that the property takes over the
   entries written by a step is over none of them, or one, since an account is one end of a transfer
   and not both.
8. `StatementsAlwaysReconcile == Spec => []StatementsReconcile`. The property speaks of the statement
   as the query returns it, sorted by `created_at`. The invariant (`ReconcileInv`) says that *some* list
   of an account's entries is increasing in `created_at` and adds up to the balance without an
   overdraft on the way (`Accounted`); a commit extends that list at its end, because its stamp is
   later than all others of its two accounts (`StampsOK`, `IncreasingExtended`). No other list of
   the same entries is sorted (`IncreasingIsOnly`), hence the statement is that list: this is where
   it is used that no two entries of an account share an instant (`StatementIsList`).

`OutboxProofs`, for every set of events and workers, batch size and number of failures:

9. `ClaimsCorrect == Spec => []ClaimInv`: a row has one claimer and nobody marks it while it is
   claimed (`ClaimsOK`: what SKIP LOCKED and the recheck of the row are for), what a worker sent is in
   the stream (`SentOK`), what it holds follows from its place (`PlaceOK`), and the posted events have
   a least one in every part, so that `Min` means something (`LeastOK`). Hence `OutboxTypeCorrect` and
   `NothingForgotten`.
10. `DuplicatesCounted`: `CopiesOK` counts one copy of an event for free while it is `Spoken` for (it
   is dispatched, or sent in a transaction that Redis has answered), and one for each failure; a
   worker that loses its transaction loses the free copy to the failure that ended it.
11. `OutboxImplementsDelivery == Spec => ImplementsDelivery`: a publication is a delivery of an event
   that is posted and not acknowledged, because its claim still holds it; a commit acknowledges
   what was sent.

12. `OneWorkerKeepsOrder`, for one worker whose sessions die with it (`SoleWorker`): an event is in the
    stream after every earlier one that shares an account with it (`StreamInOrder`). What makes it
    inductive is `BatchInOrder`: what the worker has claimed precedes what it still has to try, and an
    event that must precede one of these is among them or dispatched. It holds because no other
    worker locks rows, so that SKIP LOCKED skips none, and because the environment inserts the events
    of an account in their order (`Insert`), so that a snapshot misses none that should come first.

`MoneyMovementProofs`:

13. `SystemImplementsOutbox == SystemSpec => ImplementsOutbox`: a commit inserts an event that is later
    than all events of its two accounts (from `StampsOK`, and `EventsTell`, which ties each row of the
    table of events to its transfer), and the clock is read at most once for each request and each
    fault (`ClockOK`), which bounds the events.

14. `StreamAlwaysFollows`: `SystemSpec => []StreamFollowsStatement`, for one worker whose sessions die with
    it. `Workers` is `OutboxProofs` over the tables of the system, and each step of the system's workers is
    one of those (`SameStep`), so that `SequenceInv` of 12 holds here too. `AnnounceInv` adds that each
    transfer has an event of its own (`EachAnnounced`) and each of its accounts one entry of it
    (`EntryOfEach`). The statement of an account therefore lists the stamps of its transfers in their
    order (`StatementListsStamps`), and the first deliveries list some of them in their order, none
    without those before it (`SeenListsStamps`); the second list is then the first part of the first one
    (`EnumerationPrefix`).

`RiskReviewProofs`, for every set of cases, policies, rankings and recommendations:

15. `MinimumAlwaysHolds` and `StandardAlwaysSure`, from `ThresholdsAgree` (the thresholds of
    `_minimum_queue` and of `_policy_context` are the same) and `RoutedSafely`.
16. `AlwaysExplained` and `SummaryAlwaysAgrees`, with `TraceOK` (before the end, the trace holds none
    of the words of the guardrails) and `AdjustmentsTell` (what the guardrails record and name).

17. `AlwaysGrounded` (`GroundInv`): the evidence of a review holds each passage once. The code's list
    comprehensions and `dict.fromkeys` are `SelectSeq` and a fold; `SelectedOnce`, `ExtendedIsUpdate`
    and `FirstOfList` say what they return, for sequences of any length.
18. `ReviewTyped` and `TraceAlwaysTells` (`TraceInv`): before its end a trace has exactly one model
    action for each step done and nothing of a later step (`StepsTold`), so that whatever ends the
    review adds what the last step needs. `ToldJoined` says what two joined traces tell.

`EvaluationProofs`, for suites of any number of cases:

19. `GateAlwaysExact` and `BaselineNeverNeedsGuardrail`. `Phase` says how far the baseline is in its three
    steps and what it has gathered; at the end its advice is what the guardrails demand anyway
    (`BaselineAgrees`: the two copies of the thresholds), so that none of them changes the queue.
    `ExpectedInv` relates each outcome to its own case, whatever was reviewed before it.
20. `SmokeAlwaysFailsClosedOrLeaks`: the reviews of the smoke test satisfy the invariants of 15 to 18, since
    a new case starts where `Init` of `RiskReview` does (`ModelNoted`): queue, citations and steps are
    then good, and a text that leaks is a summary of the model's own words (`SummaryAgrees`).

`StartupProofs`, for any number of processes, tables and kills:

21. `SchemaAlwaysWhole`: while no transaction has committed, a process has missed every table that it
    looked for (`MissesAll`), so that what it commits is the whole schema; once one has, everybody
    else's creation of a table fails.

`MoneyProofs`, for every grain, any amounts and any finite set of accounts:

22. `RoundingIsFair`: `HalfEvenNearest`, and that a transfer stores the amount so rounded
    (`StoredAsRounded`).
23. `BooksAlwaysExact`: the columns get whole units only, which they store as they are (`StoredExactly`,
    and `AdmittedStored` for the opening balances);
    what one account gives and another takes leaves the total alone (`SumFunMoved`).

`FoldLemmas` holds the inductions. The provers cannot instantiate a theorem that takes a predicate, so
induction is stated with a set instead (`Induction`: a set that contains 0 and the successors of its
numbers contains `Nat`; `ChoiceInduction` for the subsets of a finite set, from the fact that one of
them contains no other), and the functions that the folds choose are shown to exist by recursion over
finite subsets (`RecursionExists`, `SequenceRecursion`). From these follow what a fold computes:
`SumAppended`, `SumFunMoved`, and what is known of sorted lists: there is one (`IncreasingExists`), no
other (`IncreasingIsOnly`), it grows at its end (`IncreasingExtended`) and its first part is the
list of the first ones (`EnumerationPrefix`).

Only model-checked: liveness (`EveryRequestAnswered`, `EventuallyDispatched`,
`EveryTransferAnnounced`, `EventuallyUp`, `ReviewEnds`), which is out of reach of the prover.
`StreamFollowsStatement` is proved for one worker only, and is false for more (see "Findings").

## Findings

- `Monitoring`: the runbook asks to watch `last_error` and `attempts`, but the exception that reports
  a failed publication rolls both back (`outbox.py:51-54`), so that they never show one.
- `RequiredPolicy`: the guardrail looks for the required policy among all cited passages and the
  result then keeps the first `evidence_limit` of them: cited fourth, after two searches, the policy
  is dropped (`workflow.py:180-183`, `:204`).
- `ProviderErrors`: a provider answer whose `message`, or whose tool call's `function`, is null or no
  object raises `AttributeError`, which nobody turns into a fail-closed result (`gateway.py:250`,
  `:256`, `:268`).

Behaviour that the models show and no document denies: `StreamFollowsStatement` does not hold with
two workers or with lingering sessions, so that consumers of one account's events need one worker; the loser of
the race to open an account gets a 500 (IntegrityError), not the 409 of `DuplicateAccountError`; an
opener that lost its answer is told that the account exists; a retry that spells its amount
differently is refused as a conflict; a failing publication ends the worker; the smoke test may fail a
model whose words read like an identifier only because redaction cut them, on a case without a signal.

## Not modelled

- The BM25 scores of the retriever (floating point: the models take any ranking), the patterns of
  redaction (regular expressions over characters: what they leave in a summary is a flag of the
  advice), the wording of summaries, prompts and reports, the parsing of decimals and the payload
  sent to a provider.
- `get_transfer` changes nothing; what it shows is stated over the tables.
- Redis losing acknowledged entries in a crash (its append-only file is synced once a second), a
  failover of PostgreSQL that loses commits, and a wall clock that is set back.
- The request schemas but for the opening balance (they only narrow the inputs), API key, correlation ids, health probes,
  settings, build and CI files.

## Plan

Done: `Books`, `Ledger`, `TransferService` with its proofs; `Delivery`, `Outbox`, and both composed
in `MoneyMovement`; `RiskReview`, `BaselineReview`, `Evaluation`; `Startup`; `Money`.

Left, in this order:

1. A second dispatcher step in `MoneyMovement` for the two-worker case, with a consumer that sorts by
   `occurred_at` within a window, to find the window that restores the order.
2. The retriever's contract from its code: which queries of the workflow can find nothing, over a
   small vocabulary of terms with integer scores.
