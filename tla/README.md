# A verification project for the trading core of aihub

This directory holds TLA+ modules that model the server of the prop-trading
platform in `src/` (the *Atlas* engine and its platform services): what decides
whether an account lives, what its orders do to its position, what serializes
the two, what operators do to the account around them, how a payment becomes an
account, how its profit is paid out, how its changes reach the read model, and how one trader's order becomes
one order on each of several accounts. TLC checks the
modules on small instances; TLAPS proves theorems about them for every value of
their constants.

Paths below are relative to `src/`. `engine.ts`, `account-rules.ts`, `risk.ts`,
`mutex.ts` and `account-lock.ts` are in `apps/server/src/trading/`,
`rules.ts` in `packages/core/src/rules/`, `account-service.ts`, `commerce.ts`
and the other services in `apps/server/src/platform/`.

## 1. The system

| Component | State | Operations | Talks to |
|---|---|---|---|
| rule engine (`rules.ts`) | `RuleState`: floor, high-water mark, day anchors, counters, lockout, status | `advanceDrawdown`, `rollTradingDay`, `evaluateRules` (pure) | called by the trading engine |
| rule evaluation (`account-rules.ts`) | the rule columns of `accounts`, `daily_account_stats` | `applyRules`, `persistRuleState`, `recordClosedDay` | engine, database |
| matching (`packages/core/src/execution`) | none (pure) | `matchOrders`, `evaluateLimit`, `createOrder`, `modifyOrder` | engine |
| trading engine (`engine.ts`) | orders, executions, positions, balance; wake-up timers in memory | submit, modify, cancel, flatten, reverse, move protection; a *pass* over an account on every market event, wake-up and valuation: match, commit fill by fill, create and resize brackets, evaluate the rules, liquidate | everything here |
| pre-trade risk (`risk.ts`) | none | `checkOrder` | engine |
| account lock (`mutex.ts`, `account-lock.ts`, `db/client.ts`) | a promise queue per account and process, PostgreSQL advisory locks, two connection pools | `KeyedMutex.run`, `withAccountAdvisoryLock`, `accountAdvisoryLockSql` | engine, services |
| account lifecycle (`account-service.ts`, `account-ops.ts`, `account-inactivity.ts`) | `accounts.status`, `ruleStatus`, `adminHold`, `account_lifecycles` | activate, lock, unlock, disable, enable, archive, reset, inactivity closure | engine through `ExecutionControl`, and directly through the shared row |
| provisioning and commerce (`provisioning.ts`, `commerce*.ts`, `account-limit.ts`, `account-reset.ts`) | `commercial_orders`, `entitlements`, `commerce_events`, qualifications | order, record an event, fulfil through the gate, sweep at startup, recover when the gate clears, refund, dispute, certify, fund | lifecycle, outbox |
| payout ledger (`payouts.ts`, `payout-core.ts`) | `payout_requests`, `payout_cycles`, `payout_ledger`, and the balance and day anchors of the account | request, review, approve (the one debit, under the account's lock), hold, settle, fail (the reversal) | account row, outbox |
| payout rail (`payout-operations.ts`, `payout-ops-worker.ts`) | `payout_operations`, submission attempts, provider events | fast lane, submit under an idempotency key, ingest webhooks, reconcile, settle by hand | the provider, the payout ledger |
| outbox and projection (`outbox.ts`, `projection.ts`) | `outbox_events`, `account_projections` | claim a batch, handle each event in a savepoint, back off, park, re-arm; project an account | everything that changes accounts |
| copy trading (`copy-*.ts`) | groups, followers, intents, children | fan an order, its cancellation or a flatten out to the accounts of a group | engine |
| market data, connections, sessions | feeds, snapshots, session authority | ticks, bars, staleness, rollover, reconnect | engine |
| gateway, HTTP, web terminal, support, certificates, affiliates | sockets, rows of their own | requests, fan-out | the services above |

Interactions that matter: every engine operation runs under the lock of its
account, but in *several* commits; an operator's transition takes the same lock
inside one transaction, and so does the approval of a payout; refunds, the
inactivity sweep and the reversal of a payout write the account row without it;
rules are evaluated after the fills they judge, in separate transactions; an
outbox event is written with the change it tells of, or after it; copying runs
in no transaction at all, and an attempt to fulfil an order in a chain of them; the process may stop between any two statements.

What is hard here, and what correctness means:

* **Rules.** Fills, marks, dates and evaluations interleave freely. Floors must
  never come down or pass their lock, a failure is final, a lockout lasts the
  day and ends, a pass is earned, the statements of the days add up.
* **Orders.** Legs of a bracket, partial fills, latency, the trader's hand and
  crashes interleave. Exits only reduce, one leg of an OCO group excludes the
  other, the stop covers the position, a failed account is closed and nothing
  else of it trades.
* **Time.** Liquidation is retried by timers and must neither sell twice nor
  starve itself.
* **The lock.** One section per account in the fleet, in order, none for ever.
* **The lifecycle.** Holds are kept against the engine, lives end once,
  certification is earned and final.
* **Commerce.** One payment is one account, however often and by whomever the
  order is attempted; an attempt that comes late changes no outcome; purchases
  keep to the limit of active accounts; what is paid for is not left behind.
* **Payouts.** A withdrawal is not a losing day, a winning
  day earns one payout, the ledger explains the balance; money is sent at most
  once, through lost answers, crashes and late events, and what was sent is not
  put back.
* **The outbox.** What is delivered shows the present, never goes back, and
  nothing is stuck for ever.
* **Copying.** One order and one answer per account and intent, through
  retries and restarts.

`PROJECT.json` lists all components with their status and forty hazards at
their lines.

## 2. The modules

| Module | Models | State and actions against the code |
|---|---|---|
| `RuleEngine` | `rules.ts` and `applyRules` as operators | one operator per function; amounts are integers, `None` is `null` |
| `AccountRules` | one account of one lot under its programme (`rulesLocked`) | `Submit`, `Cancel`, `Enter`, `Exit` (fills with their commission), `MarketMoves`, `NextDay`, `Evaluate` (roll, anchor, judge, persist, risk event, day statistics, liquidation) |
| `Programmes`, `MCAccountRules`, `MCAccountRulesHistory` | the terms of small programmes; the last adds a history variable, the balance a date began with | |
| `OrderEngine` | the match pass and everything that changes orders | `matchOrders` with evaluation order, fill cap and OCO reduction; `syncBrackets`, `syncProtection`, `createBracketLegs`; submission with the risk gate; flatten, reverse, cancel, modify, move protection; breach and liquidation; `Crash` stops a pass at any commit |
| `MCOrderEngine` | the traders (`Tickets`) let loose on it | |
| `Liquidation` | a breached account against the clock | `QuoteComes`, `Wake`, `Valuation` and `Tick` over ticks still to go; cancel-and-resubmit as `liquidateLocked` does it |
| `AccountMutex` | what the account lock promises, abstractly | `Enter`, `Leave` |
| `AccountLock`, `MCAccountLock` | how it is kept | promise tails, depths and releases of `KeyedMutex`; `Reserve`, `Granted`, `Finish` of the advisory lock; `Begin`, `End` of transactions; the two pools; `LockFails`, `Crash` |
| `AccountLifecycle`, `MCLifecycle` | the account row between operators, services and the engine | one action per transaction; several-statement operations (`archiveAccount`, `resetAccount`, `lockAccount` with its `cancelAll`, `certifyEvaluation` with its unlocked read) are tasks of several steps; the engine's pass is two actions, load and persist, between which the writers without the lock may come |
| `Payouts`, `MCPayouts` | the payout ledger of one account beside its trading days | one action per transaction (`requestPayout`, `approvePayout`, `markPaid`, `failPayout`, ...); `LoadRow` and `WriteRow` are the two halves of the engine's pass; `Trade`, `NextSession`, `Midnight` move the day and the UTC date |
| `PayoutOperations`, `MCPayoutOperations` | the rail over that ledger | each operation is a task whose statements are steps; `SubmitCall` and `SubmitCommit` are the two ends of the transaction around the provider's call; the provider moves by itself and repeats its events; `Crash` ends any task |
| `PayoutPromise` | what the desk promises of each request's money | `Take`, `Send`, `Settle`, `Restore` |
| `Outbox`, `MCOutbox` | `OutboxWorker`, `projectAccount` and those who write what it shows | `Claim`, `ReadAccount`, `ReadPositions`, `projectAccount` (the guarded upsert), `HandlerFails`, `Commit`, `DeadlockDetected`, `BackoffOver`, `retryJob`, `Crash`; `announced` is a history variable, the money of the last change that was both numbered and enqueued |
| `CopyTrading`, `MCCopyTrading` | the orchestrator, its group and its breach handler | one action per statement: `recordIntent`, `ReadMembers`, `InsertChild`, `Submit`, `CancelOrder`, `Flatten`, `setChild`, `Complete`, with failing statements and `Restart` |
| `CopyPromise` | what copying promises for one account of one intent | `Place`, `Tell` |
| `Commerce`, `MCCommerce` | the orders of one trader, from payment to account and back | an attempt is a task whose transactions are steps (`ReadOrder`, `evaluateProvisioningGate`, `countActiveAccounts`, `grantEntitlement`, `provisionFromEntitlement`, `MarkProvisioned`, `setProvisionState`); webhooks, operators, the sweep and the recovery attempt the same order; `handleRefund`, `handleDispute`, `executeRemediation`, funding and its refusal beside them; `AttemptFails`, `AttemptThrows`, `Restart` |
| `*Proofs` | theorems, see section 5 | |

`AccountRules` and `OrderEngine` meet in the breach: for `OrderEngine` it is a
status that an evaluation may set at any time (`MayBreach`); for `AccountRules`
the liquidation is an exit at the market. `AccountLock` justifies that both
take a pass as one critical section. `AccountLifecycle` takes the verdicts of
`RuleEngine` as a choice among those it can give (`Verdicts`), and the position
and the working orders as booleans. `PayoutOperations` extends `Payouts`: every
step of the rail that moves money is an action of the ledger. `Payouts` keeps of
the rule engine the day roll and the day statistics, and of the lifecycle the
hold and the completion. `CopyTrading` takes an account's engine as an order
that works, fills, or is cancelled, and a position that a flatten closes or,
when its order is refused by the market, does not.

Abstractions, by name:

* one instrument, prices on a few levels, quantities of a few contracts; a bar
  is its close, low and high;
* limit and stop fills as the fill model decides *whether*; slippage and
  commission amounts are left out of `OrderEngine` and `Fee` in `AccountRules`;
* time in force, trailing stops, stop-limit triggers, sessions and price
  collars are not modelled;
* audit rows and emitted changes appear only in `Outbox`, as what they do to the
  sequence number and to the queue of events;
* a payout's operational checks (identity, destination, treasury, holds) are an
  outcome, and so is what a trade earned; money is counted in units of the
  smallest win;
* of the read model the money, the positions and the status are modelled, its
  count of working orders and its rule status are not;
* in `CopyTrading` an account has one position per order, an order fills whole
  (`maxContractsPerFill` is null by default), and there is one flatten key: what
  two overlapping flattens do is a row of section 4;
* in `Commerce` a `RESET` order is one of `Purchases`, accounts are `ACTIVE`,
  `AWAY` (locked for the day, or at its goal), `CLOSED` or `PASSED`; signatures,
  prices and plans of an event are taken as verified, a kill switch is a failing
  statement, the sweep and the recovery share one loop (`Sweeper`), and an order
  has one payment event and one refund event, whose repetitions do nothing.

## 3. The runs

| Run | Bounds | What it shows |
|---|---|---|
| `rules_programmes` | all funded terms (3 drawdown types, with and without a trail lock and a daily limit) and evaluation terms (target, minimum days, consistency, maximum days), the four shapes of the seeded templates (`db/seed.ts:77-150`: a daily limit that locks, beside a target), no fee, open result and balance within 2, 3 dates | floors, statements, lockouts, passes and failures (3 million states) |
| `orders_protect` | entry of 3 in parts of 2, buying and selling 1 by hand, protection moved at will, 3 price levels, 4 orders, a breach at any evaluation, no latency | exits only reduce, OCO, only the liquidation trades after a failure |
| `orders_latency` | `orders_protect` without breaches, 2 price levels, every order waits before it may fill | the stop of a sole bracket covers exactly the position |
| `orders_crash` | a crash at every commit, cancel, modify, flatten, reverse, breach, 4 orders | a failed account ends flat, wherever the process stopped |
| `liquidation` | latency 4, valuation every 7, quotes 4 to 9 ticks apart, both live and replayed | never sold twice; flat in the end in a replay |
| `account_lock` | 2 processes, 2 accounts, 3 sections, a transaction, pools of 1, 3 calls per key, 1 crash | refinement of `AccountMutex`, order, bookkeeping, every section ends |
| `lifecycle` | 2 tasks at a time, 3 lives, both account types | lives, holds, archive, certification |
| `payouts` | three requests for one or two units, a cycle policy and a daily one, trades that win or lose two, profits 0 to 5, dates 0 to 4 with evening sessions, activation on date 1, one good day before, two payouts at most, reversals inside passes | ledger, balance, days, ordinals, qualification, eligibility (1.8 million states) |
| `payout_rail` | one request, two callers and the worker statement by statement, two submission attempts, crashes, lost answers, repeated events | refinement of `PayoutPromise`; what is shown as paid is paid |
| `outbox` | two workers whose batches of two name two accounts in opposite orders, four events, a reversal, one fault (a failing handler or a crash) and any number of re-armings, sequence numbers to 2 | convergence, monotony, every event delivered or parked (the safety of it also with two faults, 0.8 million states, and convergence with resets) |
| `copy` | leader and follower; an order, its cancellation and a flatten; two requests at a time; one fault: a restart, a failing statement, a breach, a change of the group or its follower | refinement of `CopyPromise`, records, flattening (1.4 million states) |
| `commerce` | a purchase and a grant for one slot, a request and the loop, one upset: a restart, a failing statement, or an account that stops, resumes, ends or passes | one account per payment, outcomes stand, the limit at purchase, every settled purchase taken up (1.1 million states) |

Why the bounds are enough. In the rules everything turns on comparisons of
differences: open results and balances within 2 of the start put equity
exactly at, one under and one over each limit of at most 3; a fee only shifts
balances the market reaches anyway (the proofs hold for any); three dates make a day that closes, one that
follows, and one after a lockout. An OCO group has two legs and an entry: three
contracts in parts of two give a partial and a completing fill of each; four
orders are one bracket and one liquidation or hand-made order. Two overlapping
tasks are what a race between two operators is, and three lives are needed to
see a middle one left open. In the lock one connection per pool is the hardest
case, and three calls per key make a queue with a middle. For payouts three
requests give a failed one between two that stand, and the dates a cycle that
begins in an evening session. On the rail every promise is about one request's
operation; with two requests of one account (`MCPayoutOperations.cfg` with
`Requests <- TwoRequests`, `Callers <- OneCaller` and the invariants
`LedgerAgrees` and `BooksBalance`, 1.6 million states) they hold as well. Two
events per batch are what two workers need to wait for each other; two attempts
make a failure that backs off and one that parks. Copying treats the accounts of
a group alike but for the leader, and what overlaps is at most two requests. In
commerce the request and the loop make the two attempts that race for one order,
the grant is what else takes the slot, and one upset is one crash or one failure
between any two transactions; the proofs hold for any number of each. Latency
and breaches do not go together in `OrderEngine`: with latency every pass over a
failed account starts its liquidation over, and the table of orders has no end;
`Liquidation` has that case. Without breaches `OcoExclusive` and
`ExitsOnlyReduce` hold under the bounds of `orders_latency` as well, and
`SoleBracketCovers` under those of `orders_protect`. The trader of both opens a
bracket only when no other is on its way; what happens when he does not is in
section 4.

`MCRulesLockout.cfg` (`MCAccountRules`, one daily limit, 102,330 states) states the
liveness beside `LockoutEndsWithItsDay`: under the fairness below a flat, locked
account is released (`LockoutEnds`). It holds; over all programmes the tableau is
too large, which is why it has a configuration of its own.

`CHECK_DEADLOCK FALSE` is set where the bounds on dates, balances or orders end
the behaviours.

Fairness. `AccountRules` (`LockoutEnds`): the valuation timer evaluates an exposed, locked or
stale account over and over (`accountsToRevalue`), and the exchange's date goes
on. `OrderEngine`: quotes keep coming and latency elapses; nothing is asked of
the trader. `Liquidation`: time passes and what is due happens. `AccountLock`:
pools and PostgreSQL serve waiters in turn, and what runs ends (strong fairness
of each client's progress); nobody has to ask, and failures and crashes are
never owed. `AccountLifecycle` has no liveness and no fairness: an operator's
call that is never taken further is one whose process stopped. `Outbox`: a
worker polls for ever (`OutboxWorker.start`), PostgreSQL finds a deadlock, and
backoff runs out; failures, crashes and re-arming are never owed. The payout
rail is checked for safety; its `FairSpec` (the worker submits and commits again
and again, the tasks under way go on, and an event that the provider keeps
sending is taken in) is used in `MCRailUnsettled.cfg` alone, where
`SubmissionEnds` holds and `PaidIsSettled` does not. `CopyFairSpec` (a request under way goes on) is
used in `MCCopyStranded.cfg`. `Commerce`: a request once begun goes on, and so
does the loop over the orders that are due, which `app.ts:497` starts with the
process; no payment, request, crash or failure is owed.

Each property of a passing run has a mutant in `PROJECT.json`: an operator
defined just before the one it replaces, marked `mutant:`, that changes the code
as a plausible slip would, and that breaks the property in that run.

## 4. Where code and statements part

Divergences met on the way. Each is stated as a property of its module,
and the configuration named shows the counterexample
(`tlc -config <cfg> <module>`). Where a configuration serves several
properties, it lists them and one is active at a time; where a row names only a
property or other values, they take the place of the configuration's own.

| Configuration (module) | Property | What happens |
|---|---|---|
| `MCRulesLockBypass` (`MCAccountRules`) | `LockedForTheDay` | a locked account whose balance stands at the profit target leaves the lockout the same day: `evaluateRules` tests the target before the lock (`rules.ts:366`, against `:29` and `docs/terminal-hardening-v5-execution.md:56`) |
| `MCRulesEodFloor` (`MCAccountRules`) | `EodFloorFollowsCloses` | at the roll an end-of-day floor is set from the intraday high-water mark (`rules.ts:606`, against `eod-trailing-engine.test.ts:13`) |
| `MCRulesDayAttribution` (`MCAccountRulesHistory`) | `DailyLossIsChargedToItsDay` | a loss on a new date before its first evaluation is charged to the day before (`rules.ts:626`, against `account-rules.ts:146`) |
| `MCRulesLockout` with `Fee = 1`, `OpenBound = 3`, `BalanceBound = 4` (`MCAccountRules`) | `FailureIsRecorded` | an account that goes from locked to failed does so without audit or risk event (`account-rules.ts:203`, against `:136`) |
| `MCOrdersTwoBrackets` (`MCOrderEngine`) | `ExitsOnlyReduce` | each leg of several brackets is capped by its own entry's fill; cut the position by hand and together they reverse it (`engine.ts:2422`, against its comment at `:2420`) |
| the same with `Tickets <- ShortFirst`, `Abilities = {"freely"}` | `ExitsOnlyReduce` | a bracketed buy that only covers part of a short gets legs that sell (`engine.ts:2393`) |
| the same with `Tickets <- ScaledIn`, `Abilities = {}`, `MaxOrders = 9` | `LastBracketCovers` | a later bracket never grows with the position (`engine.ts:2370`) |
| the same with `FillCap = Nobody`, `Latent = TRUE`, `MaxContracts = 1`, `Tickets <- Single`, `Abilities = {"flatten"}`, `MaxOrders = 5` | `ExitsOnlyReduce` | two flattens inside one latency both fill (`engine.ts:1214`, against `execution-races.test.ts:10`) |
| the same with `MaxContracts = 3`, `Tickets <- ScaledIn`, `Abilities = {"crash"}`, `MaxOrders = 5` | `ExitsOnlyReduce` | an entry whose legs a crash prevented gets them whenever there is a position again, though what it opened was sold by hand and another bracket holds the position: with the legs of that one they reverse it (`engine.ts:2393`, against its comment at `:2390-2391`) |
| the same with `FillCap = 2`, `Latent = TRUE`, `MaxContracts = 3`, `Tickets <- Bracketed` | `OcoExclusive` | with two brackets a leg fills in parts, is sized up again by the other's entry, and completes while its sibling still works (`engine.ts:2422`) |
| the same with `FillCap = 2`, `MaxContracts = 3`, `Tickets <- Bracketed`, `Abilities = {"protect"}`, `MaxOrders = 4` | `EntryIsProtected` | an entry goes on filling in the pass in which its stop completes (`engine.ts:2439`) |
| the same | `FilledWithinQty` | moving a partly filled leg sets its quantity below its fill (`engine.ts:2233`) |
| `MCOrdersTwoBrackets` with `Levels = {1, 2}`, `Tickets <- Resting`, `Abilities = {"crash"}`, `MaxOrders = 2` (`MCOrderEngine`) | `BracketsComeBack` | a crash between fill and legs is not repaired when nothing else works (`engine.ts:1635`, against `:2342`) |
| the same with `MaxContracts = 3`, `Tickets <- Bracketed`, `Abilities = {"reverse"}`, `MaxOrders = 4` | `RefusedCloseKeepsProtection` | a refused reversal has already taken the stop away (`engine.ts:1239`) |
| `MCOrdersCrash` with `Tickets <- Plain`, `Abilities = {"breach", "crash", "freely"}` (`MCOrderEngine`) | `FailedOnlyLiquidates` | after a crash the pass fills the failed account's orders before it enforces (`engine.ts:723`) |
| `MCOrdersProtect` with `FillCap = 1`, `Abilities = {"flatten"}`, `MaxOrders = 5` (`MCOrderEngine`) | `ExitsOnlyReduce` | without latency as well: a second flatten, while the first is still filling in parts, closes once more what is left (`engine.ts:1214`) |
| `MCOrdersProtect` with `Abilities = {"protect", "modify", "resize"}` (`MCOrderEngine`) | `ExitsOnlyReduce` | a leg may be resized beyond the position, and what it then fills in the same pass reverses it before the reconciliation (`engine.ts:1486-1521`) |
| `MCOrdersProtect` with `Abilities = {"protect", "stubborn", "breach"}`, `MaxOrders = 5` (`MCOrderEngine`) | `FailedOnlyLiquidates` | while a failed account is still being closed in parts its trader may attach protection, which does not ask for the status, and that fills (`engine.ts:2143`, against `:760-761`) |
| the same with `FillCap = Nobody`, `Levels = {1, 2}`, `Abilities = {"modify", "resize", "freely"}` | `OcoExclusive` | a leg that the trader makes smaller completes, and its sibling works on for the rest (`matching.ts:285`, against `:190`) |
| `MCOrdersLatency` with `Abilities = {"freely"}` (`MCOrderEngine`) | `SoleBracketCovers` | an entry that fills beside another order gets legs for its own fill, though nothing else protects the rest; they grow only in the next pass (`engine.ts:2394`, against its comment at `:2364`) |
| the same with `Abilities = {"crash"}` | `SoleBracketCovers` | a stop before the reconciliation leaves the legs at the size they had before the fill (`engine.ts:1635`) |
| `MCLiquidationStarved` (`Liquidation`) | `FlatAtLast` | live, every pass over a failed account cancels the closing order in flight and sends another that waits its latency again; the wake-ups this leaves behind keep it up even when quotes are slow (`engine.ts:767`, against `:746`) |
| `MCLockPools` (`MCAccountLock`) | `PoolsIndependent` | transactions that wait for account locks hold the connections of the query pool that the lock's holder needs (`db/client.ts:47`) |
| `MCLifecycleRaces` (`MCLifecycle`) | `CertifiedOnItsMerits` | certification judges figures read before it takes the lock, and re-reads only the status, of which it accepts `ACTIVE` (`commerce.ts:645-673`, against `:609`) |
| the same | `FailedMayNotTrade` | a refund's hold leaves the status tradeable and keeps the failure from it (`commerce-refund.ts:34`); activation after a disable does the same (`account-service.ts:166`) |
| the same | `ResetStartsFlat` | an order accepted after the exposure check survives into the new life (`account-service.ts:363-383`) |
| the same | `ArchivedLifeEnded` | a reset between an archive's two statements leaves an archived account with an open life (`account-service.ts:269`) |
| the same | `CertifiedIsOneWay` | disable and enable return a certified account to its rule status (`account-service.ts:236`, against `commerce.ts:610`) |
| the same | `CompletedIsOver` | the next changed evaluation takes `COMPLETED` back (`payouts.ts:590` sets no hold) |
| the same | `HeldHasNoOrders` | `account-ops.ts` disables without cancelling, and an order may slip in between cancel and hold (against `account-service.ts:173`) |
| `MCPayouts` (`MCPayouts`) | `DaysAreTrading` | a reversal, which does not take the account's lock, falls between the two halves of a pass: the roll writes anchors of before it, and the money put back reads as the day's result (`payout-operations.ts:606`, against its comment at `:607`) |
| the same | `AcceptedAlwaysApprovable` | the first cycle begins on the day of activation: winning days of that day counted for the request, and not for its approval, once the request has opened the cycle (`payouts.ts:345-378`) |
| the same | `FailureGivesDaysBack` | a payout that fails puts the money back, but neither the winning days it counted nor its cycle |
| `MCRailUnsettled` (`MCPayoutOperations`) | `PaidIsSettled` | an event taken in before its payout is known, or whose handler stops, is a duplicate ever after, and `reconcileStaleBatch` has no caller (`payout-operations.ts:499`, `payout-ops-worker.ts:48`, against `:5-7`) |
| the same | `DebitedIsQueued` | a crash between the debit and the mark `PAYABLE` leaves a debited payout that no queue holds; a payout the provider refuses for good stays there too, an `EXCEPTION` that nothing retries (`payout-operations.ts:270-285`) |
| `MCPayoutOperations` with `PaidStaysPaid` (`MCPayoutOperations`) | `PaidStaysPaid` | a step that read the operation before it was settled writes its own state after: `PAID` goes back, the request does not (`payout-operations.ts:524-559`) |
| `MCOutbox` (`MCOutbox`) | `StatusIsShown` | the upsert of a projection overwrites a row of an *equal* sequence number (`projection.ts:126`, against its comment, which has an equal one ignored), and a transition changes the status without counting that number on (`account-service.ts:105-150`): a worker that read the old status and writes last shows an account as active that is locked, and no event is left to correct it; with one worker it cannot happen |
| the same | `MoneyIsExact` | `failPayout` puts money back and enqueues no event: the read model shows the balance of before (`payout-operations.ts:606-617`) |
| the same with `Resets = {TRUE}`, `PayoutEntries = {}` | `MoneyIsExact` | a reset does not count the sequence number on either, so two workers may leave the balance of the life before (`account-service.ts:383`) |
| `MCCopyStranded` (`MCCopyTrading`) | `IntentsComplete` | an intent that a restart interrupts stays as it is; a retry is shown what there is, and nothing takes it up at the start (`copy-orchestrator.ts:131`, against `docs/copy-trading-failure-modes-v1.md:87-92`) |
| `MCCopyCancelRace` (`MCCopyTrading`) | `CancelReachesAll` | a cancellation during the fan-out only sees the children accepted so far, and the others' orders work on (`copy-orchestrator.ts:335`, against `docs/copy-execution-semantics-v1.md:89-92`) |
| `MCCommerceRaces` (`MCCommerce`) | `CapIsUnbreakable` | a slot is counted free while its account is `LOCKED` for the day, or `PASSED` and not yet funded; it is sold, and the account comes back, or is funded, above the limit (`account-limit.ts:23`, `commerce.ts:798-804`, against `docs/CUSTOMER_SYSTEM_L5_CHECKLIST.md:14`) |
| the same | `RefundedIsContained` | a payment that is taken in after the refund, or an operator's retry, provisions the refunded order: only `PROVISIONED` is looked at (`commerce-fulfillment.ts:101`, against `docs/commerce-provisioning-v1.md:349-356`) |
| the same | `RefundedIsNotFunded` | a qualification replaces the hold of the refund, and funding looks at neither order nor hold (`commerce.ts:680`, against `docs/commerce-provisioning-v1.md:355`) |
| the same | `OnlyPaidProvisions` | an operator's retry provisions an order that is `PENDING` (`routes/customers.ts:104`, against `docs/CUSTOMER_SYSTEM_L5_CHECKLIST.md:13`) |
| the same | `RecordedIsApplied` | a crash between recording an event and applying it leaves it `RECEIVED`, and the next delivery is a duplicate: the payment, or the refund, is never applied (`routes/commerce.ts:188`, against `:255`) |
| the same | `BlockedIsRedriven` | nothing re-drives a purchase when a slot frees or a contact is verified, and the recovery runs from a timer that may fire before the acceptance it waits for has committed (`commerce-fulfillment.ts:257-264`, against `:122-123`) |

## 5. What is proved

`AccountRulesProofs`, for any programmes, fee and bounds. `RuleInv` is `TypeOK`
with three parts the properties need and the code never states: a static floor
stands at start minus maximum loss, every floor is at or below its trail
ceiling, and a failed account has a reason. From it `FloorStopsAtLock`; and for
every step `FloorNeverLowers`, `FailedForever`, `EodFloorOnlyMovesAtRoll` and
`SurvivorsHaveRoom`. The lemmas are about `FloorFor`, `AdvanceDrawdown`,
`RollTradingDay` and `FirstBreach`. What holds of a whole history needs
`StatInv`: the recorded days lie before the day under way, the account's
counters are the cardinalities of the days the statistics count and win, each
recorded day hands its balance to the next one and the last to the day under way
(`HandedOn`), and a lockout ends on the date after that day. From it
`StatementsAddUp`, `PassedIsEarned` and `LockoutEndsWithItsDay`. `LockoutsLast`
shows, for every programme, that within its date a lockout ends only with a
failure or by an evaluation that finds the target reached
(`LockoutLiftedOnlyAtTarget`). That not even the target lifts it
(`LockedForTheDay`), which the documents say, is false, see section 4.

`EngineProofs`, for any tickets, levels, bracket offset, fill cap, contract limit and
number of orders. A pass is a fold over the table of orders, and what a fold keeps
is the one induction the proofs need: `FoldExists` and `FoldStays` show, by the
least set of indexes on which it could fail (`LeastSet`, from the library's
well-foundedness of finite sets), that what each step of a fold keeps the fold
keeps. Above it one lemma per operator of the engine says what it does to a table:
`MatchOne`, `ReduceSiblings`, `SyncEntry`, `syncProtection`, `LiquidationOrders`,
`enforce`. Four invariants are proved from them, and what the steps of the engine do with a
fifth:

* `FailedInv`, for `FailedOnlyLiquidates`. What a failed account has working is
  its liquidation (`FailedHoldsOnlyLiquidation`); that is kept only because every
  filled entry has its bracket while there is a position (`Bracketed`), or else
  the liquidation's own pass would create one in the failed account, and because
  a liquidation is never taken for an entry or a leg (`LiquidationsClose`). Two
  hypotheses: no crash, which leaves a breach without its liquidation, and no
  protection attached to a failed account (`"stubborn"`) unless orders are latent,
  in which case the next pass cancels it unfilled. Section 4 shows the property
  violated without the one and without the other.
* `OcoIInv`, for `OcoExclusive`. The legs of a group hang on one entry and are of
  the same size for as long as both work (`LegsAgree`), what works has filled
  nothing (`WorksWhole`), and a group is a bracket (`GroupsAreBrackets`). It holds
  where fills are whole and no leg is resized by hand or regrouped with others by
  moved protection. With resizing, and with partial fills and two brackets, the
  property is false (section 4); with moved protection, and with partial fills
  and one bracket, it is only model-checked (`orders_protect`).
* `QuantitiesInv`, for `TypeOK` and `FilledWithinQty`. Inductive by itself,
  except that a leg moved by `setProtection` takes the position's size whatever it
  has filled: where that may happen fills have to be whole (section 4).
* `BracketInv`, for `SoleBracketCovers`. What it adds says why the first legs are
  right (`CoversPosition`): until one fills, the account is flat and has sent nothing
  but bracketed entries (`Unopened`), so the position is what the first one fills
  (`MatchOpens`), and from the second fill on every pass sizes the legs to the
  position anew (`SyncedCovers`); between passes nothing moves the position
  (`MatchAdds`, `CoversStays`). Two hypotheses, each with its counterexample in
  section 4: brackets are opened from flat (`"freely"`), and no crash falls
  between a fill and its reconciliation.
* `ExitsInv`, for what is behind `ExitsOnlyReduce`. Each exit alone fits the
  position (`FitsIn`), which says nothing of two that fill in one pass; what does
  is that all that work share one OCO group (`ExitsFit`), so that a fill of one is
  taken off the others as the position shrinks. The matches of a pass run before
  its reconciliation, so this has to hold after each of them. An entry that fills
  only makes room; its bracket is created for the whole position because the entry
  was alone until then (`EntryAlone`), and no later one is created beside it
  because every filled entry has its legs already (`AllBracketed`). `ExitsInv` is
  not an invariant of the engine: a trader who sends two brackets, or closes
  twice, leaves it, and so do a crash and a resized leg (section 4). What is
  proved is what the engine does with it: `SteadyStepsKeepExits`, that from *any*
  state in which the exits are in order, whatever led there, no pass over a quote or
  a bar, no latency, breach, liquidation, cancel, moved order or moved protection of
  an active account puts them out of order, and that where only exits trade in such a step
  the position shrinks and does not turn around. There is no hypothesis on the
  trader, on latency or on fills; the steps left out (`Steady` names those in) are
  those that add an order of the trader's, give one another size, or crash. In
  the run `orders_protect` `ExitsInv` holds in all 439,531 states.

It ends with `Liquidation`, for any latency, timer and quote gap. `NeverReverses` is
not inductive: it needs `AllOrNothing`, that what is in flight is a single order
for exactly the position. Cancel before submit is what keeps it.

`AccountLockProofs`, for any number of processes, accounts, sections,
transactions and connections. The inductive invariant says that the unsettled
promises of a key form one chain ending at its tail (`Queue`), that depths count
the live sections and the releases still to come (`Counted`), and that an
advisory lock is held by exactly the client inside (`Owners`). From it
`OneAtATime`, `NoOvertaking`, `EntriesFollowWork`, and that every behaviour of `AccountLock` is one
of `AccountMutex` (`Serialized`) under the mapping that sends each account to
the client inside its critical section. `TypeOK` bounds the two pools: it
needs `PoolsHold`, that each process holds no more connections than its pools
have and that their sets are finite, so that taking one counts one more.

`AccountLifecycleProofs`, for any number of tasks and resets. `ArchivedIsOver`
needs `ArchiveShows`: a row with the archive's hold reads archived or completed,
from which no other transition starts. From `LifecycleInv`: `TypeOK`,
`PastLivesEnded`, `QualifiedLivesPassed`, `HeldStaysShut`, `ArchivedIsOver`.

`PayoutsProofs`, for any requests, policies, amounts, trades and dates. The
invariants are in layers, each proved with the help of those before it:
`TypeInv` (`PayoutTypeOK`, and every request's cycle is one of the account's);
`LedgerAgrees`, inductive by itself; `ClockInv`, that the UTC date is at most a
day behind the exchange's and a pass works on the date it has loaded; `DayInv`,
that while a pass is on money only comes back to the account; `QueueInv`, that at
most one request of an account is open and that those that stand are numbered
from one, which gives `OrdinalsAreDense` and, with the progression that
`resolvePayoutRequest` asks of a daily account, `LaterQualifiesHigher`;
`CycleInv`, that what earlier approvals counted lies on or before the first day
of the open cycle, which gives `WinningDaySpentOnce` and, for any date of
activation, `AcceptanceStands`: a request that one handler accepts the other
could approve, unless its winning days need the activation date before there is
a cycle. That exception is refused (section 4). `BooksBalance` is a
sum over the closed days and over the ledger, by `SumFunction` of the community
modules: `SumGrows` and `BookedSum` say that one more entry adds its amount, and
`RecordAddsUp`, over the subsets of the record, that the days closed before the
first step come to `Earned`. With them `BooksInv` (the rows are finite in number,
and no closed day is that of the account) is inductive, and so is `ShownInv`:
the days on record never show more than the row that follows them has had taken
out. `DaysMisreadNoMore` combines the two with `DayInv`: reversals may fall inside a
pass, as `failPayout` takes no lock; then days show money that came back as if it had
been earned, which refutes `DaysAreTrading` (section 4), but a withdrawal never
reads as a loss, and each reversal shows once at most.

`PayoutsProofs` then goes on to the rail, for any number of requests, callers,
attempts and crashes. `RailInv` has five parts: the ledger's own invariants
(`LedgerSide`), the types, what the provider knows (`ProviderSide`: one key of a
request, and of one that was debited; what is `PAID` in the ledger was sent, what
is `FAILED` there failed at the provider), what an operation's row shows
(`OpInv`), and what each task has read and will act on (`TasksInv`). The tasks
have no lock in common, so the argument is that everything they rely on is
stable: a debit stays in the ledger, a settled request stays settled, an event
stays sent, and money that has gone stays gone (`Onward`). A step is of one of
three kinds, beside the ledger and the provider, at the desk, or at the provider
(`RailMoves`), and moves at most one row or one key in one of a few ways
(`RowMoves`, `KeyMoves`). From `RailInv` come `TypeOK` and `ShownPaidIsPaid`, and,
as it leaves a request's money only the five places of the promise (`MoneyIs`),
that every behaviour of the rail is one of `PayoutPromise` (`PromiseKept`).

`OutboxProofs`, for any workers, batches, accounts, events and faults. `OutboxInv`
says that batches hold distinct waiting events and nobody else's (`Batches`),
that a projection's row is held by one worker, for an event it has handled
(`Holding`), that of two versions of a row, wherever they are, the one with the
higher number is the newer (`Ordered`), that positions are read after the row
(`PositionsFollow`), and that an account of which the last announced change is not
shown has an event owed whose handler has not read too early (`Covered`). A
reset leaves the sequence number and a reversal enqueues no event, so what the
read model owes cannot be the money as it is: TLC refutes that for either
(`MoneyIsExact`, section 4). What it owes is the last change that was both
numbered and enqueued (`announced`), and of that `OutboxInvariant` and
`MoneyIsShownInTheEnd` are proved with nothing assumed, resets and reversals
among the steps. `ShownGoesForward` takes resets away (`TRUE \notin Resets`): two
versions of one number may then be written in either order.

`CopyTradingProofs`, for any group, keys, overlapping requests and bound on the
faults. `CopyInv` is `CopyTypeOK` with three parts: an intent is served by at
most one request, the one that inserted it (`Sole`); each child's answer agrees
with its order (`ChildInv`); and where the serving request stands with an
account tells both (`PhaseInv`). From it `OrdersAreRecorded`, and `OneOutcomeEach`,
that every behaviour of `CopyTrading` is one of `CopyPromise` under the mapping
of `placed` and `told`. `FlattenReachesWhatWasOpen` needs two more: what a
flatten saw open is never again anything but open, being closed, closed or kept
(`OpenInv`), and is past open once its account counts as accepted (`ServedInv`).

`CommerceProofs`, for any orders, requests, limit, restarts and failures.
`CommerceInv` is `CommerceTypeOK` and `EntitlementsAddUp` with `Stands`: an
attempt that has come to the provisioning has an entitlement, one that has come
to the last mark has an account. Without it a late mark could follow no account.
From it `EntitlementsAddUp`, `OutcomesStand`, that provisioning's own key never
finds an account the entitlement does not show (`NoneYet`), and, as a trader's
accounts are finite in number, `LimitAtPurchase`.

The proofs rest on the `ASSUME`s of the modules (types of the constants,
positive latencies and pools, `None` distinct from the values it stands beside),
which TLC evaluates in the runs.

Only model-checked: `ExitsOnlyReduce` over whole behaviours of the trader of
`orders_protect`, and `OcoExclusive` and `SoleBracketCovers` beyond the hypotheses above. Out of
the prover's reach: liveness under fairness (`LockoutEnds`, `FailedGoesFlat`, `ReplayGoesFlat`, `EverySectionEnds`,
`EventsSettle`, `SettledIsTakenUp`), `ENABLED`, and what a recursive definition
computes for every input; of a fold the proofs show what its steps keep, not what
it amounts to.

## 6. Not modelled, and the plan

Not modelled: see the components with that status in `PROJECT.json`. Feeds,
gateway, HTTP, the web terminal, certificates, support and affiliates are I/O
and record keeping around the parts above; candles, analytics and personal risk
limits are pure functions over what the models keep.

Of the parts that are modelled, these operations are left out: the order
properties named in section 2; the coalescing of market events; the payout
desk's batches and statistics; copying's modification and resynchronisation, the
topology of groups, a change of leader, and the divergence report; in commerce
the cross-checks of price and plan, the quote and the link of a reset, affiliate
commissions and the queues of the reconciliation desk.

In order:

1. `MatchQueue`: coalescing of market events per account and instrument, wake-ups
   and the working flag (`engine.ts:1091-1136`, `:1882`), whether an extreme that
   would fill an order can be missed; composed with `AccountLock`.
2. `PositionLedger`: average price, realized result and fee attribution per fill
   against a reference over the executions.
3. Proofs: `OcoExclusive` for moved protection, and for partial fills of one
   bracket, from `ExitsInv`, which puts all working exits into one group; and the
   traders' steps that keep `ExitsInv`, one by one.
