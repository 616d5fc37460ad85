# A TLA+ verification of ipenovel

ipenovel sells web novels. It is a Node/tRPC server (`server/`) over a MySQL-compatible database
(InnoDB in development and CI, TiDB in some deployments), a React client (`client/`) and a few
scheduled scripts (`scripts/`). This directory models the parts of the server where requests meet
over money, rights and messages, checks them with TLC and proves every safety property the runs
check, and the refinements, with TLAPS: the wallet, orders, notifications, login sessions with their reading lease, the plugin's
OAuth tokens, the votes on sports matches and the controlled publication of workspace novels.

The server keeps no state of its own that matters. Every handler is a sequence of SQL statements in
one or several transactions, possibly with a call to an external service in between, and everything
that can go wrong goes wrong between two statements of two handlers: a check made before the lock,
a snapshot older than the lock, a second transaction after the first, a verdict that arrives late,
a process that dies. The models therefore cut a handler exactly there, and nowhere else.

## Inventory

| Part | State | Operations | What makes it hard | What makes it correct |
|---|---|---|---|---|
| Wallet and top-ups (`db.ts` 5206-5700, `walletService.ts`) | `walletAccounts`, `walletTransactions`, `walletTopups` | create, upload slip, approve, reject, repair, adjust | checks outside the transaction; absolute writes of balances read without a lock | balance = ledger; one credit per approved top-up; reviewed top-ups are final |
| Provider verification (`payments/*`, `paymentProviderVerificationService.ts`) | verdict columns of the row, `paymentProviderClaims` | verify, claim, approve automatically, record a failure | a network call between reading the slip and judging it; rollback followed by a second transaction | the verdict approves only the slip it is about; one transfer, one approval |
| Orders and payments (`orderService.ts`, `approvalService.ts`, `routers.ts`) | `orders`, `payments`, `purchases`, `orderHistory` | checkout by slip or wallet, upload, approve, reject | two status columns on two tables; an approval retried, or raced by the provider | statuses agree; settled once; approval is final |
| Points, coupons (`db.ts`) | `pointsTransactions`, `couponUsages`, `coupons.usageCount` | redeem, earn, adjust, check in; use a coupon | balance is the last row's `balanceAfter`, read in a snapshot; nothing is reserved at checkout | balance = ledger; usage within the limit |
| Package ownership, chapters (`packageOwnershipService.ts`, `episodePurchaseService.ts`) | `purchases`, `episodePurchases` | grant a package, buy a chapter | a package contains chapters, an order is live until it is settled | nothing is paid for twice; every grant is backed by a payment |
| Package upgrade (`packageUpgradeService.ts`) | the above | quote, execute | a long transaction that meets the checkout's locks in the other order | as for the wallet |
| Administrators' gifts (`adminGiftWalletAdjustmentService.ts`) | `adminGiftWalletAdjustments` | preview, execute | preview is stale, request is retried | each key moves money once |
| Notifications (`server/notifications`) | outbox rows, inbox rows, preferences, bulk operations | record, claim, page, insert, checkpoint, retry; read, delete all | overlapping ticks, leases, replays, readers who change their mind in the middle | at most once, to those who want it, all of them in the end |
| Sessions and reading lease (`sessionRegistry.ts`, `readingLease.ts`) | `authSessions`, slot rows, `readingLeases` | allocate, choose, rotate, revoke, expire; acquire, renew, transfer | every path recounts under the slots lock, but reads the switch of the reader controls by itself; a request carries the status it was given at its start; the lease is tied to a session that may end | at most two active sessions once the quota is in force; one reader; no page for an ended session; a lease version never serves two sessions |
| Plugin OAuth (`server/plugin`) | codes, access and refresh grants | consent, exchange, refresh, revoke, sweep | code exchange and revocation are several statements without a transaction, rotation and reuse detection are transactions that lock one row; a statement misses rows inserted after it | a code buys one pair; rotations never fork; a reused or revoked family cannot be renewed |
| Sports votes (`db.ts` 5985-7016) | matches, votes, rewards | vote, settle, cancel | settlement retried, raced by votes, by a cancellation and by edits that look at a row without its lock | every vote is charged once and rewarded or refunded as decided; none stays behind |
| Account merge and recovery (`accountMerge*.ts`, `accountRecovery*.ts`) | everything a user owns | preview, execute, compensate | every other mutation may be in flight | ownership moves whole |
| Controlled publication (`server/workspace/publish*`, `ipenovelPublish.provider.ts`, `editorialApproval.service.ts` 1187-1720) | stages with the row they recorded, episodes, runs, items, outbox rows, provider receipts, ownership, the hash last published | stage, plan, request, claim, publish item by item, finalize, retry, give up, roll the ownership back | workers of several replicas under leases they may overrun; every step commits on its own around the provider's transaction; an episode is staged again while a run over it is under way | a new episode appears once, and two drafts staged over one published text do not overwrite each other; a run is delivered only whole; late workers do no harm; every request ends |
| Editorial workspace, quality analysis (`server/workspace`, `server/nqa`) | drafts, findings, approvals | edit, check, approve | many roles on one draft, external models | published text is the approved text |
| Catalogue, import, export, reader, search rendering, storage, client, scripts | content | reads and single-author writes | I/O and formatting | - |

How they interact: all of them share the database. A handler that moves money first takes the
`users` row of the owner (`assertAccountMergeClassifiedMutationsAllowed`, the account-merge barrier),
and that row is in fact the lock that protects balances and points. Top-ups and order payments
share the registry of bank references. Purchases from the wallet look at orders, and the
reverse. Business transactions write outbox rows, which scheduled ticks turn into inbox rows.

`PROJECT.json` lists every component with its status, and under `hazards` each place where this
interleaving or failure bites, with the property that covers it.

## Modules

| Module | Models | Grain |
|---|---|---|
| `WalletLedger` | what a wallet promises | atomic movements on accounts |
| `Wallet` | balances, top-ups, verdicts, claims, the three purchase paths, gifts, repair, adjustment | one action per statement group between two points where others can act |
| `WalletProofs` | theorems about `Wallet` | see *Proofs* |
| `OrderSettlement` | orders, payments, review, settlement, points, coupons, grants | same cut; the wallet's money is left to `Wallet`, top-ups appear as a foreign claim |
| `InboxPromise` | what notifications promise | events, readers, no workers |
| `OrderProofs` | theorems about `OrderSettlement` | see *Proofs* |
| `NotificationDelivery` | outbox, ticks, leases, pages, inbox, preferences, deletion | workers and readers |
| `NotificationProofs` | theorems about `NotificationDelivery`, with the refinement of `InboxPromise` | see *Proofs* |
| `ReadingRight` | what sessions and lease promise a reader | sessions and one right, no registry |
| `Sessions` | authSessions, slots and `readingLeases` of one account, the operator's switch | one action per transaction, which locks what it decides on first; a handler's transactions are separate |
| `SessionProofs` | theorems about `Sessions`, with the refinement of `ReadingRight` | see *Proofs* |
| `PluginTokens` | consents, codes, token pairs of one (user, client), the sweeper | one action per statement of exchange and revocation, and per lock wait of the two transactions |
| `TokenProofs` | theorems about `PluginTokens` | see *Proofs* |
| `SportsVotes` | matches, votes, rewards, points of the voters, edits | lock waits and the commit; an edit's read and write |
| `SportsProofs` | theorems about `SportsVotes` | see *Proofs* |
| `PublishExecution` | stages, episodes, runs, items, receipts, outbox, ownership, hash, the workers' cycle | one action per statement group that commits on its own, and per read that decides later |
| `PublishProofs` | theorems about `PublishExecution` | see *Proofs* |
| `MCWallet`, `MCOrderSettlement`, `MCNotificationDelivery`, `MCSessions`, `MCPluginTokens`, `MCSportsVotes`, `MCPublishExecution` | constants for TLC | - |

### State and actions against the code

* A record of `topup`, `order` or `outbox` is a database row, `order` being an `orders` row with its
  `payments` row. A request (`req`) is a handler: `pc` names the point it stopped at, the other
  fields are its local variables, including what it read without a lock.
* One action is one run of a handler between two points where another handler can act. A
  transaction that takes all its locks first and reads only under them is one action, guarded by
  those locks being free; a transaction that waits for a lock after it has read, or reads around its
  locks, is cut into several, and its locks are explicit variables (`userLock`, `cartLock`).
* A plain `SELECT` reads the transaction's snapshot. Under InnoDB's REPEATABLE READ it is fixed by the
  first plain `SELECT`, under TiDB when the transaction begins: `SnapshotAtBegin` in `Wallet`. In
  `OrderSettlement` (InnoDB) the snapshot is `view`, taken where the code resolves the owner, before
  it waits for the users row. Locking reads and writes see the current rows.
* `Crash` is any exception, refused request, deadlock victim or dead process: an open transaction
  leaves nothing behind, earlier ones stay.
* In `NotificationDelivery` a lease token is the worker that took it. What a worker copied
  at its claim (attempt, cursor) equals the row as long as it holds the lease, and is used only behind
  the fence, so it is not copied. The received-sequence cutoff of a bulk operation is the set
  of rows the reader has when the operation commits under the sequence lock. The back-off of a retry
  and the rows `SKIP LOCKED` passes over appear as: a tick claims any non-empty set of ready rows.
  A preference and an event of the same second are not ordered by the code, so `Emit` chooses.
  `alive` is the `users` table; `deleting` is the row lock of `deleteAdminUserSafely`, which no route
  calls at present, but against which `insertRecipientIfAbsent` is written.
* In `Sessions` every transaction takes the slots row, then session rows, then the lease row, and reads
  only under these locks, so a transaction is one action; `got` is the status `resolveRegistryRow`
  handed to the request, and `seen` every value the switch `READER_SESSION_CONTROLS` had since the handler's last step, since
  each step reads it anew. A row's deadline is `exp`: the cookie's, the chooser's window, or over.
  `quiet` records that the quota is in force without exception.
* In `PluginTokens` all pairs belong to one `pluginAuthorizations` row. `Expire` ages a refresh token,
  `AccessOver` an access token; a row swept is gone for its hash. An insert first locks the users row
  (the merge barrier), which a rotation holds to its commit: `UserFree`. An `UPDATE` of all rows of
  an authorization waits for rows others have written but not committed; with `GapLocks` (InnoDB) inserts
  wait for it in turn, without (TiDB) they do not. `origin`, `parent`, `reused` and `revoked` are history.
* In `SportsVotes` a transaction's writes appear at its commit; whoever could see them earlier waits for
  its match row or a users row it holds. `view` is its snapshot, which the code fixes by the first plain
  read, right after the match row is locked (InnoDB), or when it begins (`SnapshotAtBegin`). A vote's record also counts the
  `pointsTransactions` and `sportsMatchRewards` rows that refer to it.
* In `PublishExecution` the batch, the document's hash, whether an editor staged the items and the text of the draft are
  constants of a run; an item is its `workspacePublishItems` row, a receipt the provider's audit event, written in one
  transaction with the episode. `before` orders the outbox rows by `availableAt`; the second's pause before a retry
  is left out. `seen` and `version` are what the worker read of an item, `saw` its transaction's snapshot of
  the receipts. A lease is `live` until `Expire`, which may come at any moment: a worker goes on without one until a guard stops
  it. After a rollback the ownership cannot come back (`transitionTarget`; a cutover starts at epoch 0). The
  provider of the repository never answers that it failed, it throws (`Throw`); `Refuse` is what its interface allows.
* `episode` is the row readers see: published or not, and its text, by which the model means all that the state hashes
  cover (title, content, sale metadata). `Stage` is `stageEditorialEpisodeDraft` from the point where the
  draft is known to be approved: a row that does not exist is created unpublished, an unpublished one is written again if
  it is as an earlier stage of the same work item has left it (contract V2), and a published one is left alone and only
  recorded (V3). The record in `stage` is what the provider compares with the locked row, so a V2 item needs the unpublished
  row it wrote, and a V3 item the published row it recorded, which it then replaces with its draft (`Shown`).
  Before the locks, `Preflight` asks less of a replacement, only that the row is published. A draft is one Episode Pack and one
  stage today; stages older than the pack rule, one for every tab, are why a batch may have several. The contract V1 compares as
  V2 does, without the sale metadata. The hygiene filter may rewrite a text that is published; that is part of
  the text here, as it is a function of it. Evidence of approval, the card's column, who may stage and whether a draft is the latest are not
  modelled: they can only refuse. Nobody else edits, reprices or unpublishes an episode.
* `since`, `refused`'s role in properties, `waived`, `ledger`, `credits` and `paid` record history so
  that properties can speak of it; no guard of the code reads `ledger`, `paid`, `since` or `waived`.

The `map` of `PROJECT.json` gives the source lines of every definition.

## Runs

Runs use two concurrent handlers or workers, `plugin_tokens` and `sports_votes` three: each hazard
on the list is a conflict of two, or of two and a retry. Where
a third party matters (a claim by a top-up, a check-in, an administrator's rejection, a reader's
command) it is a step of its own that any moment admits. Handlers are interchangeable, hence symmetry.

| Run | Question | Bounds and why they are enough |
|---|---|---|
| `topups` | Can overlapping uploads, verdicts, reviews, repairs and failures credit a top-up twice, approve the wrong slip, spend a transfer twice or reopen what is closed, on an engine whose snapshots are older? | two top-ups of two users, three slips, two of them of the same transfer: the least with a duplicate between users and a replaced slip; one top-up is older than the registry, credited or orphaned; an upgrade and an adjustment, which break the balance, run beside them |
| `spending` | Is the balance the ledger, are items and gifts paid once, does the wallet implement `WalletLedger`? | one user (users' money is independent), a chapter, two packages, a clawback and a top-up on an opening balance of 0..2, so that the money suffices for some purchases only |
| `order_review` | Do order and payment agree, is approval final and on the slip shown, with a transfer of its own? | two orders, two slips of two transfers, one used before the registry existed, one a top-up may claim |
| `order_settling` | Is each order settled exactly once, within the coupon's limit, for what was paid? | two orders for the same package, points for one redemption, a coupon with one use, one chapter inside the package |
| `notification_delivery` | Do the workers implement `InboxPromise`, keep tombstones, leave no orphans and never go backwards? | a wishlist digest over three readers in pages of two and a direct event; one fault, two commands |
| `notification_settling` | Is every event settled in the end? | three faults, `MaxAttempts` 2, so that both retry and dead letter occur |
| `session_slots` | Do logins, adoptions, promotions, claims, choosers and reconciliations keep the two seats while the switch is turned? | three logins and one older cookie on two seats: the least where a third login meets a chooser and an adoption; the switch is turned on, off and on again |
| `reading_lease` | Does only a session in good standing read, and do lease and registry implement `ReadingRight`? | three sessions on two seats, a lease of two parts handed out three times, one cookie that expires |
| `plugin_tokens` | Can exchange, rotation, reuse detection, revocation and sweeping, failing anywhere, issue a second family or leave a dead one alive? | two consents, three pairs (an issue, a rotation and another family or a second rotation), three handlers |
| `sports_votes` | Is every vote settled as the match was decided? | two voters of one match, two results, one edit, time before, at and after the first deadline, three handlers |
| `publish_delivery` | Is one of several stages of an episode published, once, and a run delivered only whole, whatever workers overlap or die? | two workers, a batch of two episodes and a second run over one of them, each staged from its own draft, over episodes that do not exist yet or are read already; one of the runs changes the document; two attempts, one fault, any lease running out at any time |
| `publish_settling` | Is every request delivered or given up? | the same workers, attempts and faults; the batch is staged, the second run publishes one of its episodes as it is, so a run can succeed, succeed in part, or have nothing to publish yet. Without symmetry, which liveness forbids |

Further configurations are demonstrations of known differences between a text of the repository, or
what one would expect, and the code. TLC finds a counterexample in each
(`tlc -config WalletRepairTwice.cfg MCWallet`, and so on); they are not among the runs.

| Configuration (module) | Violated | What happens |
|---|---|---|
| `WalletUpgradeStale` (`MCWallet`) | `BalanceIsLedger` | an upgrade paid from the wallet debits a balance it read before it held the users row (`packageUpgradeService.ts:1035`, `db.ts:5288`): a top-up approved meanwhile disappears; `WALLET_RELEASE_READINESS.md:185` says "Balance = sum of all transactions" |
| `WalletRepairTwice` (`MCWallet`) | `NeverCreditedTwice` | two repairs of one orphan top-up both find no ledger row (`db.ts:5563`); `db.ts:5539` says "Ensures credit is only applied once" |
| `WalletLockOrder` (`MCWallet`) | `NoLockCycle` | checkout and upgrade take users and cart row in opposite orders, against `packageUpgradeService.ts:123-125` |
| `ChapterChargedTwice` (`MCOrderSettlement`) | `NeverDoubleCharge` | a chapter is bought while its package's order is rejected (`packageOwnershipService.ts:161` looks at pending orders only), and the order is approved after all |
| `PointsLost` (`MCOrderSettlement`) | `PointsAreLedger` | an approval resolves the payment's owner with plain reads before it waits for the users row (`db.ts:10065`, `db.ts:10075`), then appends a balance computed from that older view (`orderService.ts:455`): a check-in committed meanwhile is lost; `db.ts:6685-6700` calls the row "the shared coordination point every points balance read-modify-write must go through" |
| `PluginRevocation` (`MCPluginTokens`) | `RevocationKillsFamily` | a rotation commits between the two statements of a revocation: its access token lives on for its hour, while `docs/IPE-PLUGIN-001B_OAUTH_MCP_FOUNDATION.md:37` says that "refresh revocation kills the whole grant family" |
| `PluginReuseTiDB` (`MCPluginTokens`) | `ReuseKillsFamily` | without gap locks a rotation inserts a pair behind the detection's UPDATE; the comment at `service.ts:512` says that no interleaving exists in which it survives |
| `SportsVotesTiDB` (`MCSportsVotes`) | `NoVoteLeftBehind` | a cancellation or settlement whose snapshot is older than its match lock does not see the last vote |
| `SportsResult` (`MCSportsVotes`) | `ResultStands` | an edit read before the settlement is written after it (`db.ts:6398`, `db.ts:6466`), against "Cannot update critical fields on a settled match" (`db.ts:6409`) |
| `SportsPoints` (`MCSportsVotes`) | `PointsAddUp` | one user votes on two matches at once; the balance is read from a snapshot older than the users row (`db.ts:6743`), which was locked "to prevent concurrent points overspend" (`db.ts:6740`) |
| `PublishTwice` (`MCPublishExecution`) | `NoSecondPublication` | without an editor's stage nothing is compared under the episode's lock, and the transaction reads the receipts of its snapshot (`ipenovelPublish.provider.ts:434`): two workers of one request both publish, with two receipts |
| `PublishReplay` (`MCPublishExecution`) | `NoSecondPublication` | a staged replacement whose draft is the text that is published already leaves the row as the stage has recorded it, so the comparison under the lock does not stop the second of two workers of one request (`ipenovelPublish.provider.ts:510`): two receipts, one text |
| `PublishUnowned` (`MCPublishExecution`) | `PublishesOnlyOwned` | the ownership is rolled back on the evidence of one run while another is inside the provider |
| `PublishLeftClaimed` (`MCPublishExecution`) | `DeadLettersMarked` | the worker of the last attempt dies; the sweep that marks dead letters runs in `claimPublishOutbox`, which is called only for a run with attempts left (`publishExecution.service.ts:251`) |
| `PublishCard` (`MCPublishExecution`) | `CardFollows` | a worker dies between the delivery and the second reconciliation; a delivered row is never picked up again |
| `PublishBlocked` (`MCPublishExecution`) | `Settled` | a run is requested, then its unpublished episode is staged again at another price; from now on the run is refused before it is claimed (`editorialPublish.service.ts:941`), so it never uses up an attempt, stays first in the queue and starves the runs behind it |

Two more configurations pass and are not among the runs, to keep them few: `PublishTypes` checks `TypeOK` of
`PublishExecution` on the instance of `publish_delivery`, and `WalletAllOps` checks `CreditedOnce` with every operation of
the wallet in use but gifts. Both are theorems as well.

The other bounds are named constants: `MaxOpening` and `MaxAdjusts` (wallet), `MaxAdjusts`
(points), `MaxFaults` and `MaxChanges` (notifications), `MaxVersion`, `MaxExpired` and `MaxFlips` (sessions),
`MaxNow` and `MaxEdits` (sports), `MaxAttempts` (3 in the code) and `MaxFaults` (publication). Everything else is finite by itself. A run may stop because nothing is left
to do: all purchases made, all sessions ended, all pairs issued and swept. `CHECK_DEADLOCK FALSE` stands
in the configurations where this happens (`WalletSpending`, the sessions', the tokens', the publication's); elsewhere a stuck state would be reported. A handler that
waits can always fail, as it can in the code, so waiting for each other is looked for by `NoLockCycle`
instead.

### Liveness

Notifications and publications have work that nobody waits for. `Settled` of `NotificationDelivery` assumes weak fairness of
* a tick being started: `scripts/notifications-tick.ts` under the schedule that
  `docs/IPE-NOTIFICATIONS-SCHEDULER.md:68` asks for (every one to five minutes; without a schedule
  nothing is delivered, which the same page says),
* a running tick's next step (`Process`), unless a fault strikes,
* expiry of a lease whose worker is gone (`leaseExpiresAt` is compared with the clocks of the processes), and
* the commit of a deletion's transaction, which an insertion may be waiting for.

No fairness is assumed of producers, readers or faults. Faults are finitely many: for a process that
crashes in every tick the code promises nothing, since the dead letter is decided by the handler of a
failed statement and a crash has none. Another consequence of the code the model shows: the attempt
counter grows with every page, so a fan-out of more pages than `MaxAttempts` (8 in `deliveryPolicy.ts:56`) is dead-lettered
at its first transient failure on a late page.

`Settled` of `PublishExecution` assumes weak fairness of a worker's next step, its poll included: every replica
schedules the next tick in the `finally` of the last one (`publishUnattendedWorker.ts:159-162`), and a provider call
answers or throws; and of the end of a lease, which is a time: its `leaseExpiresAt` is compared with the database's clock when a row
is claimed (`publishExecution.service.ts:252-342`) and with the process's own in the later checks
(`publishExecution.service.ts:433`, `publishExecution.service.ts:583`, `editorialPublish.service.ts:694`). A difference of the clocks is an `Expire`
that comes early or late, and the model allows any moment. It assumes nothing of administrators or faults, which are
finitely many. A process that dies on the last attempt leaves its row claimed, which counts as given up. The drafts of
`publish_settling` have one price; `PublishBlocked` shows what happens when they have not.

The request handlers have no liveness property: a handler that fails is not retried by the server.

## Proofs

`WalletProofs` proves, for any number of users, top-ups, slips, items and handlers, and any amounts:

* with every operation in use and on either engine: `Typed` (in particular no balance
  is negative), `CreditedOnceAlways`, `UniqueTransferAlways`, `AutoApprovedOwnSlipAlways`,
  `TopupTerminalAlways`, `PaidOnceAlways`;
* under `Disciplined` (InnoDB, and no upgrade, repair or adjustment): `LockedReadsAlways`,
  `BalanceIsLedgerAlways` and `WalletImplementsLedger`, the refinement of `WalletLedger`. The configurations
  `WalletUpgradeStale` and `WalletRepairTwice` show that the assumption cannot be dropped.

The argument has three layers, each inductive relative to the one below.

1. `Shape` = `TypeOK` and `HandlersWellFormed`: a handler works on a subject of the right kind, and the
   reference of an eligible verdict is the one printed on its slip. Typing alone is not inductive: a
   verdict that carried another slip's reference, or a handler with no subject, would type.
2. `Settled`: credits match approvals (`CreditedOnce`), approvals hold their claims (`ClaimsHeld`),
   `UniqueTransfer`, `AutoApprovedOwnSlip`, an automatic source means an approved top-up, and only legacy
   top-ups, which stay approved, are under repair. `UniqueTransfer` needs `ClaimsHeld`: a reference
   has one claim; only against older approvals does the check on their rows decide.
3. `Locked`: no handler is in an undisciplined phase, and `LockedReads`: a checkout between its locks
   and its write holds the users row, and what it read is still the balance. `BalanceIsLedger` is only inductive with it, because
   the checkout writes an absolute balance.

The actions are first reduced to a few *effects* (`Settles`, `Repairs`, `LeavesSettled`,
`MoneyEffect`, `HolderEffect`), one lemma per group of actions, and each invariant is then shown to
survive the effects. The refinement has one lemma per kind of movement; every other step stutters.

Assumptions: those of `WalletAssumption` (types of the constants and that `None` is none of them).

`TokenProofs` proves, for any number of consents, pairs and handlers: `Typed`,
`OneGrantPerConsentAlways`, `RotationNeverForksAlways` and `RevokedCannotRenewAlways` on either engine,
and `ReuseKillsFamilyAlways` where updates lock gaps (`PluginReuseTiDB.cfg` shows that it fails
elsewhere). None of the four is inductive. The invariant `Inv` adds, layer by layer:

1. `Shape`: types, what a handler has in each phase, and that a refresh row has a consent it descends from.
2. `NewRows`, `FirstPairs`, `RowLocked`: a pair being issued is nobody else's, and a token being rotated
   is not being rotated or found reused by another transaction, hence still usable.
3. `DecidedOnce`, `ExchangedOnce`: one handler decides a consent and one exchanges its code; until its
   first pair is complete, that pair is the whole family. This gives `OneGrantPerConsent`.
4. `OneUsable`: two tokens of a family are never usable at once, expired ones included, since a rotation
   that began in time may finish after the token expired.
5. `FamiliesOver`: a family ended by a reuse or a revocation has no usable token and none in rotation, and is past
   its exchange. `AccessOverToo`: while a detection is between its updates nobody inserts an access token, so
   the rows it collected are all there are.

Each layer has one lemma with one step per action. Assumptions: `TokensAssumption` (consents and pairs are different
things, `None` is none of them).

`OrderProofs` proves, for any number of users, orders, packages, slips, references, coupons and handlers, any prices (`Subtotal`
is any function from sets of packages to numbers) and any selection of the operations: `Typed`, `StatusesAgreeAlways`,
`SettledOnceAlways`, `CouponWithinLimitAlways`, `GrantsBackedAlways`, `TransferUsedOnceAlways`,
`AutoApprovedOwnSlipAlways`, `NoDoubleChargeAlways` and the action property `ApprovalFinalAlways`. A handler decides from a view
older than its locks, so the invariant needs `ViewsStand`: what a view shows (grants, uses of a reference, rows recorded
for the order) is never taken back. Missing rows need no view: an order that is not approved has no settlement row at all
(`SettledOnce`), and the approval checks the locked payment. `NeverInside` strengthens `NoDoubleCharge` to every order
that was never rejected, approved or not; `CouponsCounted` adds that the count is the number of the orders
that used the coupon; `RefusalsKept` that only an administrator rejects and nothing rejected goes back. The steps are
reduced to four effects on the records (`Amends`, `Settles`, `MovesPoints`, none) and one on the handler.
Assumption: `OrderAssumption`, types and that `None` and `Elsewhere` are nothing else.

`NotificationProofs` proves, for any number of readers, events, workers, faults and changes, and every page size: `Typed`,
`DismissalsExactAlways`, `NoOrphansAlways`, `PagedAreServedAlways`, `OutboxForwardAlways` and
`DeliveryImplementsPromise`, the refinement of `InboxPromise`. `PagedAreServed` is not inductive: while a worker
is inside a page, the cursor has not moved yet. `PagesFit` says that whoever the page must still serve is on it, which
rests on two facts about pages: one that is not full is the last (`FirstAll`), and a full one ends at its greatest reader (`FirstFits`). Their
proofs need the least element of a set of numbers, which `LeastNat` takes from the well-foundedness of `<`.
A step that changes preferences, follows or accounts can only shrink who misses an event of the past (`Narrows`). In
the refinement an emission is `Happen`, an insertion `Deliver`, the completion of an event `Close` and its dead letter
`Abandon`; all the other steps of the workers stutter. Assumption: `NotificationAssumptions`; the readers need not be finitely many.

`SessionProofs` proves, for any number of sessions and handlers, every slot limit, and the switch turned as often as one likes:
`Typed`, `QuotaKeptAlways`, `VersionsFencedAlways`, `ReadsNeedStandingAlways` and `SessionsImplementRight`, the
refinement of `ReadingRight`. `QuotaKept` needs `QuietMeans` (while the quota is in force no handler can still believe that
the switch is off) and that the seats are finitely many, which is proved and not assumed. The lease needs `LiveStands` (the
holder of a live lease was not ended) and `GivenFits` (a version answered is a past one, or the present one of its
holder). Assumption: `SessionsAssumption`.

`SportsProofs` proves, for any number of users, matches, results and handlers, `PaidAsDecidedAlways` and
`NoVoteLeftBehindAlways` under `InnoDB` (`~SnapshotAtBegin`); `SportsVotesTiDB.cfg` shows that the assumption cannot be
dropped. What is needed is `OneHolder` (a match row has one holder) and that, while a handler holds it, the match and its
votes are what the handler saw (`SeesTheMatch`). Assumption: `SportsAssumption`.

`PublishProofs` proves, for any number of runs, workers, faults and attempts and batches of any length, `Typed`,
`PublishedOnceAlways`, `DeliveredIsPublishedAlways`, and, where every worker has a lease owner's name of its own (`OwnNames`),
`LateStepsHarmlessAlways`. Without `OwnNames` the last one is false (see the last difference below). The invariant adds to types:
`ReadsFenced` (what a worker is about to overwrite was not done when it read it, and under the same version it is the same),
without which a late `Take` could reopen a published item; `AnswersBacked` (a worker that says "published" has the
provider's receipt); and `AttemptsKnown` (a worker whose name is on the claim knows the attempt the claim is for), which is
where `OwnNames` is needed. `PublishedOnce` needs two facts about stages and episodes: `Shows` (a stage whose receipt is there
has left its episode published) and `Spent` (an episode whose text was replaced is not as a stage recorded it, unless a
replacement published that text again). Again the steps are first reduced to their effects on each table (`ItemsMove`, `ProvidedMove`,
`BoxesMove`, `RunsMove`, `WorkersMove`). Assumption: `PublishAssumption`.

Only model-checked: the two `Settled`, since liveness is beyond the prover, and the demonstrations. So every safety property
of every run is proved, under the assumptions named above; runs and theorems speak of the same definitions.

## Known differences without a run of their own

* Points are not reserved: two pending orders can redeem the same points, and the balance is clamped
  at zero when both are approved (`orderService.ts:457`).
* A rejected payment can be reopened by a new slip (`routers.ts:1427`) while
  `P0_HARDENING_REPORT.md:44` says rejected payments are finalized; the second transaction of an upload can leave
  `paymentStatus` submitted on a rejected payment, against `STATUS_SYNC_AUDIT.md:80`. `StatusesAgree` is stated
  without these.
* Two administrators who confirm duplicates at once each see an old view
  (`orderService.ts:353`, `duplicateException.ts:5`), so neither confirmation lists the other order,
  against `docs/payment-duplicate-exception.md:9`; `TransferUsedOnce` therefore asks only that what was
  confirmed is true.
* A package in a pending order can be put into another order and paid again (`orderService.ts:193`);
  settlement then grants it once (`GrantsBacked`).
* `adjustWalletBalance` writes an absolute balance read without a lock (`db.ts:5670`), and on an engine
  that fixes snapshots at the beginning of a transaction, as the comment at `db.ts:1296` says of TiDB, the
  wallet checkout debits a balance older than its locks. Both are in `Wallet`, outside `Disciplined`.

* `allocateSessionRow` and `resolveThirdLogin` write `readingLeases` and then lock `authSessions` (through
  `countActive`), against the order slots, sessions, leases of the lease's transactions: a deadlock is possible, and
  a login it hits answers 503. Transactions of `Sessions` are atomic, so the model does not show it.
* If the second recount of `resolveThirdLogin` finds no seat, it answers NOT_PENDING but commits the displacement
  (`Choose` without `seat`). A login whose reconciliation fails leaves an active row whose cookie no
  browser got (`Abandon` after `LoginAllocate`). Logging out with a cookie from before the registry that was never adopted
  leaves no trace, and the cookie can still be adopted.
* `ReuseKillsFamily` speaks of one consent. A reuse ends all pairs of the (user, client), but the code of
  another consent that is being exchanged at the time buys a pair afterwards.
* `PublishedOnce` leaves out what the recorded row cannot tell: a replacement that changes nothing (`PublishReplay`), and a
  replacement whose old text another one has put back since, which is as recorded again. An item no editor staged has no
  recorded row (`PublishTwice`).
* A lease owner is a mode and a process id (`publishUnattendedWorker.ts:127`): replicas in containers may share one, and then
  the catch block of a late worker ends the other's claim. `OwnName` gives every worker its own; `SameName` is kept in
  `MCPublishExecution` to look at the rest.

## Not modelled

Formatting, quotas of text, OCR (retired: no route reaches it), rendering, storage, the client. Of
modelled parts: quotes and credits of an upgrade and its slip method, gifts of novels, reward
calendars, discount arithmetic beyond a fixed amount, kill switches and malformed pages of the
delivery, author-role changes, re-following after an event, account merges, device names and cookies of
sessions, the begin of an authorization with its clients, redirects, PKCE and scopes, creation and catalogue of
matches, edits of other fields than status and deadline, the use of a reward coupon, the editorial workspace before a
draft is staged (drafts, approvals, quality checks, the import of documents), and edits of episodes outside it:
an administrator who reprices, rewrites or unpublishes a row makes the comparison with the stage fail, or hold again.

## Plan

In order of importance of what they protect:

1. **Done**: `Wallet`, `WalletLedger`, `WalletProofs`; `OrderSettlement`, `OrderProofs`; `NotificationDelivery`,
   `InboxPromise`, `NotificationProofs`; `Sessions`, `ReadingRight`, `SessionProofs`; `PluginTokens`, `TokenProofs`;
   `SportsVotes`, `SportsProofs`; `PublishExecution`, `PublishProofs`.
2. An abstract specification of a publication (an episode appears once, under the ownership of its run) that
   `PublishExecution` implements, and one of an order's settlement for `OrderSettlement`, with their refinements.
3. `MergeBarrier`: the users-row barrier and the states of an account-merge case against every mutation in flight.

The runs are kept few and small enough for the whole to be checked in about half an hour; what shows a known
difference stays as a demonstration.

## Reading order and tools

`WalletLedger`, `Wallet`, `OrderSettlement`, `InboxPromise`, `NotificationDelivery`, `ReadingRight`,
`Sessions`, `PluginTokens`, `SportsVotes`, `PublishExecution`; each module ends with its properties. Definitions marked *mutant* are faulty variants of the definition that follows:
put in its place, they make the property named in `PROJECT.json` fail, which shows that the property
can. `tlc -config WalletTopups.cfg MCWallet` runs one configuration, and `tlapm` on each of
`WalletProofs`, `OrderProofs`, `NotificationProofs`, `SessionProofs`, `TokenProofs`, `SportsProofs` and `PublishProofs` checks the proofs.
