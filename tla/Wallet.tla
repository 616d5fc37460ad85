------------------------------- MODULE Wallet -------------------------------
(***************************************************************************)
(* The wallet: top-ups and their slips, the payment provider's verdicts    *)
(* and the bank-transfer claims, purchases paid from the balance, and the  *)
(* administrators' balance operations (src/server/db.ts,                   *)
(* src/server/services/walletService.ts, src/server/payments/*,            *)
(* src/server/services/episodePurchaseService.ts, the walletCheckout route *)
(* and executePackageUpgrade's wallet method).                             *)
(*                                                                         *)
(* A request is a server-side handler; it is cut where another request     *)
(* can act: between a check made outside a transaction and the             *)
(* transaction, around the provider call, and inside a transaction         *)
(* wherever it may wait for a row lock or has read without one.            *)
(*   - Row locks held across such a point are explicit: userLock is the    *)
(*     users row every classified mutation takes first                     *)
(*     (assertAccountMergeClassifiedMutationsAllowed), cartLock the cart   *)
(*     row.  A transaction that takes all its locks and commits without    *)
(*     reading around them is one step, guarded by the locks being free.   *)
(*   - A plain SELECT reads the transaction's snapshot.  InnoDB takes it   *)
(*     at the first plain SELECT of the transaction, TiDB when it begins;  *)
(*     SnapshotAtBegin chooses.  A value read so is kept in the request.   *)
(*   - Writes are published at commit; Crash is any error, deadlock        *)
(*     victim or lost connection: the transaction rolls back.              *)
(***************************************************************************)
EXTENDS Integers, FiniteSets

CONSTANTS
  Users, Topups, Slips, Refs,
  Episodes,         \* single chapters, bought straight from the wallet
  Packages,         \* package episodes, bought through the cart or upgraded
  GiftKeys,         \* idempotency keys of administrators' gifts and clawbacks
  Requests,         \* concurrent request handlers
  Owner, Credit,    \* of a top-up: its user, its creditedAmount
  SlipRef,          \* the bank reference printed on a submitted slip
  Cost,             \* Cost[S]: the price of a set of items in one purchase
  GiftUser, GiftAmount,
  AdjustAmounts,    \* amounts an administrator may type into adjustBalance
  Legacy,           \* top-ups approved before the claim registry existed
  MaxOpening,       \* bound: largest opening balance
  MaxAdjusts,       \* bound: calls of adjustBalance in a behaviour
  Ops,              \* the operations in use
  SnapshotAtBegin,  \* TRUE: TiDB; FALSE: InnoDB
  None

Items == Episodes \cup Packages

AllOps == {"topup", "verify", "buy", "cart", "gift", "upgrade", "adjust", "repair"}

\* The operations whose every decision about money is made on rows read
\* under the users-row lock (or by a conditional UPDATE).
LockedOps == {"topup", "verify", "buy", "cart", "gift"}

ASSUME WalletAssumption ==
  /\ Owner \in [Topups -> Users]
  /\ Credit \in [Topups -> Nat]
  /\ SlipRef \in [Slips -> Refs]
  /\ Cost \in [SUBSET Items -> Nat]
  /\ GiftUser \in [GiftKeys -> Users] /\ GiftAmount \in [GiftKeys -> Int]
  /\ AdjustAmounts \subseteq Nat
  /\ Legacy \subseteq Topups
  /\ MaxOpening \in Nat /\ MaxAdjusts \in Nat
  /\ Ops \subseteq AllOps
  /\ SnapshotAtBegin \in BOOLEAN
  /\ None \notin Users \cup Topups \cup Slips \cup Refs \cup Items \cup GiftKeys \cup Requests

VARIABLES
  balance,      \* walletAccounts.balance; no row yet is a balance of 0
  ledger,       \* opening balance plus the sum of walletTransactions.amount
  topup,        \* walletTopups rows
  credits,      \* topup_approved ledger rows of every top-up
  claim,        \* paymentProviderClaims: the owner of a bank reference
  autoApprove,  \* settings.provider_auto_approve
  owned,        \* items with an entitlement row (episodePurchases, purchases)
  paid,         \* debits taken for every user and item
  cart,         \* cartItems: packages in a user's cart
  gifts,        \* adminGiftWalletAdjustments rows per idempotency key
  adjusts,      \* calls of adjustBalance so far
  userLock, cartLock,   \* holders of the row locks that outlive a step
  req           \* what every request handler is doing

rows == <<balance, ledger, topup, credits, claim, autoApprove, owned, paid, cart, gifts, adjusts>>
locks == <<userLock, cartLock>>
vars == <<rows, locks, req>>

Phases ==
  {"idle", "verify", "provider", "verdict", "recordFailure", "approve", "upload",
   "buy", "addToCart", "checkout", "checkoutTx", "checkoutUser", "checkoutCart",
   "upgrade", "upgradeUser", "gift", "adjust", "repair"}

\* A handler's local data: the subject it works on, the slip it saw, the
\* provider's verdict, a balance it read and a balance it will write.
Blank == [pc |-> "idle", user |-> None, subject |-> None, slip |-> None,
          ref |-> None, eligible |-> FALSE, seen |-> 0, target |-> 0]

Handlers == [pc: Phases, user: Users \cup {None},
             subject: Topups \cup Items \cup GiftKeys \cup {None},
             slip: Slips \cup {None}, ref: Refs \cup {None},
             eligible: BOOLEAN, seen: Nat, target: Nat]

Statuses == {"absent", "pending", "pending_review", "approved", "rejected"}
Pending(t) == topup[t].status \in {"pending", "pending_review"}

RowsType ==
  /\ balance \in [Users -> Nat]
  /\ ledger \in [Users -> Int]
  /\ topup \in [Topups -> [status: Statuses, slip: Slips \cup {None}, ref: Refs \cup {None},
                           source: {"manual", "provider_auto"}]]
  /\ credits \in [Topups -> Nat]
  /\ claim \in [Refs -> Topups \cup {None}]
  /\ autoApprove \in BOOLEAN
  /\ owned \in [Users -> SUBSET Items]
  /\ paid \in [Users -> [Items -> Nat]]
  /\ cart \in [Users -> SUBSET Packages]
  /\ gifts \in [GiftKeys -> Nat]
  /\ adjusts \in Nat

LocksType ==
  /\ userLock \in [Users -> Requests \cup {None}]
  /\ cartLock \in [Users -> Requests \cup {None}]

TypeOK == RowsType /\ LocksType /\ req \in [Requests -> Handlers]

\* A top-up approved before the registry carries its reference without a
\* claim, and may be an orphan: approved but never credited.
Init ==
  /\ balance \in [Users -> 0..MaxOpening]
  /\ ledger = balance
  /\ \E r \in Refs \cup {None} :
       topup = [t \in Topups |->
                  IF t \in Legacy
                  THEN [status |-> "approved", slip |-> None, ref |-> r, source |-> "manual"]
                  ELSE [status |-> "absent", slip |-> None, ref |-> None, source |-> "manual"]]
  /\ credits \in {[t \in Topups |-> IF t \in Legacy THEN n ELSE 0] : n \in 0..1}
  /\ claim = [r \in Refs |-> None]
  /\ autoApprove = FALSE
  /\ owned = [u \in Users |-> {}]
  /\ paid = [u \in Users |-> [i \in Items |-> 0]]
  /\ cart = [u \in Users |-> {}]
  /\ gifts = [k \in GiftKeys |-> 0]
  /\ adjusts = 0
  /\ userLock = [u \in Users |-> None]
  /\ cartLock = [u \in Users |-> None]
  /\ req = [p \in Requests |-> Blank]

-----------------------------------------------------------------------------
(* Handlers and locks. *)

Idle(p) == req[p].pc = "idle"
At(p, phase) == req[p].pc = phase
Become(p, r) == req' = [req EXCEPT ![p] = r]
Finish(p) == Become(p, Blank)

\* The users-row lock can be taken, by a transaction that will not wait again.
Free(u) == userLock[u] = None
Release(p) ==
  /\ userLock' = [u \in Users |-> IF userLock[u] = p THEN None ELSE userLock[u]]
  /\ cartLock' = [u \in Users |-> IF cartLock[u] = p THEN None ELSE cartLock[u]]

\* Any failure of a handler: its transaction rolls back and its locks go.
\* This is also how InnoDB resolves a deadlock.
Crash(p) == ~Idle(p) /\ Finish(p) /\ Release(p) /\ UNCHANGED rows

\* saveAutoPolicy, one row, revision-checked under its lock.
SetAutoApprove ==
  /\ "verify" \in Ops
  /\ autoApprove' = ~autoApprove
  /\ UNCHANGED <<balance, ledger, topup, credits, claim, owned, paid, cart, gifts, adjusts, locks, req>>

-----------------------------------------------------------------------------
(* Top-ups: creation, slip upload, review by an administrator. *)

\* createTopupRequest: the row is durable before the provider is asked.
CreateTopup(p, t, s) ==
  /\ "topup" \in Ops /\ Idle(p)
  /\ topup[t].status = "absent" /\ Free(Owner[t])
  /\ topup' = [topup EXCEPT ![t] = [@ EXCEPT !.status = "pending", !.slip = s]]
  /\ Become(p, [Blank EXCEPT !.pc = "verify", !.subject = t])
  /\ UNCHANGED <<balance, ledger, credits, claim, autoApprove, owned, paid, cart, gifts, adjusts, locks>>

\* uploadWalletTopupSlip reads the status outside any transaction ...
UploadCheck(p, t, s) ==
  /\ "topup" \in Ops /\ Idle(p)
  /\ topup[t].status = "pending" /\ topup[t].slip # s
  /\ Become(p, [Blank EXCEPT !.pc = "upload", !.subject = t, !.slip = s])
  /\ UNCHANGED <<rows, locks>>

UploadCommitUnchecked(p) ==  \* mutant: trusts the check made outside the transaction
  LET t == req[p].subject IN
  /\ At(p, "upload") /\ Free(Owner[t])
  /\ topup' = [topup EXCEPT ![t].slip = req[p].slip]
  /\ Become(p, [Blank EXCEPT !.pc = "verify", !.subject = t])
  /\ UNCHANGED <<balance, ledger, credits, claim, autoApprove, owned, paid, cart, gifts, adjusts, locks>>

\* ... and updateWalletTopupSlip checks it again under the row lock.  The
\* verdict stored for the previous slip stays until the next one arrives.
UploadCommit(p) ==
  LET t == req[p].subject IN
  /\ At(p, "upload") /\ Free(Owner[t]) /\ Pending(t)
  /\ topup' = [topup EXCEPT ![t].slip = req[p].slip]
  /\ Become(p, [Blank EXCEPT !.pc = "verify", !.subject = t])
  /\ UNCHANGED <<balance, ledger, credits, claim, autoApprove, owned, paid, cart, gifts, adjusts, locks>>

UploadRefused(p) ==
  /\ At(p, "upload") /\ Free(Owner[req[p].subject]) /\ ~Pending(req[p].subject)
  /\ Finish(p) /\ UNCHANGED <<rows, locks>>

\* claimProviderTransaction: the reference is unclaimed or already this
\* top-up's, and no other approved row carries it (rows older than the registry).
Claimable(t, r) ==
  /\ claim[r] \in {None, t}
  /\ \A o \in Topups \ {t} : topup[o].status = "approved" => topup[o].ref # r

MaySettleAnyStatus(t, r) == r # None => Claimable(t, r)  \* mutant: no status in the conditional UPDATE
MaySettleUnclaimed(t, r) == Pending(t)                   \* mutant: does not claim the reference

\* approveWalletTopup, once its locks are held: status, claim, credit and
\* ledger row commit together.  r is the reference in the row's snapshot.
MaySettle(t, r) == Pending(t) /\ (r # None => Claimable(t, r))
Settle(t, r, src) ==
  /\ topup' = [topup EXCEPT ![t] = [@ EXCEPT !.status = "approved", !.ref = r, !.source = src]]
  /\ claim' = IF r = None THEN claim ELSE [claim EXCEPT ![r] = t]
  /\ balance' = [balance EXCEPT ![Owner[t]] = @ + Credit[t]]
  /\ ledger' = [ledger EXCEPT ![Owner[t]] = @ + Credit[t]]
  /\ credits' = [credits EXCEPT ![t] = @ + 1]
  /\ UNCHANGED <<autoApprove, owned, paid, cart, gifts, adjusts>>

\* adminApproveWalletTopup looks at the row outside the transaction.
ApproveCheck(p, t) ==
  /\ "topup" \in Ops /\ Idle(p)
  /\ topup[t].slip # None /\ Pending(t)
  /\ Become(p, [Blank EXCEPT !.pc = "approve", !.subject = t])
  /\ UNCHANGED <<rows, locks>>

ApproveCommit(p) ==
  LET t == req[p].subject IN
  /\ At(p, "approve") /\ Free(Owner[t])
  /\ MaySettle(t, topup[t].ref) /\ Settle(t, topup[t].ref, "manual")
  /\ Finish(p) /\ UNCHANGED locks

ApproveRefused(p) ==
  LET t == req[p].subject IN
  /\ At(p, "approve") /\ Free(Owner[t]) /\ ~MaySettle(t, topup[t].ref)
  /\ Finish(p) /\ UNCHANGED <<rows, locks>>

\* rejectWalletTopup: a conditional UPDATE, no users-row lock.
Reject(t) ==
  /\ "topup" \in Ops /\ Pending(t)
  /\ topup' = [topup EXCEPT ![t].status = "rejected"]
  /\ UNCHANGED <<balance, ledger, credits, claim, autoApprove, owned, paid, cart, gifts, adjusts, locks, req>>

-----------------------------------------------------------------------------
(* Provider verification: verifyWalletTopupWithProvider and                *)
(* persistAndAutoApprove.                                                  *)

\* An administrator asks for a verification, whatever the status.
VerifyRequest(p, t) ==
  /\ "verify" \in Ops /\ Idle(p)
  /\ topup[t].slip # None
  /\ Become(p, [Blank EXCEPT !.pc = "verify", !.subject = t])
  /\ UNCHANGED <<rows, locks>>

\* The row is read, then the provider is called with no transaction open.
VerifyRead(p) ==
  /\ At(p, "verify")
  /\ Become(p, [req[p] EXCEPT !.pc = "provider", !.slip = topup[req[p].subject].slip])
  /\ UNCHANGED <<rows, locks>>

\* The verdict: eligible (VERIFIED, amount and recipient match), readable but
\* for review, or no reference at all (ERROR, unreadable slip).
ProviderAnswer(p) ==
  /\ At(p, "provider")
  /\ \E e \in BOOLEAN, r \in {SlipRef[req[p].slip], None} :
       /\ e => r # None
       /\ Become(p, [req[p] EXCEPT !.pc = "verdict", !.ref = r, !.eligible = e])
  /\ UNCHANGED <<rows, locks>>

SameSubmission(p) == topup[req[p].subject].slip = req[p].slip
CurrentAnySlip(p) == Pending(req[p].subject)  \* mutant: no sameSubmission check

Current(p) == Pending(req[p].subject) /\ SameSubmission(p)
AutoEligible(p) == autoApprove /\ req[p].eligible

VerdictSkipped(p) ==
  /\ At(p, "verdict") /\ Free(Owner[req[p].subject]) /\ ~Current(p)
  /\ Finish(p) /\ UNCHANGED <<rows, locks>>

VerdictForReview(p) ==
  LET t == req[p].subject IN
  /\ At(p, "verdict") /\ Free(Owner[t]) /\ Current(p) /\ ~AutoEligible(p)
  /\ topup' = [topup EXCEPT ![t] = [@ EXCEPT !.status = "pending_review", !.ref = req[p].ref]]
  /\ Finish(p)
  /\ UNCHANGED <<balance, ledger, credits, claim, autoApprove, owned, paid, cart, gifts, adjusts, locks>>

VerdictApproves(p) ==
  LET t == req[p].subject IN
  /\ At(p, "verdict") /\ Free(Owner[t]) /\ Current(p) /\ AutoEligible(p)
  /\ MaySettle(t, req[p].ref) /\ Settle(t, req[p].ref, "provider_auto")
  /\ Finish(p) /\ UNCHANGED locks

\* The approval failed (the reference is taken, or any error in it): all of
\* it rolls back, the pending_review status too.
VerdictFails(p) ==
  /\ At(p, "verdict") /\ Free(Owner[req[p].subject]) /\ Current(p) /\ AutoEligible(p)
  /\ Become(p, [req[p] EXCEPT !.pc = "recordFailure"])
  /\ UNCHANGED <<rows, locks>>

\* A second transaction stores the diagnostics if the row is still the same.
RecordFailure(p) ==
  LET t == req[p].subject IN
  /\ At(p, "recordFailure") /\ Free(Owner[t])
  /\ topup' = IF Current(p) THEN [topup EXCEPT ![t].ref = req[p].ref] ELSE topup
  /\ Finish(p)
  /\ UNCHANGED <<balance, ledger, credits, claim, autoApprove, owned, paid, cart, gifts, adjusts, locks>>

-----------------------------------------------------------------------------
(* Spending. *)

Grant(u, S) ==
  /\ owned' = [owned EXCEPT ![u] = @ \cup S]
  /\ paid' = [paid EXCEPT ![u] = [i \in Items |-> IF i \in S THEN @[i] + 1 ELSE @[i]]]

\* purchaseEpisodeWithWallet: checks, then users lock, then a conditional
\* UPDATE with SQL arithmetic and a unique (user, episode) entitlement.
BuyCheck(p, u, e) ==
  /\ "buy" \in Ops /\ Idle(p)
  /\ balance[u] >= Cost[{e}]
  /\ Become(p, [Blank EXCEPT !.pc = "buy", !.user = u, !.subject = e])
  /\ UNCHANGED <<rows, locks>>

MayBuyUnfunded(u, e) == e \notin owned[u]        \* mutant: UPDATE without balance >= price
MayBuyAgain(u, e) == balance[u] >= Cost[{e}]     \* mutant: no unique entitlement

MayBuy(u, e) == e \notin owned[u] /\ balance[u] >= Cost[{e}]

BuyCommitUnlocked(p) ==  \* mutant: does not take the users row
  LET u == req[p].user  e == req[p].subject IN
  /\ At(p, "buy") /\ MayBuy(u, e)
  /\ balance' = [balance EXCEPT ![u] = @ - Cost[{e}]]
  /\ ledger' = [ledger EXCEPT ![u] = @ - Cost[{e}]]
  /\ Grant(u, {e})
  /\ Finish(p)
  /\ UNCHANGED <<topup, credits, claim, autoApprove, cart, gifts, adjusts, locks>>

BuyCommit(p) ==
  LET u == req[p].user  e == req[p].subject IN
  /\ At(p, "buy") /\ Free(u) /\ MayBuy(u, e)
  /\ balance' = [balance EXCEPT ![u] = @ - Cost[{e}]]
  /\ ledger' = [ledger EXCEPT ![u] = @ - Cost[{e}]]
  /\ Grant(u, {e})
  /\ Finish(p)
  /\ UNCHANGED <<topup, credits, claim, autoApprove, cart, gifts, adjusts, locks>>

BuyRefused(p) ==
  /\ At(p, "buy") /\ Free(req[p].user) /\ ~MayBuy(req[p].user, req[p].subject)
  /\ Finish(p) /\ UNCHANGED <<rows, locks>>

\* cart.add: the ownership check and the insert are separate statements.
AddCheck(p, u, k) ==
  /\ "cart" \in Ops /\ Idle(p)
  /\ k \notin owned[u] \cup cart[u]
  /\ Become(p, [Blank EXCEPT !.pc = "addToCart", !.user = u, !.subject = k])
  /\ UNCHANGED <<rows, locks>>

AddToCart(p) ==
  /\ At(p, "addToCart") /\ cartLock[req[p].user] = None
  /\ cart' = [cart EXCEPT ![req[p].user] = @ \cup {req[p].subject}]
  /\ Finish(p)
  /\ UNCHANGED <<balance, ledger, topup, credits, claim, autoApprove, owned, paid, gifts, adjusts, locks>>

\* walletCheckout: the balance is checked before the transaction ...
CheckoutCheck(p, u) ==
  /\ "cart" \in Ops /\ Idle(p)
  /\ cart[u] # {} /\ balance[u] >= Cost[cart[u]]
  /\ Become(p, [Blank EXCEPT !.pc = "checkout", !.user = u])
  /\ UNCHANGED <<rows, locks>>

\* ... which begins (TiDB fixes its snapshot here),
CheckoutBegin(p) ==
  /\ At(p, "checkout")
  /\ Become(p, [req[p] EXCEPT !.pc = "checkoutTx",
                              !.seen = IF SnapshotAtBegin THEN balance[req[p].user] ELSE 0])
  /\ UNCHANGED <<rows, locks>>

\* locks the users row, then the cart row,
CheckoutLockUser(p) ==
  /\ At(p, "checkoutTx") /\ Free(req[p].user)
  /\ userLock' = [userLock EXCEPT ![req[p].user] = p]
  /\ Become(p, [req[p] EXCEPT !.pc = "checkoutUser"])
  /\ UNCHANGED <<rows, cartLock>>

\* and makes its first plain SELECT (InnoDB fixes its snapshot here).
CheckoutLockCart(p) ==
  LET u == req[p].user IN
  /\ At(p, "checkoutUser") /\ cartLock[u] = None
  /\ cartLock' = [cartLock EXCEPT ![u] = p]
  /\ Become(p, [req[p] EXCEPT !.pc = "checkoutCart",
                              !.seen = IF SnapshotAtBegin THEN @ ELSE balance[u]])
  /\ UNCHANGED <<rows, userLock>>

MayCheckoutAgain(p) ==  \* mutant: no ownership check under the lock
  LET u == req[p].user IN cart[u] # {} /\ req[p].seen >= Cost[cart[u]]

MayCheckout(p) ==
  LET u == req[p].user IN
  /\ cart[u] # {} /\ cart[u] \cap owned[u] = {}
  /\ req[p].seen >= Cost[cart[u]]

\* debitWalletBalance writes the balance it read minus the total.
CheckoutCommit(p) ==
  LET u == req[p].user  S == cart[u] IN
  /\ At(p, "checkoutCart") /\ MayCheckout(p)
  /\ balance' = [balance EXCEPT ![u] = req[p].seen - Cost[S]]
  /\ ledger' = [ledger EXCEPT ![u] = @ - Cost[S]]
  /\ Grant(u, S)
  /\ cart' = [cart EXCEPT ![u] = {}]
  /\ Finish(p) /\ Release(p)
  /\ UNCHANGED <<topup, credits, claim, autoApprove, gifts, adjusts>>

CheckoutRefused(p) ==
  /\ At(p, "checkoutCart") /\ ~MayCheckout(p)
  /\ Finish(p) /\ Release(p) /\ UNCHANGED rows

\* executePackageUpgrade, wallet method, on a quote the user got earlier, when
\* it may not have owned the package yet.  One execution per user (NOWAIT
\* row), the snapshot is fixed by the plain SELECT of the cart row, the cart
\* row is locked with SKIP LOCKED (busy: refused without effect) ...
UpgradeBegin(p, u, k) ==
  /\ "upgrade" \in Ops /\ Idle(p)
  /\ cartLock[u] = None
  /\ \A q \in Requests : req[q].pc \in {"upgrade", "upgradeUser"} => req[q].user # u
  /\ cartLock' = [cartLock EXCEPT ![u] = p]
  /\ Become(p, [Blank EXCEPT !.pc = "upgrade", !.user = u, !.subject = k, !.seen = balance[u]])
  /\ UNCHANGED <<rows, userLock>>

\* ... and the users row comes last, in createOrder.
UpgradeLockUser(p) ==
  /\ At(p, "upgrade") /\ Free(req[p].user)
  /\ userLock' = [userLock EXCEPT ![req[p].user] = p]
  /\ Become(p, [req[p] EXCEPT !.pc = "upgradeUser"])
  /\ UNCHANGED <<rows, cartLock>>

MayUpgrade(p) ==
  LET u == req[p].user  k == req[p].subject IN
  k \notin owned[u] /\ req[p].seen >= Cost[{k}]

UpgradeCommit(p) ==
  LET u == req[p].user  k == req[p].subject IN
  /\ At(p, "upgradeUser") /\ MayUpgrade(p)
  /\ balance' = IF Cost[{k}] > 0 THEN [balance EXCEPT ![u] = req[p].seen - Cost[{k}]] ELSE balance
  /\ ledger' = [ledger EXCEPT ![u] = @ - Cost[{k}]]
  /\ Grant(u, {k})
  /\ cart' = [cart EXCEPT ![u] = @ \ {k}]
  /\ Finish(p) /\ Release(p)
  /\ UNCHANGED <<topup, credits, claim, autoApprove, gifts, adjusts>>

UpgradeRefused(p) ==
  /\ At(p, "upgradeUser") /\ ~MayUpgrade(p)
  /\ Finish(p) /\ Release(p) /\ UNCHANGED rows

-----------------------------------------------------------------------------
(* Administrators' balance operations. *)

\* executeAdminGiftWalletAdjustment acts only on the balance the
\* administrator previewed, under the users row and the wallet row.
GiftPreview(p, k) ==
  /\ "gift" \in Ops /\ Idle(p)
  /\ Become(p, [Blank EXCEPT !.pc = "gift", !.subject = k, !.seen = balance[GiftUser[k]]])
  /\ UNCHANGED <<rows, locks>>

MayGift(p) ==
  LET k == req[p].subject  u == GiftUser[k] IN
  gifts[k] = 0 /\ balance[u] = req[p].seen /\ balance[u] + GiftAmount[k] >= 0

GiftCommit(p) ==
  LET k == req[p].subject  u == GiftUser[k] IN
  /\ At(p, "gift") /\ Free(u) /\ MayGift(p)
  /\ balance' = [balance EXCEPT ![u] = @ + GiftAmount[k]]
  /\ ledger' = [ledger EXCEPT ![u] = @ + GiftAmount[k]]
  /\ gifts' = [gifts EXCEPT ![k] = @ + 1]
  /\ Finish(p)
  /\ UNCHANGED <<topup, credits, claim, autoApprove, owned, paid, cart, adjusts, locks>>

\* Replay of an applied key, STALE_PREVIEW or INSUFFICIENT_WALLET.
GiftRefused(p) ==
  /\ At(p, "gift") /\ Free(GiftUser[req[p].subject]) /\ ~MayGift(p)
  /\ Finish(p) /\ UNCHANGED <<rows, locks>>

\* adjustWalletBalance reads the account with a plain SELECT and writes an
\* absolute balance; the ledger row records the difference it computed.
AdjustBegin(p, u) ==
  /\ "adjust" \in Ops /\ Idle(p) /\ adjusts < MaxAdjusts
  /\ \E a \in AdjustAmounts : \E n \in {balance[u] + a, balance[u] - a, a} :
       /\ n >= 0
       /\ Become(p, [Blank EXCEPT !.pc = "adjust", !.user = u, !.seen = balance[u], !.target = n])
  /\ adjusts' = adjusts + 1
  /\ UNCHANGED <<balance, ledger, topup, credits, claim, autoApprove, owned, paid, cart, gifts, locks>>

AdjustCommit(p) ==
  LET u == req[p].user IN
  /\ At(p, "adjust")
  /\ balance' = [balance EXCEPT ![u] = req[p].target]
  /\ ledger' = [ledger EXCEPT ![u] = @ + req[p].target - req[p].seen]
  /\ Finish(p)
  /\ UNCHANGED <<topup, credits, claim, autoApprove, owned, paid, cart, gifts, adjusts, locks>>

RepairBeginCredited(p, t) ==  \* mutant: does not look for an existing ledger row
  /\ "repair" \in Ops /\ Idle(p)
  /\ topup[t].status = "approved"
  /\ Become(p, [Blank EXCEPT !.pc = "repair", !.subject = t, !.target = balance[Owner[t]] + Credit[t]])
  /\ UNCHANGED <<rows, locks>>

\* repairWalletTopupCredit: an approved top-up without a ledger row, read
\* with plain SELECTs.
RepairBegin(p, t) ==
  /\ "repair" \in Ops /\ Idle(p)
  /\ topup[t].status = "approved" /\ credits[t] = 0
  /\ Become(p, [Blank EXCEPT !.pc = "repair", !.subject = t,
                             !.target = balance[Owner[t]] + Credit[t]])
  /\ UNCHANGED <<rows, locks>>

RepairCommit(p) ==
  LET t == req[p].subject  u == Owner[t] IN
  /\ At(p, "repair")
  /\ balance' = [balance EXCEPT ![u] = req[p].target]
  /\ ledger' = [ledger EXCEPT ![u] = @ + Credit[t]]
  /\ credits' = [credits EXCEPT ![t] = @ + 1]
  /\ Finish(p)
  /\ UNCHANGED <<topup, claim, autoApprove, owned, paid, cart, gifts, adjusts, locks>>

-----------------------------------------------------------------------------
TopupStep(p) ==
  \/ \E t \in Topups, s \in Slips : CreateTopup(p, t, s) \/ UploadCheck(p, t, s)
  \/ \E t \in Topups : ApproveCheck(p, t)
  \/ UploadCommit(p) \/ UploadRefused(p) \/ ApproveCommit(p) \/ ApproveRefused(p)

VerifyStep(p) ==
  \/ \E t \in Topups : VerifyRequest(p, t)
  \/ VerifyRead(p) \/ ProviderAnswer(p)
  \/ VerdictSkipped(p) \/ VerdictForReview(p) \/ VerdictApproves(p) \/ VerdictFails(p)
  \/ RecordFailure(p)

SpendStep(p) ==
  \/ \E u \in Users, e \in Episodes : BuyCheck(p, u, e)
  \/ BuyCommit(p) \/ BuyRefused(p)
  \/ \E u \in Users, k \in Packages : AddCheck(p, u, k) \/ UpgradeBegin(p, u, k)
  \/ AddToCart(p)
  \/ \E u \in Users : CheckoutCheck(p, u)
  \/ CheckoutBegin(p) \/ CheckoutLockUser(p) \/ CheckoutLockCart(p)
  \/ CheckoutCommit(p) \/ CheckoutRefused(p)
  \/ UpgradeLockUser(p) \/ UpgradeCommit(p) \/ UpgradeRefused(p)

AdminStep(p) ==
  \/ \E k \in GiftKeys : GiftPreview(p, k)
  \/ GiftCommit(p) \/ GiftRefused(p)
  \/ \E u \in Users : AdjustBegin(p, u)
  \/ AdjustCommit(p)
  \/ \E t \in Topups : RepairBegin(p, t)
  \/ RepairCommit(p)

Next ==
  \/ SetAutoApprove
  \/ \E t \in Topups : Reject(t)
  \/ \E p \in Requests : Crash(p) \/ TopupStep(p) \/ VerifyStep(p) \/ SpendStep(p) \/ AdminStep(p)

Spec == Init /\ [][Next]_vars

-----------------------------------------------------------------------------
(* Properties. *)

\* The wallet row never drifts from its transactions: whatever requests
\* overlapped, the balance is the opening balance plus every ledger row
\* (WALLET_RELEASE_READINESS.md:185: "Balance = sum of all transactions").
BalanceIsLedger == balance = ledger

\* A top-up moves money exactly when it is approved, and once: two admins,
\* two provider verdicts or one of each never credit it twice, and an
\* approval that rolled back leaves no credit behind.
CreditedOnce ==
  \A t \in Topups \ Legacy : credits[t] = IF topup[t].status = "approved" THEN 1 ELSE 0

\* Crediting through approval, repair or both never reaches two credits.
NeverCreditedTwice == \A t \in Topups : credits[t] <= 1

\* One bank transfer approves one top-up, across users and slips, and also
\* against approvals older than the claim registry.
UniqueTransfer ==
  \A t \in Topups \ Legacy, o \in Topups :
     (t # o /\ topup[t].status = "approved" /\ topup[o].status = "approved")
       => topup[t].ref = None \/ topup[t].ref # topup[o].ref

\* What a user owns was paid for once, by whichever of the three purchase
\* paths got there first; a debit without its entitlement never commits.
PaidOnce ==
  \A u \in Users, i \in Items : paid[u][i] = IF i \in owned[u] THEN 1 ELSE 0

\* A top-up approved by the provider was approved on the verdict for the
\* slip it shows, never on one for a slip replaced during the provider call.
AutoApprovedOwnSlip ==
  \A t \in Topups :
     topup[t].source = "provider_auto" => topup[t].slip # None /\ topup[t].ref = SlipRef[topup[t].slip]

\* No circle of transactions waits for each other's row locks.
WaitsFor(p, q) ==
  /\ p # q /\ req[p].user # None
  /\ \/ req[p].pc \in {"checkoutTx", "upgrade"} /\ userLock[req[p].user] = q
     \/ req[p].pc = "checkoutUser" /\ cartLock[req[p].user] = q
NoLockCycle == ~ \E p, q \in Requests : WaitsFor(p, q) /\ WaitsFor(q, p)

\* An approved or rejected top-up is never changed again: not by a late
\* upload, a late verdict or its diagnostics, a second review or a repair.
TopupTerminal ==
  [][\A t \in Topups : topup[t].status \in {"approved", "rejected"} => topup'[t] = topup[t]]_vars

\* The wallet implements the ledger it promises.
Ledger == INSTANCE WalletLedger
  WITH account <- balance,
       credited <- {t \in Topups : credits[t] > 0},
       entitled <- owned,
       given <- {k \in GiftKeys : gifts[k] > 0}
ImplementsLedger == Ledger!Spec

-----------------------------------------------------------------------------
(* What the inductive invariants of WalletProofs add. *)

\* In every phase a handler works on a subject of the right kind, and what it
\* carries of a slip and its verdict belongs together.
WellFormed(h) ==
  /\ h.pc \in {"verify", "provider", "verdict", "recordFailure", "approve", "upload", "repair"}
       => h.subject \in Topups
  /\ h.pc \in {"upload", "provider", "verdict", "recordFailure"} => h.slip \in Slips
  /\ h.eligible => h.pc \in {"verdict", "recordFailure"} /\ h.ref = SlipRef[h.slip]
  /\ h.pc \in {"buy", "addToCart", "checkout", "checkoutTx", "checkoutUser", "checkoutCart",
                "upgrade", "upgradeUser", "adjust"} => h.user \in Users
  /\ h.pc = "buy" => h.subject \in Episodes
  /\ h.pc \in {"addToCart", "upgrade", "upgradeUser"} => h.subject \in Packages
  /\ h.pc = "gift" => h.subject \in GiftKeys

VerifiesASlip == \A p \in Requests : At(p, "verify") => topup[req[p].subject].slip \in Slips

HandlersWellFormed == VerifiesASlip /\ \A p \in Requests : WellFormed(req[p])

\* Every approval since the registry exists holds the claim on its reference:
\* the reference a row shows after its approval is the one it was settled on.
ClaimsHeld ==
  \A t \in Topups \ Legacy :
     topup[t].status = "approved" /\ topup[t].ref # None => claim[topup[t].ref] = t

\* A balance a checkout has read and not yet written is still the balance,
\* because every other writer needs the users row the checkout holds.
LockedReads ==
  \A p \in Requests :
    /\ req[p].pc \in {"checkoutUser", "checkoutCart"} => userLock[req[p].user] = p
    /\ req[p].pc = "checkoutCart" => req[p].seen = balance[req[p].user]

\* The engine and the operations for which LockedReads can be kept.
Disciplined == ~SnapshotAtBegin /\ Ops \subseteq LockedOps
=============================================================================
