--------------------------- MODULE OrderSettlement ---------------------------
(***************************************************************************)
(* Orders and their payments: checkout with a transfer slip or from the    *)
(* wallet, slip upload, the provider's verdict, approval and rejection,    *)
(* and what an approval settles: loyalty points, coupon usage and package  *)
(* purchases (src/server/services/orderService.ts, the checkout, orders,   *)
(* points and admin routes of src/server/routers.ts, their statements in   *)
(* src/server/db.ts, src/server/payments).                                 *)
(*                                                                         *)
(* Every transaction here locks the users row of the order's owner and     *)
(* then reads current rows or its InnoDB snapshot, which is fixed by its   *)
(* first plain SELECT.  A transaction whose first plain SELECT follows the *)
(* lock is one step.  approvePayment resolves the owner with a plain       *)
(* SELECT before it waits for the lock: it is two steps, and what it later *)
(* reads without FOR UPDATE comes from the view kept since the first.  The *)
(* balance in money and the cart's lock are in module Wallet: a cart is    *)
(* here the set of packages a checkout is called with.                     *)
(***************************************************************************)
EXTENDS Integers, FiniteSets

CONSTANTS
  Users, Orders, Packages, Chapters, Refs, Coupons,
  Slips,            \* slip submissions: a file and its time of submission
  Requests,         \* concurrent request handlers
  SlipRef,          \* the bank reference printed on a slip
  Historic,         \* references of approvals older than the claim registry
  Covers,           \* Covers[p]: the chapters inside package p
  Subtotal,         \* Subtotal[S]: price of a cart with packages S
  Discount,         \* of a (flat) coupon
  MaxUses,          \* coupons.maxUsageCount
  PerPoint,         \* money units that earn one loyalty point (100 in the code)
  PointChoices,     \* points a customer may ask to redeem
  Opening,          \* opening points balance of every user
  Adjustments,      \* amounts of points.admin.adjustBalance
  MaxAdjusts,       \* bound: calls of adjustBalance in a behaviour
  Ops,              \* the operations in use
  Elsewhere,        \* owner of a claim taken by a wallet top-up
  None

AllOps == {"slipCheckout", "walletCheckout", "upload", "verify", "approve", "exception",
           "reject", "adjust", "checkin", "chapter", "topup"}

ASSUME OrderAssumption ==
  /\ SlipRef \in [Slips -> Refs] /\ Historic \subseteq Refs
  /\ Covers \in [Packages -> SUBSET Chapters]
  /\ Subtotal \in [SUBSET Packages -> Nat] /\ Discount \in [Coupons -> Nat]
  /\ MaxUses \in [Coupons -> Nat]
  /\ PerPoint \in Nat \ {0}
  /\ PointChoices \subseteq Nat /\ 0 \in PointChoices
  /\ Opening \in Nat /\ Adjustments \subseteq Int /\ MaxAdjusts \in Nat
  /\ Ops \subseteq AllOps
  /\ None \notin Users \cup Orders \cup Slips \cup Refs \cup Coupons
  /\ Elsewhere \notin Orders \cup {None}

VARIABLES
  order,      \* orders row with its payments row, one per order
  rows,       \* pointsTransactions and couponUsages rows written for an order
  purchases,  \* purchases: the order that granted a package to a user
  chapters,   \* episodePurchases: chapters a user bought from the wallet
  points,     \* balanceAfter of a user's latest pointsTransactions row
  ledger,     \* opening balance plus the signed sum of those rows
  usage,      \* coupons.usageCount
  claim,      \* paymentProviderClaims: the owner of a bank reference
  refused,    \* orders with a payment_rejected row in orderHistory
  checkedIn,  \* users with today's dailyCheckins row
  adjusts,    \* calls of adjustBalance so far
  since,      \* ghost: chapters the owner bought after placing an order
  req         \* what every request handler is doing

money == <<rows, purchases, points, ledger, usage, claim>>
other == <<chapters, checkedIn, adjusts, since>>
vars == <<order, money, refused, other, req>>

Kinds == {"redeem", "earn", "coupon"}

Unplaced ==
  [status |-> "absent", paymentStatus |-> "unpaid", payment |-> "pending", user |-> None,
   items |-> {}, coupon |-> None, points |-> 0, slip |-> None, ref |-> None,
   source |-> None, listed |-> {}]

Placed(o) == order[o].status # "absent"
Approved(o) == order[o].status = "approved"
Granted(u) == {i \in Packages : purchases[u][i] # None}

\* findDuplicatePayments: what else was approved for reference r.
Uses(o, r) ==
  {x \in Orders \ {o} : Approved(x) /\ order[x].ref = r}
    \cup IF r \in Historic \/ claim[r] = Elsewhere THEN {Elsewhere} ELSE {}

AtLeast0(n) == IF n < 0 THEN 0 ELSE n
Count(holds) == IF holds THEN 1 ELSE 0

\* quoteCartPricing: the total, and the points it will earn (awardPointsForOrder).
Off(c) == IF c = None THEN 0 ELSE Discount[c]
Remaining(S, c) == AtLeast0(Subtotal[S] - Off(c))
Total(d) == Remaining(d.items, d.coupon) - d.points
Earns(d) == Total(d) \div PerPoint

\* What a transaction sees of the database without FOR UPDATE, for order o of
\* user u.
NoView == [points |-> 0, granted |-> {}, done |-> {}, uses |-> [r \in Refs |-> {}]]
Seen(o, u) ==
  [points |-> points[u], granted |-> Granted(u),
   done |-> {k \in Kinds : rows[o][k] > 0}, uses |-> [r \in Refs |-> Uses(o, r)]]
View(o) == Seen(o, order[o].user)

\* A handler's local data: the order, the slip it saw, the provider's answer,
\* the duplicates its administrator confirmed and its transaction's view.
Blank == [pc |-> "idle", order |-> None, slip |-> None, eligible |-> FALSE,
          shown |-> {}, view |-> NoView]

Phases == {"idle", "confirm", "approve", "uploaded", "verify", "verdict", "settle", "failed"}
PaymentStates == {"pending", "pending_review", "approved", "rejected"}
UseSets == SUBSET (Orders \cup {Elsewhere})
Views == [points: Int, granted: SUBSET Packages, done: SUBSET Kinds, uses: [Refs -> UseSets]]
Handlers == [pc: Phases, order: Orders \cup {None}, slip: Slips \cup {None}, eligible: BOOLEAN,
             shown: UseSets, view: Views]

OrderRows ==
  [status: {"absent", "pending", "approved", "rejected"},
   paymentStatus: {"unpaid", "submitted", "approved", "rejected"},
   payment: PaymentStates, user: Users \cup {None}, items: SUBSET Packages,
   coupon: Coupons \cup {None}, points: Nat, slip: Slips \cup {None},
   ref: Refs \cup {None}, source: {"manual", "auto", "wallet", None}, listed: UseSets]

TypeOK ==
  /\ order \in [Orders -> OrderRows]
  /\ rows \in [Orders -> [redeem: Nat, earn: Nat, coupon: Nat]]
  /\ purchases \in [Users -> [Packages -> Orders \cup {None}]]
  /\ chapters \in [Users -> SUBSET Chapters]
  /\ \A o \in Orders : Total(order[o]) \in Nat
  /\ points \in [Users -> Int] /\ ledger \in [Users -> Int]
  /\ usage \in [Coupons -> Nat]
  /\ claim \in [Refs -> Orders \cup {None, Elsewhere}]
  /\ refused \subseteq Orders /\ checkedIn \subseteq Users /\ adjusts \in Nat
  /\ since \in [Orders -> SUBSET Chapters]
  /\ req \in [Requests -> Handlers]

Init ==
  /\ order = [o \in Orders |-> Unplaced]
  /\ rows = [o \in Orders |-> [k \in Kinds |-> 0]]
  /\ purchases = [u \in Users |-> [i \in Packages |-> None]]
  /\ chapters = [u \in Users |-> {}]
  /\ points = [u \in Users |-> Opening] /\ ledger = points
  /\ usage = [c \in Coupons |-> 0]
  /\ claim = [r \in Refs |-> None]
  /\ refused = {} /\ checkedIn = {} /\ adjusts = 0
  /\ since = [o \in Orders |-> {}]
  /\ req = [q \in Requests |-> Blank]

Idle(q) == req[q].pc = "idle"
At(q, phase) == req[q].pc = phase
Become(q, r) == req' = [req EXCEPT ![q] = r]
Finish(q) == Become(q, Blank)
Asking(o) == [Blank EXCEPT !.pc = "verify", !.order = o]

\* Any failure before commit, and every refusal: the transaction rolls back.
Crash(q) == ~Idle(q) /\ Finish(q) /\ UNCHANGED <<order, money, refused, other>>

-----------------------------------------------------------------------------
(* What an approval settles: finalizeOrderCompletion and its helpers.  d is *)
(* the order's row, view what its transaction sees without a lock.          *)

MayRecordUsageAsQuoted(d, view) == TRUE  \* mutant: trusts the limit checked when the order was placed

\* recordCouponUsage: the limit is checked again on the locked coupon row.
MayRecordUsage(d, view) ==
  d.coupon # None /\ "coupon" \notin view.done => usage[d.coupon] < MaxUses[d.coupon]

\* createPurchase: UNIQUE(userId, episodeId) fails the whole transaction.
MayGrant(d, view) == \A i \in d.items \ view.granted : purchases[d.user][i] = None

\* Points are redeemed and then earned, the first from the balance in the
\* view, the second from the first's own row; each once per order.
Finalize(o, d, view) ==
  LET due(k, n) == IF k \in view.done THEN 0 ELSE n
      redeem == due("redeem", d.points)
      earn == due("earn", Earns(d))
      use == due("coupon", Count(d.coupon # None))
      left == IF redeem = 0 THEN view.points ELSE AtLeast0(view.points - redeem)
  IN
  /\ MayGrant(d, view) /\ MayRecordUsage(d, view)
  /\ rows' = [rows EXCEPT ![o] = [redeem |-> @.redeem + Count(redeem > 0),
                                  earn |-> @.earn + Count(earn > 0), coupon |-> @.coupon + use]]
  /\ points' = IF redeem + earn = 0 THEN points ELSE [points EXCEPT ![d.user] = left + earn]
  /\ ledger' = [ledger EXCEPT ![d.user] = @ - redeem + earn]
  /\ purchases' = [purchases EXCEPT ![d.user] = [i \in Packages |->
                     IF i \in d.items \ view.granted THEN o ELSE @[i]]]
  /\ usage' = [c \in Coupons |-> usage[c] + Count(c = d.coupon /\ use = 1)]

-----------------------------------------------------------------------------
(* Checkout. *)

QuotedUncapped(u, S, c, pts) ==  \* mutant: points are only compared with the balance
  /\ S # {} /\ S \cap Granted(u) = {}
  /\ c # None => usage[c] < MaxUses[c]
  /\ pts <= points[u]

\* quoteCartPricing: nothing bought already, a coupon that still has a use,
\* points within the balance and the rest of the price.
Quoted(u, S, c, pts) ==
  /\ S # {} /\ S \cap Granted(u) = {}
  /\ c # None => usage[c] < MaxUses[c]
  /\ pts > 0 => pts <= points[u] /\ pts <= Remaining(S, c)

Placing(u, S, c, pts) ==
  [Unplaced EXCEPT !.status = "pending", !.user = u, !.items = S, !.coupon = c, !.points = pts]

\* checkout.create: order, items and payment in one transaction, which
\* reserves neither points nor coupon; a slip is verified after it commits.
SlipCheckout(q, u, o, S, c, pts, s) ==
  /\ "slipCheckout" \in Ops /\ Idle(q)
  /\ ~Placed(o) /\ Quoted(u, S, c, pts)
  /\ order' = [order EXCEPT ![o] =
       [Placing(u, S, c, pts) EXCEPT !.slip = s,
          !.paymentStatus = IF s = None THEN "unpaid" ELSE "submitted"]]
  /\ Become(q, IF s = None THEN Blank ELSE Asking(o))
  /\ UNCHANGED <<money, refused, other>>

\* walletCheckout: order, debit (module Wallet), approval and settlement in
\* one transaction; its first plain SELECT follows the users-row lock.
WalletCheckout(u, o, S, c, pts) ==
  LET d == [Placing(u, S, c, pts) EXCEPT !.status = "approved", !.paymentStatus = "approved",
              !.payment = "approved", !.source = "wallet"]
  IN
  /\ "walletCheckout" \in Ops
  /\ ~Placed(o) /\ Quoted(u, S, c, pts)
  /\ order' = [order EXCEPT ![o] = d]
  /\ Finalize(o, d, Seen(o, u))
  /\ UNCHANGED <<claim, refused, other, req>>

-----------------------------------------------------------------------------
(* The payment slip and its verification. *)

\* orders.uploadPaymentSlip, its first transaction (updatePayment): only an
\* approved payment refuses a slip.  The verdict on the old slip stays.
UploadPayment(q, o, s) ==
  /\ "upload" \in Ops /\ Idle(q)
  /\ Placed(o) /\ order[o].payment # "approved" /\ s # order[o].slip
  /\ order' = [order EXCEPT ![o] = [@ EXCEPT !.slip = s, !.payment = "pending_review"]]
  /\ Become(q, [Blank EXCEPT !.pc = "uploaded", !.order = o])
  /\ UNCHANGED <<money, refused, other>>

UploadOrderUnchecked(q) ==  \* mutant: writes paymentStatus whatever happened since the first transaction
  LET o == req[q].order IN
  /\ At(q, "uploaded")
  /\ order' = [order EXCEPT ![o] = [@ EXCEPT !.paymentStatus = "submitted"]]
  /\ Become(q, Asking(o))
  /\ UNCHANGED <<money, refused, other>>

\* Its second (updateOrder): a no-op on an order approved in between.
UploadOrder(q) ==
  LET o == req[q].order IN
  /\ At(q, "uploaded")
  /\ order' = IF Approved(o) THEN order
              ELSE [order EXCEPT ![o] = [@ EXCEPT !.paymentStatus = "submitted"]]
  /\ Become(q, Asking(o))
  /\ UNCHANGED <<money, refused, other>>

\* admin verification: verifyOrderPaymentWithProvider, whatever the status.
VerifyRequest(q, o) ==
  /\ "verify" \in Ops /\ Idle(q)
  /\ Placed(o) /\ order[o].slip # None
  /\ Become(q, Asking(o))
  /\ UNCHANGED <<order, money, refused, other>>

\* It reads the slip and asks the provider about it ...
Verify(q) ==
  LET o == req[q].order IN
  /\ At(q, "verify") /\ order[o].slip # None
  /\ Become(q, [req[q] EXCEPT !.pc = "verdict", !.slip = order[o].slip])
  /\ UNCHANGED <<order, money, refused, other>>

\* ... whose answer starts persistAndAutoApprove.  eligible stands for a
\* verified transfer of the right amount, within the order's time window,
\* with automatic approval enabled.
Verdict(q) ==
  /\ At(q, "verdict")
  /\ \E e \in BOOLEAN :
       Become(q, [req[q] EXCEPT !.pc = "settle", !.eligible = e, !.view = View(req[q].order)])
  /\ UNCHANGED <<order, money, refused, other>>

CurrentAnySlip(o, s) ==  \* mutant: the slip shown when the verdict arrives
  /\ order[o].payment \in {"pending", "pending_review"}
  /\ order[o].status = "pending"

\* The locked payment still waits for review of the slip that was verified,
\* and its order was neither approved nor rejected.
Current(o, s) ==
  /\ order[o].payment \in {"pending", "pending_review"}
  /\ order[o].slip = s
  /\ order[o].status = "pending"

-----------------------------------------------------------------------------
(* Approval and rejection. *)

ClaimableByRegistry(o, r, view, shown) ==  \* mutant: forgets the approvals older than the registry
  IF shown = {} THEN r # None => claim[r] \in {None, o}
  ELSE r # None /\ claim[r] \notin {None, o} /\ view.uses[r] = shown

\* claimProviderTransaction: the reference is unclaimed or this payment's, and
\* the view shows no other approved payment or top-up with it.  An
\* administrator may approve a duplicate after confirming exactly the others.
Claimable(o, r, view, shown) ==
  LET free == claim[r] \in {None, o} /\ view.uses[r] = {} IN
  IF shown = {} THEN r # None => free ELSE r # None /\ ~free /\ view.uses[r] = shown

MayApproveAgain(o) == Placed(o)  \* mutant: relies on the status read before the locks

\* The locked payment waits for review; of the order only approval is final.
MayApprove(o) == order[o].payment \in {"pending", "pending_review"} /\ ~Approved(o)

\* approvePaymentInTx: claim, payment, order and settlement commit together.
Approve(o, r, view, shown, src) ==
  /\ MayApprove(o) /\ Claimable(o, r, view, shown)
  /\ claim' = [x \in Refs |-> IF x = r /\ claim[x] = None THEN o ELSE claim[x]]
  /\ order' = [order EXCEPT ![o] =
       [@ EXCEPT !.status = "approved", !.payment = "approved", !.paymentStatus = "approved",
                 !.ref = r, !.source = src, !.listed = shown]]
  /\ Finalize(o, order[o], view)

\* duplicateInfo: an administrator is shown the other uses of the reference.
DuplicateInfo(q, o) ==
  /\ "exception" \in Ops /\ Idle(q)
  /\ order[o].ref # None /\ Uses(o, order[o].ref) # {}
  /\ Become(q, [Blank EXCEPT !.pc = "confirm", !.order = o, !.shown = Uses(o, order[o].ref)])
  /\ UNCHANGED <<order, money, refused, other>>

\* admin.payments.approve (admin.orders.approve adds a look at the status
\* first): the owner is resolved before the users row is waited for.
ApproveBegin(q, o) ==
  /\ "approve" \in Ops /\ Placed(o)
  /\ Idle(q) \/ (At(q, "confirm") /\ req[q].order = o)
  /\ Become(q, [req[q] EXCEPT !.pc = "approve", !.order = o, !.view = View(o)])
  /\ UNCHANGED <<order, money, refused, other>>

ApproveCommit(q) ==
  LET o == req[q].order IN
  /\ At(q, "approve")
  /\ Approve(o, order[o].ref, req[q].view, req[q].shown, "manual")
  /\ Finish(q) /\ UNCHANGED <<refused, other>>

\* An eligible verdict on the slip still shown approves the order ...
AutoApprove(q) ==
  LET o == req[q].order IN
  /\ At(q, "settle") /\ Current(o, req[q].slip) /\ req[q].eligible
  /\ Approve(o, SlipRef[req[q].slip], req[q].view, {}, "auto")
  /\ Finish(q) /\ UNCHANGED <<refused, other>>

\* ... any other verdict on it is stored for review ...
AutoReview(q) ==
  LET o == req[q].order IN
  /\ At(q, "settle") /\ Current(o, req[q].slip) /\ ~req[q].eligible
  /\ \E r \in {None, SlipRef[req[q].slip]} :
       order' = [order EXCEPT ![o] = [@ EXCEPT !.payment = "pending_review", !.ref = r]]
  /\ Finish(q) /\ UNCHANGED <<money, refused, other>>

\* ... and a late one is skipped.
AutoSkip(q) ==
  /\ At(q, "settle") /\ ~Current(req[q].order, req[q].slip)
  /\ Finish(q) /\ UNCHANGED <<order, money, refused, other>>

\* A failed approval rolls back; a second transaction stores the verdict.
AutoFail(q) ==
  /\ At(q, "settle") /\ req[q].eligible
  /\ Become(q, [req[q] EXCEPT !.pc = "failed", !.view = NoView])
  /\ UNCHANGED <<order, money, refused, other>>

RecordFailureUnchecked(q) ==  \* mutant: stores the verdict whatever happened since
  LET o == req[q].order IN
  /\ At(q, "failed")
  /\ order' = [order EXCEPT ![o].ref = SlipRef[req[q].slip]]
  /\ Finish(q) /\ UNCHANGED <<money, refused, other>>

RecordFailure(q) ==
  LET o == req[q].order
      same == order[o].payment \in {"pending", "pending_review"} /\ order[o].slip = req[q].slip
  IN
  /\ At(q, "failed")
  /\ order' = IF same THEN [order EXCEPT ![o].ref = SlipRef[req[q].slip]] ELSE order
  /\ Finish(q) /\ UNCHANGED <<money, refused, other>>

MayRejectAny(o) == Placed(o)  \* mutant: no look at the locked rows

\* ApprovalService.rejectPayment and updateOrder, on the locked rows.
MayReject(o) == Placed(o) /\ order[o].payment # "approved" /\ ~Approved(o)

Reject(o) ==
  /\ "reject" \in Ops /\ MayReject(o)
  /\ order' = [order EXCEPT ![o] =
       [@ EXCEPT !.status = "rejected", !.payment = "rejected", !.paymentStatus = "rejected"]]
  /\ refused' = refused \cup {o}
  /\ UNCHANGED <<money, other, req>>

-----------------------------------------------------------------------------
(* Other writers of points, entitlements and claims. *)

\* points.admin.adjustBalance: lock, then read, then append; may go below 0.
AdjustPoints(u, a) ==
  /\ "adjust" \in Ops /\ adjusts < MaxAdjusts /\ a # 0
  /\ points' = [points EXCEPT ![u] = @ + a]
  /\ ledger' = [ledger EXCEPT ![u] = @ + a]
  /\ adjusts' = adjusts + 1
  /\ UNCHANGED <<order, rows, purchases, usage, claim, refused, chapters, checkedIn, since, req>>

\* claimDailyCheckinPointReward: once a day, on the locked balance.
CheckIn(u) ==
  /\ "checkin" \in Ops /\ u \notin checkedIn
  /\ points' = [points EXCEPT ![u] = @ + 1]
  /\ ledger' = [ledger EXCEPT ![u] = @ + 1]
  /\ checkedIn' = checkedIn \cup {u}
  /\ UNCHANGED <<order, rows, purchases, usage, claim, refused, chapters, adjusts, since, req>>

CoveredByOwned(u, c) == \E p \in Granted(u) : c \in Covers[p]  \* mutant: overlooks live orders

\* assertNoChapterCoveredByOwnedPackage: a package the user owns, or has a
\* pending order for, contains the chapter.
Covered(u, c) ==
  \E p \in Packages :
    /\ c \in Covers[p]
    /\ \/ p \in Granted(u)
       \/ \E o \in Orders : order[o].user = u /\ order[o].status = "pending" /\ p \in order[o].items

\* purchaseEpisodeWithWallet, whose debit is in module Wallet.
BuyChapter(u, c) ==
  /\ "chapter" \in Ops /\ c \notin chapters[u] /\ ~Covered(u, c)
  /\ chapters' = [chapters EXCEPT ![u] = @ \cup {c}]
  /\ since' = [o \in Orders |-> IF order[o].user = u THEN since[o] \cup {c} ELSE since[o]]
  /\ UNCHANGED <<order, money, refused, checkedIn, adjusts, req>>

\* A wallet top-up is approved with reference r and claims it (module Wallet).
ClaimElsewhere(r) ==
  /\ "topup" \in Ops /\ claim[r] = None /\ r \notin Historic
  /\ \A o \in Orders : Approved(o) => order[o].ref # r
  /\ claim' = [claim EXCEPT ![r] = Elsewhere]
  /\ UNCHANGED <<order, rows, purchases, points, ledger, usage, refused, other, req>>

-----------------------------------------------------------------------------
Buy(q) ==
  \E u \in Users, o \in Orders, S \in SUBSET Packages, c \in Coupons \cup {None}, pts \in PointChoices :
    \/ \E s \in Slips \cup {None} : SlipCheckout(q, u, o, S, c, pts, s)
    \/ WalletCheckout(u, o, S, c, pts)

Review(q) ==
  \/ \E o \in Orders : DuplicateInfo(q, o) \/ ApproveBegin(q, o) \/ Reject(o)
  \/ ApproveCommit(q)

Provider(q) ==
  \/ \E o \in Orders : VerifyRequest(q, o) \/ \E s \in Slips : UploadPayment(q, o, s)
  \/ UploadOrder(q) \/ Verify(q) \/ Verdict(q)
  \/ AutoApprove(q) \/ AutoReview(q) \/ AutoSkip(q) \/ AutoFail(q) \/ RecordFailure(q)

Others ==
  \/ \E u \in Users : CheckIn(u) \/ (\E a \in Adjustments : AdjustPoints(u, a))
                                \/ \E c \in Chapters : BuyChapter(u, c)
  \/ \E r \in Refs : ClaimElsewhere(r)

Next == (\E q \in Requests : Buy(q) \/ Review(q) \/ Provider(q) \/ Crash(q)) \/ Others

Spec == Init /\ [][Next]_vars

-----------------------------------------------------------------------------
(* Properties. *)

\* The order, its payment and the status it mirrors are approved together or
\* not at all, and the order of a rejected payment is rejected: reviewers,
\* verdicts and the two transactions of a slip upload never tear them apart
\* (approvePaymentInTx, rejectPayment, updateOrder, updatePayment).
StatusesAgree ==
  \A o \in Orders :
    /\ Approved(o) <=> order[o].payment = "approved"
    /\ Approved(o) <=> order[o].paymentStatus = "approved"
    /\ order[o].payment = "rejected" => order[o].status = "rejected"

\* An order is settled when it is approved and only once, although the rows
\* are looked for in a view older than the locks (finalizeOrderCompletion):
\* its points are redeemed, its award given and its coupon used exactly once.
SettledOnce ==
  \A o \in Orders :
    LET d == order[o] IN
    rows[o] = [redeem |-> Count(Approved(o) /\ d.points > 0),
               earn |-> Count(Approved(o) /\ Earns(d) > 0),
               coupon |-> Count(Approved(o) /\ d.coupon # None)]

\* A coupon is never used more often than it may be, however many orders
\* were placed with it while it had a use left (recordCouponUsage).
CouponWithinLimit ==
  \A c \in Coupons :
    /\ usage[c] <= MaxUses[c]
    /\ usage[c] = Cardinality({o \in Orders : order[o].coupon = c /\ rows[o].coupon > 0})

\* Every package granted is in an approved order of that user, and every
\* approved order's packages are granted (createPurchase): a reader who paid
\* can read, and nobody reads through an order that was refused.
GrantsBacked ==
  /\ \A u \in Users, i \in Packages : purchases[u][i] # None =>
       LET d == order[purchases[u][i]] IN d.status = "approved" /\ d.user = u /\ i \in d.items
  /\ \A o \in Orders : Approved(o) => order[o].items \subseteq Granted(order[o].user)

\* A bank reference pays for one approved order, which holds its claim, unless
\* an administrator confirmed the duplicate; it then has another use
\* (claimProviderTransaction, validateDuplicateException).
TransferUsedOnce ==
  \A o \in Orders : Approved(o) /\ order[o].ref # None =>
    IF order[o].listed = {} THEN claim[order[o].ref] = o /\ order[o].ref \notin Historic
    ELSE order[o].listed \subseteq Uses(o, order[o].ref)

\* An automatic approval was given for the slip the payment shows, and never
\* to an order an administrator had rejected, however late the verdict
\* (persistAndAutoApprove).
AutoApprovedOwnSlip ==
  \A o \in Orders : Approved(o) /\ order[o].source = "auto" =>
    order[o].ref = SlipRef[order[o].slip] /\ o \notin refused

\* Nothing touches an approved order or its payment again: not a slip
\* uploaded or a verdict stored late, nor a rejection.
ApprovalFinal == [][\A o \in Orders : Approved(o) => order'[o] = order[o]]_order

\* A chapter is not charged to the wallet while an order that is later
\* approved already contains it, provided the order was never rejected
\* (assertNoChapterCoveredByOwnedPackage).
PaidInside(o) == since[o] \cap UNION {Covers[p] : p \in order[o].items}
NoDoubleCharge == \A o \in Orders : Approved(o) /\ o \notin refused => PaidInside(o) = {}

-----------------------------------------------------------------------------
(* What the repository's texts say and the code does not keep. *)

\* A user's points balance is the sum of the points transactions, whatever
\* writers run at once (withUserPointsLock's comment).
PointsAreLedger == points = ledger

\* As NoDoubleCharge, for every order that can still be approved.
NeverDoubleCharge == \A o \in Orders : Approved(o) => PaidInside(o) = {}
=============================================================================
