----------------------------- MODULE OrderProofs -----------------------------
(***************************************************************************)
(* Proofs about OrderSettlement, for every set of users, orders, packages, *)
(* slips, references, coupons and concurrent handlers, every pricing and   *)
(* every selection Ops of the operations.                                  *)
(*                                                                         *)
(* A handler decides from a view that is older than its locks.  The        *)
(* argument is that what it reads there is never taken back: a view names  *)
(* grants and uses of a reference that still stand (ViewsStand), and an    *)
(* order that is not approved has no settlement row at all (SettledOnce),  *)
(* so the checks on the locked payment decide whether a settlement is due. *)
(***************************************************************************)
EXTENDS OrderSettlement, FiniteSetTheorems, TLAPS

\* An order that was not placed is blank and no chapter was bought beside it; a
\* placed one has an owner and points within its price.
RowsWellFormed ==
  \A o \in Orders :
    /\ ~Placed(o) => order[o] = Unplaced /\ since[o] = {}
    /\ Placed(o) => order[o].user \in Users
    /\ order[o].points <= Remaining(order[o].items, order[o].coupon)

\* A handler at work has an order that was placed, and a slip once it asked the
\* provider about one.
HandlersWellFormed ==
  \A q \in Requests :
    /\ ~Idle(q) => req[q].order \in Orders /\ Placed(req[q].order)
    /\ req[q].pc \in {"verdict", "settle", "failed"} => req[q].slip \in Slips

\* What a view shows still holds: grants stay, uses of a reference stay, and what
\* was recorded for the order is recorded.
ViewStands(o, view) ==
  /\ view.granted \subseteq Granted(order[o].user)
  /\ \A k \in view.done : rows[o][k] > 0
  /\ \A r \in Refs : view.uses[r] \subseteq Uses(o, r)
  /\ \A r \in Historic : Elsewhere \in view.uses[r]

ViewsStand == \A q \in Requests : req[q].pc \in {"approve", "settle"} => ViewStands(req[q].order, req[q].view)

\* Only an administrator's rejection makes an order rejected, and a refused order
\* never goes back to pending.
RefusalsKept ==
  \A o \in Orders :
    /\ order[o].status = "rejected" => o \in refused
    /\ o \in refused => order[o].status \in {"rejected", "approved"}

\* As NoDoubleCharge, for every order that was never rejected.
NeverInside == \A o \in Orders : o \notin refused => PaidInside(o) = {}


\* A coupon's uses are counted and within its limit, and the orders that used it
\* are finitely many.
CouponsCounted ==
  /\ CouponWithinLimit
  /\ \A c \in Coupons : IsFiniteSet({o \in Orders : order[o].coupon = c /\ rows[o].coupon > 0})

Shape == TypeOK /\ RowsWellFormed /\ HandlersWellFormed
Settled == StatusesAgree /\ SettledOnce /\ GrantsBacked /\ RefusalsKept
Inv ==
  /\ Shape /\ Settled /\ ViewsStand
  /\ TransferUsedOnce /\ AutoApprovedOwnSlip /\ NeverInside /\ CouponsCounted

\* The part of Inv that does not speak of handlers.
RecordsFit ==
  /\ req \in [Requests -> Handlers] => TypeOK
  /\ RowsWellFormed /\ Settled
  /\ TransferUsedOnce /\ AutoApprovedOwnSlip /\ NeverInside /\ CouponsCounted

-----------------------------------------------------------------------------
(* What a step does, whichever action takes it. *)

SameTerms(d, e) == d.user = e.user /\ d.items = e.items /\ d.coupon = e.coupon /\ d.points = e.points
GoodTerms(d) == d.user \in Users /\ d.points <= Remaining(d.items, d.coupon)

\* An order that is not approved is placed, or changed short of approval.
Amends(o, d) ==
  /\ ~Approved(o) /\ d \in OrderRows
  /\ d.status \in {"pending", "rejected"}
  /\ d.paymentStatus # "approved" /\ d.payment # "approved"
  /\ d.payment = "rejected" => d.status = "rejected"
  /\ IF Placed(o) THEN SameTerms(order[o], d) ELSE GoodTerms(d)
  /\ order' = [order EXCEPT ![o] = d]
  /\ refused \subseteq refused' /\ refused' \subseteq refused \cup {o}
  /\ o \in refused' <=> d.status = "rejected"
  /\ UNCHANGED <<money, other>>

\* A reference approved for order o is its own, or its other uses were confirmed.
OwnTransfer(o, d) ==
  d.ref # None => IF d.listed = {} THEN claim'[d.ref] = o /\ d.ref \notin Historic
                  ELSE d.listed \subseteq Uses(o, d.ref)

\* An order is approved, as d, and settled.
Settles(o, d, view) ==
  /\ ~Approved(o) /\ d \in OrderRows
  /\ d.status = "approved" /\ d.paymentStatus = "approved" /\ d.payment = "approved"
  /\ GoodTerms(d)
  /\ Placed(o) => SameTerms(order[o], d)
  /\ view \in Views /\ view.done = {} /\ view.granted \subseteq Granted(d.user)
  /\ order' = [order EXCEPT ![o] = d]
  /\ Finalize(o, d, view)
  /\ claim' \in [Refs -> Orders \cup {None, Elsewhere}]
  /\ \A r \in Refs : claim'[r] = claim[r] \/ claim[r] = None
  /\ OwnTransfer(o, d)
  /\ d.source = "auto" => d.ref = SlipRef[d.slip] /\ o \notin refused
  /\ UNCHANGED <<refused, other>>

\* Only balances of points move.
MovesPoints ==
  /\ points' \in [Users -> Int] /\ ledger' \in [Users -> Int]
  /\ checkedIn' \subseteq Users /\ adjusts' \in Nat
  /\ UNCHANGED <<order, rows, purchases, usage, claim, refused, chapters, since>>

DataEffect ==
  \/ UNCHANGED <<order, money, refused, other>>
  \/ \E o \in Orders : \E d \in OrderRows : Amends(o, d) \/ \E view \in Views : Settles(o, d, view)
  \/ MovesPoints
  \/ \E u \in Users, c \in Chapters : BuyChapter(u, c)
  \/ \E r \in Refs : ClaimElsewhere(r)

\* A handler that goes on has what its next step relies on.
Fit(h) ==
  /\ h \in Handlers
  /\ h.pc # "idle" => h.order \in Orders /\ Placed(h.order)
  /\ h.pc \in {"verdict", "settle", "failed"} => h.slip \in Slips
  /\ h.pc \in {"approve", "settle"} => ViewStands(h.order, h.view)

HandlerEffect == UNCHANGED req \/ \E q \in Requests : \E h \in Handlers : Become(q, h) /\ Fit(h)'

\* No step takes back what a view may show.
NothingTakenBack ==
  /\ \A o \in Orders : Approved(o) => order'[o] = order[o]
  /\ \A o \in Orders : Placed(o) => Placed(o)' /\ order'[o].user = order[o].user
  /\ \A u \in Users : Granted(u) \subseteq Granted(u)'
  /\ \A o \in Orders, k \in Kinds : rows[o][k] > 0 => rows'[o][k] > 0
  /\ \A r \in Refs : claim[r] = Elsewhere => claim'[r] = Elsewhere

-----------------------------------------------------------------------------
(* Operators of the model. *)

\* What is left of a price is never negative.
LEMMA RemainingType ==
  ASSUME NEW S \in SUBSET Packages, NEW c \in Coupons \cup {None}
  PROVE  Remaining(S, c) \in Nat
BY OrderAssumption DEF Remaining, Off, AtLeast0

\* What an order costs and earns is a number of money units and of points.
LEMMA EarnsType ==
  ASSUME NEW d \in OrderRows, d.points <= Remaining(d.items, d.coupon)
  PROVE  Total(d) \in Nat /\ Earns(d) \in Nat
<1>1. d.items \in SUBSET Packages /\ d.coupon \in Coupons \cup {None} /\ d.points \in Nat
  BY DEF OrderRows
<1>2. Remaining(d.items, d.coupon) \in Nat
  BY <1>1, RemainingType
<1>3. Total(d) \in Nat
  BY <1>1, <1>2 DEF Total
<1>4. ASSUME NEW n \in Nat, NEW k \in Nat \ {0} PROVE n \div k \in Nat
  OBVIOUS
<1> QED
  BY <1>3, <1>4, OrderAssumption DEF Earns

LEMMA BlankType == Blank \in Handlers /\ Blank.pc = "idle"
<1>1. NoView \in Views
  BY DEF NoView, Views, UseSets
<1> QED
  BY <1>1 DEF Blank, Handlers, Phases, UseSets

\* A view taken now shows what holds.
LEMMA SeenStands ==
  ASSUME Shape, NEW o \in Orders, NEW u \in Users
  PROVE  /\ Seen(o, u) \in Views
         /\ Seen(o, u).granted = Granted(u)
         /\ Seen(o, u).done = {k \in Kinds : rows[o][k] > 0}
         /\ \A r \in Refs : Seen(o, u).uses[r] = Uses(o, r)
         /\ order[o].user = u => ViewStands(o, Seen(o, u))
<1>1. Seen(o, u) \in Views
  <2>1. points[u] \in Int /\ Granted(u) \subseteq Packages
    BY DEF Shape, TypeOK, Granted
  <2>2. \A r \in Refs : Uses(o, r) \in UseSets
    BY DEF Uses, UseSets
  <2> QED
    BY <2>1, <2>2 DEF Seen, Views
<1>2. \A r \in Historic : Elsewhere \in Uses(o, r)
  BY DEF Uses
<1>3. Historic \subseteq Refs
  BY OrderAssumption
<1> QED
  BY <1>1, <1>2, <1>3 DEF Seen, ViewStands

\* A view stays true.
LEMMA ViewKept ==
  ASSUME Shape, NothingTakenBack, NEW o \in Orders, Placed(o), NEW view \in Views,
         ViewStands(o, view)
  PROVE  ViewStands(o, view)'
<1>1. order[o].user \in Users /\ order'[o].user = order[o].user
  BY DEF Shape, RowsWellFormed, NothingTakenBack
<1>2. view.granted \subseteq Granted(order[o].user)'
  <2>1. view.granted \subseteq Granted(order[o].user)
    BY DEF ViewStands
  <2>2. Granted(order[o].user) \subseteq Granted(order[o].user)'
    BY <1>1 DEF NothingTakenBack, Granted
  <2> QED
    BY <2>1, <2>2
<1>3. \A k \in view.done : rows'[o][k] > 0
  BY DEF ViewStands, NothingTakenBack, Views
<1>4. ASSUME NEW r \in Refs PROVE view.uses[r] \subseteq Uses(o, r)'
  BY DEF ViewStands, NothingTakenBack, Uses, Approved
<1> QED
  BY <1>2, <1>3, <1>4 DEF ViewStands

-----------------------------------------------------------------------------
(* What the effects preserve. *)

\* An order that is not approved has no settlement row.
LEMMA NoRowsYet ==
  ASSUME SettledOnce, NEW o \in Orders, ~Approved(o)
  PROVE  rows[o] = [redeem |-> 0, earn |-> 0, coupon |-> 0]
<1>1. rows[o] = [redeem |-> Count(Approved(o) /\ order[o].points > 0),
                 earn |-> Count(Approved(o) /\ Earns(order[o]) > 0),
                 coupon |-> Count(Approved(o) /\ order[o].coupon # None)]
  BY DEF SettledOnce
<1>2. /\ Count(Approved(o) /\ order[o].points > 0) = 0
      /\ Count(Approved(o) /\ Earns(order[o]) > 0) = 0
      /\ Count(Approved(o) /\ order[o].coupon # None) = 0
  BY DEF Count
<1> QED
  BY <1>1, <1>2

\* A settlement writes the rows that are due and no others.
LEMMA SettledRows ==
  ASSUME Shape, SettledOnce, NEW o \in Orders, NEW d \in OrderRows, NEW view \in Views,
         Settles(o, d, view)
  PROVE  /\ rows' = [rows EXCEPT ![o] = [redeem |-> Count(d.points > 0),
                                         earn |-> Count(Earns(d) > 0),
                                         coupon |-> Count(d.coupon # None)]]
         /\ usage' = [c \in Coupons |-> usage[c] + Count(c = d.coupon)]
<1>1. rows[o].redeem = 0 /\ rows[o].earn = 0 /\ rows[o].coupon = 0
  BY NoRowsYet DEF Settles
<1>2. d.points \in Nat /\ d.coupon \in Coupons \cup {None} /\ Earns(d) \in Nat
  BY EarnsType DEF Settles, GoodTerms, OrderRows
<1>3. \A k \in Kinds : k \notin view.done
  BY DEF Settles
<1>4. Count(d.points > 0) \in Nat /\ Count(Earns(d) > 0) \in Nat /\ Count(d.coupon # None) \in Nat
  BY DEF Count
<1>5. rows' = [rows EXCEPT ![o] = [redeem |-> @.redeem + Count(d.points > 0),
                                   earn |-> @.earn + Count(Earns(d) > 0),
                                   coupon |-> @.coupon + Count(d.coupon # None)]]
  <2>1. Finalize(o, d, view)
    BY DEF Settles
  <2>2. "redeem" \notin view.done /\ "earn" \notin view.done /\ "coupon" \notin view.done
    BY <1>3 DEF Kinds
  <2> QED
    BY <2>1, <2>2 DEF Finalize
<1>6. None \notin Coupons
  BY OrderAssumption
<1>7. usage' = [c \in Coupons |-> usage[c] + Count(c = d.coupon)]
  <2>1. Finalize(o, d, view)
    BY DEF Settles
  <2>2. "coupon" \notin view.done
    BY <1>3 DEF Kinds
  <2>3. usage' = [c \in Coupons |-> usage[c] + Count(c = d.coupon /\ Count(d.coupon # None) = 1)]
    BY <2>1, <2>2 DEF Finalize
  <2>4. \A c \in Coupons : Count(c = d.coupon /\ Count(d.coupon # None) = 1) = Count(c = d.coupon)
    BY <1>6 DEF Count
  <2> QED
    BY <2>3, <2>4
<1>8. rows \in [Orders -> [redeem: Nat, earn: Nat, coupon: Nat]]
  BY DEF Shape, TypeOK
<1>9. rows' = [rows EXCEPT ![o] = [redeem |-> rows[o].redeem + Count(d.points > 0),
                                   earn |-> rows[o].earn + Count(Earns(d) > 0),
                                   coupon |-> rows[o].coupon + Count(d.coupon # None)]]
  BY <1>5, <1>8
<1>10. /\ rows[o].redeem + Count(d.points > 0) = Count(d.points > 0)
       /\ rows[o].earn + Count(Earns(d) > 0) = Count(Earns(d) > 0)
       /\ rows[o].coupon + Count(d.coupon # None) = Count(d.coupon # None)
  BY <1>1, <1>4
<1> QED
  BY <1>7, <1>9, <1>10


\* Orders with good terms have a cost, whatever else changes.
LEMMA TotalsKept ==
  ASSUME order' \in [Orders -> OrderRows], RowsWellFormed'
  PROVE  \A o \in Orders : Total(order'[o]) \in Nat
BY EarnsType DEF RowsWellFormed

\* The effect of amending an order on what is known of the rows.
LEMMA AmendRows ==
  ASSUME Inv, NEW o \in Orders, NEW d \in OrderRows, Amends(o, d)
  PROVE  /\ order'[o] = d
         /\ \A x \in Orders : x # o => order'[x] = order[x]
         /\ ~Approved(o)' /\ Placed(o)'
         /\ \A x \in Orders : Approved(x)' <=> Approved(x)
         /\ \A x \in Orders : Approved(x) => order'[x] = order[x]
         /\ Placed(o) => SameTerms(order[o], d)
         /\ ~Placed(o) => order[o] = Unplaced
         /\ UNCHANGED <<rows, purchases, points, ledger, usage, claim, chapters, checkedIn, adjusts, since>>
<1>1. order \in [Orders -> OrderRows]
  BY DEF Inv, Shape, TypeOK
<1>2. order' = [order EXCEPT ![o] = d] /\ ~Approved(o) /\ d.status \in {"pending", "rejected"}
  BY DEF Amends
<1>3. order'[o] = d /\ \A x \in Orders : x # o => order'[x] = order[x]
  BY <1>1, <1>2
<1>4. ~Approved(o)' /\ Placed(o)'
  BY <1>2, <1>3 DEF Approved, Placed
<1>5. \A x \in Orders : x # o => (Approved(x)' <=> Approved(x))
  BY <1>3 DEF Approved
<1>6. ~Placed(o) => order[o] = Unplaced
  BY DEF Inv, Shape, RowsWellFormed
<1> QED
  BY <1>2, <1>3, <1>4, <1>5, <1>6 DEF Amends, money, other

LEMMA AmendKeeps ==
  ASSUME Inv, NEW o \in Orders, NEW d \in OrderRows, Amends(o, d)
  PROVE  RecordsFit'
<1> USE AmendRows
<1>1. order' \in [Orders -> OrderRows]
  BY DEF Inv, Shape, TypeOK, Amends
<1>2. refused' \subseteq Orders
  BY DEF Inv, Shape, TypeOK, Amends
<1>3. RowsWellFormed'
  <2>1. d.user \in Users /\ d.points <= Remaining(d.items, d.coupon)
    BY DEF Amends, SameTerms, GoodTerms, Inv, Shape, RowsWellFormed
  <2>2. ASSUME NEW x \in Orders, x # o
        PROVE  /\ ~Placed(x)' => order'[x] = Unplaced /\ since'[x] = {}
               /\ Placed(x)' => order'[x].user \in Users
               /\ order'[x].points <= Remaining(order'[x].items, order'[x].coupon)
    BY <2>2 DEF Inv, Shape, RowsWellFormed, Placed
  <2> QED
    BY <2>1, <2>2 DEF RowsWellFormed
<1>4. req' \in [Requests -> Handlers] => TypeOK'
  BY <1>1, <1>2, <1>3, TotalsKept DEF Inv, Shape, TypeOK
<1>5. StatusesAgree'
  <2>1. /\ d.payment # "approved" /\ d.paymentStatus # "approved"
        /\ d.payment = "rejected" => d.status = "rejected"
    BY DEF Amends
  <2>2. ASSUME NEW x \in Orders, x # o
        PROVE  /\ Approved(x)' <=> order'[x].payment = "approved"
               /\ Approved(x)' <=> order'[x].paymentStatus = "approved"
               /\ order'[x].payment = "rejected" => order'[x].status = "rejected"
    BY <2>2 DEF Inv, Settled, StatusesAgree
  <2> QED
    BY <2>1, <2>2 DEF StatusesAgree
<1>6. SettledOnce'
  <2>1. rows[o] = [redeem |-> 0, earn |-> 0, coupon |-> 0]
    BY NoRowsYet DEF Amends, Inv, Settled
  <2>2. /\ Count(Approved(o)' /\ d.points > 0) = 0
        /\ Count(Approved(o)' /\ Earns(d) > 0) = 0
        /\ Count(Approved(o)' /\ d.coupon # None) = 0
    BY DEF Count
  <2>3. ASSUME NEW x \in Orders, x # o
        PROVE rows'[x] = [redeem |-> Count(Approved(x)' /\ order'[x].points > 0),
                          earn |-> Count(Approved(x)' /\ Earns(order'[x]) > 0),
                          coupon |-> Count(Approved(x)' /\ order'[x].coupon # None)]
    <3>1. order'[x] = order[x] /\ rows'[x] = rows[x] /\ (Approved(x)' <=> order[x].status = "approved")
      BY <2>3 DEF Approved
    <3> QED
      BY <3>1 DEF Inv, Settled, SettledOnce, Approved
  <2> QED
    BY <2>1, <2>2, <2>3 DEF SettledOnce
<1>7. GrantsBacked'
  <2>1. ASSUME NEW u \in Users, NEW i \in Packages, purchases[u][i] # None
        PROVE  /\ order'[purchases[u][i]].status = "approved"
               /\ order'[purchases[u][i]].user = u
               /\ i \in order'[purchases[u][i]].items
    <3>1. purchases[u][i] \in Orders /\ Approved(purchases[u][i])
      BY <2>1 DEF Inv, Shape, TypeOK, Settled, GrantsBacked, Approved
    <3> QED
      BY <2>1, <3>1 DEF Inv, Settled, GrantsBacked
  <2>2. ASSUME NEW x \in Orders, Approved(x)' PROVE order'[x].items \subseteq Granted(order[x].user)'
    <3>1. Approved(x) /\ order'[x] = order[x]
      BY <2>2
    <3>2. Granted(order[x].user)' = Granted(order[x].user)
      BY <3>1 DEF Granted
    <3> QED
      BY <3>1, <3>2 DEF Inv, Settled, GrantsBacked
  <2>3. \A x \in Orders : Approved(x)' =>
          order'[x].items \subseteq {i \in Packages : purchases'[order'[x].user][i] # None}
    BY <2>2 DEF Granted
  <2> QED
    BY <2>1, <2>3 DEF GrantsBacked, Granted
<1>8. RefusalsKept'
  <2>1. order'[o].status = "rejected" <=> o \in refused'
    BY DEF Amends
  <2>2. \A x \in Orders : x # o => (x \in refused' <=> x \in refused)
    BY DEF Amends
  <2> QED
    BY <2>1, <2>2 DEF Inv, Settled, RefusalsKept
<1>9. TransferUsedOnce'
  BY DEF Inv, TransferUsedOnce, Uses
<1>10. AutoApprovedOwnSlip'
  BY DEF Inv, AutoApprovedOwnSlip, Amends
<1>11. NeverInside'
  <2>1. PaidInside(o)' = IF Placed(o) THEN PaidInside(o) ELSE {}
    <3>1. CASE Placed(o)
      BY <3>1 DEF PaidInside, SameTerms
    <3>2. CASE ~Placed(o)
      BY <3>2 DEF PaidInside, Inv, Shape, RowsWellFormed
    <3> QED
      BY <3>1, <3>2
  <2>2. \A x \in Orders : x # o => PaidInside(x)' = PaidInside(x)
    BY DEF PaidInside
  <2>3. refused \subseteq refused'
    BY DEF Amends
  <2> QED
    BY <2>1, <2>2, <2>3 DEF Inv, NeverInside
<1>12. CouponsCounted'
  <2>1. rows[o].coupon = 0
    BY NoRowsYet DEF Amends, Inv, Settled
  <2>2. \A c \in Coupons : {x \in Orders : order'[x].coupon = c /\ rows'[x].coupon > 0}
                          = {x \in Orders : order[x].coupon = c /\ rows[x].coupon > 0}
    BY <2>1
  <2> QED
    BY <2>2 DEF Inv, CouponsCounted, CouponWithinLimit
<1> QED
  BY <1>3, <1>4, <1>5, <1>6, <1>7, <1>8, <1>9, <1>10, <1>11, <1>12 DEF RecordsFit, Settled

\* What a settlement makes of the rows.
Settlement(o, d, view) ==
  /\ order'[o] = d
  /\ \A x \in Orders : x # o => order'[x] = order[x]
  /\ ~Approved(o) /\ Approved(o)'
  /\ \A x \in Orders : x # o => (Approved(x)' <=> Approved(x))
  /\ rows' = [rows EXCEPT ![o] = [redeem |-> Count(d.points > 0), earn |-> Count(Earns(d) > 0),
                                  coupon |-> Count(d.coupon # None)]]
  /\ rows[o] = [redeem |-> 0, earn |-> 0, coupon |-> 0]
  /\ usage' = [c \in Coupons |-> usage[c] + Count(c = d.coupon)]
  /\ d.user \in Users
  /\ purchases' = [purchases EXCEPT ![d.user] = [i \in Packages |->
                     IF i \in d.items \ view.granted THEN o ELSE @[i]]]
  /\ UNCHANGED <<refused, chapters, checkedIn, adjusts, since>>

LEMMA SettleFacts ==
  ASSUME Inv, NEW o \in Orders, NEW d \in OrderRows, NEW view \in Views, Settles(o, d, view)
  PROVE  Settlement(o, d, view)
<1>1. order \in [Orders -> OrderRows]
  BY DEF Inv, Shape, TypeOK
<1>2. order' = [order EXCEPT ![o] = d] /\ ~Approved(o) /\ d.status = "approved" /\ d.user \in Users
  BY DEF Settles, GoodTerms
<1>3. order'[o] = d /\ \A x \in Orders : x # o => order'[x] = order[x]
  BY <1>1, <1>2
<1>4. Approved(o)' /\ \A x \in Orders : x # o => (Approved(x)' <=> Approved(x))
  BY <1>2, <1>3 DEF Approved
<1>5. rows[o] = [redeem |-> 0, earn |-> 0, coupon |-> 0]
  BY <1>2, NoRowsYet DEF Inv, Settled
<1>6. purchases' = [purchases EXCEPT ![d.user] = [i \in Packages |->
                      IF i \in d.items \ view.granted THEN o ELSE @[i]]]
  BY DEF Settles, Finalize
<1>7. UNCHANGED <<refused, chapters, checkedIn, adjusts, since>>
  BY DEF Settles, other
<1> QED
  BY <1>2, <1>3, <1>4, <1>5, <1>6, <1>7, SettledRows DEF Inv, Settled, Settlement

\* A settlement moves points by whole numbers.
LEMMA SettleTypes ==
  ASSUME Inv, NEW o \in Orders, NEW d \in OrderRows, NEW view \in Views, Settles(o, d, view)
  PROVE  /\ points' \in [Users -> Int] /\ ledger' \in [Users -> Int]
         /\ usage' \in [Coupons -> Nat] /\ rows' \in [Orders -> [redeem: Nat, earn: Nat, coupon: Nat]]
         /\ purchases' \in [Users -> [Packages -> Orders \cup {None}]]
<1>0. Settlement(o, d, view)
  BY SettleFacts
<1> USE <1>0 DEF Settlement
<1>1. d.points \in Nat /\ Earns(d) \in Nat /\ view.points \in Int
  BY EarnsType DEF Settles, GoodTerms, OrderRows, Views
<1>2. points \in [Users -> Int] /\ ledger \in [Users -> Int] /\ usage \in [Coupons -> Nat]
  BY DEF Inv, Shape, TypeOK
<1>3. Finalize(o, d, view) /\ view.done = {}
  BY DEF Settles
<1>4. points' = IF d.points + Earns(d) = 0 THEN points
                ELSE [points EXCEPT ![d.user] =
                  (IF d.points = 0 THEN view.points ELSE AtLeast0(view.points - d.points)) + Earns(d)]
  BY <1>3 DEF Finalize
<1>5. ledger' = [ledger EXCEPT ![d.user] = @ - d.points + Earns(d)]
  BY <1>3 DEF Finalize
<1>6. points' \in [Users -> Int]
  BY <1>1, <1>2, <1>4 DEF AtLeast0
<1>7. ledger' \in [Users -> Int]
  BY <1>1, <1>2, <1>5
<1>8. usage' \in [Coupons -> Nat]
  BY <1>2 DEF Count
<1>9. rows' \in [Orders -> [redeem: Nat, earn: Nat, coupon: Nat]]
  <2>1. Count(d.points > 0) \in Nat /\ Count(Earns(d) > 0) \in Nat /\ Count(d.coupon # None) \in Nat
    BY DEF Count
  <2>2. [redeem |-> Count(d.points > 0), earn |-> Count(Earns(d) > 0),
         coupon |-> Count(d.coupon # None)] \in [redeem: Nat, earn: Nat, coupon: Nat]
    BY <2>1
  <2> QED
    BY <2>2 DEF Inv, Shape, TypeOK
<1>10. purchases' \in [Users -> [Packages -> Orders \cup {None}]]
  BY DEF Inv, Shape, TypeOK
<1> QED
  BY <1>6, <1>7, <1>8, <1>9, <1>10

\* What a settlement grants, beside what was granted already.
LEMMA SettleGrants ==
  ASSUME Inv, NEW o \in Orders, NEW d \in OrderRows, NEW view \in Views, Settles(o, d, view)
  PROVE  /\ \A u \in Users : Granted(u) \subseteq Granted(u)'
         /\ d.items \subseteq Granted(d.user)'
         /\ \A u \in Users, i \in Packages :
              \/ purchases'[u][i] = purchases[u][i]
              \/ purchases'[u][i] = o /\ u = d.user /\ i \in d.items
<1>0. Settlement(o, d, view)
  BY SettleFacts
<1> USE <1>0 DEF Settlement
<1>1. None \notin Orders
  BY OrderAssumption
<1>2. purchases \in [Users -> [Packages -> Orders \cup {None}]]
  BY DEF Inv, Shape, TypeOK
<1>3. \A u \in Users, i \in Packages :
        purchases'[u][i] = IF u = d.user /\ i \in d.items \ view.granted THEN o ELSE purchases[u][i]
  BY <1>2
<1>4. d.items \subseteq Packages /\ view.granted \subseteq Granted(d.user)
  BY DEF Settles, OrderRows
<1> QED
  BY <1>1, <1>3, <1>4 DEF Granted

LEMMA SettleKeeps ==
  ASSUME Inv, NEW o \in Orders, NEW d \in OrderRows, NEW view \in Views, Settles(o, d, view)
  PROVE  RecordsFit'
<1>0. Settlement(o, d, view)
  BY SettleFacts
<1> USE <1>0 DEF Settlement
<1>1. order' \in [Orders -> OrderRows]
  BY DEF Inv, Shape, TypeOK, Settles
<1>2. RowsWellFormed'
  <2>1. d.user \in Users /\ d.points <= Remaining(d.items, d.coupon) /\ Placed(o)'
    BY DEF Settles, GoodTerms, Placed
  <2>2. ASSUME NEW x \in Orders, x # o
        PROVE  /\ ~Placed(x)' => order'[x] = Unplaced /\ since'[x] = {}
               /\ Placed(x)' => order'[x].user \in Users
               /\ order'[x].points <= Remaining(order'[x].items, order'[x].coupon)
    BY <2>2 DEF Inv, Shape, RowsWellFormed, Placed
  <2> QED
    BY <2>1, <2>2 DEF RowsWellFormed
<1>3. req' \in [Requests -> Handlers] => TypeOK'
  <2>1. claim' \in [Refs -> Orders \cup {None, Elsewhere}]
    BY DEF Settles
  <2>2. \A x \in Orders : Total(order'[x]) \in Nat
    BY <1>1, <1>2, TotalsKept
  <2>3. /\ refused' \subseteq Orders /\ checkedIn' \subseteq Users /\ adjusts' \in Nat
        /\ since' \in [Orders -> SUBSET Chapters] /\ chapters' \in [Users -> SUBSET Chapters]
    BY DEF Inv, Shape, TypeOK
  <2> QED
    BY <1>1, <2>1, <2>2, <2>3, SettleTypes DEF TypeOK
<1>4. StatusesAgree'
  <2>1. d.payment = "approved" /\ d.paymentStatus = "approved"
    BY DEF Settles
  <2>2. ASSUME NEW x \in Orders, x # o
        PROVE  /\ Approved(x)' <=> order'[x].payment = "approved"
               /\ Approved(x)' <=> order'[x].paymentStatus = "approved"
               /\ order'[x].payment = "rejected" => order'[x].status = "rejected"
    BY <2>2 DEF Inv, Settled, StatusesAgree
  <2> QED
    BY <2>1, <2>2 DEF StatusesAgree
<1>5. SettledOnce'
  <2>1. rows \in [Orders -> [redeem: Nat, earn: Nat, coupon: Nat]]
    BY DEF Inv, Shape, TypeOK
  <2>2. rows'[o] = [redeem |-> Count(d.points > 0), earn |-> Count(Earns(d) > 0),
                    coupon |-> Count(d.coupon # None)]
    BY <2>1
  <2>3. /\ Count(Approved(o)' /\ d.points > 0) = Count(d.points > 0)
        /\ Count(Approved(o)' /\ Earns(d) > 0) = Count(Earns(d) > 0)
        /\ Count(Approved(o)' /\ d.coupon # None) = Count(d.coupon # None)
    BY DEF Count
  <2>4. ASSUME NEW x \in Orders, x # o
        PROVE rows'[x] = [redeem |-> Count(Approved(x)' /\ order'[x].points > 0),
                          earn |-> Count(Approved(x)' /\ Earns(order'[x]) > 0),
                          coupon |-> Count(Approved(x)' /\ order'[x].coupon # None)]
    <3>1. order'[x] = order[x] /\ rows'[x] = rows[x] /\ (Approved(x)' <=> order[x].status = "approved")
      BY <2>1, <2>4 DEF Approved
    <3> QED
      BY <3>1 DEF Inv, Settled, SettledOnce, Approved
  <2> QED
    BY <2>2, <2>3, <2>4 DEF SettledOnce
<1>6. GrantsBacked'
  <2>1. ASSUME NEW u \in Users, NEW i \in Packages, purchases'[u][i] # None
        PROVE  /\ order'[purchases'[u][i]].status = "approved"
               /\ order'[purchases'[u][i]].user = u
               /\ i \in order'[purchases'[u][i]].items
    <3>1. CASE purchases'[u][i] = o /\ u = d.user /\ i \in d.items
      BY <3>1 DEF Settles
    <3>2. CASE purchases'[u][i] = purchases[u][i]
      <4>1. purchases[u][i] \in Orders /\ Approved(purchases[u][i])
        BY <2>1, <3>2 DEF Inv, Shape, TypeOK, Settled, GrantsBacked, Approved
      <4> QED
        BY <2>1, <3>2, <4>1 DEF Inv, Settled, GrantsBacked
    <3> QED
      BY <3>1, <3>2, SettleGrants
  <2>2. ASSUME NEW x \in Orders, Approved(x)', x # o
        PROVE  order[x].items \subseteq Granted(order[x].user)'
    <3>1. Approved(x) /\ order[x].user \in Users
      BY <2>2 DEF Inv, Shape, RowsWellFormed, Placed, Approved
    <3> QED
      BY <3>1, SettleGrants DEF Inv, Settled, GrantsBacked
  <2>3. \A x \in Orders : Approved(x)' =>
          order'[x].items \subseteq {i \in Packages : purchases'[order'[x].user][i] # None}
    BY <2>2, SettleGrants DEF Granted
  <2> QED
    BY <2>1, <2>3 DEF GrantsBacked, Granted
<1>7. RefusalsKept'
  <2>1. d.status = "approved"
    BY DEF Settles
  <2> QED
    BY <2>1 DEF Inv, Settled, RefusalsKept
<1>8. TransferUsedOnce'
  <2>1. ASSUME NEW x \in Orders, NEW r \in Refs PROVE Uses(x, r) \subseteq Uses(x, r)'
    BY OrderAssumption DEF Uses, Settles
  <2>2. \A x \in Orders : order[x].ref \in Refs \cup {None} /\ order'[x].ref \in Refs \cup {None}
    BY <1>1 DEF Inv, Shape, TypeOK, OrderRows
  <2>3. ASSUME NEW x \in Orders, NEW r \in Refs, Approved(x)', order'[x].ref = r
        PROVE  IF order'[x].listed = {} THEN claim'[r] = x /\ r \notin Historic
               ELSE order'[x].listed \subseteq Uses(x, r)'
    <3>1. CASE x = o
      <4>1. d.ref = r /\ r # None
        BY <2>3, <3>1, OrderAssumption
      <4>2. Uses(o, r) \subseteq Uses(o, r)'
        BY <2>1
      <4>3. IF d.listed = {} THEN claim'[r] = o /\ r \notin Historic ELSE d.listed \subseteq Uses(o, r)
        BY <4>1 DEF Settles, OwnTransfer
      <4> QED
        BY <3>1, <4>2, <4>3
    <3>2. CASE x # o
      <4>1. order'[x] = order[x] /\ Approved(x) /\ order[x].ref = r /\ r # None
        BY <2>3, <3>2, OrderAssumption
      <4>2. Uses(x, r) \subseteq Uses(x, r)'
        BY <2>1
      <4>3. claim[r] = x => claim'[r] = x
        BY OrderAssumption DEF Settles
      <4>4. IF order[x].listed = {} THEN claim[r] = x /\ r \notin Historic
            ELSE order[x].listed \subseteq Uses(x, r)
        BY <4>1 DEF Inv, TransferUsedOnce
      <4> QED
        BY <4>1, <4>2, <4>3, <4>4
    <3> QED
      BY <3>1, <3>2
  <2> QED
    BY <2>2, <2>3 DEF TransferUsedOnce, Uses
<1>9. AutoApprovedOwnSlip'
  BY DEF Inv, AutoApprovedOwnSlip, Settles
<1>10. NeverInside'
  <2>1. PaidInside(o)' = IF Placed(o) THEN PaidInside(o) ELSE {}
    <3>1. CASE Placed(o)
      BY <3>1 DEF PaidInside, SameTerms, Settles
    <3>2. CASE ~Placed(o)
      BY <3>2 DEF PaidInside, Inv, Shape, RowsWellFormed
    <3> QED
      BY <3>1, <3>2
  <2>2. \A x \in Orders : x # o => PaidInside(x)' = PaidInside(x)
    BY DEF PaidInside
  <2> QED
    BY <2>1, <2>2 DEF Inv, NeverInside
<1>11. CouponsCounted'
  <2> DEFINE Used(c) == {x \in Orders : order[x].coupon = c /\ rows[x].coupon > 0}
  <2> HIDE DEF Used
  <2>1. ASSUME NEW c \in Coupons
        PROVE  /\ usage'[c] <= MaxUses[c] /\ usage'[c] = Cardinality(Used(c)')
               /\ IsFiniteSet(Used(c)')
    <3>1. IsFiniteSet(Used(c)) /\ usage[c] = Cardinality(Used(c)) /\ usage[c] <= MaxUses[c]
      BY DEF Inv, CouponsCounted, CouponWithinLimit, Used
    <3>2. o \notin Used(c)
      BY DEF Used
    <3>3. rows \in [Orders -> [redeem: Nat, earn: Nat, coupon: Nat]] /\ usage \in [Coupons -> Nat] /\ c # None
      BY OrderAssumption DEF Inv, Shape, TypeOK
    <3>4. rows'[o].coupon = Count(d.coupon # None) /\ \A x \in Orders : x # o => rows'[x] = rows[x]
      BY <3>3
    <3>5. CASE d.coupon = c
      <4>1. Used(c)' = Used(c) \cup {o}
        BY <3>3, <3>4, <3>5 DEF Count, Used
      <4>2. usage'[c] = usage[c] + 1
        BY <3>3, <3>5 DEF Count
      <4>3. usage[c] < MaxUses[c]
        BY <3>3, <3>5 DEF Settles, Finalize, MayRecordUsage
      <4>4. usage[c] \in Nat /\ MaxUses[c] \in Nat
        BY <3>3, OrderAssumption
      <4>5. IsFiniteSet(Used(c) \cup {o}) /\ Cardinality(Used(c) \cup {o}) = Cardinality(Used(c)) + 1
        BY <3>1, <3>2, FS_AddElement
      <4> QED
        BY <3>1, <4>1, <4>2, <4>3, <4>4, <4>5
    <3>6. CASE d.coupon # c
      <4>1. Used(c)' = Used(c)
        BY <3>4, <3>6, <3>2 DEF Used, Count
      <4>2. usage'[c] = usage[c]
        BY <3>3, <3>6 DEF Count
      <4> QED
        BY <3>1, <4>1, <4>2
    <3> QED
      BY <3>5, <3>6
  <2> QED
    BY <2>1 DEF CouponsCounted, CouponWithinLimit, Used
<1> QED
  BY <1>2, <1>3, <1>4, <1>5, <1>6, <1>7, <1>8, <1>9, <1>10, <1>11 DEF RecordsFit, Settled

\* Movements of points, chapters and foreign claims leave the orders alone.
LEMMA OthersKeep ==
  ASSUME Inv, \/ UNCHANGED <<order, money, refused, other>>
              \/ MovesPoints
              \/ \E u \in Users, c \in Chapters : BuyChapter(u, c)
              \/ \E r \in Refs : ClaimElsewhere(r)
  PROVE  RecordsFit' /\ NothingTakenBack
<1>1. UNCHANGED <<order, rows, purchases, usage, refused>>
  BY DEF money, other, MovesPoints, BuyChapter, ClaimElsewhere
<1>2. /\ StatusesAgree' /\ SettledOnce' /\ GrantsBacked' /\ RefusalsKept'
      /\ AutoApprovedOwnSlip' /\ CouponsCounted'
  <2>1. StatusesAgree' /\ RefusalsKept' /\ AutoApprovedOwnSlip'
    BY <1>1 DEF Inv, Settled, StatusesAgree, RefusalsKept, AutoApprovedOwnSlip, Approved
  <2>2. SettledOnce'
    BY <1>1 DEF Inv, Settled, SettledOnce, Approved
  <2>3. GrantsBacked'
    BY <1>1 DEF Inv, Settled, GrantsBacked, Approved, Granted
  <2>4. CouponsCounted'
    BY <1>1 DEF Inv, CouponsCounted, CouponWithinLimit
  <2> QED
    BY <2>1, <2>2, <2>3, <2>4
<1>3. \A r \in Refs : claim'[r] # claim[r] => claim[r] = None /\ claim'[r] = Elsewhere
  BY DEF Inv, Shape, TypeOK, money, MovesPoints, BuyChapter, ClaimElsewhere
<1>4. NothingTakenBack
  BY <1>1, <1>3, OrderAssumption DEF NothingTakenBack, Placed, Granted
<1>5. TransferUsedOnce'
  <2>1. \A o \in Orders, r \in Refs : Uses(o, r) \subseteq Uses(o, r)'
    BY <1>1, <1>3, OrderAssumption DEF Uses, Approved
  <2>2. ASSUME NEW o \in Orders, NEW r \in Refs, Approved(o), order[o].ref = r
        PROVE  IF order[o].listed = {} THEN claim'[r] = o /\ r \notin Historic
               ELSE order[o].listed \subseteq Uses(o, r)'
    <3>1. r # None /\ None \notin Orders
      BY OrderAssumption
    <3>2. IF order[o].listed = {} THEN claim[r] = o /\ r \notin Historic
          ELSE order[o].listed \subseteq Uses(o, r)
      BY <2>2, <3>1 DEF Inv, TransferUsedOnce
    <3> QED
      BY <1>3, <2>1, <3>1, <3>2
  <2>3. \A o \in Orders : order[o].ref \in Refs \cup {None}
    BY DEF Inv, Shape, TypeOK, OrderRows
  <2> QED
    BY <1>1, <2>2, <2>3 DEF TransferUsedOnce, Uses, Approved
<1>6. RowsWellFormed' /\ NeverInside' /\ since' \in [Orders -> SUBSET Chapters]
  <2>1. CASE UNCHANGED since
    BY <1>1, <2>1 DEF Inv, Shape, TypeOK, RowsWellFormed, NeverInside, PaidInside, Placed
  <2>2. CASE \E u \in Users, c \in Chapters : BuyChapter(u, c)
    <3> PICK u \in Users, c \in Chapters : BuyChapter(u, c)
      BY <2>2
    <3>1. since' = [o \in Orders |-> IF order[o].user = u THEN since[o] \cup {c} ELSE since[o]]
      BY DEF BuyChapter
    <3>2. ~Covered(u, c)
      BY DEF BuyChapter
    <3>3. \A o \in Orders : ~Placed(o) => order[o].user # u
      BY OrderAssumption DEF Inv, Shape, RowsWellFormed, Unplaced
    <3>4. RowsWellFormed'
      BY <1>1, <3>1, <3>3 DEF Inv, Shape, RowsWellFormed, Placed
    <3>5. ASSUME NEW o \in Orders, o \notin refused, order[o].user = u, NEW i \in order[o].items
          PROVE  c \notin Covers[i]
      <4>1. Placed(o) /\ i \in Packages
        BY <3>3, <3>5 DEF Inv, Shape, TypeOK, OrderRows
      <4>2. order[o].status \in {"pending", "approved"}
        BY <3>5, <4>1 DEF Inv, Shape, TypeOK, OrderRows, Settled, RefusalsKept, Placed
      <4>3. Approved(o) => i \in Granted(u)
        BY <3>5 DEF Inv, Settled, GrantsBacked
      <4> QED
        BY <3>2, <3>5, <4>1, <4>2, <4>3 DEF Covered, Approved
    <3>6. NeverInside'
      BY <1>1, <3>1, <3>5 DEF Inv, NeverInside, PaidInside
    <3>7. since' \in [Orders -> SUBSET Chapters]
      BY <3>1 DEF Inv, Shape, TypeOK
    <3> QED
      BY <3>4, <3>6, <3>7
  <2> QED
    BY <2>1, <2>2 DEF other, MovesPoints, ClaimElsewhere
<1>7. req' \in [Requests -> Handlers] => TypeOK'
  <2>1. /\ points' \in [Users -> Int] /\ ledger' \in [Users -> Int]
        /\ checkedIn' \subseteq Users /\ adjusts' \in Nat
        /\ chapters' \in [Users -> SUBSET Chapters]
    BY DEF Inv, Shape, TypeOK, money, other, MovesPoints, BuyChapter, ClaimElsewhere
  <2>2. claim' \in [Refs -> Orders \cup {None, Elsewhere}]
    BY DEF Inv, Shape, TypeOK, money, MovesPoints, BuyChapter, ClaimElsewhere
  <2> QED
    BY <1>1, <1>6, <2>1, <2>2 DEF Inv, Shape, TypeOK, Total, Remaining, Off
<1> QED
  BY <1>2, <1>4, <1>5, <1>6, <1>7 DEF RecordsFit, Settled

\* Neither does an order that is placed, changed or settled take anything back.
LEMMA OrdersTakeNothing ==
  ASSUME Inv, NEW o \in Orders, NEW d \in OrderRows,
         Amends(o, d) \/ \E view \in Views : Settles(o, d, view)
  PROVE  NothingTakenBack
<1>1. CASE Amends(o, d)
  BY <1>1, AmendRows DEF NothingTakenBack, Placed, Granted, SameTerms
<1>2. CASE \E view \in Views : Settles(o, d, view)
  <2> PICK view \in Views : Settles(o, d, view)
    BY <1>2
  <2>1. Settlement(o, d, view)
    BY SettleFacts
  <2>2. \A x \in Orders : Approved(x) => order'[x] = order[x]
    BY <2>1 DEF Settlement
  <2>3. \A x \in Orders : Placed(x) => Placed(x)' /\ order'[x].user = order[x].user
    BY <2>1 DEF Settlement, Settles, SameTerms, Placed
  <2>4. \A x \in Orders, k \in Kinds : rows[x][k] > 0 => rows'[x][k] > 0
    BY <2>1 DEF Settlement, Kinds, Inv, Shape, TypeOK
  <2>5. \A r \in Refs : claim[r] = Elsewhere => claim'[r] = Elsewhere
    BY OrderAssumption DEF Settles
  <2> QED
    BY <2>2, <2>3, <2>4, <2>5, SettleGrants DEF NothingTakenBack
<1> QED
  BY <1>1, <1>2

LEMMA DataKept ==
  ASSUME Inv, DataEffect
  PROVE  RecordsFit' /\ NothingTakenBack
<1>1. CASE \E o \in Orders : \E d \in OrderRows : Amends(o, d) \/ \E view \in Views : Settles(o, d, view)
  BY <1>1, AmendKeeps, SettleKeeps, OrdersTakeNothing
<1>2. CASE ~\E o \in Orders : \E d \in OrderRows : Amends(o, d) \/ \E view \in Views : Settles(o, d, view)
  BY <1>2, OthersKeep DEF DataEffect
<1> QED
  BY <1>1, <1>2

\* Views, orders and slips of handlers stay what their next steps rely on.
LEMMA HandlersKept ==
  ASSUME Inv, NothingTakenBack, HandlerEffect
  PROVE  req' \in [Requests -> Handlers] /\ HandlersWellFormed' /\ ViewsStand'
<1>1. \A q \in Requests : Fit(req[q])
  BY DEF Inv, Shape, TypeOK, HandlersWellFormed, ViewsStand, Fit, Idle
<1>2. ASSUME NEW h \in Handlers, Fit(h) PROVE Fit(h)'
  <2>1. h.pc # "idle" => h.order \in Orders /\ Placed(h.order)'
    BY <1>2 DEF Fit, NothingTakenBack
  <2>2. ASSUME h.pc \in {"approve", "settle"} PROVE ViewStands(h.order, h.view)'
    <3>1. h.order \in Orders /\ Placed(h.order) /\ h.view \in Views /\ ViewStands(h.order, h.view)
      BY <1>2, <2>2 DEF Fit, Handlers
    <3> QED
      BY <3>1, ViewKept DEF Inv
  <2> QED
    BY <1>2, <2>1, <2>2 DEF Fit
<1>3. req \in [Requests -> Handlers]
  BY DEF Inv, Shape, TypeOK
<1>4. req' \in [Requests -> Handlers] /\ \A q \in Requests : \E h \in Handlers : req'[q] = h /\ Fit(h)'
  <2>1. CASE UNCHANGED req
    BY <1>1, <1>2, <1>3, <2>1
  <2>2. CASE \E p \in Requests : \E h \in Handlers : Become(p, h) /\ Fit(h)'
    <3> PICK p \in Requests, h \in Handlers : Become(p, h) /\ Fit(h)'
      BY <2>2
    <3>1. req' = [req EXCEPT ![p] = h]
      BY DEF Become
    <3>2. \A q \in Requests : q # p => req'[q] = req[q] /\ req[q] \in Handlers /\ Fit(req[q])
      BY <1>1, <1>3, <3>1
    <3>3. req'[p] = h /\ req' \in [Requests -> Handlers]
      BY <1>3, <3>1
    <3> QED
      BY <1>2, <3>2, <3>3
  <2> QED
    BY <2>1, <2>2 DEF HandlerEffect
<1>5. ASSUME NEW q \in Requests
      PROVE  /\ req'[q].pc # "idle" => req'[q].order \in Orders /\ order'[req'[q].order].status # "absent"
             /\ req'[q].pc \in {"verdict", "settle", "failed"} => req'[q].slip \in Slips
  BY <1>4 DEF Fit, Placed
<1>6. ASSUME NEW q \in Requests, req'[q].pc \in {"approve", "settle"}
      PROVE  ViewStands(req[q].order, req[q].view)'
  <2> PICK h \in Handlers : req'[q] = h /\ Fit(h)'
    BY <1>4
  <2>1. ViewStands(h.order, h.view)'
    BY <1>6 DEF Fit
  <2> QED
    BY <2>1 DEF ViewStands, Granted, Uses, Approved
<1> QED
  BY <1>4, <1>5, <1>6 DEF HandlersWellFormed, ViewsStand, Idle, Placed

-----------------------------------------------------------------------------
(* Every action has these effects. *)

LEMMA BlankFits == Fit(Blank)'
<1>1. Blank \in Handlers /\ Blank.pc = "idle"
  BY BlankType
<1> QED
  BY <1>1 DEF Fit

LEMMA AskingFits ==
  ASSUME NEW o \in Orders, Placed(o)'
  PROVE  Asking(o) \in Handlers /\ Fit(Asking(o))'
<1>1. Asking(o) \in Handlers /\ Asking(o).order = o /\ Asking(o).pc = "verify"
  BY BlankType DEF Asking, Blank, Handlers, Phases
<1> QED
  BY <1>1 DEF Fit

LEMMA StillFits ==
  ASSUME UNCHANGED <<order, rows, purchases, claim>>, NEW h \in Handlers, Fit(h)
  PROVE  Fit(h)'
<1>1. h.pc # "idle" => h.order \in Orders /\ Placed(h.order)'
  BY DEF Fit, Placed
<1>2. ASSUME h.pc \in {"approve", "settle"} PROVE ViewStands(h.order, h.view)'
  <2>1. ViewStands(h.order, h.view)
    BY <1>2 DEF Fit
  <2> QED
    BY <2>1 DEF ViewStands, Granted, Uses, Approved
<1> QED
  BY <1>1, <1>2 DEF Fit

\* A settlement depends on the terms of its order only.
LEMMA SameFinalize ==
  ASSUME NEW o \in Orders, NEW d, NEW e, NEW view, SameTerms(d, e), Finalize(o, d, view)
  PROVE  Finalize(o, e, view)
<1>1. Earns(d) = Earns(e)
  BY DEF SameTerms, Earns, Total
<1> QED
  BY <1>1 DEF SameTerms, Finalize, MayGrant, MayRecordUsage

LEMMA ApproveSettles ==
  ASSUME Inv, NEW o \in Orders, Placed(o), NEW r \in Refs \cup {None}, NEW view \in Views,
         ViewStands(o, view), NEW shown \in UseSets, NEW src \in {"manual", "auto"},
         src = "auto" => r = SlipRef[order[o].slip] /\ o \notin refused,
         Approve(o, r, view, shown, src), UNCHANGED <<refused, other>>
  PROVE  \E d \in OrderRows : Settles(o, d, view)
<1> DEFINE d == [order[o] EXCEPT !.status = "approved", !.payment = "approved", !.paymentStatus = "approved",
                                 !.ref = r, !.source = src, !.listed = shown]
<1>1. order[o] \in OrderRows
  BY DEF Inv, Shape, TypeOK
<1>2. /\ d \in OrderRows /\ SameTerms(order[o], d)
      /\ d.status = "approved" /\ d.paymentStatus = "approved" /\ d.payment = "approved"
      /\ d.ref = r /\ d.source = src /\ d.listed = shown /\ d.slip = order[o].slip
  BY <1>1 DEF OrderRows, SameTerms, PaymentStates
<1>3. order' = [order EXCEPT ![o] = d] /\ Finalize(o, order[o], view)
  BY DEF Approve
<1> HIDE DEF d
<1>4. Finalize(o, d, view)
  BY <1>2, <1>3, SameFinalize
<1>5. ~Approved(o)
  BY DEF Approve, MayApprove
<1>6. view.done = {}
  <2>1. rows[o] = [redeem |-> 0, earn |-> 0, coupon |-> 0]
    BY <1>5, NoRowsYet DEF Inv, Settled
  <2>2. \A k \in Kinds : ~(rows[o][k] > 0)
    BY <2>1 DEF Kinds
  <2> QED
    BY <2>2 DEF ViewStands, Views
<1>7. view.granted \subseteq Granted(d.user) /\ GoodTerms(d)
  BY <1>2 DEF ViewStands, GoodTerms, SameTerms, Inv, Shape, RowsWellFormed
<1>8. /\ claim' \in [Refs -> Orders \cup {None, Elsewhere}]
      /\ \A x \in Refs : claim'[x] = claim[x] \/ claim[x] = None
  BY DEF Approve, Inv, Shape, TypeOK
<1>9. OwnTransfer(o, d)
  <2>1. CASE r # None /\ shown = {}
    <3>1. claim[r] \in {None, o} /\ view.uses[r] = {}
      BY <2>1 DEF Approve, Claimable
    <3>2. claim'[r] = o
      BY <2>1, <3>1 DEF Approve
    <3>3. r \notin Historic
      BY <3>1 DEF ViewStands
    <3> QED
      BY <1>2, <2>1, <3>2, <3>3 DEF OwnTransfer
  <2>2. CASE r # None /\ shown # {}
    <3>1. view.uses[r] = shown
      BY <2>2 DEF Approve, Claimable
    <3> QED
      BY <1>2, <2>2, <3>1 DEF OwnTransfer, ViewStands
  <2>3. CASE r = None
    BY <1>2, <2>3 DEF OwnTransfer
  <2> QED
    BY <2>1, <2>2, <2>3
<1>10. d.source = "auto" => d.ref = SlipRef[d.slip] /\ o \notin refused
  BY <1>2
<1>11. Settles(o, d, view)
  BY <1>2, <1>3, <1>4, <1>5, <1>6, <1>7, <1>8, <1>9, <1>10 DEF Settles
<1> QED
  BY <1>2, <1>11

\* What a customer may be quoted has good terms.
LEMMA PlacingTerms ==
  ASSUME Shape, NEW u \in Users, NEW S \in SUBSET Packages, NEW c \in Coupons \cup {None},
         NEW pts \in PointChoices, Quoted(u, S, c, pts)
  PROVE  /\ Placing(u, S, c, pts) \in OrderRows
         /\ GoodTerms(Placing(u, S, c, pts))
         /\ Placing(u, S, c, pts).status = "pending" /\ Placing(u, S, c, pts).paymentStatus = "unpaid"
         /\ Placing(u, S, c, pts).payment = "pending" /\ Placing(u, S, c, pts).ref = None
<1>1. Remaining(S, c) \in Nat /\ pts \in Nat
  BY RemainingType, OrderAssumption
<1>2. pts <= Remaining(S, c)
  BY <1>1 DEF Quoted
<1> QED
  BY <1>1, <1>2 DEF Placing, Unplaced, OrderRows, GoodTerms, PaymentStates, UseSets

LEMMA SlipCheckoutEffect ==
  ASSUME Inv, NEW q \in Requests, NEW u \in Users, NEW o \in Orders, NEW S \in SUBSET Packages,
         NEW c \in Coupons \cup {None}, NEW pts \in PointChoices, NEW s \in Slips \cup {None},
         SlipCheckout(q, u, o, S, c, pts, s)
  PROVE  DataEffect /\ HandlerEffect
<1> DEFINE d == [Placing(u, S, c, pts) EXCEPT !.slip = s,
                   !.paymentStatus = IF s = None THEN "unpaid" ELSE "submitted"]
<1>1. /\ Quoted(u, S, c, pts) /\ ~Placed(o) /\ order' = [order EXCEPT ![o] = d]
      /\ UNCHANGED <<money, refused, other>>
  BY DEF SlipCheckout
<1>2. /\ d \in OrderRows /\ GoodTerms(d)
      /\ d.status = "pending" /\ d.paymentStatus # "approved" /\ d.payment = "pending"
  <2> DEFINE b == Placing(u, S, c, pts)
  <2>1. b \in OrderRows /\ GoodTerms(b) /\ b.status = "pending" /\ b.payment = "pending"
    BY <1>1, PlacingTerms DEF Inv
  <2> HIDE DEF b
  <2>2. d = [b EXCEPT !.slip = s, !.paymentStatus = IF s = None THEN "unpaid" ELSE "submitted"]
    BY DEF b
  <2>3. (IF s = None THEN "unpaid" ELSE "submitted") \in {"unpaid", "submitted"}
    OBVIOUS
  <2> HIDE DEF d
  <2>4. d \in OrderRows /\ d.status = "pending" /\ d.paymentStatus # "approved" /\ d.payment = "pending"
    BY <2>1, <2>2, <2>3 DEF OrderRows
  <2>5. GoodTerms(d)
    BY <2>1, <2>2 DEF OrderRows, GoodTerms
  <2> QED
    BY <2>4, <2>5
<1> HIDE DEF d
<1>3. o \notin refused
  BY <1>1 DEF Inv, Settled, RefusalsKept, Placed
<1>4. Amends(o, d)
  BY <1>1, <1>2, <1>3 DEF Amends, Approved, Placed
<1>5. order \in [Orders -> OrderRows]
  BY DEF Inv, Shape, TypeOK
<1>6. Placed(o)'
  BY <1>1, <1>2, <1>5 DEF Placed
<1>7. HandlerEffect
  BY <1>6, BlankFits, BlankType, AskingFits DEF SlipCheckout, HandlerEffect
<1> QED
  BY <1>2, <1>4, <1>7 DEF DataEffect

LEMMA WalletCheckoutEffect ==
  ASSUME Inv, NEW u \in Users, NEW o \in Orders, NEW S \in SUBSET Packages,
         NEW c \in Coupons \cup {None}, NEW pts \in PointChoices, WalletCheckout(u, o, S, c, pts)
  PROVE  DataEffect /\ HandlerEffect
<1> DEFINE d == [Placing(u, S, c, pts) EXCEPT !.status = "approved", !.paymentStatus = "approved",
                   !.payment = "approved", !.source = "wallet"]
           view == Seen(o, u)
<1>1. /\ Quoted(u, S, c, pts) /\ ~Placed(o) /\ order' = [order EXCEPT ![o] = d]
      /\ Finalize(o, d, view) /\ UNCHANGED <<claim, refused, other, req>>
  BY DEF WalletCheckout
<1>2. /\ d \in OrderRows /\ GoodTerms(d) /\ d.user = u
      /\ d.status = "approved" /\ d.paymentStatus = "approved" /\ d.payment = "approved"
      /\ d.source = "wallet" /\ d.ref = None
  <2> DEFINE b == Placing(u, S, c, pts)
  <2>1. b \in OrderRows /\ GoodTerms(b) /\ b.ref = None
    BY <1>1, PlacingTerms DEF Inv
  <2>2. b.user = u
    BY DEF Placing, Unplaced
  <2> HIDE DEF b
  <2>3. d = [b EXCEPT !.status = "approved", !.paymentStatus = "approved", !.payment = "approved",
                      !.source = "wallet"]
    BY DEF b
  <2> HIDE DEF d
  <2>4. /\ d \in OrderRows
        /\ d.status = "approved" /\ d.paymentStatus = "approved" /\ d.payment = "approved"
        /\ d.source = "wallet" /\ d.ref = None
    BY <2>1, <2>3 DEF OrderRows, PaymentStates
  <2>5. GoodTerms(d) /\ d.user = u
    BY <2>1, <2>2, <2>3 DEF OrderRows, GoodTerms
  <2> QED
    BY <2>4, <2>5
<1>3. ~Approved(o)
  BY <1>1 DEF Placed, Approved
<1>4. view \in Views /\ view.granted = Granted(u) /\ view.done = {}
  <2>1. rows[o] = [redeem |-> 0, earn |-> 0, coupon |-> 0]
    BY <1>3, NoRowsYet DEF Inv, Settled
  <2>2. {k \in Kinds : rows[o][k] > 0} = {}
    BY <2>1 DEF Kinds
  <2> QED
    BY <2>2, SeenStands DEF Inv
<1> HIDE DEF d, view
<1>5. claim' \in [Refs -> Orders \cup {None, Elsewhere}] /\ \A r \in Refs : claim'[r] = claim[r]
  BY <1>1 DEF Inv, Shape, TypeOK
<1>6. Settles(o, d, view)
  BY <1>1, <1>2, <1>3, <1>4, <1>5 DEF Settles, OwnTransfer
<1> QED
  BY <1>1, <1>2, <1>4, <1>6 DEF DataEffect, HandlerEffect

LEMMA UploadEffect ==
  ASSUME Inv, NEW q \in Requests,
         UploadOrder(q) \/ \E o \in Orders, s \in Slips : UploadPayment(q, o, s)
  PROVE  DataEffect /\ HandlerEffect
<1>1. order \in [Orders -> OrderRows]
  BY DEF Inv, Shape, TypeOK
<1>2. CASE \E o \in Orders, s \in Slips : UploadPayment(q, o, s)
  <2> PICK o \in Orders, s \in Slips : UploadPayment(q, o, s)
    BY <1>2
  <2> DEFINE d == [order[o] EXCEPT !.slip = s, !.payment = "pending_review"]
             h == [Blank EXCEPT !.pc = "uploaded", !.order = o]
  <2>1. /\ order' = [order EXCEPT ![o] = d] /\ Placed(o) /\ order[o].payment # "approved"
        /\ Become(q, h) /\ UNCHANGED <<money, refused, other>>
    BY DEF UploadPayment
  <2>2. ~Approved(o) /\ order[o].paymentStatus # "approved"
    BY <2>1 DEF Inv, Settled, StatusesAgree
  <2>3. order[o].status \in {"pending", "rejected"}
    BY <1>1, <2>1, <2>2 DEF OrderRows, Placed, Approved
  <2>4. /\ d \in OrderRows /\ d.status = order[o].status /\ SameTerms(order[o], d)
        /\ d.paymentStatus = order[o].paymentStatus /\ d.payment = "pending_review"
    BY <1>1 DEF OrderRows, SameTerms, PaymentStates
  <2>5. h \in Handlers /\ h.order = o /\ h.pc = "uploaded"
    BY BlankType DEF Blank, Handlers, Phases
  <2> HIDE DEF d, h
  <2>6. o \in refused <=> order[o].status = "rejected"
    BY <2>2 DEF Inv, Settled, RefusalsKept, Approved
  <2>7. Amends(o, d)
    BY <2>1, <2>2, <2>3, <2>4, <2>6 DEF Amends
  <2>8. Placed(o)'
    BY <1>1, <2>1, <2>3, <2>4 DEF Placed
  <2>9. Fit(h)'
    BY <2>5, <2>8 DEF Fit
  <2> QED
    BY <2>1, <2>4, <2>5, <2>7, <2>9 DEF DataEffect, HandlerEffect
<1>3. CASE UploadOrder(q)
  <2> PICK o \in Orders : o = req[q].order /\ Placed(o)
    BY <1>3 DEF Inv, Shape, HandlersWellFormed, UploadOrder, At, Idle
  <2> DEFINE d == [order[o] EXCEPT !.paymentStatus = "submitted"]
  <2>1. o \in Orders /\ Placed(o) /\ o = req[q].order
    OBVIOUS
  <2>2. /\ order' = IF Approved(o) THEN order ELSE [order EXCEPT ![o] = d]
        /\ Become(q, Asking(o)) /\ UNCHANGED <<money, refused, other>>
    BY <1>3, <2>1 DEF UploadOrder
  <2>3. /\ d \in OrderRows /\ d.status = order[o].status /\ SameTerms(order[o], d)
        /\ d.paymentStatus = "submitted" /\ d.payment = order[o].payment
    BY <1>1, <2>1 DEF OrderRows, SameTerms
  <2> HIDE DEF d
  <2>4. Placed(o)'
    BY <1>1, <2>1, <2>2, <2>3 DEF Placed
  <2>5. HandlerEffect
    BY <2>1, <2>2, <2>4, AskingFits DEF HandlerEffect
  <2>6. CASE Approved(o)
    BY <2>2, <2>5, <2>6 DEF DataEffect
  <2>7. CASE ~Approved(o)
    <3>1. order[o].status \in {"pending", "rejected"}
      BY <1>1, <2>1, <2>7 DEF OrderRows, Placed, Approved
    <3>2. /\ o \in refused <=> order[o].status = "rejected"
          /\ d.payment # "approved" /\ (d.payment = "rejected" => d.status = "rejected")
      BY <2>1, <2>3, <2>7 DEF Inv, Settled, RefusalsKept, StatusesAgree, Approved
    <3>3. Amends(o, d)
      BY <2>1, <2>2, <2>3, <2>7, <3>1, <3>2 DEF Amends
    <3> QED
      BY <2>1, <2>3, <2>5, <3>3 DEF DataEffect
  <2> QED
    BY <2>6, <2>7
<1> QED
  BY <1>2, <1>3

LEMMA RejectEffect ==
  ASSUME Inv, NEW o \in Orders, Reject(o)
  PROVE  DataEffect /\ HandlerEffect
<1> DEFINE d == [order[o] EXCEPT !.status = "rejected", !.payment = "rejected", !.paymentStatus = "rejected"]
<1>1. /\ order' = [order EXCEPT ![o] = d] /\ Placed(o) /\ ~Approved(o)
      /\ refused' = refused \cup {o} /\ UNCHANGED <<money, other, req>>
  BY DEF Reject, MayReject
<1>2. /\ d \in OrderRows /\ SameTerms(order[o], d)
      /\ d.status = "rejected" /\ d.payment = "rejected" /\ d.paymentStatus = "rejected"
  <2>1. order[o] \in OrderRows
    BY DEF Inv, Shape, TypeOK
  <2> QED
    BY <2>1 DEF OrderRows, SameTerms, PaymentStates
<1> HIDE DEF d
<1>3. Amends(o, d)
  BY <1>1, <1>2 DEF Amends
<1> QED
  BY <1>1, <1>2, <1>3 DEF DataEffect, HandlerEffect

\* Handlers that begin, ask, look or give up write nothing.
LEMMA QuietEffect ==
  ASSUME Inv, NEW q \in Requests,
         \/ \E o \in Orders : DuplicateInfo(q, o) \/ ApproveBegin(q, o) \/ VerifyRequest(q, o)
         \/ Verify(q) \/ Verdict(q) \/ AutoSkip(q) \/ AutoFail(q) \/ Crash(q)
  PROVE  DataEffect /\ HandlerEffect
<1>1. UNCHANGED <<order, money, refused, other>>
  BY DEF DuplicateInfo, ApproveBegin, VerifyRequest, Verify, Verdict, AutoSkip, AutoFail, Crash
<1>2. UNCHANGED <<order, rows, purchases, claim>>
  BY <1>1 DEF money
<1>3. req[q] \in Handlers
  BY DEF Inv, Shape, TypeOK
<1>4. ASSUME NEW o \in Orders, DuplicateInfo(q, o) PROVE HandlerEffect
  <2> DEFINE r == order[o].ref
             h == [Blank EXCEPT !.pc = "confirm", !.order = o, !.shown = Uses(o, r)]
  <2>1. Become(q, h) /\ Placed(o)
    <3>1. Unplaced.ref = None
      BY DEF Unplaced
    <3> QED
      BY <1>4, <3>1 DEF DuplicateInfo, Inv, Shape, RowsWellFormed
  <2>2. Uses(o, r) \in UseSets
    BY DEF Uses, UseSets
  <2>3. h \in Handlers /\ h.order = o /\ h.pc = "confirm"
    BY <2>2, BlankType DEF Blank, Handlers, Phases
  <2> HIDE DEF h
  <2>4. Fit(h)
    BY <2>1, <2>3 DEF Fit
  <2> QED
    BY <1>2, <2>1, <2>3, <2>4, StillFits DEF HandlerEffect
<1>5. ASSUME NEW o \in Orders, ApproveBegin(q, o) PROVE HandlerEffect
  <2> DEFINE h == [req[q] EXCEPT !.pc = "approve", !.order = o, !.view = View(o)]
  <2>1. Become(q, h) /\ Placed(o) /\ order[o].user \in Users
    BY <1>5 DEF ApproveBegin, Inv, Shape, RowsWellFormed
  <2>2. View(o) \in Views /\ ViewStands(o, View(o))
    BY <2>1, SeenStands DEF View, Inv
  <2>3. h \in Handlers /\ h.order = o /\ h.pc = "approve" /\ h.view = View(o)
    BY <1>3, <2>2 DEF Handlers, Phases
  <2> HIDE DEF h
  <2>4. Fit(h)
    BY <2>1, <2>2, <2>3 DEF Fit
  <2> QED
    BY <1>2, <2>1, <2>3, <2>4, StillFits DEF HandlerEffect
<1>6. ASSUME NEW o \in Orders, VerifyRequest(q, o) PROVE HandlerEffect
  <2>1. Become(q, Asking(o)) /\ Placed(o)'
    BY <1>2, <1>6 DEF VerifyRequest, Placed
  <2> QED
    BY <2>1, AskingFits DEF HandlerEffect
<1>7. ASSUME Verify(q) PROVE HandlerEffect
  <2> DEFINE h == [req[q] EXCEPT !.pc = "verdict", !.slip = order[req[q].order].slip]
  <2>1. Become(q, h) /\ req[q].order \in Orders /\ Placed(req[q].order) /\ order[req[q].order].slip \in Slips
    BY <1>7 DEF Verify, At, Idle, Inv, Shape, HandlersWellFormed, TypeOK, OrderRows
  <2>2. h \in Handlers /\ h.order = req[q].order /\ h.pc = "verdict" /\ h.slip \in Slips
    BY <1>3, <2>1 DEF Handlers, Phases
  <2> HIDE DEF h
  <2>3. Fit(h)
    BY <2>1, <2>2 DEF Fit
  <2> QED
    BY <1>2, <2>1, <2>2, <2>3, StillFits DEF HandlerEffect
<1>8. ASSUME Verdict(q) PROVE HandlerEffect
  <2> DEFINE o == req[q].order
  <2> PICK e \in BOOLEAN : Become(q, [req[q] EXCEPT !.pc = "settle", !.eligible = e, !.view = View(o)])
    BY <1>8 DEF Verdict
  <2> DEFINE h == [req[q] EXCEPT !.pc = "settle", !.eligible = e, !.view = View(o)]
  <2>1. o \in Orders /\ Placed(o) /\ order[o].user \in Users /\ req[q].slip \in Slips
    BY <1>8 DEF Verdict, At, Idle, Inv, Shape, HandlersWellFormed, RowsWellFormed
  <2>2. View(o) \in Views /\ ViewStands(o, View(o))
    BY <2>1, SeenStands DEF View, Inv
  <2>3. h \in Handlers /\ h.order = o /\ h.pc = "settle" /\ h.view = View(o) /\ h.slip \in Slips
    BY <1>3, <2>1, <2>2 DEF Handlers, Phases
  <2>4. Become(q, h)
    OBVIOUS
  <2> HIDE DEF h, o
  <2>5. Fit(h)
    BY <2>1, <2>2, <2>3 DEF Fit
  <2> QED
    BY <1>2, <2>3, <2>4, <2>5, StillFits DEF HandlerEffect
<1>9. ASSUME AutoFail(q) PROVE HandlerEffect
  <2> DEFINE h == [req[q] EXCEPT !.pc = "failed", !.view = NoView]
  <2>1. Become(q, h) /\ req[q].order \in Orders /\ Placed(req[q].order) /\ req[q].slip \in Slips
    BY <1>9 DEF AutoFail, At, Idle, Inv, Shape, HandlersWellFormed
  <2>2. NoView \in Views
    BY BlankType DEF Blank, Handlers
  <2>3. h \in Handlers /\ h.order = req[q].order /\ h.pc = "failed" /\ h.slip \in Slips
    BY <1>3, <2>1, <2>2 DEF Handlers, Phases
  <2> HIDE DEF h
  <2>4. Fit(h)
    BY <2>1, <2>3 DEF Fit
  <2> QED
    BY <1>2, <2>1, <2>3, <2>4, StillFits DEF HandlerEffect
<1>10. ASSUME AutoSkip(q) \/ Crash(q) PROVE HandlerEffect
  BY <1>10, BlankFits, BlankType DEF AutoSkip, Crash, Finish, HandlerEffect
<1> QED
  BY <1>1, <1>4, <1>5, <1>6, <1>7, <1>8, <1>9, <1>10 DEF DataEffect

\* Approval by an administrator or by an eligible verdict.
LEMMA ApprovalEffect ==
  ASSUME Inv, NEW q \in Requests, ApproveCommit(q) \/ AutoApprove(q)
  PROVE  DataEffect /\ HandlerEffect
<1> PICK o \in Orders : o = req[q].order /\ Placed(o)
  BY DEF Inv, Shape, HandlersWellFormed, ApproveCommit, AutoApprove, At, Idle
<1> PICK view \in Views : view = req[q].view
  BY DEF Inv, Shape, TypeOK, Handlers
<1>1. ViewStands(o, view)
  BY DEF Inv, ViewsStand, ApproveCommit, AutoApprove, At
<1>2. order[o] \in OrderRows /\ req[q] \in Handlers
  BY DEF Inv, Shape, TypeOK
<1>3. HandlerEffect
  BY BlankFits, BlankType DEF ApproveCommit, AutoApprove, Finish, HandlerEffect
<1>4. CASE ApproveCommit(q)
  <2>1. Approve(o, order[o].ref, view, req[q].shown, "manual") /\ UNCHANGED <<refused, other>>
    BY <1>4 DEF ApproveCommit
  <2>2. order[o].ref \in Refs \cup {None} /\ req[q].shown \in UseSets
    BY <1>2 DEF OrderRows, Handlers
  <2>3. \E d \in OrderRows : Settles(o, d, view)
    BY <1>1, <2>1, <2>2, ApproveSettles
  <2> QED
    BY <1>3, <2>3 DEF DataEffect
<1>5. CASE AutoApprove(q)
  <2>1. /\ Approve(o, SlipRef[req[q].slip], view, {}, "auto") /\ UNCHANGED <<refused, other>>
        /\ order[o].slip = req[q].slip /\ order[o].status = "pending" /\ At(q, "settle")
    BY <1>5 DEF AutoApprove, Current
  <2>2. o \notin refused /\ req[q].slip \in Slips
    BY <2>1 DEF Inv, Shape, Settled, RefusalsKept, HandlersWellFormed, At
  <2>3. SlipRef[order[o].slip] \in Refs \cup {None} /\ {} \in UseSets
    BY <2>1, <2>2, OrderAssumption DEF UseSets
  <2>4. \E d \in OrderRows : Settles(o, d, view)
    BY <1>1, <2>1, <2>2, <2>3, ApproveSettles
  <2> QED
    BY <1>3, <2>4 DEF DataEffect
<1> QED
  BY <1>4, <1>5

\* A verdict stored for review, or after an approval failed.
LEMMA VerdictStoredEffect ==
  ASSUME Inv, NEW q \in Requests, AutoReview(q) \/ RecordFailure(q)
  PROVE  DataEffect /\ HandlerEffect
<1> PICK o \in Orders : o = req[q].order /\ Placed(o)
  BY DEF Inv, Shape, HandlersWellFormed, AutoReview, RecordFailure, At, Idle
<1>1. order[o] \in OrderRows /\ order \in [Orders -> OrderRows]
  BY DEF Inv, Shape, TypeOK
<1>2. HandlerEffect
  BY BlankFits, BlankType DEF AutoReview, RecordFailure, Finish, HandlerEffect
<1>3. SlipRef[req[q].slip] \in Refs
  BY OrderAssumption DEF Inv, Shape, HandlersWellFormed, AutoReview, RecordFailure, At
<1>4. UNCHANGED <<money, refused, other>>
  BY DEF AutoReview, RecordFailure
<1>5. ASSUME NEW d \in OrderRows, order' = [order EXCEPT ![o] = d],
             d.status = order[o].status, d.paymentStatus = order[o].paymentStatus,
             SameTerms(order[o], d), d.payment \in {"pending", "pending_review"},
             order[o].payment \in {"pending", "pending_review"}
      PROVE  Amends(o, d)
  <2>1. ~Approved(o) /\ order[o].paymentStatus # "approved"
    BY <1>5 DEF Inv, Settled, StatusesAgree
  <2>2. order[o].status \in {"pending", "rejected"}
    BY <1>1, <2>1 DEF OrderRows, Placed, Approved
  <2>3. o \in refused <=> order[o].status = "rejected"
    BY <2>1 DEF Inv, Settled, RefusalsKept, Approved
  <2> QED
    BY <1>4, <1>5, <2>1, <2>2, <2>3 DEF Amends
<1>6. CASE AutoReview(q)
  <2> PICK r \in {None, SlipRef[req[q].slip]} :
             order' = [order EXCEPT ![o] = [@ EXCEPT !.payment = "pending_review", !.ref = r]]
    BY <1>6 DEF AutoReview
  <2> DEFINE d == [order[o] EXCEPT !.payment = "pending_review", !.ref = r]
  <2>1. /\ d \in OrderRows /\ d.status = order[o].status /\ d.paymentStatus = order[o].paymentStatus
        /\ SameTerms(order[o], d) /\ d.payment = "pending_review"
    BY <1>1, <1>3 DEF OrderRows, SameTerms, PaymentStates
  <2>2. order' = [order EXCEPT ![o] = d]
    OBVIOUS
  <2>3. order[o].payment \in {"pending", "pending_review"}
    BY <1>6 DEF AutoReview, Current
  <2> HIDE DEF d
  <2> QED
    BY <1>2, <1>5, <2>1, <2>2, <2>3 DEF DataEffect
<1>7. CASE RecordFailure(q)
  <2> DEFINE d == [order[o] EXCEPT !.ref = SlipRef[req[q].slip]]
             same == order[o].payment \in {"pending", "pending_review"} /\ order[o].slip = req[q].slip
  <2>1. order' = IF same THEN [order EXCEPT ![o].ref = SlipRef[req[q].slip]] ELSE order
    BY <1>7 DEF RecordFailure
  <2>2. CASE ~same
    BY <1>2, <1>4, <2>1, <2>2 DEF DataEffect
  <2>3. CASE same
    <3>1. /\ d \in OrderRows /\ d.status = order[o].status /\ d.paymentStatus = order[o].paymentStatus
          /\ SameTerms(order[o], d) /\ d.payment = order[o].payment
      BY <1>1, <1>3 DEF OrderRows, SameTerms
    <3>2. order' = [order EXCEPT ![o] = d]
      BY <2>1, <2>3
    <3> HIDE DEF d
    <3> QED
      BY <1>2, <1>5, <2>3, <3>1, <3>2 DEF DataEffect
  <2> QED
    BY <2>2, <2>3
<1> QED
  BY <1>6, <1>7

LEMMA OthersEffect ==
  ASSUME Inv, Others
  PROVE  DataEffect /\ HandlerEffect
<1>1. ASSUME NEW u \in Users, NEW a \in Adjustments, AdjustPoints(u, a) PROVE MovesPoints /\ UNCHANGED req
  <2>1. a \in Int /\ points \in [Users -> Int] /\ ledger \in [Users -> Int] /\ adjusts \in Nat
    BY OrderAssumption DEF Inv, Shape, TypeOK
  <2> QED
    BY <1>1, <2>1 DEF AdjustPoints, MovesPoints, Inv, Shape, TypeOK
<1>2. ASSUME NEW u \in Users, CheckIn(u) PROVE MovesPoints /\ UNCHANGED req
  BY <1>2 DEF CheckIn, MovesPoints, Inv, Shape, TypeOK
<1>3. ASSUME NEW u \in Users, NEW c \in Chapters, BuyChapter(u, c) PROVE UNCHANGED req
  BY <1>3 DEF BuyChapter
<1>4. ASSUME NEW r \in Refs, ClaimElsewhere(r) PROVE UNCHANGED req
  BY <1>4 DEF ClaimElsewhere
<1> QED
  BY <1>1, <1>2, <1>3, <1>4 DEF Others, DataEffect, HandlerEffect

LEMMA NextEffect ==
  ASSUME Inv, Next
  PROVE  DataEffect /\ HandlerEffect
<1>1. ASSUME NEW q \in Requests, Buy(q) PROVE DataEffect /\ HandlerEffect
  BY <1>1, SlipCheckoutEffect, WalletCheckoutEffect DEF Buy
<1>2. ASSUME NEW q \in Requests, Review(q) PROVE DataEffect /\ HandlerEffect
  BY <1>2, QuietEffect, RejectEffect, ApprovalEffect DEF Review
<1>3. ASSUME NEW q \in Requests, Provider(q) PROVE DataEffect /\ HandlerEffect
  BY <1>3, QuietEffect, UploadEffect, ApprovalEffect, VerdictStoredEffect DEF Provider
<1>4. ASSUME NEW q \in Requests, Crash(q) PROVE DataEffect /\ HandlerEffect
  BY <1>4, QuietEffect
<1> QED
  BY <1>1, <1>2, <1>3, <1>4, OthersEffect DEF Next

-----------------------------------------------------------------------------
(* The invariant and what follows from it. *)

LEMMA InvInit == Init => Inv
<1> SUFFICES ASSUME Init PROVE Inv
  OBVIOUS
<1>1. \A o \in Orders : order[o] = Unplaced /\ ~Placed(o) /\ ~Approved(o) /\ since[o] = {}
  BY DEF Init, Placed, Approved, Unplaced
<1>2. Unplaced \in OrderRows /\ Unplaced.points <= Remaining(Unplaced.items, Unplaced.coupon)
  <2>1. Remaining({}, None) \in Nat
    BY RemainingType
  <2> QED
    BY <2>1 DEF Unplaced, OrderRows, PaymentStates, UseSets
<1>3. \A o \in Orders : rows[o] = [redeem |-> 0, earn |-> 0, coupon |-> 0]
  BY DEF Init, Kinds
<1>4. RowsWellFormed
  BY <1>1, <1>2 DEF RowsWellFormed
<1>5. order \in [Orders -> OrderRows] /\ \A o \in Orders : Total(order[o]) \in Nat
  BY <1>1, <1>2, EarnsType DEF Init
<1>6. TypeOK
  <2>1. rows \in [Orders -> [redeem: Nat, earn: Nat, coupon: Nat]]
    BY <1>3 DEF Init
  <2> QED
    BY <1>5, <2>1, BlankType, OrderAssumption DEF Init, TypeOK
<1>7. HandlersWellFormed /\ ViewsStand
  BY BlankType DEF Init, HandlersWellFormed, ViewsStand, Idle
<1>8. StatusesAgree /\ RefusalsKept
  BY <1>1 DEF StatusesAgree, RefusalsKept, Init, Unplaced
<1>9. SettledOnce
  <2>1. ASSUME NEW o \in Orders
        PROVE rows[o] = [redeem |-> Count(Approved(o) /\ order[o].points > 0),
                         earn |-> Count(Approved(o) /\ Earns(order[o]) > 0),
                         coupon |-> Count(Approved(o) /\ order[o].coupon # None)]
    <3>1. /\ Count(Approved(o) /\ order[o].points > 0) = 0
          /\ Count(Approved(o) /\ Earns(order[o]) > 0) = 0
          /\ Count(Approved(o) /\ order[o].coupon # None) = 0
      BY <1>1 DEF Count
    <3> QED
      BY <1>3, <3>1
  <2> QED
    BY <2>1 DEF SettledOnce
<1>10. GrantsBacked
  BY <1>1 DEF GrantsBacked, Init
<1>11. TransferUsedOnce /\ AutoApprovedOwnSlip
  BY <1>1 DEF TransferUsedOnce, AutoApprovedOwnSlip
<1>12. NeverInside
  BY <1>1 DEF NeverInside, PaidInside
<1>13. CouponsCounted
  <2> DEFINE Used(c) == {o \in Orders : order[o].coupon = c /\ rows[o].coupon > 0}
  <2>1. \A c \in Coupons : Used(c) = {}
    BY <1>3
  <2>2. \A c \in Coupons : usage[c] = 0 /\ MaxUses[c] \in Nat
    BY OrderAssumption DEF Init
  <2>3. IsFiniteSet({}) /\ Cardinality({}) = 0
    BY FS_EmptySet
  <2> HIDE DEF Used
  <2>4. \A c \in Coupons : usage[c] <= MaxUses[c] /\ usage[c] = Cardinality(Used(c)) /\ IsFiniteSet(Used(c))
    BY <2>1, <2>2, <2>3
  <2> QED
    BY <2>4 DEF CouponsCounted, CouponWithinLimit, Used
<1> QED
  BY <1>4, <1>6, <1>7, <1>8, <1>9, <1>10, <1>11, <1>12, <1>13 DEF Inv, Shape, Settled

LEMMA InvNext == Inv /\ [Next]_vars => Inv'
<1> SUFFICES ASSUME Inv, [Next]_vars PROVE Inv'
  OBVIOUS
<1>1. DataEffect /\ HandlerEffect
  BY NextEffect DEF vars, DataEffect, HandlerEffect
<1>2. RecordsFit' /\ NothingTakenBack
  BY <1>1, DataKept
<1>3. req' \in [Requests -> Handlers] /\ HandlersWellFormed' /\ ViewsStand'
  BY <1>1, <1>2, HandlersKept
<1> QED
  BY <1>2, <1>3 DEF RecordsFit, Inv, Shape

\* Every reachable state of OrderSettlement satisfies the invariant.
THEOREM Invariant == Spec => []Inv
BY InvInit, InvNext, PTL DEF Spec

\* Orders, rows, points, claims and handlers keep their types; no price or
\* number of points redeemed is negative (quoteCartPricing).
THEOREM Typed == Spec => []TypeOK
<1>1. Inv => TypeOK
  BY DEF Inv, Shape
<1> QED
  BY <1>1, Invariant, PTL

\* Order, payment and mirrored status are approved together, whatever uploads,
\* verdicts, approvals and rejections overlap.
THEOREM StatusesAgreeAlways == Spec => []StatusesAgree
<1>1. Inv => StatusesAgree
  BY DEF Inv, Settled
<1> QED
  BY <1>1, Invariant, PTL

\* Points, award and coupon of an order are settled when it is approved and once
\* only, although settlement looks for its rows in an old view.
THEOREM SettledOnceAlways == Spec => []SettledOnce
<1>1. Inv => SettledOnce
  BY DEF Inv, Settled
<1> QED
  BY <1>1, Invariant, PTL

\* A coupon's count is the number of orders that used it and within its limit,
\* however many orders were placed with it.
THEOREM CouponWithinLimitAlways == Spec => []CouponWithinLimit
<1>1. Inv => CouponWithinLimit
  BY DEF Inv, CouponsCounted
<1> QED
  BY <1>1, Invariant, PTL

\* Packages are granted exactly for approved orders of their owner.
THEOREM GrantsBackedAlways == Spec => []GrantsBacked
<1>1. Inv => GrantsBacked
  BY DEF Inv, Settled
<1> QED
  BY <1>1, Invariant, PTL

\* An approved order's transfer is its own, or its other use was confirmed.
THEOREM TransferUsedOnceAlways == Spec => []TransferUsedOnce
<1>1. Inv => TransferUsedOnce
  BY DEF Inv
<1> QED
  BY <1>1, Invariant, PTL

\* A late verdict never approves another slip or a rejected order.
THEOREM AutoApprovedOwnSlipAlways == Spec => []AutoApprovedOwnSlip
<1>1. Inv => AutoApprovedOwnSlip
  BY DEF Inv
<1> QED
  BY <1>1, Invariant, PTL

\* Nobody is charged for a chapter inside an order that is approved later and
\* was never rejected.
THEOREM NoDoubleChargeAlways == Spec => []NoDoubleCharge
<1>1. Inv => NoDoubleCharge
  BY DEF Inv, NeverInside, NoDoubleCharge
<1> QED
  BY <1>1, Invariant, PTL

\* No step changes an approved order or its payment.
THEOREM ApprovalFinalAlways == Spec => ApprovalFinal
<1>1. Inv /\ [Next]_vars => [\A o \in Orders : Approved(o) => order'[o] = order[o]]_order
  <2> SUFFICES ASSUME Inv, [Next]_vars PROVE \A o \in Orders : Approved(o) => order'[o] = order[o]
    OBVIOUS
  <2>1. DataEffect
    BY NextEffect DEF vars, DataEffect
  <2> QED
    BY <2>1, DataKept DEF NothingTakenBack
<1> QED
  BY <1>1, Invariant, PTL DEF Spec, ApprovalFinal
=============================================================================
