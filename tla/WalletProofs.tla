---------------------------- MODULE WalletProofs ----------------------------
(***************************************************************************)
(* Proofs about Wallet, for every set of users, top-ups, slips, items,     *)
(* gifts and concurrent requests.                                          *)
(*                                                                         *)
(* The argument has three layers.  Shape (types, and a well-formed         *)
(* handler in every phase) is inductive by itself.  On it rest the facts   *)
(* about top-ups (approved rows are credited once, hold the claim on their *)
(* reference and never change) and about entitlements, for every operation *)
(* and both database engines.  LockedReads, and with it the agreement of   *)
(* balance and ledger and the implementation of WalletLedger, needs        *)
(* Disciplined: every writer takes the users row and nobody reads a        *)
(* balance from a snapshot older than that lock.                           *)
(***************************************************************************)
EXTENDS Wallet, TLAPS

Shape == TypeOK /\ HandlersWellFormed

\* No step takes the slip of a top-up away.
SlipsStay == \A t \in Topups : topup[t].slip \in Slips => topup'[t].slip \in Slips

-----------------------------------------------------------------------------
(* Handlers, rows and locks, one at a time. *)

LEMMA BlankType == Blank \in Handlers /\ WellFormed(Blank) /\ Blank.pc # "verify"
  BY DEF Blank, Handlers, Phases, WellFormed

\* A handler that becomes a well-formed record, not about to verify a slip.
LEMMA BecomeShape ==
  ASSUME Shape, NEW p \in Requests, NEW h \in Handlers, WellFormed(h), h.pc # "verify",
         Become(p, h), SlipsStay
  PROVE  (req \in [Requests -> Handlers] /\ HandlersWellFormed)'
<1>1. \A q \in Requests : req'[q] = IF q = p THEN h ELSE req[q]
  BY DEF Shape, TypeOK, Become
<1>2. ASSUME NEW q \in Requests PROVE WellFormed(req'[q])
  BY <1>1 DEF Shape, HandlersWellFormed
<1>3. ASSUME NEW q \in Requests, req'[q].pc = "verify" PROVE topup'[req'[q].subject].slip \in
    Slips
  <2>1. q # p /\ req'[q] = req[q]
    BY <1>1, <1>3
  <2>2. req[q].subject \in Topups /\ topup[req[q].subject].slip \in Slips
    BY <1>3, <2>1 DEF Shape, HandlersWellFormed, VerifiesASlip, WellFormed, At
  <2> QED
    BY <2>1, <2>2 DEF SlipsStay
<1>4. (req \in [Requests -> Handlers])'
  BY DEF Shape, TypeOK, Become
<1> QED
  BY <1>2, <1>3, <1>4 DEF HandlersWellFormed, VerifiesASlip, At

\* A handler that is about to verify a slip which is there.
LEMMA VerifyShape ==
  ASSUME Shape, NEW p \in Requests, NEW t \in Topups, topup'[t].slip \in Slips,
         Become(p, [Blank EXCEPT !.pc = "verify", !.subject = t]), SlipsStay
  PROVE  (req \in [Requests -> Handlers] /\ HandlersWellFormed)'
<1> DEFINE h == [Blank EXCEPT !.pc = "verify", !.subject = t]
<1>1. h \in Handlers /\ WellFormed(h) /\ h.subject = t
  BY DEF Blank, Handlers, Phases, WellFormed
<1>2. \A q \in Requests : req'[q] = IF q = p THEN h ELSE req[q]
  BY DEF Shape, TypeOK, Become
<1> HIDE DEF h
<1>3. ASSUME NEW q \in Requests PROVE WellFormed(req'[q])
  BY <1>1, <1>2 DEF Shape, HandlersWellFormed
<1>4. ASSUME NEW q \in Requests, req'[q].pc = "verify" PROVE topup'[req'[q].subject].slip \in
    Slips
  <2>1. CASE q = p
    BY <1>1, <1>2, <2>1
  <2>2. CASE q # p
    <3>1. req[q].subject \in Topups /\ topup[req[q].subject].slip \in Slips
      BY <1>2, <1>4, <2>2 DEF Shape, HandlersWellFormed, VerifiesASlip, WellFormed, At
    <3> QED
      BY <1>2, <2>2, <3>1 DEF SlipsStay
  <2> QED
    BY <2>1, <2>2
<1>5. (req \in [Requests -> Handlers])'
  BY <1>1 DEF Shape, TypeOK, Become, h
<1> QED
  BY <1>3, <1>4, <1>5 DEF HandlersWellFormed, VerifiesASlip, At

LEMMA FinishShape ==
  ASSUME Shape, NEW p \in Requests, Finish(p), SlipsStay
  PROVE  (req \in [Requests -> Handlers] /\ HandlersWellFormed)'
  BY BecomeShape, BlankType DEF Finish

LEMMA RowsSame == RowsType /\ UNCHANGED rows => RowsType' /\ SlipsStay
  BY DEF RowsType, rows, SlipsStay

LEMMA LocksSame == LocksType /\ UNCHANGED locks => LocksType'
  BY DEF LocksType, locks

LEMMA ReleaseType ==
  ASSUME LocksType, NEW p \in Requests, Release(p)
  PROVE  LocksType'
  BY DEF LocksType, Release

\* A step of one handler that touches neither rows nor locks.
LEMMA LocalStep ==
  ASSUME Shape, NEW p \in Requests, NEW h \in Handlers, WellFormed(h), h.pc # "verify",
         Become(p, h), UNCHANGED <<rows, locks>>
  PROVE  Shape'
<1>1. RowsType' /\ LocksType' /\ SlipsStay
  BY RowsSame, LocksSame DEF Shape, TypeOK
<1> QED
  BY <1>1, BecomeShape DEF Shape, TypeOK

LEMMA FinishStep ==
  ASSUME Shape, NEW p \in Requests, Finish(p), UNCHANGED <<rows, locks>>
  PROVE  Shape'
  BY LocalStep, BlankType DEF Finish

\* A handler that ends its transaction, having changed rows.
LEMMA CommitStep ==
  ASSUME Shape, NEW p \in Requests, Finish(p), RowsType', SlipsStay, UNCHANGED locks \/ Release(p)
  PROVE  Shape'
  BY FinishShape, LocksSame, ReleaseType DEF Shape, TypeOK

\* Approving a top-up, manually or by the provider.
LEMMA SettleType ==
  ASSUME RowsType, NEW t \in Topups, NEW r \in Refs \cup {None},
         NEW src \in {"manual", "provider_auto"}, Settle(t, r, src)
  PROVE  RowsType' /\ SlipsStay
<1>1. Owner[t] \in Users /\ Credit[t] \in Nat
  BY WalletAssumption DEF WalletAssumption
<1>2. balance' \in [Users -> Nat]
  BY <1>1 DEF RowsType, Settle
<1>3. ledger' \in [Users -> Int]
  BY <1>1 DEF RowsType, Settle
<1>4. topup' \in [Topups -> [status: Statuses, slip: Slips \cup {None}, ref: Refs \cup {None},
                           source: {"manual", "provider_auto"}]]
  BY DEF RowsType, Settle, Statuses
<1>5. credits' \in [Topups -> Nat]
  BY DEF RowsType, Settle
<1>6. claim' \in [Refs -> Topups \cup {None}]
  BY DEF RowsType, Settle
<1>7. SlipsStay
  BY DEF RowsType, Settle, SlipsStay
<1> QED
  BY <1>2, <1>3, <1>4, <1>5, <1>6, <1>7 DEF RowsType, Settle

LEMMA GrantType ==
  ASSUME RowsType, NEW u \in Users, NEW S \in SUBSET Items, Grant(u, S)
  PROVE  /\ owned' \in [Users -> SUBSET Items]
         /\ paid' \in [Users -> [Items -> Nat]]
  BY DEF RowsType, Grant

-----------------------------------------------------------------------------
(* Shape: every initial state has it and every action keeps it. *)

LEMMA InitShape == Init => Shape
<1> SUFFICES ASSUME Init PROVE Shape
  OBVIOUS
<1>1. RowsType
  <2>1. topup \in [Topups -> [status: Statuses, slip: Slips \cup {None}, ref: Refs \cup {None},
                             source: {"manual", "provider_auto"}]]
    BY DEF Init, Statuses
  <2>2. credits \in [Topups -> Nat]
    BY DEF Init
  <2>3. balance \in [Users -> Nat] /\ ledger \in [Users -> Int]
    BY WalletAssumption DEF WalletAssumption, Init
  <2>4. paid \in [Users -> [Items -> Nat]] /\ owned \in [Users -> SUBSET Items]
    BY DEF Init
  <2>5. gifts \in [GiftKeys -> Nat] /\ cart \in [Users -> SUBSET Packages] /\ adjusts \in Nat
    BY DEF Init
  <2> QED
    BY <2>1, <2>2, <2>3, <2>4, <2>5 DEF Init, RowsType
<1>2. LocksType
  BY DEF Init, LocksType
<1>3. HandlersWellFormed
  BY BlankType DEF Init, HandlersWellFormed, VerifiesASlip, At
<1> QED
  BY <1>1, <1>2, <1>3, BlankType DEF Init, TypeOK, Shape

LEMMA TopupShape ==
  ASSUME Shape, NEW p \in Requests, TopupStep(p)
  PROVE  Shape'
<1>h. req[p] \in Handlers /\ WellFormed(req[p])
  BY DEF Shape, TypeOK, HandlersWellFormed
<1>1. ASSUME NEW t \in Topups, NEW s \in Slips, CreateTopup(p, t, s) PROVE Shape'
  <2>1. topup' \in [Topups -> [status: Statuses, slip: Slips \cup {None}, ref: Refs \cup {None},
                            source: {"manual", "provider_auto"}]]
    BY <1>1 DEF CreateTopup, Shape, TypeOK, RowsType, Statuses
  <2>2. RowsType'
    BY <1>1, <2>1 DEF CreateTopup, Shape, TypeOK, RowsType
  <2>3. topup'[t].slip \in Slips /\ SlipsStay
    BY <1>1 DEF CreateTopup, Shape, TypeOK, RowsType, SlipsStay
  <2>4. (req \in [Requests -> Handlers] /\ HandlersWellFormed)'
    BY <1>1, <2>3, VerifyShape DEF CreateTopup
  <2> QED
    BY <1>1, <2>2, <2>4, LocksSame DEF CreateTopup, Shape, TypeOK
<1>2. ASSUME NEW t \in Topups, NEW s \in Slips, UploadCheck(p, t, s) PROVE Shape'
  <2> DEFINE h == [Blank EXCEPT !.pc = "upload", !.subject = t, !.slip = s]
  <2>1. h \in Handlers
    BY DEF Blank, Handlers, Phases
  <2>2. WellFormed(h) /\ h.pc # "verify"
    BY DEF WellFormed, Blank
  <2>3. Become(p, h) /\ UNCHANGED <<rows, locks>>
    BY <1>2 DEF UploadCheck
  <2> HIDE DEF h
  <2> QED
    BY <2>1, <2>2, <2>3, LocalStep
<1>3. ASSUME NEW t \in Topups, ApproveCheck(p, t) PROVE Shape'
  <2> DEFINE h == [Blank EXCEPT !.pc = "approve", !.subject = t]
  <2>1. h \in Handlers
    BY DEF Blank, Handlers, Phases
  <2>2. WellFormed(h) /\ h.pc # "verify"
    BY DEF WellFormed, Blank
  <2>3. Become(p, h) /\ UNCHANGED <<rows, locks>>
    BY <1>3 DEF ApproveCheck
  <2> HIDE DEF h
  <2> QED
    BY <2>1, <2>2, <2>3, LocalStep
<1>4. CASE UploadCommit(p)
  <2>1. req[p].subject \in Topups /\ req[p].slip \in Slips
    BY <1>4, <1>h DEF UploadCommit, At, WellFormed
  <2>2. RowsType'
    BY <1>4, <2>1 DEF Shape, TypeOK, RowsType, UploadCommit
  <2>3. topup'[req[p].subject].slip \in Slips /\ SlipsStay
    BY <1>4, <2>1 DEF UploadCommit, Shape, TypeOK, RowsType, SlipsStay
  <2>4. (req \in [Requests -> Handlers] /\ HandlersWellFormed)'
    BY <1>4, <2>1, <2>3, VerifyShape DEF UploadCommit
  <2> QED
    BY <1>4, <2>2, <2>4, LocksSame DEF UploadCommit, Shape, TypeOK
<1>5. CASE UploadRefused(p)
  BY <1>5, FinishStep DEF UploadRefused
<1>6. CASE ApproveCommit(p)
  <2>1. req[p].subject \in Topups
    BY <1>6, <1>h DEF ApproveCommit, At, WellFormed
  <2>2. topup[req[p].subject].ref \in Refs \cup {None}
    BY <2>1 DEF Shape, TypeOK, RowsType
  <2>3. RowsType' /\ SlipsStay
    BY <1>6, <2>1, <2>2, SettleType DEF Shape, TypeOK, ApproveCommit
  <2> QED
    BY <1>6, <2>3, CommitStep DEF ApproveCommit
<1>7. CASE ApproveRefused(p)
  BY <1>7, FinishStep DEF ApproveRefused
<1> QED
  BY <1>1, <1>2, <1>3, <1>4, <1>5, <1>6, <1>7
  DEF TopupStep

LEMMA VerdictShape ==
  ASSUME Shape, NEW p \in Requests, VerifyStep(p)
  PROVE  Shape'
<1>h. req[p] \in Handlers /\ WellFormed(req[p])
  BY DEF Shape, TypeOK, HandlersWellFormed
<1>1. ASSUME NEW t \in Topups, VerifyRequest(p, t) PROVE Shape'
  <2>1. topup'[t].slip \in Slips /\ RowsType' /\ SlipsStay
    BY <1>1, RowsSame DEF VerifyRequest, Shape, TypeOK, RowsType, rows
  <2>2. (req \in [Requests -> Handlers] /\ HandlersWellFormed)'
    BY <1>1, <2>1, VerifyShape DEF VerifyRequest
  <2> QED
    BY <1>1, <2>1, <2>2, LocksSame DEF VerifyRequest, Shape, TypeOK
<1>2. CASE VerifyRead(p)
  <2>s. topup[req[p].subject].slip \in Slips /\ req[p].subject \in Topups
    BY <1>2, <1>h DEF VerifyRead, At, WellFormed, Shape, HandlersWellFormed, VerifiesASlip
  <2>e. ~req[p].eligible
    BY <1>2, <1>h DEF VerifyRead, At, WellFormed
  <2> DEFINE h == [req[p] EXCEPT !.pc = "provider", !.slip = topup[req[p].subject].slip]
  <2>1. h \in Handlers
    BY <1>h, <2>s, <2>e DEF Handlers, Phases
  <2>2. WellFormed(h) /\ h.pc # "verify"
    BY <1>h, <2>s, <2>e DEF WellFormed, Handlers
  <2>3. Become(p, h) /\ UNCHANGED <<rows, locks>>
    BY <1>2 DEF VerifyRead
  <2> HIDE DEF h
  <2> QED
    BY <2>1, <2>2, <2>3, LocalStep
<1>3. CASE ProviderAnswer(p)
  <2>1. req[p].slip \in Slips /\ req[p].subject \in Topups
    BY <1>3, <1>h DEF ProviderAnswer, At, WellFormed
  <2>2. SlipRef[req[p].slip] \in Refs
    BY <2>1, WalletAssumption DEF WalletAssumption
  <2>3. PICK e \in BOOLEAN, r \in {SlipRef[req[p].slip], None} :
          /\ e => r # None
          /\ Become(p, [req[p] EXCEPT !.pc = "verdict", !.ref = r, !.eligible = e])
    BY <1>3 DEF ProviderAnswer
  <2> DEFINE h == [req[p] EXCEPT !.pc = "verdict", !.ref = r, !.eligible = e]
  <2>4. h \in Handlers
    BY <1>h, <2>2 DEF Handlers, Phases
  <2>5. WellFormed(h) /\ h.pc # "verify"
    BY <1>h, <2>1, <2>3 DEF WellFormed, Handlers
  <2> HIDE DEF h
  <2> QED
    BY <1>3, <2>3, <2>4, <2>5, LocalStep DEF ProviderAnswer, h
<1>4. CASE VerdictSkipped(p)
  BY <1>4, FinishStep DEF VerdictSkipped
<1>5. CASE VerdictForReview(p)
  <2>1. req[p].subject \in Topups /\ req[p].ref \in Refs \cup {None}
    BY <1>5, <1>h DEF VerdictForReview, At, WellFormed, Handlers
  <2>2. topup' \in [Topups -> [status: Statuses, slip: Slips \cup {None}, ref: Refs \cup {None},
                            source: {"manual", "provider_auto"}]]
    BY <1>5, <2>1 DEF Shape, TypeOK, RowsType, Statuses, VerdictForReview
  <2>3. RowsType' /\ SlipsStay
    BY <1>5, <2>1, <2>2 DEF Shape, TypeOK, RowsType, VerdictForReview, SlipsStay
  <2> QED
    BY <1>5, <2>3, CommitStep DEF VerdictForReview
<1>6. CASE VerdictApproves(p)
  <2>1. req[p].subject \in Topups /\ req[p].ref \in Refs \cup {None}
    BY <1>6, <1>h DEF VerdictApproves, At, WellFormed, Handlers
  <2>2. RowsType' /\ SlipsStay
    BY <1>6, <2>1, SettleType DEF Shape, TypeOK, VerdictApproves
  <2> QED
    BY <1>6, <2>2, CommitStep DEF VerdictApproves
<1>7. CASE VerdictFails(p)
  <2>s. req[p].pc = "verdict"
    BY <1>7 DEF VerdictFails, At
  <2> DEFINE h == [req[p] EXCEPT !.pc = "recordFailure"]
  <2>1. h \in Handlers
    BY <1>h, <2>s DEF Handlers, Phases
  <2>2. WellFormed(h) /\ h.pc # "verify"
    BY <1>h, <2>s DEF WellFormed, Handlers
  <2>3. Become(p, h) /\ UNCHANGED <<rows, locks>>
    BY <1>7 DEF VerdictFails
  <2> HIDE DEF h
  <2> QED
    BY <2>1, <2>2, <2>3, LocalStep
<1>8. CASE RecordFailure(p)
  <2>1. req[p].subject \in Topups /\ req[p].ref \in Refs \cup {None}
    BY <1>8, <1>h DEF RecordFailure, At, WellFormed, Handlers
  <2>2. topup' \in [Topups -> [status: Statuses, slip: Slips \cup {None}, ref: Refs \cup {None},
                            source: {"manual", "provider_auto"}]]
    BY <1>8, <2>1 DEF Shape, TypeOK, RowsType, Statuses, RecordFailure
  <2>3. RowsType' /\ SlipsStay
    BY <1>8, <2>1, <2>2 DEF Shape, TypeOK, RowsType, RecordFailure, SlipsStay
  <2> QED
    BY <1>8, <2>3, CommitStep DEF RecordFailure
<1> QED
  BY <1>1, <1>2, <1>3, <1>4, <1>5, <1>6, <1>7, <1>8
  DEF VerifyStep

LEMMA SpendShape ==
  ASSUME Shape, NEW p \in Requests, SpendStep(p)
  PROVE  Shape'
<1>h. req[p] \in Handlers /\ WellFormed(req[p])
  BY DEF Shape, TypeOK, HandlersWellFormed
<1>1. ASSUME NEW u \in Users, NEW e \in Episodes, BuyCheck(p, u, e) PROVE Shape'
  <2> DEFINE h == [Blank EXCEPT !.pc = "buy", !.user = u, !.subject = e]
  <2>1. h \in Handlers
    BY DEF Blank, Handlers, Phases, Items
  <2>2. WellFormed(h) /\ h.pc # "verify"
    BY DEF WellFormed, Blank
  <2>3. Become(p, h) /\ UNCHANGED <<rows, locks>>
    BY <1>1 DEF BuyCheck
  <2> HIDE DEF h
  <2> QED
    BY <2>1, <2>2, <2>3, LocalStep
<1>2. CASE BuyCommit(p)
  <2> DEFINE u == req[p].user
             e == req[p].subject
  <2>1. u \in Users /\ e \in Episodes
    BY <1>2, <1>h DEF BuyCommit, At, WellFormed
  <2>2. {e} \in SUBSET Items /\ Cost[{e}] \in Nat
    BY <2>1, WalletAssumption DEF WalletAssumption, Items
  <2>3. balance' \in [Users -> Nat] /\ ledger' \in [Users -> Int]
    BY <1>2, <2>1, <2>2 DEF BuyCommit, MayBuy, Shape, TypeOK, RowsType
  <2>4. owned' \in [Users -> SUBSET Items] /\ paid' \in [Users -> [Items -> Nat]]
    BY <1>2, <2>1, <2>2, GrantType DEF BuyCommit, Shape, TypeOK
  <2>5. RowsType' /\ SlipsStay
    BY <1>2, <2>3, <2>4 DEF BuyCommit, Shape, TypeOK, RowsType, SlipsStay
  <2> QED
    BY <1>2, <2>5, CommitStep DEF BuyCommit
<1>3. CASE BuyRefused(p)
  BY <1>3, FinishStep DEF BuyRefused
<1>4. ASSUME NEW u \in Users, NEW k \in Packages, AddCheck(p, u, k) PROVE Shape'
  <2> DEFINE h == [Blank EXCEPT !.pc = "addToCart", !.user = u, !.subject = k]
  <2>1. h \in Handlers
    BY DEF Blank, Handlers, Phases, Items
  <2>2. WellFormed(h) /\ h.pc # "verify"
    BY DEF WellFormed, Blank
  <2>3. Become(p, h) /\ UNCHANGED <<rows, locks>>
    BY <1>4 DEF AddCheck
  <2> HIDE DEF h
  <2> QED
    BY <2>1, <2>2, <2>3, LocalStep
<1>5. ASSUME NEW u \in Users, NEW k \in Packages, UpgradeBegin(p, u, k) PROVE Shape'
  <2> DEFINE h == [Blank EXCEPT !.pc = "upgrade", !.user = u, !.subject = k, !.seen = balance[u]]
  <2>1. h \in Handlers
    BY DEF Blank, Handlers, Phases, Items, Shape, TypeOK, RowsType
  <2>2. WellFormed(h) /\ h.pc # "verify"
    BY DEF Blank, WellFormed
  <2>3. Become(p, h) /\ UNCHANGED rows
    BY <1>5 DEF UpgradeBegin
  <2>4. LocksType'
    BY <1>5 DEF UpgradeBegin, Shape, TypeOK, LocksType
  <2> HIDE DEF h
  <2> QED
    BY <2>1, <2>2, <2>3, <2>4, BecomeShape, RowsSame DEF Shape, TypeOK
<1>6. CASE AddToCart(p)
  <2>1. req[p].user \in Users /\ req[p].subject \in Packages
    BY <1>6, <1>h DEF AddToCart, At, WellFormed
  <2>2. RowsType' /\ SlipsStay
    BY <1>6, <2>1 DEF AddToCart, Shape, TypeOK, RowsType, SlipsStay
  <2> QED
    BY <1>6, <2>2, CommitStep DEF AddToCart
<1>7. ASSUME NEW u \in Users, CheckoutCheck(p, u) PROVE Shape'
  <2> DEFINE h == [Blank EXCEPT !.pc = "checkout", !.user = u]
  <2>1. h \in Handlers
    BY DEF Blank, Handlers, Phases
  <2>2. WellFormed(h) /\ h.pc # "verify"
    BY DEF WellFormed, Blank
  <2>3. Become(p, h) /\ UNCHANGED <<rows, locks>>
    BY <1>7 DEF CheckoutCheck
  <2> HIDE DEF h
  <2> QED
    BY <2>1, <2>2, <2>3, LocalStep
<1>8. CASE CheckoutBegin(p)
  <2>s. req[p].pc = "checkout"
    BY <1>8 DEF CheckoutBegin, At
  <2>n. (IF SnapshotAtBegin THEN balance[req[p].user] ELSE 0) \in Nat
    BY <1>h, <2>s DEF WellFormed, Shape, TypeOK, RowsType
  <2> DEFINE h == [req[p] EXCEPT !.pc = "checkoutTx", !.seen = IF SnapshotAtBegin THEN
      balance[req[p].user] ELSE 0]
  <2>1. h \in Handlers
    BY <1>h, <2>s, <2>n DEF Handlers, Phases
  <2>2. WellFormed(h) /\ h.pc # "verify"
    BY <1>h, <2>s, <2>n DEF WellFormed, Handlers
  <2>3. Become(p, h) /\ UNCHANGED <<rows, locks>>
    BY <1>8 DEF CheckoutBegin
  <2> HIDE DEF h
  <2> QED
    BY <2>1, <2>2, <2>3, LocalStep
<1>9. CASE CheckoutLockUser(p)
  <2>s. req[p].pc = "checkoutTx"
    BY <1>9 DEF CheckoutLockUser, At
  <2> DEFINE h == [req[p] EXCEPT !.pc = "checkoutUser"]
  <2>1. h \in Handlers
    BY <1>h DEF Handlers, Phases
  <2>2. WellFormed(h) /\ h.pc # "verify"
    BY <1>h, <2>s DEF WellFormed, Handlers
  <2>3. Become(p, h) /\ UNCHANGED rows
    BY <1>9, <1>h DEF CheckoutLockUser, Handlers
  <2>4. LocksType'
    BY <1>9 DEF CheckoutLockUser, Shape, TypeOK, LocksType
  <2> HIDE DEF h
  <2> QED
    BY <2>1, <2>2, <2>3, <2>4, BecomeShape, RowsSame DEF Shape, TypeOK
<1>10. CASE CheckoutLockCart(p)
  <2>s. req[p].pc = "checkoutUser"
    BY <1>10 DEF CheckoutLockCart, At
  <2>n. (IF SnapshotAtBegin THEN req[p].seen ELSE balance[req[p].user]) \in Nat
    BY <1>h, <2>s DEF WellFormed, Handlers, Shape, TypeOK, RowsType
  <2> DEFINE h == [req[p] EXCEPT !.pc = "checkoutCart",
                               !.seen = IF SnapshotAtBegin THEN req[p].seen ELSE
                               balance[req[p].user]]
  <2>1. h \in Handlers
    BY <1>h, <2>n DEF Handlers, Phases
  <2>2. WellFormed(h) /\ h.pc # "verify"
    BY <1>h, <2>s DEF WellFormed, Handlers
  <2>3. Become(p, h) /\ UNCHANGED rows
    BY <1>10, <1>h DEF CheckoutLockCart, Handlers
  <2>4. LocksType'
    BY <1>10 DEF CheckoutLockCart, Shape, TypeOK, LocksType
  <2> HIDE DEF h
  <2> QED
    BY <2>1, <2>2, <2>3, <2>4, BecomeShape, RowsSame DEF Shape, TypeOK
<1>11. CASE CheckoutCommit(p)
  <2> DEFINE u == req[p].user
             S == cart[u]
  <2>1. u \in Users
    BY <1>11, <1>h DEF CheckoutCommit, At, WellFormed
  <2>2. S \in SUBSET Items
    BY <2>1 DEF Shape, TypeOK, RowsType, Items
  <2>3. Cost[S] \in Nat
    BY <2>2, WalletAssumption DEF WalletAssumption
  <2>4. balance' \in [Users -> Nat] /\ ledger' \in [Users -> Int]
    BY <1>11, <1>h, <2>1, <2>3 DEF CheckoutCommit, MayCheckout, Handlers, Shape, TypeOK, RowsType
  <2>5. owned' \in [Users -> SUBSET Items] /\ paid' \in [Users -> [Items -> Nat]]
    BY <1>11, <2>1, <2>2, GrantType DEF CheckoutCommit, Shape, TypeOK
  <2>6. cart' \in [Users -> SUBSET Packages]
    BY <1>11 DEF CheckoutCommit, Shape, TypeOK, RowsType
  <2>7. RowsType' /\ SlipsStay
    BY <1>11, <2>4, <2>5, <2>6 DEF CheckoutCommit, Shape, TypeOK, RowsType, SlipsStay
  <2> QED
    BY <1>11, <2>7, CommitStep DEF CheckoutCommit
<1>12. CASE CheckoutRefused(p)
  BY <1>12, CommitStep, RowsSame DEF Shape, TypeOK, CheckoutRefused
<1>13. CASE UpgradeLockUser(p)
  <2>s. req[p].pc = "upgrade"
    BY <1>13 DEF UpgradeLockUser, At
  <2> DEFINE h == [req[p] EXCEPT !.pc = "upgradeUser"]
  <2>1. h \in Handlers
    BY <1>h DEF Handlers, Phases
  <2>2. WellFormed(h) /\ h.pc # "verify"
    BY <1>h, <2>s DEF WellFormed, Handlers
  <2>3. Become(p, h) /\ UNCHANGED rows
    BY <1>13, <1>h DEF UpgradeLockUser, Handlers
  <2>4. LocksType'
    BY <1>13 DEF UpgradeLockUser, Shape, TypeOK, LocksType
  <2> HIDE DEF h
  <2> QED
    BY <2>1, <2>2, <2>3, <2>4, BecomeShape, RowsSame DEF Shape, TypeOK
<1>14. CASE UpgradeCommit(p)
  <2> DEFINE u == req[p].user
             k == req[p].subject
  <2>1. u \in Users /\ k \in Packages
    BY <1>14, <1>h DEF UpgradeCommit, At, WellFormed
  <2>2. {k} \in SUBSET Items /\ Cost[{k}] \in Nat
    BY <2>1, WalletAssumption DEF WalletAssumption, Items
  <2>3. balance' \in [Users -> Nat] /\ ledger' \in [Users -> Int]
    BY <1>14, <1>h, <2>1, <2>2 DEF UpgradeCommit, MayUpgrade, Handlers, Shape, TypeOK, RowsType
  <2>4. owned' \in [Users -> SUBSET Items] /\ paid' \in [Users -> [Items -> Nat]]
    BY <1>14, <2>1, <2>2, GrantType DEF UpgradeCommit, Shape, TypeOK
  <2>5. cart' \in [Users -> SUBSET Packages]
    BY <1>14, <2>1 DEF UpgradeCommit, Shape, TypeOK, RowsType
  <2>6. RowsType' /\ SlipsStay
    BY <1>14, <2>3, <2>4, <2>5 DEF UpgradeCommit, Shape, TypeOK, RowsType, SlipsStay
  <2> QED
    BY <1>14, <2>6, CommitStep DEF UpgradeCommit
<1>15. CASE UpgradeRefused(p)
  BY <1>15, CommitStep, RowsSame DEF Shape, TypeOK, UpgradeRefused
<1> QED
  BY <1>1, <1>2, <1>3, <1>4, <1>5, <1>6, <1>7, <1>8, <1>9, <1>10, <1>11, <1>12, <1>13, <1>14,
      <1>15
  DEF SpendStep

LEMMA AdminShape ==
  ASSUME Shape, NEW p \in Requests, AdminStep(p)
  PROVE  Shape'
<1>h. req[p] \in Handlers /\ WellFormed(req[p])
  BY DEF Shape, TypeOK, HandlersWellFormed
<1>1. ASSUME NEW k \in GiftKeys, GiftPreview(p, k) PROVE Shape'
  <2>n. balance[GiftUser[k]] \in Nat
    BY WalletAssumption DEF WalletAssumption, Shape, TypeOK, RowsType
  <2> DEFINE h == [Blank EXCEPT !.pc = "gift", !.subject = k, !.seen = balance[GiftUser[k]]]
  <2>1. h \in Handlers
    BY <2>n DEF Blank, Handlers, Phases
  <2>2. WellFormed(h) /\ h.pc # "verify"
    BY <2>n DEF WellFormed, Blank
  <2>3. Become(p, h) /\ UNCHANGED <<rows, locks>>
    BY <1>1 DEF GiftPreview
  <2> HIDE DEF h
  <2> QED
    BY <2>1, <2>2, <2>3, LocalStep
<1>2. CASE GiftCommit(p)
  <2> DEFINE k == req[p].subject
  <2>1. k \in GiftKeys
    BY <1>2, <1>h DEF GiftCommit, At, WellFormed
  <2>2. GiftUser[k] \in Users /\ GiftAmount[k] \in Int
    BY <2>1, WalletAssumption DEF WalletAssumption
  <2>3. RowsType' /\ SlipsStay
    BY <1>2, <2>1, <2>2 DEF GiftCommit, MayGift, Shape, TypeOK, RowsType, SlipsStay
  <2> QED
    BY <1>2, <2>3, CommitStep DEF GiftCommit
<1>3. CASE GiftRefused(p)
  BY <1>3, FinishStep DEF GiftRefused
<1>4. ASSUME NEW u \in Users, AdjustBegin(p, u) PROVE Shape'
  <2>1. balance[u] \in Nat
    BY DEF Shape, TypeOK, RowsType
  <2>2. PICK a \in AdjustAmounts : \E n \in {balance[u] + a, balance[u] - a, a} :
          /\ n >= 0
          /\ Become(p, [Blank EXCEPT !.pc = "adjust", !.user = u,
                                     !.seen = balance[u], !.target = n])
    BY <1>4 DEF AdjustBegin
  <2>3. PICK n \in {balance[u] + a, balance[u] - a, a} :
          /\ n >= 0
          /\ Become(p, [Blank EXCEPT !.pc = "adjust", !.user = u,
                                     !.seen = balance[u], !.target = n])
    BY <2>2
  <2>4. n \in Nat
    BY <2>1, <2>3, WalletAssumption DEF WalletAssumption
  <2> DEFINE h == [Blank EXCEPT !.pc = "adjust", !.user = u, !.seen = balance[u], !.target = n]
  <2>5. h \in Handlers
    BY <2>1, <2>4 DEF Blank, Handlers, Phases
  <2>6. WellFormed(h) /\ h.pc # "verify"
    BY DEF Blank, WellFormed
  <2>7. RowsType' /\ SlipsStay
    BY <1>4 DEF AdjustBegin, Shape, TypeOK, RowsType, SlipsStay
  <2>8. Become(p, h)
    BY <2>3
  <2> HIDE DEF h
  <2> QED
    BY <1>4, <2>5, <2>6, <2>7, <2>8, BecomeShape, LocksSame DEF Shape, TypeOK, AdjustBegin
<1>5. CASE AdjustCommit(p)
  <2>1. req[p].user \in Users /\ req[p].seen \in Nat /\ req[p].target \in Nat
    BY <1>5, <1>h DEF AdjustCommit, At, WellFormed, Handlers
  <2>2. RowsType' /\ SlipsStay
    BY <1>5, <2>1 DEF AdjustCommit, Shape, TypeOK, RowsType, SlipsStay
  <2> QED
    BY <1>5, <2>2, CommitStep DEF AdjustCommit
<1>6. ASSUME NEW t \in Topups, RepairBegin(p, t) PROVE Shape'
  <2> DEFINE n == balance[Owner[t]] + Credit[t]
             h == [Blank EXCEPT !.pc = "repair", !.subject = t, !.target = n]
  <2>1. n \in Nat
    BY WalletAssumption DEF WalletAssumption, Shape, TypeOK, RowsType
  <2>2. Become(p, h) /\ UNCHANGED <<rows, locks>>
    BY <1>6 DEF RepairBegin
  <2> HIDE DEF n
  <2>3. h \in Handlers
    BY <2>1 DEF Blank, Handlers, Phases
  <2>4. WellFormed(h) /\ h.pc # "verify"
    BY DEF Blank, WellFormed
  <2> HIDE DEF h
  <2> QED
    BY <2>2, <2>3, <2>4, LocalStep
<1>7. CASE RepairCommit(p)
  <2>1. req[p].subject \in Topups /\ req[p].target \in Nat
    BY <1>7, <1>h DEF RepairCommit, At, WellFormed, Handlers
  <2>2. Owner[req[p].subject] \in Users /\ Credit[req[p].subject] \in Nat
    BY <2>1, WalletAssumption DEF WalletAssumption
  <2>3. RowsType' /\ SlipsStay
    BY <1>7, <2>1, <2>2 DEF RepairCommit, Shape, TypeOK, RowsType, SlipsStay
  <2> QED
    BY <1>7, <2>3, CommitStep DEF RepairCommit
<1> QED
  BY <1>1, <1>2, <1>3, <1>4, <1>5, <1>6, <1>7
  DEF AdminStep

LEMMA ShapeStep ==
  ASSUME Shape, [Next]_vars
  PROVE  Shape'
<1>1. CASE SetAutoApprove
  <2>1. RowsType' /\ SlipsStay
    BY <1>1 DEF SetAutoApprove, Shape, TypeOK, RowsType, SlipsStay
  <2> QED
    BY <1>1, <2>1, LocksSame DEF SetAutoApprove, Shape, TypeOK, HandlersWellFormed,
        VerifiesASlip, At
<1>2. ASSUME NEW t \in Topups, Reject(t) PROVE Shape'
  <2>1. RowsType' /\ topup'[t].slip = topup[t].slip /\ \A o \in Topups \ {t} : topup'[o] =
      topup[o]
    BY <1>2 DEF Reject, Shape, TypeOK, RowsType, Statuses
  <2>2. VerifiesASlip'
    BY <1>2, <2>1 DEF Reject, Shape, HandlersWellFormed, VerifiesASlip, At, WellFormed
  <2> QED
    BY <1>2, <2>1, <2>2, LocksSame DEF Reject, Shape, TypeOK, HandlersWellFormed
<1>3. ASSUME NEW p \in Requests, Crash(p) PROVE Shape'
  BY <1>3, CommitStep, RowsSame DEF Crash, Shape, TypeOK
<1>4. CASE UNCHANGED vars
  BY <1>4, RowsSame, LocksSame DEF vars, rows, Shape, TypeOK, HandlersWellFormed,
      VerifiesASlip, At
<1> QED
  BY <1>1, <1>2, <1>3, <1>4, TopupShape, VerdictShape, SpendShape, AdminShape DEF Next

\* Types, in every reachable state.
THEOREM Typed == Spec => []TypeOK
<1>1. Spec => []Shape
  BY InitShape, ShapeStep, PTL DEF Spec
<1>2. Shape => TypeOK
  BY DEF Shape
<1> QED
  BY <1>1, <1>2, PTL

-----------------------------------------------------------------------------
(* What a step can do to the top-ups.                                      *)

\* Only top-ups older than the registry are ever repaired.
RepairsLegacy == \A p \in Requests : At(p, "repair") => req[p].subject \in Legacy

\* An approval, with what its handler established before.
Settles ==
  \E t \in Topups, r \in Refs \cup {None}, src \in {"manual", "provider_auto"} :
    /\ MaySettle(t, r) /\ Settle(t, r, src)
    /\ src = "provider_auto" => topup[t].slip \in Slips /\ r = SlipRef[topup[t].slip]

\* Neither approves nor credits, and changes only rows under review.
LeavesSettled ==
  /\ UNCHANGED <<credits, claim>>
  /\ \A t \in Topups :
       \/ topup'[t] = topup[t]
       \/ /\ topup[t].status \notin {"approved", "rejected"}
          /\ topup'[t].status # "approved" /\ topup'[t].source = topup[t].source

Repairs ==
  /\ UNCHANGED <<topup, claim>>
  /\ \E t \in Legacy : credits' = [credits EXCEPT ![t] = @ + 1]

LEMMA UnchangedSettled == UNCHANGED <<topup, credits, claim>> => LeavesSettled
  BY DEF LeavesSettled

LEMMA TopupStepEffect ==
  ASSUME Shape, NEW p \in Requests, TopupStep(p)
  PROVE  Settles \/ LeavesSettled
<1>h. req[p] \in Handlers /\ WellFormed(req[p])
  BY DEF Shape, TypeOK, HandlersWellFormed
<1>1. ASSUME NEW t \in Topups, NEW s \in Slips, CreateTopup(p, t, s) PROVE LeavesSettled
  BY <1>1 DEF CreateTopup, LeavesSettled, Shape, TypeOK, RowsType
<1>2. CASE UploadCommit(p)
  <2>1. req[p].subject \in Topups
    BY <1>2, <1>h DEF UploadCommit, At, WellFormed
  <2> QED
    BY <1>2, <2>1 DEF UploadCommit, Pending, LeavesSettled, Shape, TypeOK, RowsType
<1>3. CASE ApproveCommit(p)
  <2>1. req[p].subject \in Topups
    BY <1>3, <1>h DEF ApproveCommit, At, WellFormed
  <2>2. topup[req[p].subject].ref \in Refs \cup {None}
    BY <2>1 DEF Shape, TypeOK, RowsType
  <2> QED
    BY <1>3, <2>1, <2>2 DEF ApproveCommit, Settles
<1>4. CASE UNCHANGED rows
  BY <1>4, UnchangedSettled DEF rows
<1> QED
  BY <1>1, <1>2, <1>3, <1>4 DEF TopupStep, UploadCheck, ApproveCheck, UploadRefused,
      ApproveRefused

LEMMA VerifyStepEffect ==
  ASSUME Shape, NEW p \in Requests, VerifyStep(p)
  PROVE  Settles \/ LeavesSettled
<1>h. req[p] \in Handlers /\ WellFormed(req[p])
  BY DEF Shape, TypeOK, HandlersWellFormed
<1>1. CASE VerdictForReview(p)
  <2>1. req[p].subject \in Topups
    BY <1>1, <1>h DEF VerdictForReview, At, WellFormed
  <2> QED
    BY <1>1, <2>1 DEF VerdictForReview, Current, Pending, LeavesSettled, Shape, TypeOK, RowsType
<1>2. CASE VerdictApproves(p)
  <2>1. req[p].subject \in Topups /\ req[p].slip \in Slips /\ req[p].ref \in Refs \cup {None}
    BY <1>2, <1>h DEF VerdictApproves, At, WellFormed, Handlers
  <2>2. topup[req[p].subject].slip = req[p].slip /\ req[p].ref = SlipRef[req[p].slip]
    BY <1>2, <1>h DEF VerdictApproves, Current, SameSubmission, AutoEligible, WellFormed
  <2> QED
    BY <1>2, <2>1, <2>2 DEF VerdictApproves, Settles
<1>3. CASE RecordFailure(p)
  <2>1. req[p].subject \in Topups
    BY <1>3, <1>h DEF RecordFailure, At, WellFormed
  <2> QED
    BY <1>3, <2>1 DEF RecordFailure, Current, Pending, LeavesSettled, Shape, TypeOK, RowsType
<1>4. CASE UNCHANGED rows
  BY <1>4, UnchangedSettled DEF rows
<1> QED
  BY <1>1, <1>2, <1>3, <1>4
  DEF VerifyStep, VerifyRequest, VerifyRead, ProviderAnswer, VerdictSkipped, VerdictFails

LEMMA SpendStepEffect ==
  ASSUME NEW p \in Requests, SpendStep(p)
  PROVE  UNCHANGED <<topup, credits, claim>>
  BY DEF SpendStep, BuyCheck, BuyCommit, BuyRefused, AddCheck, UpgradeBegin,
      AddToCart, CheckoutCheck, CheckoutBegin, CheckoutLockUser, CheckoutLockCart,
      CheckoutCommit, CheckoutRefused, UpgradeLockUser, UpgradeCommit, UpgradeRefused, rows

LEMMA AdminStepEffect ==
  ASSUME Shape, RepairsLegacy, NEW p \in Requests, AdminStep(p)
  PROVE  LeavesSettled \/ Repairs
<1>1. CASE RepairCommit(p)
  BY <1>1 DEF RepairCommit, Repairs, RepairsLegacy
<1>2. CASE ~RepairCommit(p)
  BY <1>2, UnchangedSettled DEF AdminStep, GiftPreview, GiftCommit, GiftRefused, AdjustBegin,
      AdjustCommit, RepairBegin, RepairCommit, rows
<1> QED
  BY <1>1, <1>2

LEMMA TopupEffect ==
  ASSUME Shape, RepairsLegacy, [Next]_vars
  PROVE  Settles \/ LeavesSettled \/ Repairs
<1>1. CASE SetAutoApprove
  BY <1>1, UnchangedSettled DEF SetAutoApprove
<1>2. ASSUME NEW t \in Topups, Reject(t) PROVE LeavesSettled
  BY <1>2 DEF Reject, Pending, LeavesSettled, Shape, TypeOK, RowsType
<1>3. ASSUME NEW p \in Requests, Crash(p) PROVE LeavesSettled
  BY <1>3, UnchangedSettled DEF Crash, rows
<1>4. CASE UNCHANGED vars
  BY <1>4, UnchangedSettled DEF vars, rows
<1>5. ASSUME NEW p \in Requests, SpendStep(p) PROVE LeavesSettled
  BY <1>5, SpendStepEffect, UnchangedSettled
<1> QED
  BY <1>1, <1>2, <1>3, <1>4, <1>5, TopupStepEffect, VerifyStepEffect, AdminStepEffect DEF Next

\* A handler starts a repair only on an approved top-up nobody credited.
LEMMA StartsRepair ==
  ASSUME Shape, [Next]_vars, NEW q \in Requests, req'[q].pc = "repair"
  PROVE  \/ req'[q] = req[q]
         \/ \E t \in Topups : /\ req'[q].subject = t
                             /\ topup[t].status = "approved" /\ credits[t] = 0
<1>1. ASSUME NEW p \in Requests, NEW h, Become(p, h), h.pc # "repair" PROVE req'[q] = req[q]
  BY <1>1 DEF Become, Shape, TypeOK
<1>2. ASSUME NEW p \in Requests, TopupStep(p) PROVE req'[q] = req[q]
  BY <1>2, <1>1 DEF TopupStep, CreateTopup, UploadCheck, ApproveCheck, UploadCommit,
      UploadRefused, ApproveCommit, ApproveRefused, Finish, Blank
<1>3. ASSUME NEW p \in Requests, VerifyStep(p) PROVE req'[q] = req[q]
  BY <1>3, <1>1 DEF VerifyStep, VerifyRequest, VerifyRead, ProviderAnswer, VerdictSkipped,
      VerdictForReview, VerdictApproves, VerdictFails, RecordFailure, Finish, Blank, Shape,
      TypeOK, Handlers
<1>4. ASSUME NEW p \in Requests, SpendStep(p) PROVE req'[q] = req[q]
  BY <1>4, <1>1 DEF SpendStep, BuyCheck, BuyCommit, BuyRefused, AddCheck,
      UpgradeBegin, AddToCart, CheckoutCheck, CheckoutBegin, CheckoutLockUser,
      CheckoutLockCart, CheckoutCommit, CheckoutRefused, UpgradeLockUser, UpgradeCommit,
      UpgradeRefused, Finish, Blank, Shape, TypeOK, Handlers
<1>5. ASSUME NEW p \in Requests, NEW t \in Topups, RepairBegin(p, t)
      PROVE  req'[q] = req[q] \/ (req'[q].subject = t /\ topup[t].status = "approved" /\
      credits[t] = 0)
  BY <1>5 DEF RepairBegin, Become, Blank, Shape, TypeOK
<1>6. ASSUME NEW p \in Requests, AdminStep(p), ~ \E t \in Topups : RepairBegin(p, t) PROVE
    req'[q] = req[q]
  BY <1>6, <1>1 DEF AdminStep, GiftPreview, GiftCommit, GiftRefused, AdjustBegin, AdjustCommit,
      RepairCommit,
                    Finish, Blank
<1>7. ASSUME NEW p \in Requests, Crash(p) PROVE req'[q] = req[q]
  BY <1>7, <1>1 DEF Crash, Finish, Blank
<1>8. CASE UNCHANGED req
  BY <1>8
<1> QED
  BY <1>2, <1>3, <1>4, <1>5, <1>6, <1>7, <1>8 DEF Next, SetAutoApprove, Reject, vars

-----------------------------------------------------------------------------
(* Top-ups are credited once and transfers used once, whatever runs.       *)

\* UniqueTransfer follows from the claims; the claims, the credits and the
\* verdicts need to know that nothing un-approves a row, that legacy rows
\* are approved from the start and that only they are repaired.
Settled ==
  /\ RepairsLegacy /\ CreditedOnce /\ ClaimsHeld /\ UniqueTransfer /\ AutoApprovedOwnSlip
  /\ \A t \in Legacy : topup[t].status = "approved"
  /\ \A t \in Topups : topup[t].source = "provider_auto" => topup[t].status = "approved"

LEMMA InitSettled == Init => Settled
<1> SUFFICES ASSUME Init PROVE Settled
  OBVIOUS
<1>1. RepairsLegacy
  BY DEF Init, RepairsLegacy, At, Blank
<1>2. PICK r \in Refs \cup {None} :
        topup = [t \in Topups |->
                  IF t \in Legacy
                  THEN [status |-> "approved", slip |-> None, ref |-> r, source |-> "manual"]
                  ELSE [status |-> "absent", slip |-> None, ref |-> None, source |-> "manual"]]
  BY DEF Init
<1>3. Legacy \subseteq Topups
  BY WalletAssumption DEF WalletAssumption
<1>4. \A t \in Topups \ Legacy : topup[t].status = "absent" /\ credits[t] = 0
  BY <1>2 DEF Init
<1> QED
  BY <1>1, <1>2, <1>3, <1>4 DEF Settled, CreditedOnce, ClaimsHeld, UniqueTransfer,
      AutoApprovedOwnSlip

LEMMA SettledStep ==
  ASSUME Shape, Settled, [Next]_vars
  PROVE  Settled'
<1>0. Legacy \subseteq Topups /\ None \notin Slips
  BY WalletAssumption DEF WalletAssumption
<1>r. RepairsLegacy'
  <2> SUFFICES ASSUME NEW q \in Requests, req'[q].pc = "repair" PROVE req'[q].subject \in Legacy
    BY DEF RepairsLegacy, At
  <2>1. CASE req'[q] = req[q]
    BY <2>1 DEF Settled, RepairsLegacy, At
  <2>2. ASSUME NEW t \in Topups, req'[q].subject = t, topup[t].status = "approved", credits[t] = 0
        PROVE  t \in Legacy
    BY <2>2 DEF Settled, CreditedOnce
  <2> QED
    BY <2>1, <2>2, StartsRepair
<1>1. CASE Settles
  <2>1. PICK t \in Topups, r \in Refs \cup {None}, src \in {"manual", "provider_auto"} :
          /\ MaySettle(t, r) /\ Settle(t, r, src)
          /\ src = "provider_auto" => topup[t].slip \in Slips /\ r = SlipRef[topup[t].slip]
    BY <1>1 DEF Settles
  <2>2. t \notin Legacy /\ topup[t].status \in {"pending", "pending_review"}
    BY <2>1 DEF MaySettle, Pending, Settled
  <2>3. /\ topup'[t].status = "approved" /\ topup'[t].ref = r
        /\ topup'[t].source = src /\ topup'[t].slip = topup[t].slip
        /\ \A o \in Topups \ {t} : topup'[o] = topup[o]
    BY <2>1 DEF Settle, Shape, TypeOK, RowsType
  <2>4. credits'[t] = credits[t] + 1 /\ \A o \in Topups \ {t} : credits'[o] = credits[o]
    BY <2>1 DEF Settle, Shape, TypeOK, RowsType
  <2>5. CreditedOnce'
    BY <2>2, <2>3, <2>4 DEF Settled, CreditedOnce
  <2>6. ClaimsHeld'
    <3> SUFFICES ASSUME NEW o \in Topups \ Legacy, topup'[o].status = "approved", topup'[o].ref
        # None
                 PROVE  claim'[topup'[o].ref] = o
      BY DEF ClaimsHeld
    <3>1. CASE o = t
      BY <2>1, <2>3, <3>1 DEF Settle, Shape, TypeOK, RowsType
    <3>2. CASE o # t
      <4>1. claim[topup[o].ref] = o /\ topup'[o] = topup[o] /\ topup[o].ref # None
        BY <2>3, <3>2 DEF Settled, ClaimsHeld
      <4>2. topup[o].ref # r
        BY <2>1, <2>3, <3>2, <4>1 DEF MaySettle, Claimable
      <4> QED
        BY <2>1, <4>1, <4>2 DEF Settle, Shape, TypeOK, RowsType
    <3> QED
      BY <3>1, <3>2
  <2>7. UniqueTransfer'
    <3> SUFFICES ASSUME NEW a \in Topups \ Legacy, NEW b \in Topups, a # b,
                        topup'[a].status = "approved", topup'[b].status = "approved",
                        topup'[a].ref # None
                 PROVE  topup'[a].ref # topup'[b].ref
      BY DEF UniqueTransfer
    <3>1. CASE a = t
      BY <2>1, <2>3, <3>1 DEF MaySettle, Claimable
    <3>2. CASE b = t
      BY <2>1, <2>3, <3>2 DEF MaySettle, Claimable
    <3>3. CASE a # t /\ b # t
      BY <2>3, <3>3 DEF Settled, UniqueTransfer
    <3> QED
      BY <3>1, <3>2, <3>3
  <2>8. AutoApprovedOwnSlip'
    BY <1>0, <2>1, <2>2, <2>3 DEF Settled, AutoApprovedOwnSlip
  <2> QED
    BY <1>0, <1>r, <2>2, <2>3, <2>5, <2>6, <2>7, <2>8 DEF Settled
<1>2. CASE LeavesSettled
  <2>1. \A t \in Topups :
          /\ topup'[t].status = "approved" => topup'[t] = topup[t]
          /\ topup[t].status = "approved" => topup'[t] = topup[t]
          /\ topup'[t].source = topup[t].source
    BY <1>2 DEF LeavesSettled
  <2>2. CreditedOnce'
    BY <1>2, <2>1 DEF LeavesSettled, Settled, CreditedOnce
  <2>3. ClaimsHeld'
    BY <1>2, <2>1 DEF LeavesSettled, Settled, ClaimsHeld
  <2>4. UniqueTransfer'
    BY <2>1 DEF Settled, UniqueTransfer
  <2>5. AutoApprovedOwnSlip'
    BY <2>1 DEF Settled, AutoApprovedOwnSlip
  <2> QED
    BY <1>0, <1>r, <2>1, <2>2, <2>3, <2>4, <2>5 DEF Settled
<1>3. CASE Repairs
  <2>1. \A t \in Topups \ Legacy : credits'[t] = credits[t]
    BY <1>3 DEF Repairs, Shape, TypeOK, RowsType
  <2> QED
    BY <1>3, <1>r, <2>1 DEF Repairs, Settled, CreditedOnce, ClaimsHeld, UniqueTransfer,
        AutoApprovedOwnSlip
<1> QED
  BY <1>1, <1>2, <1>3, TopupEffect DEF Settled

LEMMA AlwaysSettled == Spec => [](Shape /\ Settled)
  BY InitShape, InitSettled, ShapeStep, SettledStep, PTL DEF Spec

\* A top-up approved since the registry exists moved its money exactly once,
\* under every interleaving of admins, verdicts, uploads, repairs and crashes.
THEOREM CreditedOnceAlways == Spec => []CreditedOnce
<1>1. Settled => CreditedOnce
  BY DEF Settled
<1> QED
  BY <1>1, AlwaysSettled, PTL

\* No bank transfer is used for two approvals.
THEOREM UniqueTransferAlways == Spec => []UniqueTransfer
<1>1. Settled => UniqueTransfer
  BY DEF Settled
<1> QED
  BY <1>1, AlwaysSettled, PTL

\* The provider never approves a slip on the verdict for another one.
THEOREM AutoApprovedOwnSlipAlways == Spec => []AutoApprovedOwnSlip
<1>1. Settled => AutoApprovedOwnSlip
  BY DEF Settled
<1> QED
  BY <1>1, AlwaysSettled, PTL

\* Approved and rejected top-ups are final.
THEOREM TopupTerminalAlways == Spec => TopupTerminal
<1>1. ASSUME Shape, Settled, [Next]_vars, NEW t \in Topups, topup[t].status \in {"approved",
    "rejected"}
      PROVE  topup'[t] = topup[t]
  <2>1. CASE Settles
    <3>1. PICK o \in Topups, r \in Refs \cup {None}, src \in {"manual", "provider_auto"} :
            MaySettle(o, r) /\ Settle(o, r, src)
      BY <2>1 DEF Settles
    <3>2. o # t
      BY <1>1, <3>1 DEF MaySettle, Pending
    <3> QED
      BY <3>1, <3>2, <1>1 DEF Settle, Shape, TypeOK, RowsType
  <2>2. CASE LeavesSettled
    BY <1>1, <2>2 DEF LeavesSettled
  <2>3. CASE Repairs
    BY <2>3 DEF Repairs
  <2> QED
    BY <1>1, <2>1, <2>2, <2>3, TopupEffect DEF Settled
<1>2. Shape /\ Settled /\ [Next]_vars =>
        [\A t \in Topups : topup[t].status \in {"approved", "rejected"} => topup'[t] =
        topup[t]]_vars
  BY <1>1
<1> QED
  BY <1>2, AlwaysSettled, PTL DEF Spec, TopupTerminal

-----------------------------------------------------------------------------
(* Items are paid for once, whatever runs.                                 *)

\* Every purchase path looks at the entitlements it is about to insert.
Purchases ==
  \E u \in Users, S \in SUBSET Items : S \cap owned[u] = {} /\ Grant(u, S)

LEMMA PurchaseEffect ==
  ASSUME Shape, [Next]_vars
  PROVE  Purchases \/ UNCHANGED <<owned, paid>>
<1>1. ASSUME NEW p \in Requests, SpendStep(p) PROVE Purchases \/ UNCHANGED <<owned, paid>>
  <2>h. WellFormed(req[p])
    BY DEF Shape, HandlersWellFormed
  <2>1. CASE BuyCommit(p)
    BY <2>1, <2>h DEF BuyCommit, MayBuy, At, WellFormed, Purchases, Items
  <2>2. CASE CheckoutCommit(p)
    <3>1. req[p].user \in Users
      BY <2>2, <2>h DEF CheckoutCommit, At, WellFormed
    <3>2. cart[req[p].user] \in SUBSET Items
      BY <3>1 DEF Shape, TypeOK, RowsType, Items
    <3> QED
      BY <2>2, <3>1, <3>2 DEF CheckoutCommit, MayCheckout, Purchases
  <2>3. CASE UpgradeCommit(p)
    BY <2>3, <2>h DEF UpgradeCommit, MayUpgrade, At, WellFormed, Purchases, Items
  <2> QED
    BY <1>1, <2>1, <2>2, <2>3 DEF SpendStep, BuyCheck, BuyRefused, AddCheck,
        UpgradeBegin, AddToCart, CheckoutCheck, CheckoutBegin, CheckoutLockUser,
        CheckoutLockCart, CheckoutRefused, UpgradeLockUser, UpgradeRefused, rows
<1>2. ASSUME NEW p \in Requests, TopupStep(p) PROVE UNCHANGED <<owned, paid>>
  BY <1>2 DEF TopupStep, CreateTopup, UploadCheck, ApproveCheck, UploadCommit, UploadRefused,
      ApproveCommit, ApproveRefused, Settle, rows
<1>3. ASSUME NEW p \in Requests, VerifyStep(p) PROVE UNCHANGED <<owned, paid>>
  BY <1>3 DEF VerifyStep, VerifyRequest, VerifyRead, ProviderAnswer, VerdictSkipped,
      VerdictForReview, VerdictApproves, VerdictFails, RecordFailure, Settle, rows
<1>4. ASSUME NEW p \in Requests, AdminStep(p) PROVE UNCHANGED <<owned, paid>>
  BY <1>4 DEF AdminStep, GiftPreview, GiftCommit, GiftRefused, AdjustBegin, AdjustCommit,
      RepairBegin, RepairCommit, rows
<1> QED
  BY <1>1, <1>2, <1>3, <1>4 DEF Next, SetAutoApprove, Reject, Crash, vars, rows

\* Whatever a user owns was paid for exactly once.
THEOREM PaidOnceAlways == Spec => []PaidOnce
<1>1. Init => PaidOnce
  BY DEF Init, PaidOnce
<1>2. Shape /\ PaidOnce /\ [Next]_vars => PaidOnce'
  <2> SUFFICES ASSUME Shape, PaidOnce, [Next]_vars PROVE PaidOnce'
    OBVIOUS
  <2>1. CASE Purchases
    <3>1. PICK u \in Users, S \in SUBSET Items : S \cap owned[u] = {} /\ Grant(u, S)
      BY <2>1 DEF Purchases
    <3>2. ASSUME NEW v \in Users, NEW i \in Items
          PROVE  paid'[v][i] = IF i \in owned'[v] THEN 1 ELSE 0
      <4>1. CASE v # u
        BY <3>1, <4>1 DEF Grant, PaidOnce, Shape, TypeOK, RowsType
      <4>2. CASE v = u
        <5>1. owned'[u] = owned[u] \cup S
          BY <3>1 DEF Grant, Shape, TypeOK, RowsType
        <5>2. paid'[u] = [j \in Items |-> IF j \in S THEN paid[u][j] + 1 ELSE paid[u][j]]
          BY <3>1 DEF Grant, Shape, TypeOK, RowsType
        <5> QED
          BY <3>1, <4>2, <5>1, <5>2 DEF PaidOnce
      <4> QED
        BY <4>1, <4>2
    <3> QED
      BY <3>2 DEF PaidOnce
  <2>2. CASE UNCHANGED <<owned, paid>>
    BY <2>2 DEF PaidOnce
  <2> QED
    BY <2>1, <2>2, PurchaseEffect
<1> QED
  BY <1>1, <1>2, AlwaysSettled, PTL DEF Spec

-----------------------------------------------------------------------------
(* Money, under the lock discipline.                                       *)

\* LockedReads is inductive when no upgrade, adjustment or repair runs.
Locked ==
  /\ LockedReads
  /\ \A p \in Requests : req[p].pc \notin {"upgrade", "upgradeUser", "adjust", "repair"}

\* A whole movement of one user's money: by a transaction that found the
\* users row free, or by the checkout that holds it.
Moves(u, d) ==
  /\ balance' = [balance EXCEPT ![u] = @ + d]
  /\ ledger' = [ledger EXCEPT ![u] = @ + d]
  /\ Free(u) \/ \E p \in Requests : CheckoutCommit(p) /\ req[p].user = u

LEMMA LockedPhases ==
  ASSUME Disciplined, Shape, Locked, [Next]_vars
  PROVE  \A q \in Requests : req'[q].pc \notin {"upgrade", "upgradeUser", "adjust", "repair"}
<1>0. "upgrade" \notin Ops /\ "adjust" \notin Ops /\ "repair" \notin Ops
  BY DEF Disciplined, LockedOps
<1>1. ASSUME NEW p \in Requests, NEW h, Become(p, h), h.pc \notin {"upgrade", "upgradeUser",
    "adjust", "repair"}
      PROVE  \A q \in Requests : req'[q].pc \notin {"upgrade", "upgradeUser", "adjust", "repair"}
  BY <1>1 DEF Become, Locked, Shape, TypeOK
<1> DEFINE Goal == \A q \in Requests : req'[q].pc \notin {"upgrade", "upgradeUser", "adjust",
    "repair"}
<1>2. ASSUME NEW p \in Requests, TopupStep(p) PROVE Goal
  BY <1>2, <1>1 DEF TopupStep, CreateTopup, UploadCheck, ApproveCheck, UploadCommit,
      UploadRefused, ApproveCommit, ApproveRefused, Finish, Blank
<1>3. ASSUME NEW p \in Requests, VerifyStep(p) PROVE Goal
  BY <1>3, <1>1 DEF VerifyStep, VerifyRequest, VerifyRead, ProviderAnswer, VerdictSkipped,
      VerdictForReview, VerdictApproves, VerdictFails, RecordFailure, Finish, Blank, Shape,
      TypeOK, Handlers
<1>4. ASSUME NEW p \in Requests, SpendStep(p) PROVE Goal
  BY <1>4, <1>0, <1>1 DEF SpendStep, BuyCheck, BuyCommit, BuyRefused, AddCheck,
      UpgradeBegin, AddToCart, CheckoutCheck, CheckoutBegin, CheckoutLockUser,
      CheckoutLockCart, CheckoutCommit, CheckoutRefused, UpgradeLockUser, UpgradeCommit,
      UpgradeRefused, Finish, Blank, Locked, At, Shape, TypeOK, Handlers
<1>5. ASSUME NEW p \in Requests, AdminStep(p) PROVE Goal
  BY <1>5, <1>0, <1>1 DEF AdminStep, GiftPreview, GiftCommit, GiftRefused, AdjustBegin,
      AdjustCommit, RepairBegin, RepairCommit, Finish, Blank, Locked, At, Shape, TypeOK, Handlers
<1>6. ASSUME NEW p \in Requests, Crash(p) PROVE Goal
  BY <1>6, <1>1 DEF Crash, Finish, Blank
<1>7. CASE UNCHANGED req
  BY <1>7 DEF Locked
<1> QED
  BY <1>2, <1>3, <1>4, <1>5, <1>6, <1>7 DEF Next, SetAutoApprove, Reject, vars

LEMMA MoneyEffect ==
  ASSUME Disciplined, Shape, Locked, [Next]_vars
  PROVE  UNCHANGED <<balance, ledger>> \/ \E u \in Users, d \in Int : Moves(u, d)
<1> DEFINE Goal == UNCHANGED <<balance, ledger>> \/ \E u \in Users, d \in Int : Moves(u, d)
<1>h. \A p \in Requests : req[p] \in Handlers /\ WellFormed(req[p])
  BY DEF Shape, TypeOK, HandlersWellFormed
<1>s. ASSUME NEW t \in Topups, NEW r, NEW src, Settle(t, r, src), Free(Owner[t]) PROVE Goal
  <2>1. Owner[t] \in Users /\ Credit[t] \in Int
    BY WalletAssumption DEF WalletAssumption
  <2> QED
    BY <1>s, <2>1 DEF Settle, Moves
<1>1. ASSUME NEW p \in Requests, TopupStep(p) PROVE Goal
  <2>1. CASE ApproveCommit(p)
    BY <2>1, <1>h, <1>s DEF ApproveCommit, At, WellFormed
  <2> QED
    BY <1>1, <2>1 DEF TopupStep, CreateTopup, UploadCheck, ApproveCheck, UploadCommit,
        UploadRefused, ApproveRefused, rows
<1>2. ASSUME NEW p \in Requests, VerifyStep(p) PROVE Goal
  <2>1. CASE VerdictApproves(p)
    BY <2>1, <1>h, <1>s DEF VerdictApproves, At, WellFormed
  <2> QED
    BY <1>2, <2>1 DEF VerifyStep, VerifyRequest, VerifyRead, ProviderAnswer, VerdictSkipped,
        VerdictForReview, VerdictFails, RecordFailure, rows
<1>3. ASSUME NEW p \in Requests, SpendStep(p) PROVE Goal
  <2>1. CASE BuyCommit(p)
    <3> DEFINE u == req[p].user
               e == req[p].subject
    <3>1. u \in Users /\ e \in Episodes
      BY <2>1, <1>h DEF BuyCommit, At, WellFormed
    <3>2. Cost[{e}] \in Int /\ -Cost[{e}] \in Int
      BY <3>1, WalletAssumption DEF WalletAssumption, Items
    <3>3. balance[u] \in Int /\ ledger[u] \in Int
      BY <3>1 DEF Shape, TypeOK, RowsType
    <3>4. Moves(u, -Cost[{e}])
      BY <2>1, <3>2, <3>3 DEF BuyCommit, Moves
    <3> QED
      BY <3>1, <3>2, <3>4
  <2>2. CASE CheckoutCommit(p)
    <3> DEFINE u == req[p].user
               S == cart[u]
    <3>1. u \in Users
      BY <2>2, <1>h DEF CheckoutCommit, At, WellFormed
    <3>2. Cost[S] \in Int /\ -Cost[S] \in Int
      BY <3>1, WalletAssumption DEF WalletAssumption, Items, Shape, TypeOK, RowsType
    <3>3. balance[u] \in Int /\ ledger[u] \in Int
      BY <3>1 DEF Shape, TypeOK, RowsType
    <3>4. req[p].seen = balance[u]
      BY <2>2 DEF CheckoutCommit, At, Locked, LockedReads
    <3>5. Moves(u, -Cost[S])
      BY <2>2, <3>2, <3>3, <3>4 DEF CheckoutCommit, Moves
    <3> QED
      BY <3>1, <3>2, <3>5
  <2> QED
    BY <1>3, <2>1, <2>2 DEF SpendStep, BuyCheck, BuyRefused, AddCheck, UpgradeBegin,
        AddToCart, CheckoutCheck, CheckoutBegin, CheckoutLockUser, CheckoutLockCart,
        CheckoutRefused, UpgradeLockUser, UpgradeCommit, UpgradeRefused, Locked, At, rows
<1>4. ASSUME NEW p \in Requests, AdminStep(p) PROVE Goal
  <2>1. CASE GiftCommit(p)
    <3>1. req[p].subject \in GiftKeys
      BY <2>1, <1>h DEF GiftCommit, At, WellFormed
    <3>2. GiftUser[req[p].subject] \in Users /\ GiftAmount[req[p].subject] \in Int
      BY <3>1, WalletAssumption DEF WalletAssumption
    <3> QED
      BY <2>1, <3>2 DEF GiftCommit, Moves
  <2> QED
    BY <1>4, <2>1 DEF AdminStep, GiftPreview, GiftRefused, AdjustBegin, AdjustCommit,
        RepairBegin, RepairCommit, Locked, At, rows
<1> QED
  BY <1>1, <1>2, <1>3, <1>4 DEF Next, SetAutoApprove, Reject, Crash, vars, rows

\* What a step does to a handler that is at, or comes to, a point where it
\* holds the users row.
LEMMA HolderEffect ==
  ASSUME Disciplined, Shape, Locked, [Next]_vars, NEW q \in Requests,
         req'[q].pc \in {"checkoutUser", "checkoutCart"}
  PROVE  \/ req'[q] = req[q] /\ userLock'[req[q].user] = q
         \/ CheckoutLockUser(q)
         \/ CheckoutLockCart(q)
<1> DEFINE Goal == (req'[q] = req[q] /\ userLock'[req[q].user] = q) \/ CheckoutLockUser(q) \/
    CheckoutLockCart(q)
<1>0. None \notin Requests
  BY WalletAssumption DEF WalletAssumption
<1>h. \A p \in Requests : req[p] \in Handlers /\ WellFormed(req[p])
  BY DEF Shape, TypeOK, HandlersWellFormed
<1>1. ASSUME NEW p \in Requests, NEW g, Become(p, g), g.pc \notin {"checkoutUser", "checkoutCart"}
      PROVE  p # q /\ req'[q] = req[q] /\ req[q].user \in Users /\ userLock[req[q].user] = q
  <2>1. p # q /\ req'[q] = req[q]
    BY <1>1 DEF Become, Shape, TypeOK
  <2> QED
    BY <2>1, <1>h DEF Locked, LockedReads, WellFormed
<1>2. ASSUME NEW p \in Requests, Finish(p), UNCHANGED userLock \/ Release(p) PROVE Goal
  <2>1. p # q /\ req'[q] = req[q] /\ req[q].user \in Users /\ userLock[req[q].user] = q
    BY <1>2, <1>1 DEF Finish, Blank
  <2> QED
    BY <1>2, <2>1 DEF Release
<1>3. ASSUME NEW p \in Requests, NEW g, Become(p, g), g.pc \notin {"checkoutUser",
    "checkoutCart"},
             UNCHANGED userLock
      PROVE  Goal
  BY <1>1, <1>3
<1>4. ASSUME NEW p \in Requests, TopupStep(p) PROVE Goal
  BY <1>4, <1>2, <1>3 DEF TopupStep, CreateTopup, UploadCheck, ApproveCheck, UploadCommit,
      UploadRefused, ApproveCommit, ApproveRefused, Blank, locks
<1>5. ASSUME NEW p \in Requests, VerifyStep(p) PROVE Goal
  BY <1>5, <1>2, <1>3, <1>h DEF VerifyStep, VerifyRequest, VerifyRead, ProviderAnswer,
      VerdictSkipped, VerdictForReview, VerdictApproves, VerdictFails, RecordFailure, Blank,
      locks, Handlers
<1>6. ASSUME NEW p \in Requests, SpendStep(p) PROVE Goal
  <2>1. CASE CheckoutLockUser(p)
    <3>1. CASE p = q
      BY <2>1, <3>1
    <3>2. CASE p # q
      <4>1. req'[q] = req[q]
        BY <2>1, <3>2 DEF CheckoutLockUser, Become, Shape, TypeOK
      <4>2. userLock[req[q].user] = q /\ req[q].user \in Users
        BY <4>1, <1>h DEF Locked, LockedReads, WellFormed
      <4>3. req[p].user # req[q].user
        BY <1>0, <2>1, <4>2 DEF CheckoutLockUser, Free
      <4> QED
        BY <2>1, <4>1, <4>2, <4>3 DEF CheckoutLockUser, Shape, TypeOK, LocksType
    <3> QED
      BY <3>1, <3>2
  <2>2. CASE CheckoutLockCart(p)
    <3>1. CASE p = q
      BY <2>2, <3>1
    <3>2. CASE p # q
      <4>1. req'[q] = req[q]
        BY <2>2, <3>2 DEF CheckoutLockCart, Become, Shape, TypeOK
      <4> QED
        BY <2>2, <4>1 DEF CheckoutLockCart, Locked, LockedReads
    <3> QED
      BY <3>1, <3>2
  <2>3. CASE UpgradeLockUser(p)
    BY <2>3 DEF UpgradeLockUser, Locked, At
  <2>4. CASE ~CheckoutLockUser(p) /\ ~CheckoutLockCart(p) /\ ~UpgradeLockUser(p)
    BY <1>6, <2>4, <1>2, <1>3, <1>h DEF SpendStep, BuyCheck, BuyCommit, BuyRefused,
        AddCheck, UpgradeBegin, AddToCart, CheckoutCheck, CheckoutBegin, CheckoutCommit,
        CheckoutRefused, UpgradeCommit, UpgradeRefused, Blank, locks, Handlers
  <2> QED
    BY <2>1, <2>2, <2>3, <2>4
<1>7. ASSUME NEW p \in Requests, AdminStep(p) PROVE Goal
  BY <1>7, <1>2, <1>3 DEF AdminStep, GiftPreview, GiftCommit, GiftRefused, AdjustBegin,
      AdjustCommit, RepairBegin, RepairCommit, Blank, locks
<1>8. ASSUME NEW p \in Requests, Crash(p) PROVE Goal
  BY <1>8, <1>2 DEF Crash
<1>9. CASE UNCHANGED <<req, userLock>>
  BY <1>9 DEF Locked, LockedReads
<1> QED
  BY <1>4, <1>5, <1>6, <1>7, <1>8, <1>9 DEF Next, SetAutoApprove, Reject, vars, locks

LEMMA LockedStep ==
  ASSUME Disciplined, Shape, Locked, [Next]_vars
  PROVE  Locked'
<1>0. None \notin Requests
  BY WalletAssumption DEF WalletAssumption
<1>1. ASSUME NEW q \in Requests, req'[q].pc \in {"checkoutUser", "checkoutCart"}
      PROVE  userLock'[req'[q].user] = q /\ (req'[q].pc = "checkoutCart" => req'[q].seen =
      balance'[req'[q].user])
  <2>h. req[q] \in Handlers /\ WellFormed(req[q])
    BY DEF Shape, TypeOK, HandlersWellFormed
  <2>1. CASE req'[q] = req[q] /\ userLock'[req[q].user] = q
    <3>1. req[q].user \in Users /\ userLock[req[q].user] = q
      BY <1>1, <2>1, <2>h DEF WellFormed, Locked, LockedReads
    <3>2. ASSUME NEW d \in Int, Moves(req[q].user, d) PROVE FALSE
      <4>1. ~Free(req[q].user)
        BY <1>0, <3>1 DEF Free
      <4>2. PICK p \in Requests : CheckoutCommit(p) /\ req[p].user = req[q].user
        BY <3>2, <4>1 DEF Moves
      <4>3. p = q
        BY <3>1, <4>2 DEF CheckoutCommit, At, Locked, LockedReads
      <4> QED
        BY <1>1, <4>2, <4>3 DEF CheckoutCommit, Finish, Become, Blank, Shape, TypeOK
    <3>3. balance'[req[q].user] = balance[req[q].user]
      BY <3>1, <3>2, MoneyEffect DEF Moves, Shape, TypeOK, RowsType
    <3> QED
      BY <1>1, <2>1, <3>3 DEF Locked, LockedReads
  <2>2. CASE CheckoutLockUser(q)
    <3>1. req[q].user \in Users
      BY <2>2, <2>h DEF CheckoutLockUser, At, WellFormed
    <3>2. req'[q].pc = "checkoutUser" /\ req'[q].user = req[q].user
      BY <2>2, <2>h DEF CheckoutLockUser, Become, Shape, TypeOK, Handlers
    <3> QED
      BY <2>2, <3>1, <3>2 DEF CheckoutLockUser, Shape, TypeOK, LocksType
  <2>3. CASE CheckoutLockCart(q)
    <3>1. req'[q].user = req[q].user /\ req'[q].seen = balance[req[q].user]
      BY <2>3, <2>h DEF CheckoutLockCart, Become, Disciplined, Shape, TypeOK, Handlers
    <3> QED
      BY <2>3, <3>1 DEF CheckoutLockCart, At, Locked, LockedReads, rows
  <2> QED
    BY <1>1, <2>1, <2>2, <2>3, HolderEffect
<1> QED
  BY <1>1, LockedPhases DEF Locked, LockedReads

LEMMA AlwaysLocked == ASSUME Disciplined PROVE Spec => [](Shape /\ Settled /\ Locked)
<1>1. Init => Locked
  BY DEF Init, Locked, LockedReads, Blank
<1>2. Shape /\ Locked /\ [Next]_vars => Locked'
  BY LockedStep
<1> QED
  BY <1>1, <1>2, AlwaysSettled, PTL DEF Spec

\* A checkout never writes a balance that went stale while it waited.
THEOREM LockedReadsAlways == ASSUME Disciplined PROVE Spec => []LockedReads
<1>1. Locked => LockedReads
  BY DEF Locked
<1> QED
  BY <1>1, AlwaysLocked, PTL

\* No update is lost: the balance is the sum of the ledger, as long as every
\* writer takes the users row before it reads the balance it will write.
THEOREM BalanceIsLedgerAlways == ASSUME Disciplined PROVE Spec => []BalanceIsLedger
<1>1. Init => BalanceIsLedger
  BY DEF Init, BalanceIsLedger
<1>2. Shape /\ Locked /\ BalanceIsLedger /\ [Next]_vars => BalanceIsLedger'
  BY MoneyEffect DEF Moves, BalanceIsLedger
<1> QED
  BY <1>1, <1>2, AlwaysLocked, PTL DEF Spec

-----------------------------------------------------------------------------
(* The wallet implements WalletLedger, under the lock discipline.          *)

LEMMA SettleRefines ==
  ASSUME Shape, Settled, NEW t \in Topups, NEW r, NEW src, MaySettle(t, r), Settle(t, r, src)
  PROVE  Ledger!CreditTopup(t)
<1>1. t \notin Legacy /\ credits[t] = 0
  BY DEF Settled, CreditedOnce, MaySettle, Pending
<1>2. credits' = [credits EXCEPT ![t] = 1]
  BY <1>1 DEF Settle, Shape, TypeOK, RowsType
<1>3. {o \in Topups : credits'[o] > 0} = {o \in Topups : credits[o] > 0} \cup {t}
  BY <1>2 DEF Shape, TypeOK, RowsType
<1> QED
  BY <1>1, <1>3 DEF Ledger!CreditTopup, Settle

LEMMA BuyRefines ==
  ASSUME Shape, NEW p \in Requests, BuyCommit(p)
  PROVE  Ledger!Next
<1> DEFINE u == req[p].user
           S == {req[p].subject}
<1>1. u \in Users /\ S \in SUBSET Items
  BY DEF Shape, HandlersWellFormed, BuyCommit, At, WellFormed, Items
<1>2. Ledger!Spend(u, S)
  BY <1>1 DEF BuyCommit, MayBuy, Grant, Shape, TypeOK, RowsType, Ledger!Spend
<1> QED
  BY <1>1, <1>2 DEF Ledger!Next

LEMMA CheckoutRefines ==
  ASSUME Shape, Locked, NEW p \in Requests, CheckoutCommit(p)
  PROVE  Ledger!Next
<1> DEFINE u == req[p].user
           S == cart[u]
<1>1. u \in Users /\ req[p].seen = balance[u]
  BY DEF Shape, HandlersWellFormed, CheckoutCommit, At, WellFormed, Locked, LockedReads
<1>2. S \in SUBSET Items
  BY <1>1 DEF Shape, TypeOK, RowsType, Items
<1>3. Ledger!Spend(u, S)
  BY <1>1, <1>2 DEF CheckoutCommit, MayCheckout, Grant, Shape, TypeOK, RowsType, Ledger!Spend
<1> QED
  BY <1>1, <1>2, <1>3 DEF Ledger!Next

LEMMA GiftRefines ==
  ASSUME Shape, NEW p \in Requests, GiftCommit(p)
  PROVE  Ledger!Next
<1>1. PICK key \in GiftKeys : key = req[p].subject
  BY DEF Shape, HandlersWellFormed, GiftCommit, At, WellFormed
<1>2. gifts[key] = 0 /\ gifts' = [gifts EXCEPT ![key] = 1]
  BY <1>1 DEF GiftCommit, MayGift, Shape, TypeOK, RowsType
<1>3. {g \in GiftKeys : gifts'[g] > 0} = {g \in GiftKeys : gifts[g] > 0} \cup {key}
  BY <1>1, <1>2 DEF Shape, TypeOK, RowsType
<1>5. /\ balance[GiftUser[key]] + GiftAmount[key] >= 0
      /\ balance' = [balance EXCEPT ![GiftUser[key]] = @ + GiftAmount[key]]
      /\ UNCHANGED <<credits, owned>>
  BY <1>1 DEF GiftCommit, MayGift
<1>4. Ledger!Give(key)
  BY <1>1, <1>2, <1>3, <1>5 DEF Ledger!Give
<1> QED
  BY <1>4 DEF Ledger!Next

LEMMA StepRefines ==
  ASSUME Disciplined, Shape, Settled, Locked, [Next]_vars
  PROVE  [Ledger!Next]_(Ledger!ledgerVars)
<1> DEFINE Same == UNCHANGED <<balance, credits, owned, gifts>>
<1>h. \A p \in Requests : req[p] \in Handlers /\ WellFormed(req[p])
  BY DEF Shape, TypeOK, HandlersWellFormed
<1>s. ASSUME Same PROVE UNCHANGED Ledger!ledgerVars
  BY <1>s DEF Ledger!ledgerVars
<1>1. ASSUME NEW p \in Requests, TopupStep(p) PROVE Ledger!Next \/ Same
  <2>1. CASE ApproveCommit(p)
    BY <2>1, <1>h, SettleRefines DEF ApproveCommit, At, WellFormed, Ledger!Next
  <2> QED
    BY <1>1, <2>1 DEF TopupStep, CreateTopup, UploadCheck, ApproveCheck, UploadCommit,
        UploadRefused, ApproveRefused, rows
<1>2. ASSUME NEW p \in Requests, VerifyStep(p) PROVE Ledger!Next \/ Same
  <2>1. CASE VerdictApproves(p)
    BY <2>1, <1>h, SettleRefines DEF VerdictApproves, At, WellFormed, Ledger!Next
  <2> QED
    BY <1>2, <2>1 DEF VerifyStep, VerifyRequest, VerifyRead, ProviderAnswer, VerdictSkipped,
        VerdictForReview, VerdictFails, RecordFailure, rows
<1>3. ASSUME NEW p \in Requests, SpendStep(p) PROVE Ledger!Next \/ Same
  <2>1. CASE BuyCommit(p) \/ CheckoutCommit(p)
    BY <2>1, BuyRefines, CheckoutRefines
  <2> QED
    BY <1>3, <2>1 DEF SpendStep, BuyCheck, BuyRefused, AddCheck, UpgradeBegin,
        AddToCart, CheckoutCheck, CheckoutBegin, CheckoutLockUser, CheckoutLockCart,
        CheckoutRefused, UpgradeLockUser, UpgradeCommit, UpgradeRefused, Locked, At, rows
<1>4. ASSUME NEW p \in Requests, AdminStep(p) PROVE Ledger!Next \/ Same
  <2>1. CASE GiftCommit(p)
    BY <2>1, GiftRefines
  <2> QED
    BY <1>4, <2>1 DEF AdminStep, GiftPreview, GiftRefused, AdjustBegin, AdjustCommit,
        RepairBegin, RepairCommit, Locked, At, rows
<1>5. ASSUME SetAutoApprove \/ (\E t \in Topups : Reject(t)) \/ (\E p \in Requests : Crash(p))
    \/ UNCHANGED vars
      PROVE Same
  BY <1>5 DEF SetAutoApprove, Reject, Crash, vars, rows
<1>6. Ledger!Next \/ Same
  BY <1>1, <1>2, <1>3, <1>4, <1>5 DEF Next
<1> QED
  BY <1>s, <1>6

\* Every behaviour of the wallet's transactions is a behaviour of the ledger
\* of whole movements.
THEOREM WalletImplementsLedger == ASSUME Disciplined PROVE Spec => ImplementsLedger
<1>1. Init => Ledger!Init
  BY WalletAssumption DEF WalletAssumption, Init, Ledger!Init
<1>2. Shape /\ Settled /\ Locked /\ [Next]_vars => [Ledger!Next]_(Ledger!ledgerVars)
  BY StepRefines
<1> QED
  BY <1>1, <1>2, AlwaysLocked, PTL DEF Spec, ImplementsLedger, Ledger!Spec
=============================================================================
