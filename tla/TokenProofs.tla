---------------------------- MODULE TokenProofs ----------------------------
(***************************************************************************)
(* Proofs about PluginTokens, for every set of consents, pairs and         *)
(* requests. The inductive invariant Inv is built in layers:               *)
(*                                                                         *)
(*   Shape          types, and every handler has the row it works on;      *)
(*   NewRows        a row that does not exist yet belongs to nobody;       *)
(*   FirstPairs     a pair issued for a consent is of its family;          *)
(*   RowLocked      the row lock of the presented refresh token;           *)
(*   DecidedOnce    a consent is decided once,                             *)
(*   ExchangedOnce  its code is exchanged once,                            *)
(*   OneUsable      so its family is one chain with one usable token,      *)
(*   FamiliesOver   and a family that ended never gets another one;        *)
(*   AccessOverToo  nor an access token, where the database's gap locks    *)
(*                  keep inserts out of a scanned range.                   *)
(*                                                                         *)
(* Each layer is preserved given the layers before it, by one lemma with   *)
(* one step per action of Next.                                            *)
(***************************************************************************)
EXTENDS PluginTokens, TLAPS

-----------------------------------------------------------------------------
(* The parts of the invariant. *)
Deciding(q) == At(q, "decide")
Exchanging(q) == req[q].pc \in {"claimed", "half"}
\* A refresh token that no rotation or revocation has consumed.
Usable(p) == refresh[p] \in {"live", "expired"}

\* A handler has what its phase works on: a consent, a token, a new pair.
WellFormed(h) ==
  /\ h.pc \in {"decide", "claimed", "half"} => h.consent \in Consents
  /\ h.pc \in {"locked", "inserted", "rotatedAgain", "accessKilled", "find", "accessDone"}
       => h.old \in Pairs /\ refresh[h.old] # "none"
  /\ h.pc \in {"half", "inserted"} => h.new \in Pairs

\* A token that exists belongs to a consent.
Rooted ==
  /\ \A p \in Pairs : refresh[p] # "none" => origin[p] \in Consents
  /\ \A q \in Requests :
       At(q, "half") => access[req[q].new] # "none" /\ origin[req[q].new] \in Consents

Shape == TypeOK /\ Rooted /\ \A q \in Requests : WellFormed(req[q])

\* Rows that do not exist, rows presented, rows of one's own.
NewRows ==
  /\ \A p \in Pairs : access[p] = "none" => origin[p] = None /\ parent[p] = None
  /\ \A q \in Requests :
       /\ At(q, "inserted") => access[req[q].new] = "none"
       /\ At(q, "half") => refresh[req[q].new] = "none"
  /\ \A q, r \in Requests : q # r /\ req[q].new \in Pairs => req[q].new # req[r].new
FirstPairs == \A p \in Pairs : parent[p] \in Consents => origin[p] = parent[p]

\* A rotation holds the row of a usable token, and nobody else's row.
RowLocked ==
  /\ \A q \in Requests : Rotating(q) => Usable(req[q].old)
  /\ \A q, r \in Requests :
       q # r /\ Rotating(q) /\ (Rotating(r) \/ Detecting(r)) => req[q].old # req[r].old

\* A consent is decided by one handler, before its code exists.
DecidedOnce ==
  /\ \A c \in Consents : attempt[c] = "open" => code[c].minted = 0
  /\ \A q \in Requests :
       Deciding(q) => attempt[req[q].consent] = "consumed" /\ code[req[q].consent].minted = 0
  /\ \A q, r \in Requests :
       q # r /\ Deciding(q) /\ Deciding(r) => req[q].consent # req[r].consent
  /\ \A c \in Consents : code[c].minted <= 1 /\ code[c].spent <= code[c].minted

\* Its code is exchanged by one handler, which issues the first pair.
ExchangedOnce ==
  /\ \A c \in Consents : code[c].spent = 0 => Members(c) = {}
  /\ \A q \in Requests :
       /\ Exchanging(q) => code[req[q].consent].spent = 1
       /\ At(q, "claimed") => Members(req[q].consent) = {}
       /\ At(q, "half") => Members(req[q].consent) = {req[q].new}
  /\ \A q, r \in Requests :
       q # r /\ Exchanging(q) /\ Exchanging(r) => req[q].consent # req[r].consent

\* One usable refresh token per family.
OneUsable ==
  \A p, q \in Pairs : Usable(p) /\ Usable(q) /\ origin[p] = origin[q] => p = q

\* Families a reuse or a revocation ended.
Over == reused \cup revoked
FamiliesOver ==
  /\ \A c \in Over : NoneLive(c) /\ \E p \in Pairs : origin[p] = c /\ refresh[p] # "none"
  /\ \A q \in Requests : Rotating(q) => origin[req[q].old] \notin Over
AccessOverToo ==
  /\ \A c \in reused : Members(c) \cap LiveAccess = {}
  /\ \A q \in Requests : At(q, "accessKilled") =>
       /\ LiveAccess \subseteq req[q].hit
       /\ \A r \in Requests : ~At(r, "inserted")

\* The inductive invariant.
Inv ==
  /\ Shape /\ NewRows /\ FirstPairs /\ RowLocked /\ DecidedOnce /\ ExchangedOnce /\ OneUsable
  /\ OneGrantPerConsent /\ FamiliesOver /\ (GapLocks => AccessOverToo)

\* Shape, taken apart for the proof of its preservation.
Handlers == [pc: Phases, consent: Consents \cup {None}, old: Pairs \cup {None},
             new: Pairs \cup {None}, hit: SUBSET Pairs]
RowsTyped ==
  /\ attempt \in [Consents -> {"open", "consumed"}]
  /\ code \in [Consents -> [minted: Nat, spent: Nat]]
  /\ access \in [Pairs -> AccessStates] /\ refresh \in [Pairs -> RefreshStates]
  /\ origin \in [Pairs -> Consents \cup {None}]
  /\ parent \in [Pairs -> Consents \cup Pairs \cup {None}]
  /\ reused \subseteq Consents /\ revoked \subseteq Consents
  /\ \A p \in Pairs : refresh[p] # "none" => access[p] # "none"

\* What a row is good for stays.
RowsStay ==
  \A p \in Pairs :
    /\ access[p] # "none" => access'[p] # "none"
    /\ refresh[p] # "none" => refresh'[p] # "none"
    /\ origin[p] \in Consents => origin'[p] \in Consents

-----------------------------------------------------------------------------
(* One lemma per part. *)

(* What Shape says of the rows and of the handlers, without the rest of it. *)
LEMMA ShapeIs ==
  Shape => RowsTyped /\ Rooted /\ req \in [Requests -> Handlers]
  BY DEF Shape, TypeOK, RowsTyped, Handlers

\* One handler moves on.
Moves(r) ==
  /\ req' \in [Requests -> Handlers]
  /\ \A q \in Requests \ {r} : req'[q] = req[q]

(* A step in which one handler moves on, and in which rows keep what they are
   good for, keeps every other handler well formed: what a handler works on
   never goes away under it. *)
LEMMA MoveShape ==
  ASSUME Shape, NEW r \in Requests, Moves(r), WellFormed(req'[r]), RowsTyped', RowsStay, Rooted'
  PROVE  Shape'
<1>1. ASSUME NEW q \in Requests
      PROVE  WellFormed(req[q])'
  <2>1. CASE q = r
    BY <2>1 DEF RowsStay, WellFormed
  <2>2. CASE q # r
    BY <2>2 DEF Moves, Shape, RowsStay, WellFormed
  <2> QED
    BY <2>1, <2>2
<1> QED
  BY <1>1 DEF Moves, Shape, TypeOK, RowsTyped, Handlers

(* The rows stay typed and every handler keeps a row to work on. *)
LEMMA ShapeStep ==
  ASSUME Shape, [Next]_vars
  PROVE  Shape'
<1>1. ASSUME NEW r \in Requests, ConsentApprove(r) PROVE Shape'
  BY <1>1 DEF ConsentApprove, Shape, Rooted, TypeOK, WellFormed, Phases, AccessStates,
         RefreshStates, tokens, lineage, At, Become, Finish, Blank
<1>2. ASSUME NEW r \in Requests, ExchangeRefresh(r) PROVE Shape'
  BY <1>2 DEF ExchangeRefresh, Shape, Rooted, TypeOK, WellFormed, Phases, AccessStates,
         RefreshStates, lineage, At, Become, Finish, Blank
<1>3. ASSUME NEW r \in Requests, RotateCommit(r) PROVE Shape'
  <2>1. Moves(r) /\ WellFormed(req'[r])
    BY <1>3, ShapeIs DEF RotateCommit, Moves, Shape, WellFormed, Handlers, Phases, At, Become,
           Finish, GoTo, Blank
  <2>2. RowsTyped' /\ RowsStay /\ Rooted'
    BY <1>3, ShapeIs DEF RotateCommit, RowsTyped, Rooted, AccessStates, RefreshStates, RowsStay,
           tokens, lineage, Shape, WellFormed, At, Become, Finish, GoTo, Blank
  <2> QED
    BY <2>1, <2>2, MoveShape
<1>4. ASSUME NEW r \in Requests, ReuseAccess(r) PROVE Shape'
  <2>1. Moves(r) /\ WellFormed(req'[r])
    BY <1>4, ShapeIs DEF ReuseAccess, Moves, Shape, WellFormed, Handlers, Phases, At, Become,
           Finish, GoTo, Blank, LiveAccess
  <2>2. RowsTyped' /\ RowsStay /\ Rooted'
    BY <1>4, ShapeIs DEF ReuseAccess, RowsTyped, Rooted, AccessStates, RefreshStates, RowsStay,
           tokens, lineage, Shape, WellFormed, At, Become, Finish, GoTo, Blank
  <2> QED
    BY <2>1, <2>2, MoveShape
<1>5. ASSUME NEW r \in Requests, ReuseCommit(r) PROVE Shape'
  <2>1. Moves(r) /\ WellFormed(req'[r])
    BY <1>5, ShapeIs DEF ReuseCommit, Moves, Shape, WellFormed, Handlers, Phases, At, Become,
           Finish, GoTo, Blank
  <2>2. RowsTyped' /\ RowsStay /\ Rooted'
    BY <1>5, ShapeIs DEF ReuseCommit, RowsTyped, Rooted, AccessStates, RefreshStates, RowsStay,
           tokens, lineage, Shape, WellFormed, At, Become, Finish, GoTo, Blank, KillAccess,
           KillRefresh, LiveAccess
  <2> QED
    BY <2>1, <2>2, MoveShape
<1>6. ASSUME NEW r \in Requests, RevokeAccess(r) PROVE Shape'
  <2>1. Moves(r) /\ WellFormed(req'[r])
    BY <1>6, ShapeIs DEF RevokeAccess, Moves, Shape, WellFormed, Handlers, Phases, At, Become,
           Finish, GoTo, Blank
  <2>2. RowsTyped' /\ RowsStay /\ Rooted'
    BY <1>6, ShapeIs DEF RevokeAccess, RowsTyped, Rooted, AccessStates, RefreshStates, RowsStay,
           tokens, lineage, Shape, WellFormed, At, Become, Finish, GoTo, Blank, KillAccess,
           KillRefresh, LiveAccess
  <2> QED
    BY <2>1, <2>2, MoveShape
<1>7. ASSUME NEW r \in Requests, RevokeRefresh(r) PROVE Shape'
  <2>1. Moves(r) /\ WellFormed(req'[r])
    BY <1>7, ShapeIs DEF RevokeRefresh, Moves, Shape, WellFormed, Handlers, Phases, At, Become,
           Finish, GoTo, Blank
  <2>2. RowsTyped' /\ RowsStay /\ Rooted'
    BY <1>7, ShapeIs DEF RevokeRefresh, RowsTyped, Rooted, AccessStates, RefreshStates,
           RowsStay, tokens, lineage, Shape, WellFormed, At, Become, Finish, GoTo, Blank,
           KillAccess, KillRefresh, LiveAccess
  <2> QED
    BY <2>1, <2>2, MoveShape
<1>8. ASSUME NEW r \in Requests, Fail(r) PROVE Shape'
  BY <1>8 DEF Fail, Shape, Rooted, TypeOK, WellFormed, Phases, AccessStates, RefreshStates,
         tokens, lineage, At, Become, Finish, Blank
<1>9. ASSUME NEW r \in Requests, NEW c \in Consents, ConsentClaim(r, c) PROVE Shape'
  BY <1>9, TokensAssumption DEF ConsentClaim, Shape, Rooted, TypeOK, WellFormed, Phases,
         AccessStates, RefreshStates, tokens, lineage, At, Become, Finish, GoTo, Blank,
         KillAccess, KillRefresh, LiveAccess
<1>10. ASSUME NEW r \in Requests, NEW c \in Consents, ExchangeClaim(r, c) PROVE Shape'
  <2>1. Moves(r) /\ WellFormed(req'[r])
    BY <1>10, ShapeIs DEF ExchangeClaim, Moves, Shape, WellFormed, Handlers, Phases, At, Become,
           Finish, GoTo, Blank
  <2>2. RowsTyped' /\ RowsStay /\ Rooted'
    BY <1>10, ShapeIs DEF ExchangeClaim, RowsTyped, Rooted, AccessStates, RefreshStates,
           RowsStay, tokens, lineage, Shape, WellFormed, At, Become, Finish, GoTo, Blank
  <2> QED
    BY <2>1, <2>2, MoveShape
<1>11. ASSUME NEW r \in Requests, NEW p \in Pairs, ExchangeAccess(r, p) PROVE Shape'
  <2>1. Moves(r) /\ WellFormed(req'[r])
    BY <1>11, ShapeIs DEF ExchangeAccess, Moves, Shape, WellFormed, Handlers, Phases, At,
           Become, Finish, GoTo, Blank
  <2>2. RowsTyped' /\ RowsStay /\ Rooted'
    BY <1>11, ShapeIs DEF ExchangeAccess, RowsTyped, Rooted, AccessStates, RefreshStates,
           RowsStay, tokens, lineage, Shape, WellFormed, At, Become, Finish, GoTo, Blank
  <2> QED
    BY <2>1, <2>2, MoveShape
<1>12. ASSUME NEW r \in Requests, NEW p \in Pairs, RefreshLock(r, p) PROVE Shape'
  BY <1>12, TokensAssumption DEF RefreshLock, Shape, Rooted, TypeOK, WellFormed, Phases,
         AccessStates, RefreshStates, tokens, lineage, At, Become, Finish, GoTo, Blank,
         KillAccess, KillRefresh, LiveAccess
<1>13. ASSUME NEW r \in Requests, NEW p \in Pairs, RotateInsert(r, p) PROVE Shape'
  <2>1. Moves(r) /\ WellFormed(req'[r])
    BY <1>13, ShapeIs DEF RotateInsert, Moves, Shape, WellFormed, Handlers, Phases, At, Become,
           Finish, GoTo, Blank
  <2>2. RowsTyped' /\ RowsStay /\ Rooted'
    BY <1>13, ShapeIs DEF RotateInsert, RowsTyped, Rooted, AccessStates, RefreshStates,
           RowsStay, tokens, lineage, Shape, WellFormed, At, Become, Finish, GoTo, Blank
  <2> QED
    BY <2>1, <2>2, MoveShape
<1>14. ASSUME NEW r \in Requests, NEW p \in Pairs, RevokeFind(r, p) PROVE Shape'
  BY <1>14, TokensAssumption DEF RevokeFind, Shape, Rooted, TypeOK, WellFormed, Phases,
         AccessStates, RefreshStates, tokens, lineage, At, Become, Finish, GoTo, Blank,
         KillAccess, KillRefresh, LiveAccess
<1>15. ASSUME NEW p \in Pairs, AccessOver(p) PROVE Shape'
  BY <1>15 DEF AccessOver, Shape, Rooted, TypeOK, WellFormed, Phases, AccessStates,
         RefreshStates, lineage, At, KillAccess, LiveAccess
<1>16. ASSUME NEW p \in Pairs, Expire(p) PROVE Shape'
  BY <1>16 DEF Expire, Shape, Rooted, TypeOK, WellFormed, Phases, AccessStates, RefreshStates,
         lineage, At
<1>17. ASSUME NEW p \in Pairs, Sweep(p) PROVE Shape'
  BY <1>17 DEF Sweep, Shape, Rooted, TypeOK, WellFormed, Phases, AccessStates, RefreshStates,
         lineage, At
<1>18. CASE UNCHANGED vars
  BY <1>18 DEF vars, tokens, lineage, Shape, Rooted, TypeOK, WellFormed, Phases, AccessStates,
         RefreshStates, At
<1> QED
  BY <1>1, <1>2, <1>3, <1>4, <1>5, <1>6, <1>7, <1>8, <1>9, <1>10, <1>11, <1>12, <1>13, <1>14,
     <1>15, <1>16, <1>17, <1>18
     DEF Next

(* A row that does not exist belongs to nobody, and two handlers never insert
   the same one. *)
LEMMA NewRowsStep ==
  ASSUME Shape, NewRows, [Next]_vars
  PROVE  NewRows'
<1>1. ASSUME NEW r \in Requests, ConsentApprove(r) PROVE NewRows'
  BY <1>1, TokensAssumption DEF ConsentApprove, NewRows, tokens, lineage, At, Become, Finish,
         Blank
<1>2. ASSUME NEW r \in Requests, ExchangeRefresh(r) PROVE NewRows'
  BY <1>2, TokensAssumption DEF ExchangeRefresh, NewRows, Shape, TypeOK, lineage, At, Become,
         Finish, Blank
<1>3. ASSUME NEW r \in Requests, RotateCommit(r) PROVE NewRows'
  BY <1>3, TokensAssumption DEF RotateCommit, NewRows, Shape, TypeOK, WellFormed, At, Become,
         Finish, Blank
<1>4. ASSUME NEW r \in Requests, ReuseAccess(r) PROVE NewRows'
  BY <1>4 DEF ReuseAccess, NewRows, tokens, lineage, At, Become, LiveAccess
<1>5. ASSUME NEW r \in Requests, ReuseCommit(r) PROVE NewRows'
  BY <1>5, TokensAssumption DEF ReuseCommit, NewRows, Shape, WellFormed, lineage, At, Become,
         Finish, Blank, KillAccess, KillRefresh, LiveAccess
<1>6. ASSUME NEW r \in Requests, RevokeAccess(r) PROVE NewRows'
  BY <1>6 DEF RevokeAccess, NewRows, Shape, WellFormed, lineage, At, Become, GoTo, KillAccess,
         LiveAccess
<1>7. ASSUME NEW r \in Requests, RevokeRefresh(r) PROVE NewRows'
  BY <1>7, TokensAssumption DEF RevokeRefresh, NewRows, Shape, WellFormed, lineage, At, Become,
         Finish, Blank, KillRefresh
<1>8. ASSUME NEW r \in Requests, Fail(r) PROVE NewRows'
  BY <1>8, TokensAssumption DEF Fail, NewRows, tokens, lineage, At, Become, Finish, Blank
<1>9. ASSUME NEW r \in Requests, NEW c \in Consents, ConsentClaim(r, c) PROVE NewRows'
  BY <1>9, TokensAssumption DEF ConsentClaim, NewRows, tokens, lineage, At, Become, Finish, Blank
<1>10. ASSUME NEW r \in Requests, NEW c \in Consents, ExchangeClaim(r, c) PROVE NewRows'
  BY <1>10, TokensAssumption DEF ExchangeClaim, NewRows, tokens, lineage, At, Become, Blank
<1>11. ASSUME NEW r \in Requests, NEW p \in Pairs, ExchangeAccess(r, p) PROVE NewRows'
  BY <1>11 DEF ExchangeAccess, NewRows, Shape, TypeOK, At, Become, Unused
<1>12. ASSUME NEW r \in Requests, NEW p \in Pairs, RefreshLock(r, p) PROVE NewRows'
  BY <1>12, TokensAssumption DEF RefreshLock, NewRows, tokens, lineage, At, Become, Blank
<1>13. ASSUME NEW r \in Requests, NEW p \in Pairs, RotateInsert(r, p) PROVE NewRows'
  BY <1>13 DEF RotateInsert, NewRows, tokens, lineage, At, Become, Unused
<1>14. ASSUME NEW r \in Requests, NEW p \in Pairs, RevokeFind(r, p) PROVE NewRows'
  BY <1>14, TokensAssumption DEF RevokeFind, NewRows, tokens, lineage, At, Become, Blank
<1>15. ASSUME NEW p \in Pairs, AccessOver(p) PROVE NewRows'
  BY <1>15 DEF AccessOver, NewRows, Shape, WellFormed, lineage, At, KillAccess, LiveAccess
<1>16. ASSUME NEW p \in Pairs, Expire(p) PROVE NewRows'
  BY <1>16 DEF Expire, NewRows, lineage, At
<1>17. ASSUME NEW p \in Pairs, Sweep(p) PROVE NewRows'
  BY <1>17 DEF Sweep, NewRows, lineage, At
<1>18. CASE UNCHANGED vars
  BY <1>18 DEF vars, tokens, lineage, NewRows, At
<1> QED
  BY <1>1, <1>2, <1>3, <1>4, <1>5, <1>6, <1>7, <1>8, <1>9, <1>10, <1>11, <1>12, <1>13, <1>14,
     <1>15, <1>16, <1>17, <1>18
     DEF Next

(* A pair issued for a consent, not for another pair, is of that consent's
   family. *)
LEMMA FirstPairsStep ==
  ASSUME Shape, NewRows, FirstPairs, [Next]_vars
  PROVE  FirstPairs'
<1>1. ASSUME NEW r \in Requests, ConsentApprove(r) PROVE FirstPairs'
  BY <1>1 DEF ConsentApprove, FirstPairs, tokens, lineage, At, Become, Finish, Blank
<1>2. ASSUME NEW r \in Requests, ExchangeRefresh(r) PROVE FirstPairs'
  BY <1>2 DEF ExchangeRefresh, FirstPairs, lineage, At, Become, Finish, Blank
<1>3. ASSUME NEW r \in Requests, RotateCommit(r) PROVE FirstPairs'
  BY <1>3, TokensAssumption DEF RotateCommit, FirstPairs, Shape, WellFormed, NewRows, At,
         Become, Finish, Blank
<1>4. ASSUME NEW r \in Requests, ReuseAccess(r) PROVE FirstPairs'
  BY <1>4 DEF ReuseAccess, FirstPairs, tokens, lineage, At, Become
<1>5. ASSUME NEW r \in Requests, ReuseCommit(r) PROVE FirstPairs'
  BY <1>5 DEF ReuseCommit, FirstPairs, lineage, At, Become, Finish, Blank
<1>6. ASSUME NEW r \in Requests, RevokeAccess(r) PROVE FirstPairs'
  BY <1>6 DEF RevokeAccess, FirstPairs, lineage, At, Become, GoTo
<1>7. ASSUME NEW r \in Requests, RevokeRefresh(r) PROVE FirstPairs'
  BY <1>7 DEF RevokeRefresh, FirstPairs, lineage, At, Become, Finish, Blank
<1>8. ASSUME NEW r \in Requests, Fail(r) PROVE FirstPairs'
  BY <1>8 DEF Fail, FirstPairs, tokens, lineage, At, Become, Finish, Blank
<1>9. ASSUME NEW r \in Requests, NEW c \in Consents, ConsentClaim(r, c) PROVE FirstPairs'
  BY <1>9 DEF ConsentClaim, FirstPairs, tokens, lineage, At, Become, Finish, Blank
<1>10. ASSUME NEW r \in Requests, NEW c \in Consents, ExchangeClaim(r, c) PROVE FirstPairs'
  BY <1>10 DEF ExchangeClaim, FirstPairs, tokens, lineage, At, Become, Blank
<1>11. ASSUME NEW r \in Requests, NEW p \in Pairs, ExchangeAccess(r, p) PROVE FirstPairs'
  BY <1>11 DEF ExchangeAccess, FirstPairs, Shape, TypeOK, At, Become, Unused
<1>12. ASSUME NEW r \in Requests, NEW p \in Pairs, RefreshLock(r, p) PROVE FirstPairs'
  BY <1>12 DEF RefreshLock, FirstPairs, tokens, lineage, At, Become, Blank
<1>13. ASSUME NEW r \in Requests, NEW p \in Pairs, RotateInsert(r, p) PROVE FirstPairs'
  BY <1>13 DEF RotateInsert, FirstPairs, tokens, lineage, At, Become, Unused
<1>14. ASSUME NEW r \in Requests, NEW p \in Pairs, RevokeFind(r, p) PROVE FirstPairs'
  BY <1>14 DEF RevokeFind, FirstPairs, tokens, lineage, At, Become, Blank
<1>15. ASSUME NEW p \in Pairs, AccessOver(p) PROVE FirstPairs'
  BY <1>15 DEF AccessOver, FirstPairs, lineage
<1>16. ASSUME NEW p \in Pairs, Expire(p) PROVE FirstPairs'
  BY <1>16 DEF Expire, FirstPairs, lineage
<1>17. ASSUME NEW p \in Pairs, Sweep(p) PROVE FirstPairs'
  BY <1>17 DEF Sweep, FirstPairs, lineage
<1>18. CASE UNCHANGED vars
  BY <1>18 DEF vars, tokens, lineage, FirstPairs
<1> QED
  BY <1>1, <1>2, <1>3, <1>4, <1>5, <1>6, <1>7, <1>8, <1>9, <1>10, <1>11, <1>12, <1>13, <1>14,
     <1>15, <1>16, <1>17, <1>18
     DEF Next

(* Two token requests never hold the same refresh row: SELECT ... FOR UPDATE
   keeps the second out until the first commits. *)
LEMMA RowLockedStep ==
  ASSUME Shape, RowLocked, [Next]_vars
  PROVE  RowLocked'
<1>1. ASSUME NEW r \in Requests, ConsentApprove(r) PROVE RowLocked'
  BY <1>1 DEF ConsentApprove, RowLocked, Rotating, Detecting, Usable, tokens, lineage, At,
         Become, Finish, Blank
<1>2. ASSUME NEW r \in Requests, ExchangeRefresh(r) PROVE RowLocked'
  BY <1>2 DEF ExchangeRefresh, RowLocked, Rotating, Detecting, Usable, lineage, At, Become,
         Finish, Blank
<1>3. ASSUME NEW r \in Requests, RotateCommit(r) PROVE RowLocked'
  BY <1>3 DEF RotateCommit, RowLocked, Shape, TypeOK, WellFormed, Rotating, Detecting, Usable,
         At, Become, Finish, Blank
<1>4. ASSUME NEW r \in Requests, ReuseAccess(r) PROVE RowLocked'
  BY <1>4 DEF ReuseAccess, RowLocked, Rotating, Detecting, Usable, tokens, lineage, At, Become
<1>5. ASSUME NEW r \in Requests, ReuseCommit(r) PROVE RowLocked'
  BY <1>5 DEF ReuseCommit, RowLocked, Rotating, Detecting, Usable, RefreshFree, lineage, At,
         Become, Finish, Blank, KillRefresh
<1>6. ASSUME NEW r \in Requests, RevokeAccess(r) PROVE RowLocked'
  BY <1>6 DEF RevokeAccess, RowLocked, Rotating, Detecting, Usable, lineage, At, Become, GoTo
<1>7. ASSUME NEW r \in Requests, RevokeRefresh(r) PROVE RowLocked'
  BY <1>7 DEF RevokeRefresh, RowLocked, Rotating, Detecting, Usable, RefreshFree, lineage, At,
         Become, Finish, Blank, KillRefresh
<1>8. ASSUME NEW r \in Requests, Fail(r) PROVE RowLocked'
  BY <1>8 DEF Fail, RowLocked, Rotating, Detecting, Usable, tokens, lineage, At, Become, Finish,
         Blank
<1>9. ASSUME NEW r \in Requests, NEW c \in Consents, ConsentClaim(r, c) PROVE RowLocked'
  BY <1>9 DEF ConsentClaim, RowLocked, Rotating, Detecting, Usable, tokens, lineage, At, Become,
         Finish, Blank
<1>10. ASSUME NEW r \in Requests, NEW c \in Consents, ExchangeClaim(r, c) PROVE RowLocked'
  BY <1>10 DEF ExchangeClaim, RowLocked, Rotating, Detecting, Usable, tokens, lineage, At,
         Become, Blank
<1>11. ASSUME NEW r \in Requests, NEW p \in Pairs, ExchangeAccess(r, p) PROVE RowLocked'
  BY <1>11 DEF ExchangeAccess, RowLocked, Rotating, Detecting, Usable, At, Become
<1>12. ASSUME NEW r \in Requests, NEW p \in Pairs, RefreshLock(r, p) PROVE RowLocked'
  BY <1>12 DEF RefreshLock, RowLocked, Rotating, Detecting, Usable, RowFree, tokens, lineage,
         At, Become, Blank
<1>13. ASSUME NEW r \in Requests, NEW p \in Pairs, RotateInsert(r, p) PROVE RowLocked'
  BY <1>13 DEF RotateInsert, RowLocked, Rotating, Detecting, Usable, tokens, lineage, At, Become
<1>14. ASSUME NEW r \in Requests, NEW p \in Pairs, RevokeFind(r, p) PROVE RowLocked'
  BY <1>14 DEF RevokeFind, RowLocked, Rotating, Detecting, Usable, tokens, lineage, At, Become,
         Blank
<1>15. ASSUME NEW p \in Pairs, AccessOver(p) PROVE RowLocked'
  BY <1>15 DEF AccessOver, RowLocked, Rotating, Detecting, Usable, lineage
<1>16. ASSUME NEW p \in Pairs, Expire(p) PROVE RowLocked'
  BY <1>16 DEF Expire, RowLocked, Rotating, Detecting, Usable, lineage
<1>17. ASSUME NEW p \in Pairs, Sweep(p) PROVE RowLocked'
  BY <1>17, TokensAssumption DEF Sweep, RowLocked, Rotating, Detecting, Usable, RowFree, lineage
<1>18. CASE UNCHANGED vars
  BY <1>18 DEF vars, tokens, lineage, RowLocked, Rotating, Detecting, Usable
<1> QED
  BY <1>1, <1>2, <1>3, <1>4, <1>5, <1>6, <1>7, <1>8, <1>9, <1>10, <1>11, <1>12, <1>13, <1>14,
     <1>15, <1>16, <1>17, <1>18
     DEF Next

(* A consent's code is minted at most once: the conditional update of the
   attempt lets one approval through. *)
LEMMA DecidedOnceStep ==
  ASSUME Shape, DecidedOnce, [Next]_vars
  PROVE  DecidedOnce'
<1>1. ASSUME NEW r \in Requests, ConsentApprove(r) PROVE DecidedOnce'
  BY <1>1 DEF ConsentApprove, DecidedOnce, Shape, TypeOK, Deciding, tokens, lineage, At, Become,
         Finish, Blank
<1>2. ASSUME NEW r \in Requests, ExchangeRefresh(r) PROVE DecidedOnce'
  BY <1>2 DEF ExchangeRefresh, DecidedOnce, Deciding, lineage, At, Become, Finish, Blank
<1>3. ASSUME NEW r \in Requests, RotateCommit(r) PROVE DecidedOnce'
  BY <1>3 DEF RotateCommit, DecidedOnce, Deciding, At, Become, Finish, Blank
<1>4. ASSUME NEW r \in Requests, ReuseAccess(r) PROVE DecidedOnce'
  BY <1>4 DEF ReuseAccess, DecidedOnce, Deciding, tokens, lineage, At, Become
<1>5. ASSUME NEW r \in Requests, ReuseCommit(r) PROVE DecidedOnce'
  BY <1>5 DEF ReuseCommit, DecidedOnce, Deciding, lineage, At, Become, Finish, Blank
<1>6. ASSUME NEW r \in Requests, RevokeAccess(r) PROVE DecidedOnce'
  BY <1>6 DEF RevokeAccess, DecidedOnce, Deciding, lineage, At, Become, GoTo
<1>7. ASSUME NEW r \in Requests, RevokeRefresh(r) PROVE DecidedOnce'
  BY <1>7 DEF RevokeRefresh, DecidedOnce, Deciding, lineage, At, Become, Finish, Blank
<1>8. ASSUME NEW r \in Requests, Fail(r) PROVE DecidedOnce'
  BY <1>8 DEF Fail, DecidedOnce, Deciding, tokens, lineage, At, Become, Finish, Blank
<1>9. ASSUME NEW r \in Requests, NEW c \in Consents, ConsentClaim(r, c) PROVE DecidedOnce'
  BY <1>9 DEF ConsentClaim, DecidedOnce, Shape, TypeOK, Deciding, tokens, lineage, At, Become,
         Finish, Blank
<1>10. ASSUME NEW r \in Requests, NEW c \in Consents, ExchangeClaim(r, c) PROVE DecidedOnce'
  BY <1>10 DEF ExchangeClaim, DecidedOnce, Shape, TypeOK, Deciding, tokens, lineage, At, Become,
         Blank
<1>11. ASSUME NEW r \in Requests, NEW p \in Pairs, ExchangeAccess(r, p) PROVE DecidedOnce'
  BY <1>11 DEF ExchangeAccess, DecidedOnce, Deciding, At, Become
<1>12. ASSUME NEW r \in Requests, NEW p \in Pairs, RefreshLock(r, p) PROVE DecidedOnce'
  BY <1>12 DEF RefreshLock, DecidedOnce, Deciding, tokens, lineage, At, Become, Blank
<1>13. ASSUME NEW r \in Requests, NEW p \in Pairs, RotateInsert(r, p) PROVE DecidedOnce'
  BY <1>13 DEF RotateInsert, DecidedOnce, Deciding, tokens, lineage, At, Become
<1>14. ASSUME NEW r \in Requests, NEW p \in Pairs, RevokeFind(r, p) PROVE DecidedOnce'
  BY <1>14 DEF RevokeFind, DecidedOnce, Deciding, tokens, lineage, At, Become, Blank
<1>15. ASSUME NEW p \in Pairs, AccessOver(p) PROVE DecidedOnce'
  BY <1>15 DEF AccessOver, DecidedOnce, Deciding, lineage, At
<1>16. ASSUME NEW p \in Pairs, Expire(p) PROVE DecidedOnce'
  BY <1>16 DEF Expire, DecidedOnce, Deciding, lineage, At
<1>17. ASSUME NEW p \in Pairs, Sweep(p) PROVE DecidedOnce'
  BY <1>17 DEF Sweep, DecidedOnce, Deciding, lineage, At
<1>18. CASE UNCHANGED vars
  BY <1>18 DEF vars, tokens, lineage, DecidedOnce, Deciding, At
<1> QED
  BY <1>1, <1>2, <1>3, <1>4, <1>5, <1>6, <1>7, <1>8, <1>9, <1>10, <1>11, <1>12, <1>13, <1>14,
     <1>15, <1>16, <1>17, <1>18
     DEF Next

(* A code is spent at most once, and until its pair is inserted the family it
   starts is empty. *)
LEMMA ExchangedOnceStep ==
  ASSUME Shape, NewRows, DecidedOnce, ExchangedOnce, [Next]_vars
  PROVE  ExchangedOnce'
<1>1. ASSUME NEW r \in Requests, ConsentApprove(r) PROVE ExchangedOnce'
  BY <1>1 DEF ConsentApprove, ExchangedOnce, Members, Exchanging, tokens, lineage, At, Become,
         Finish, Blank
<1>2. ASSUME NEW r \in Requests, ExchangeRefresh(r) PROVE ExchangedOnce'
  BY <1>2 DEF ExchangeRefresh, ExchangedOnce, Members, Exchanging, lineage, At, Become, Finish,
         Blank
<1>3. ASSUME NEW r \in Requests, RotateCommit(r) PROVE ExchangedOnce'
  BY <1>3 DEF RotateCommit, ExchangedOnce, NewRows, Shape, WellFormed, Members, Exchanging, At,
         Become, Finish, Blank
<1>4. ASSUME NEW r \in Requests, ReuseAccess(r) PROVE ExchangedOnce'
  BY <1>4 DEF ReuseAccess, ExchangedOnce, Members, Exchanging, tokens, lineage, At, Become
<1>5. ASSUME NEW r \in Requests, ReuseCommit(r) PROVE ExchangedOnce'
  BY <1>5 DEF ReuseCommit, ExchangedOnce, Members, Exchanging, lineage, At, Become, Finish, Blank
<1>6. ASSUME NEW r \in Requests, RevokeAccess(r) PROVE ExchangedOnce'
  BY <1>6 DEF RevokeAccess, ExchangedOnce, Members, Exchanging, lineage, At, Become, GoTo
<1>7. ASSUME NEW r \in Requests, RevokeRefresh(r) PROVE ExchangedOnce'
  BY <1>7 DEF RevokeRefresh, ExchangedOnce, Members, Exchanging, lineage, At, Become, Finish,
         Blank
<1>8. ASSUME NEW r \in Requests, Fail(r) PROVE ExchangedOnce'
  BY <1>8 DEF Fail, ExchangedOnce, Members, Exchanging, tokens, lineage, At, Become, Finish, Blank
<1>9. ASSUME NEW r \in Requests, NEW c \in Consents, ConsentClaim(r, c) PROVE ExchangedOnce'
  BY <1>9 DEF ConsentClaim, ExchangedOnce, Members, Exchanging, tokens, lineage, At, Become,
         Finish, Blank
<1>10. ASSUME NEW r \in Requests, NEW c \in Consents, ExchangeClaim(r, c) PROVE ExchangedOnce'
  <2>1. code[c].spent = 0 /\ code'[c].spent = 1 /\ \A d \in Consents \ {c} : code'[d] = code[d]
    <3>1. code[c].spent \in Nat /\ code[c].minted \in Nat
      BY DEF Shape, TypeOK
    <3>2. code[c].spent = 0
      BY <1>10, <3>1 DEF ExchangeClaim, DecidedOnce
    <3>3. code' = [code EXCEPT ![c].spent = 1]
      BY <1>10, <3>2 DEF ExchangeClaim
    <3> QED
      BY <3>2, <3>3 DEF Shape, TypeOK
  <2>2. /\ Members(c) = {} /\ Members(c)' = {}
        /\ \A q \in Requests : Exchanging(q) => req[q].consent # c
    BY <1>10, <2>1 DEF ExchangeClaim, ExchangedOnce, Members, lineage, Exchanging
  <2>3. /\ req'[r].pc = "claimed" /\ req'[r].consent = c
        /\ \A q \in Requests \ {r} : req'[q] = req[q]
    BY <1>10 DEF ExchangeClaim, Shape, TypeOK, Become, Blank
  <2>4. \A d \in Consents : code'[d].spent = 0 => Members(d)' = {}
    BY <1>10, <2>1 DEF ExchangeClaim, ExchangedOnce, Members, lineage
  <2>5. ASSUME NEW q \in Requests
        PROVE  /\ Exchanging(q)' => code'[req'[q].consent].spent = 1
               /\ At(q, "claimed")' => Members(req[q].consent)' = {}
               /\ At(q, "half")' => Members(req[q].consent)' = {req'[q].new}
    <3>1. CASE q = r
      BY <2>1, <2>2, <2>3, <3>1 DEF Exchanging, At
    <3>2. CASE q # r
      BY <1>10, <2>1, <2>2, <2>3, <3>2
         DEF ExchangeClaim, ExchangedOnce, Shape, WellFormed, Exchanging, Members, lineage, At
    <3> QED
      BY <3>1, <3>2
  <2>6. \A q, s \in Requests :
          q # s /\ Exchanging(q)' /\ Exchanging(s)' => req'[q].consent # req'[s].consent
    BY <2>2, <2>3 DEF ExchangedOnce, Exchanging
  <2> QED
    BY <2>4, <2>5, <2>6 DEF ExchangedOnce
<1>11. ASSUME NEW r \in Requests, NEW p \in Pairs, ExchangeAccess(r, p) PROVE ExchangedOnce'
  BY <1>11 DEF ExchangeAccess, ExchangedOnce, Shape, TypeOK, Members, Exchanging, Unused, At,
         Become
<1>12. ASSUME NEW r \in Requests, NEW p \in Pairs, RefreshLock(r, p) PROVE ExchangedOnce'
  BY <1>12 DEF RefreshLock, ExchangedOnce, Members, Exchanging, tokens, lineage, At, Become, Blank
<1>13. ASSUME NEW r \in Requests, NEW p \in Pairs, RotateInsert(r, p) PROVE ExchangedOnce'
  BY <1>13 DEF RotateInsert, ExchangedOnce, Members, Exchanging, Unused, tokens, lineage, At,
         Become
<1>14. ASSUME NEW r \in Requests, NEW p \in Pairs, RevokeFind(r, p) PROVE ExchangedOnce'
  BY <1>14 DEF RevokeFind, ExchangedOnce, Members, Exchanging, tokens, lineage, At, Become, Blank
<1>15. ASSUME NEW p \in Pairs, AccessOver(p) PROVE ExchangedOnce'
  BY <1>15 DEF AccessOver, ExchangedOnce, Members, Exchanging, lineage, At
<1>16. ASSUME NEW p \in Pairs, Expire(p) PROVE ExchangedOnce'
  BY <1>16 DEF Expire, ExchangedOnce, Members, Exchanging, lineage, At
<1>17. ASSUME NEW p \in Pairs, Sweep(p) PROVE ExchangedOnce'
  BY <1>17 DEF Sweep, ExchangedOnce, Members, Exchanging, lineage, At
<1>18. CASE UNCHANGED vars
  BY <1>18 DEF vars, tokens, lineage, ExchangedOnce, Members, Exchanging, At
<1> QED
  BY <1>1, <1>2, <1>3, <1>4, <1>5, <1>6, <1>7, <1>8, <1>9, <1>10, <1>11, <1>12, <1>13, <1>14,
     <1>15, <1>16, <1>17, <1>18
     DEF Next

(* A consent's family starts once. *)
LEMMA OneGrantStep ==
  ASSUME Shape, NewRows, FirstPairs, ExchangedOnce, OneGrantPerConsent, [Next]_vars
  PROVE  OneGrantPerConsent'
<1>1. ASSUME NEW r \in Requests, ConsentApprove(r) PROVE OneGrantPerConsent'
  BY <1>1 DEF ConsentApprove, OneGrantPerConsent, tokens, lineage, At, Become, Finish, Blank
<1>2. ASSUME NEW r \in Requests, ExchangeRefresh(r) PROVE OneGrantPerConsent'
  BY <1>2 DEF ExchangeRefresh, OneGrantPerConsent, lineage, At, Become, Finish, Blank
<1>3. ASSUME NEW r \in Requests, RotateCommit(r) PROVE OneGrantPerConsent'
  BY <1>3, TokensAssumption DEF RotateCommit, OneGrantPerConsent, Shape, WellFormed, At, Become,
         Finish, Blank
<1>4. ASSUME NEW r \in Requests, ReuseAccess(r) PROVE OneGrantPerConsent'
  BY <1>4 DEF ReuseAccess, OneGrantPerConsent, tokens, lineage, At, Become
<1>5. ASSUME NEW r \in Requests, ReuseCommit(r) PROVE OneGrantPerConsent'
  BY <1>5 DEF ReuseCommit, OneGrantPerConsent, lineage, At, Become, Finish, Blank
<1>6. ASSUME NEW r \in Requests, RevokeAccess(r) PROVE OneGrantPerConsent'
  BY <1>6 DEF RevokeAccess, OneGrantPerConsent, lineage, At, Become, GoTo
<1>7. ASSUME NEW r \in Requests, RevokeRefresh(r) PROVE OneGrantPerConsent'
  BY <1>7 DEF RevokeRefresh, OneGrantPerConsent, lineage, At, Become, Finish, Blank
<1>8. ASSUME NEW r \in Requests, Fail(r) PROVE OneGrantPerConsent'
  BY <1>8 DEF Fail, OneGrantPerConsent, tokens, lineage, At, Become, Finish, Blank
<1>9. ASSUME NEW r \in Requests, NEW c \in Consents, ConsentClaim(r, c) PROVE OneGrantPerConsent'
  BY <1>9 DEF ConsentClaim, OneGrantPerConsent, tokens, lineage, At, Become, Finish, Blank
<1>10. ASSUME NEW r \in Requests, NEW c \in Consents, ExchangeClaim(r, c) PROVE OneGrantPerConsent'
  BY <1>10 DEF ExchangeClaim, OneGrantPerConsent, tokens, lineage, At, Become, Blank
<1>11. ASSUME NEW r \in Requests, NEW p \in Pairs, ExchangeAccess(r, p) PROVE OneGrantPerConsent'
  BY <1>11 DEF ExchangeAccess, OneGrantPerConsent, FirstPairs, ExchangedOnce, Members, At, Become
<1>12. ASSUME NEW r \in Requests, NEW p \in Pairs, RefreshLock(r, p) PROVE OneGrantPerConsent'
  BY <1>12 DEF RefreshLock, OneGrantPerConsent, tokens, lineage, At, Become, Blank
<1>13. ASSUME NEW r \in Requests, NEW p \in Pairs, RotateInsert(r, p) PROVE OneGrantPerConsent'
  BY <1>13 DEF RotateInsert, OneGrantPerConsent, tokens, lineage, At, Become
<1>14. ASSUME NEW r \in Requests, NEW p \in Pairs, RevokeFind(r, p) PROVE OneGrantPerConsent'
  BY <1>14 DEF RevokeFind, OneGrantPerConsent, tokens, lineage, At, Become, Blank
<1>15. ASSUME NEW p \in Pairs, AccessOver(p) PROVE OneGrantPerConsent'
  BY <1>15 DEF AccessOver, OneGrantPerConsent, lineage
<1>16. ASSUME NEW p \in Pairs, Expire(p) PROVE OneGrantPerConsent'
  BY <1>16 DEF Expire, OneGrantPerConsent, lineage
<1>17. ASSUME NEW p \in Pairs, Sweep(p) PROVE OneGrantPerConsent'
  BY <1>17 DEF Sweep, OneGrantPerConsent, lineage
<1>18. CASE UNCHANGED vars
  BY <1>18 DEF vars, tokens, lineage, OneGrantPerConsent
<1> QED
  BY <1>1, <1>2, <1>3, <1>4, <1>5, <1>6, <1>7, <1>8, <1>9, <1>10, <1>11, <1>12, <1>13, <1>14,
     <1>15, <1>16, <1>17, <1>18
     DEF Next

(* A family never holds two refresh tokens that still can be presented: a
   rotation inserts the new one while it still holds the old one's row, and
   kills the old one in the same commit. *)
LEMMA OneUsableStep ==
  ASSUME Shape, NewRows, RowLocked, ExchangedOnce, OneUsable, [Next]_vars
  PROVE  OneUsable'
<1>1. ASSUME NEW r \in Requests, ConsentApprove(r) PROVE OneUsable'
  BY <1>1 DEF ConsentApprove, OneUsable, Usable, tokens, lineage, At, Become, Finish, Blank
<1>2. ASSUME NEW r \in Requests, ExchangeRefresh(r) PROVE OneUsable'
  BY <1>2 DEF ExchangeRefresh, OneUsable, ExchangedOnce, Members, Usable, lineage, At, Become,
         Finish, Blank
<1>3. ASSUME NEW r \in Requests, RotateCommit(r) PROVE OneUsable'
  BY <1>3 DEF RotateCommit, OneUsable, RowLocked, Rotating, Usable, Shape, TypeOK, WellFormed,
         At, Become, Finish, Blank
<1>4. ASSUME NEW r \in Requests, ReuseAccess(r) PROVE OneUsable'
  BY <1>4 DEF ReuseAccess, OneUsable, Usable, tokens, lineage, At, Become
<1>5. ASSUME NEW r \in Requests, ReuseCommit(r) PROVE OneUsable'
  BY <1>5 DEF ReuseCommit, OneUsable, Rotating, Usable, lineage, At, Become, Finish, Blank,
         KillRefresh
<1>6. ASSUME NEW r \in Requests, RevokeAccess(r) PROVE OneUsable'
  BY <1>6 DEF RevokeAccess, OneUsable, Usable, lineage, At, Become, GoTo
<1>7. ASSUME NEW r \in Requests, RevokeRefresh(r) PROVE OneUsable'
  BY <1>7 DEF RevokeRefresh, OneUsable, Rotating, Usable, lineage, At, Become, Finish, Blank,
         KillRefresh
<1>8. ASSUME NEW r \in Requests, Fail(r) PROVE OneUsable'
  BY <1>8 DEF Fail, OneUsable, Usable, tokens, lineage, At, Become, Finish, Blank
<1>9. ASSUME NEW r \in Requests, NEW c \in Consents, ConsentClaim(r, c) PROVE OneUsable'
  BY <1>9 DEF ConsentClaim, OneUsable, Usable, tokens, lineage, At, Become, Finish, Blank
<1>10. ASSUME NEW r \in Requests, NEW c \in Consents, ExchangeClaim(r, c) PROVE OneUsable'
  BY <1>10 DEF ExchangeClaim, OneUsable, Usable, tokens, lineage, At, Become, Blank
<1>11. ASSUME NEW r \in Requests, NEW p \in Pairs, ExchangeAccess(r, p) PROVE OneUsable'
  BY <1>11 DEF ExchangeAccess, OneUsable, Usable, Shape, TypeOK, At, Become, Unused
<1>12. ASSUME NEW r \in Requests, NEW p \in Pairs, RefreshLock(r, p) PROVE OneUsable'
  BY <1>12 DEF RefreshLock, OneUsable, Rotating, Usable, tokens, lineage, At, Become, Blank
<1>13. ASSUME NEW r \in Requests, NEW p \in Pairs, RotateInsert(r, p) PROVE OneUsable'
  BY <1>13 DEF RotateInsert, OneUsable, Usable, tokens, lineage, At, Become, Unused
<1>14. ASSUME NEW r \in Requests, NEW p \in Pairs, RevokeFind(r, p) PROVE OneUsable'
  BY <1>14 DEF RevokeFind, OneUsable, Usable, tokens, lineage, At, Become, Blank
<1>15. ASSUME NEW p \in Pairs, AccessOver(p) PROVE OneUsable'
  BY <1>15 DEF AccessOver, OneUsable, Usable, lineage
<1>16. ASSUME NEW p \in Pairs, Expire(p) PROVE OneUsable'
  BY <1>16 DEF Expire, OneUsable, Usable, lineage
<1>17. ASSUME NEW p \in Pairs, Sweep(p) PROVE OneUsable'
  BY <1>17 DEF Sweep, OneUsable, Rotating, Usable, lineage
<1>18. CASE UNCHANGED vars
  BY <1>18 DEF vars, tokens, lineage, OneUsable, Usable
<1> QED
  BY <1>1, <1>2, <1>3, <1>4, <1>5, <1>6, <1>7, <1>8, <1>9, <1>10, <1>11, <1>12, <1>13, <1>14,
     <1>15, <1>16, <1>17, <1>18
     DEF Next

(* A family that a reuse or a revocation ended has no usable refresh token and
   no rotation under way that would insert one. *)
LEMMA FamiliesOverStep ==
  ASSUME Shape, NewRows, RowLocked, ExchangedOnce, OneUsable, FamiliesOver, [Next]_vars
  PROVE  FamiliesOver'
<1>1. ASSUME NEW r \in Requests, ConsentApprove(r) PROVE FamiliesOver'
  BY <1>1 DEF ConsentApprove, FamiliesOver, Over, NoneLive, Members, Rotating, tokens, lineage,
         At, Become, Finish, Blank
<1>2. ASSUME NEW r \in Requests, ExchangeRefresh(r) PROVE FamiliesOver'
  BY <1>2 DEF ExchangeRefresh, FamiliesOver, Over, NoneLive, NewRows, ExchangedOnce, Members,
         Rotating, lineage, At, Become, Finish, Blank
<1>3. ASSUME NEW r \in Requests, RotateCommit(r) PROVE FamiliesOver'
  BY <1>3 DEF RotateCommit, FamiliesOver, Over, NoneLive, NewRows, RowLocked, Members, Rotating,
         Detecting, Usable, Shape, TypeOK, At, Become, Finish, Blank
<1>4. ASSUME NEW r \in Requests, ReuseAccess(r) PROVE FamiliesOver'
  BY <1>4 DEF ReuseAccess, FamiliesOver, Over, NoneLive, Members, Rotating, tokens, lineage, At,
         Become
<1>5. ASSUME NEW r \in Requests, ReuseCommit(r) PROVE FamiliesOver'
  BY <1>5 DEF ReuseCommit, FamiliesOver, Over, NoneLive, Members, Rotating, Detecting, Shape,
         WellFormed, RefreshFree, lineage, At, Become, Finish, Blank, KillRefresh
<1>6. ASSUME NEW r \in Requests, RevokeAccess(r) PROVE FamiliesOver'
  BY <1>6 DEF RevokeAccess, FamiliesOver, Over, NoneLive, Members, Rotating, lineage, At,
         Become, GoTo
<1>7. ASSUME NEW r \in Requests, RevokeRefresh(r) PROVE FamiliesOver'
  BY <1>7 DEF RevokeRefresh, FamiliesOver, Over, NoneLive, Members, Rotating, Detecting, Shape,
         WellFormed, RefreshFree, lineage, At, Become, Finish, Blank, KillRefresh
<1>8. ASSUME NEW r \in Requests, Fail(r) PROVE FamiliesOver'
  BY <1>8 DEF Fail, FamiliesOver, Over, NoneLive, Members, Rotating, tokens, lineage, At,
         Become, Finish, Blank
<1>9. ASSUME NEW r \in Requests, NEW c \in Consents, ConsentClaim(r, c) PROVE FamiliesOver'
  BY <1>9 DEF ConsentClaim, FamiliesOver, Over, NoneLive, Members, Rotating, tokens, lineage,
         At, Become, Finish, Blank
<1>10. ASSUME NEW r \in Requests, NEW c \in Consents, ExchangeClaim(r, c) PROVE FamiliesOver'
  BY <1>10 DEF ExchangeClaim, FamiliesOver, Over, NoneLive, Members, Rotating, tokens, lineage,
         At, Become, Blank
<1>11. ASSUME NEW r \in Requests, NEW p \in Pairs, ExchangeAccess(r, p) PROVE FamiliesOver'
  BY <1>11 DEF ExchangeAccess, FamiliesOver, Over, NoneLive, Members, Rotating, Shape, TypeOK,
         WellFormed, At, Become, Unused
<1>12. ASSUME NEW r \in Requests, NEW p \in Pairs, RefreshLock(r, p) PROVE FamiliesOver'
  BY <1>12 DEF RefreshLock, FamiliesOver, Over, NoneLive, Members, Rotating, Detecting, tokens,
         lineage, At, Become, Blank
<1>13. ASSUME NEW r \in Requests, NEW p \in Pairs, RotateInsert(r, p) PROVE FamiliesOver'
  BY <1>13 DEF RotateInsert, FamiliesOver, Over, NoneLive, Members, Rotating, tokens, lineage,
         At, Become, Unused
<1>14. ASSUME NEW r \in Requests, NEW p \in Pairs, RevokeFind(r, p) PROVE FamiliesOver'
  BY <1>14 DEF RevokeFind, FamiliesOver, Over, NoneLive, Members, Rotating, tokens, lineage, At,
         Become, Blank
<1>15. ASSUME NEW p \in Pairs, AccessOver(p) PROVE FamiliesOver'
  BY <1>15 DEF AccessOver, FamiliesOver, Over, NoneLive, Members, Rotating, lineage
<1>16. ASSUME NEW p \in Pairs, Expire(p) PROVE FamiliesOver'
  BY <1>16 DEF Expire, FamiliesOver, Over, NoneLive, Members, Rotating, lineage
<1>17. ASSUME NEW p \in Pairs, Sweep(p) PROVE FamiliesOver'
  BY <1>17 DEF Sweep, FamiliesOver, Over, NoneLive, Members, Rotating, Detecting, lineage
<1>18. CASE UNCHANGED vars
  BY <1>18 DEF vars, tokens, lineage, FamiliesOver, Over, NoneLive, Members, Rotating
<1> QED
  BY <1>1, <1>2, <1>3, <1>4, <1>5, <1>6, <1>7, <1>8, <1>9, <1>10, <1>11, <1>12, <1>13, <1>14,
     <1>15, <1>16, <1>17, <1>18
     DEF Next

(* With the gap locks of REPEATABLE READ, a family ended by a reuse has no
   usable access token either: the scan of the reuse keeps inserts out until
   it commits. *)
LEMMA AccessOverStep ==
  ASSUME GapLocks, Shape, NewRows, RowLocked, ExchangedOnce, FamiliesOver, AccessOverToo,
         [Next]_vars
  PROVE  AccessOverToo'
<1>1. ASSUME NEW r \in Requests, ConsentApprove(r) PROVE AccessOverToo'
  BY <1>1 DEF ConsentApprove, AccessOverToo, LiveAccess, Members, tokens, lineage, At, Become,
         Finish, Blank
<1>2. ASSUME NEW r \in Requests, ExchangeRefresh(r) PROVE AccessOverToo'
  BY <1>2 DEF ExchangeRefresh, AccessOverToo, LiveAccess, Members, lineage, At, Become, Finish,
         Blank
<1>3. ASSUME NEW r \in Requests, RotateCommit(r) PROVE AccessOverToo'
  BY <1>3 DEF RotateCommit, AccessOverToo, FamiliesOver, Over, LiveAccess, Members, Rotating,
         Shape, TypeOK, At, Become, Finish, Blank
<1>4. ASSUME NEW r \in Requests, ReuseAccess(r) PROVE AccessOverToo'
  BY <1>4 DEF ReuseAccess, AccessOverToo, LiveAccess, Members, AccessFree, tokens, lineage, At,
         Become
<1>5. ASSUME NEW r \in Requests, ReuseCommit(r) PROVE AccessOverToo'
  BY <1>5 DEF ReuseCommit, AccessOverToo, LiveAccess, Members, Rotating, Detecting, lineage, At,
         Become, Finish, Blank, KillAccess
<1>6. ASSUME NEW r \in Requests, RevokeAccess(r) PROVE AccessOverToo'
  BY <1>6 DEF RevokeAccess, AccessOverToo, LiveAccess, Members, AccessFree, lineage, At, Become,
         GoTo, KillAccess
<1>7. ASSUME NEW r \in Requests, RevokeRefresh(r) PROVE AccessOverToo'
  BY <1>7 DEF RevokeRefresh, AccessOverToo, LiveAccess, Members, Rotating, Detecting, lineage,
         At, Become, Finish, Blank
<1>8. ASSUME NEW r \in Requests, Fail(r) PROVE AccessOverToo'
  BY <1>8 DEF Fail, AccessOverToo, LiveAccess, Members, tokens, lineage, At, Become, Finish, Blank
<1>9. ASSUME NEW r \in Requests, NEW c \in Consents, ConsentClaim(r, c) PROVE AccessOverToo'
  BY <1>9 DEF ConsentClaim, AccessOverToo, LiveAccess, Members, tokens, lineage, At, Become,
         Finish, Blank
<1>10. ASSUME NEW r \in Requests, NEW c \in Consents, ExchangeClaim(r, c) PROVE AccessOverToo'
  BY <1>10 DEF ExchangeClaim, AccessOverToo, LiveAccess, Members, tokens, lineage, At, Become,
         Blank
<1>11. ASSUME NEW r \in Requests, NEW p \in Pairs, ExchangeAccess(r, p) PROVE AccessOverToo'
  BY <1>11 DEF ExchangeAccess, AccessOverToo, FamiliesOver, Over, LiveAccess, ExchangedOnce,
         Members, Rotating, Shape, TypeOK, MayInsertAccess, At, Become, Unused
<1>12. ASSUME NEW r \in Requests, NEW p \in Pairs, RefreshLock(r, p) PROVE AccessOverToo'
  BY <1>12 DEF RefreshLock, AccessOverToo, LiveAccess, Members, Rotating, Detecting, tokens,
         lineage, At, Become, Blank
<1>13. ASSUME NEW r \in Requests, NEW p \in Pairs, RotateInsert(r, p) PROVE AccessOverToo'
  BY <1>13 DEF RotateInsert, AccessOverToo, LiveAccess, Members, MayInsertAccess, tokens,
         lineage, At, Become, Unused
<1>14. ASSUME NEW r \in Requests, NEW p \in Pairs, RevokeFind(r, p) PROVE AccessOverToo'
  BY <1>14 DEF RevokeFind, AccessOverToo, LiveAccess, Members, tokens, lineage, At, Become, Blank
<1>15. ASSUME NEW p \in Pairs, AccessOver(p) PROVE AccessOverToo'
  BY <1>15 DEF AccessOver, AccessOverToo, LiveAccess, Members, lineage, At, KillAccess
<1>16. ASSUME NEW p \in Pairs, Expire(p) PROVE AccessOverToo'
  BY <1>16 DEF Expire, AccessOverToo, LiveAccess, Members, lineage, At
<1>17. ASSUME NEW p \in Pairs, Sweep(p) PROVE AccessOverToo'
  BY <1>17 DEF Sweep, AccessOverToo, LiveAccess, Members, Rotating, Detecting, lineage, At
<1>18. CASE UNCHANGED vars
  BY <1>18 DEF vars, tokens, lineage, AccessOverToo, LiveAccess, Members, At
<1> QED
  BY <1>1, <1>2, <1>3, <1>4, <1>5, <1>6, <1>7, <1>8, <1>9, <1>10, <1>11, <1>12, <1>13, <1>14,
     <1>15, <1>16, <1>17, <1>18
     DEF Next

-----------------------------------------------------------------------------
(* The invariant holds always. *)

(* No row exists and no handler runs. *)
LEMMA InitInv == Init => Inv
<1> SUFFICES ASSUME Init PROVE Inv
  OBVIOUS
<1>1. Shape
  BY  DEF Init, Blank, Shape, TypeOK, WellFormed, Rooted, At, Phases, AccessStates, RefreshStates
<1>2. NewRows /\ FirstPairs /\ RowLocked
  BY TokensAssumption DEF Init, Blank, NewRows, FirstPairs, RowLocked, Rotating, Detecting,
         Usable, At
<1>3. DecidedOnce
  BY DEF Init, Blank, DecidedOnce, Deciding, At
<1>4. ExchangedOnce
  BY TokensAssumption DEF Init, Blank, ExchangedOnce, Exchanging, Members, At
<1>5. OneGrantPerConsent /\ OneUsable
  BY TokensAssumption DEF Init, OneGrantPerConsent, OneUsable, Usable
<1>6. FamiliesOver /\ AccessOverToo
  BY DEF Init, Blank, FamiliesOver, AccessOverToo, Over, Rotating, At
<1> QED
  BY <1>1, <1>2, <1>3, <1>4, <1>5, <1>6 DEF Inv

(* One lemma above per conjunct. *)
LEMMA InvStep == Inv /\ [Next]_vars => Inv'
  BY ShapeStep, NewRowsStep, FirstPairsStep, RowLockedStep, DecidedOnceStep, ExchangedOnceStep,
     OneGrantStep, OneUsableStep, FamiliesOverStep, AccessOverStep DEF Inv

(* The inductive invariant holds always. *)
LEMMA AlwaysInv == Spec => []Inv
  BY InitInv, InvStep, PTL DEF Spec

-----------------------------------------------------------------------------
(* The properties. *)

(* The rows of the authorization server and its handlers have their types. *)
THEOREM Typed == Spec => []TypeOK
<1>1. Inv => TypeOK
  BY DEF Inv, Shape
<1> QED
  BY <1>1, AlwaysInv, PTL

(* However many approvals and exchanges race, one consent of the user yields at
   most one first pair of tokens (decidePluginConsent,
   exchangePluginAuthorizationCode). *)
THEOREM OneGrantPerConsentAlways == Spec => []OneGrantPerConsent
<1>1. Inv => OneGrantPerConsent
  BY DEF Inv
<1> QED
  BY <1>1, AlwaysInv, PTL

(* However many times a refresh token is presented, at once or again, its family
   holds at most one live refresh token (refreshPluginTokens). *)
THEOREM RotationNeverForksAlways == Spec => []RotationNeverForks
<1>1. Inv => RotationNeverForks
  BY DEF Inv, OneUsable, Usable, RotationNeverForks
<1> QED
  BY <1>1, AlwaysInv, PTL

(* After a revocation has committed, no refresh token of the family is live, and
   none becomes live: a rotation in progress either finished before, and the
   revocation found its token, or finds the row dead (revokePluginToken). *)
THEOREM RevokedCannotRenewAlways == Spec => []RevokedCannotRenew
<1>1. Inv => RevokedCannotRenew
  BY DEF Inv, FamiliesOver, Over, RevokedCannotRenew
<1> QED
  BY <1>1, AlwaysInv, PTL

(* Where the database takes gap locks, a family in which a spent refresh token
   was presented keeps neither a live access token nor a live refresh token
   (the reuse branch of refreshPluginTokens). *)
THEOREM ReuseKillsFamilyAlways == ASSUME GapLocks PROVE Spec => []ReuseKillsFamily
<1>1. Inv => ReuseKillsFamily
  BY DEF Inv, FamiliesOver, AccessOverToo, Over, ReuseKillsFamily
<1> QED
  BY <1>1, AlwaysInv, PTL

=============================================================================
