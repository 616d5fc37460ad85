---------------------------- MODULE SportsProofs ----------------------------
(***************************************************************************)
(* Proofs about SportsVotes, for every set of users, matches, results and  *)
(* handlers, on an engine that fixes a transaction's snapshot by its first *)
(* plain read (InnoDB).  On one that fixes it when the transaction begins  *)
(* the argument fails, as SportsVotesTiDB.cfg shows.                       *)
(*                                                                         *)
(* The match row is the lock that counts: a handler takes its snapshot     *)
(* after it got the row, so while it holds it the votes of the match are   *)
(* those it saw, and the match has the status it saw.                      *)
(***************************************************************************)
EXTENDS SportsVotes, TLAPS

InnoDB == ~SnapshotAtBegin

Rows == [status: {"draft", "open", "closed", "settled", "cancelled"}, deadline: Nat,
         result: Results \cup {"none"}]
Votes == [status: {"none", "pending", "won", "lost", "refunded"}, prediction: Results \cup {"none"},
          spent: Nat, refunds: Nat, rewards: Nat]

\* Matches and votes have the fields and the values of their rows.
RecordsTyped ==
  /\ match \in [Matches -> Rows]
  /\ vote \in [Matches -> [Users -> Votes]]

\* A handler has its fields, whatever they hold ...
Fields == {"pc", "op", "m", "u", "arg", "need", "held", "view"}
IsHandler(c) == c = [f \in Fields |-> c[f]]

\* ... and works on a match, for a purpose its transaction knows.
Purposeful(c) ==
  /\ IsHandler(c)
  /\ c.pc \in {"idle", "begun", "locked", "paying", "edit"}
  /\ c.pc # "idle" => c.m \in Matches
  /\ c.pc \in {"begun", "locked", "paying"} =>
       \/ c.op = "cast" /\ c.u \in Users /\ c.arg \in Results
       \/ c.op = "settle" /\ c.arg \in Results
       \/ c.op = "cancel"
  /\ c.pc = "edit" => c.arg \in {"keep", "draft", "open", "closed"} /\ c.u \in Nat

\* What a handler saw of the match whose row it holds is still so.
SeesTheMatch(c) ==
  /\ c.pc \in {"locked", "paying"} => c.view.row = match[c.m] /\ c.view.votes = vote[c.m]
  /\ c.pc = "paying" /\ c.op = "cast" => c.view.row.status = "open"

HandlersFit ==
  /\ req = [r \in Requests |-> req[r]]
  /\ \A r \in Requests : Purposeful(req[r]) /\ SeesTheMatch(req[r])

\* A match row is held by one handler at a time.
OneHolder ==
  \A q, r \in Requests : HoldsMatch(q) /\ HoldsMatch(r) /\ req[q].m = req[r].m => q = r

Inv == RecordsTyped /\ HandlersFit /\ OneHolder /\ PaidAsDecided /\ NoVoteLeftBehind

-----------------------------------------------------------------------------
(* What a step does to the records of match m: nobody else holds its row.   *)

Writes(m, row, votes) ==
  /\ match' = [match EXCEPT ![m] = row] /\ row \in Rows
  /\ vote' = [vote EXCEPT ![m] = votes] /\ votes \in [Users -> Votes]
  /\ \A u \in Users :
       LET v == votes[u] IN
       /\ v.spent = IF v.status = "none" THEN 0 ELSE 1
       /\ v.rewards = IF v.status = "won" THEN 1 ELSE 0
       /\ v.refunds = IF v.status = "refunded" THEN 1 ELSE 0
  /\ row.status \in Decided => \A u \in Users : votes[u].status # "pending"

LEMMA BlankIsHandler == IsHandler(Blank) /\ Blank.pc = "idle"
BY DEF IsHandler, Fields, Blank

LEMMA BlankFits == Purposeful(Blank) /\ SeesTheMatch(Blank) /\ SeesTheMatch(Blank)' /\ Blank.pc = "idle"
BY BlankIsHandler DEF Purposeful, SeesTheMatch

\* A handler writes a match nobody else holds, and is done.
LEMMA WriteKeeps ==
  ASSUME Inv, NEW r \in Requests, Finish(r), NEW m \in Matches, NEW row, NEW votes,
         Writes(m, row, votes), MatchFree(r, m)
  PROVE  Inv'
<1>1. \A q \in Requests : req'[q] = IF q = r THEN Blank ELSE req[q]
  BY DEF Inv, HandlersFit, Finish, Become
<1>2. req' = [q \in Requests |-> req'[q]]
  BY DEF Inv, HandlersFit, Finish, Become
<1>3. RecordsTyped'
  BY DEF Inv, RecordsTyped, Writes
<1>4. ASSUME NEW q \in Requests, q # r PROVE SeesTheMatch(req[q])'
  <2>1. req'[q] = req[q] /\ SeesTheMatch(req[q]) /\ Purposeful(req[q])
    BY <1>1, <1>4 DEF Inv, HandlersFit
  <2>2. HoldsMatch(q) => req[q].m # m /\ req[q].m \in Matches
    BY <1>4, <2>1 DEF MatchFree, HoldsMatch, Purposeful
  <2>3. HoldsMatch(q) => match'[req[q].m] = match[req[q].m] /\ vote'[req[q].m] = vote[req[q].m]
    BY <2>2 DEF Writes, Inv, RecordsTyped
  <2> QED
    BY <2>1, <2>3 DEF SeesTheMatch, HoldsMatch
<1>5. HandlersFit'
  BY <1>1, <1>2, <1>4, BlankFits DEF Inv, HandlersFit, Purposeful, IsHandler, SeesTheMatch
<1>6. OneHolder'
  BY <1>1, BlankFits DEF Inv, OneHolder, HoldsMatch
<1>7. \A x \in Matches : match'[x] = (IF x = m THEN row ELSE match[x])
                       /\ vote'[x] = (IF x = m THEN votes ELSE vote[x])
  BY DEF Inv, RecordsTyped, Writes
<1>8. PaidAsDecided'
  BY <1>7 DEF Inv, PaidAsDecided, Writes
<1>9. NoVoteLeftBehind'
  BY <1>7 DEF Inv, NoVoteLeftBehind, Writes
<1> QED
  BY <1>3, <1>5, <1>6, <1>8, <1>9 DEF Inv

\* A handler goes on, and holds a match row only if nobody else does.
LEMMA GoOnKeeps ==
  ASSUME Inv, UNCHANGED <<match, vote>>, NEW r \in Requests, NEW c, Become(r, c),
         Purposeful(c), SeesTheMatch(c),
         c.pc \in {"locked", "paying"} => (HoldsMatch(r) /\ req[r].m = c.m) \/ MatchFree(r, c.m)
  PROVE  Inv'
<1>1. \A q \in Requests : req'[q] = IF q = r THEN c ELSE req[q]
  BY DEF Inv, HandlersFit, Become
<1>2. req' = [q \in Requests |-> req'[q]]
  BY DEF Inv, HandlersFit, Become
<1>3. \A q \in Requests : Purposeful(req'[q])
  BY <1>1 DEF Inv, HandlersFit
<1>4. \A q \in Requests : SeesTheMatch(req[q])'
  BY <1>1 DEF Inv, HandlersFit, SeesTheMatch
<1>5. OneHolder'
  <2>1. ASSUME NEW q \in Requests, q # r, c.pc \in {"locked", "paying"}, HoldsMatch(q), req[q].m = c.m
        PROVE  FALSE
    BY <2>1 DEF Inv, OneHolder, MatchFree
  <2> QED
    BY <1>1, <2>1 DEF Inv, OneHolder, HoldsMatch
<1>6. RecordsTyped' /\ PaidAsDecided' /\ NoVoteLeftBehind'
  BY DEF Inv, RecordsTyped, PaidAsDecided, NoVoteLeftBehind
<1> QED
  BY <1>2, <1>3, <1>4, <1>5, <1>6 DEF Inv, HandlersFit, Purposeful, IsHandler

LEMMA BeginKeeps ==
  ASSUME Inv, NEW r \in Requests, NEW op, NEW m \in Matches, NEW u, NEW arg, Begin(r, op, m, u, arg),
         \/ op = "cast" /\ u \in Users /\ arg \in Results
         \/ op = "settle" /\ arg \in Results
         \/ op = "cancel"
  PROVE  Inv'
<1> DEFINE c == [Blank EXCEPT !.pc = "begun", !.op = op, !.m = m, !.u = u, !.arg = arg,
                   !.view = IF SnapshotAtBegin THEN Snapshot(m) ELSE "none"]
<1>1. Become(r, c) /\ UNCHANGED <<match, vote>>
  BY DEF Begin
<1>2. IsHandler(c) /\ c.pc = "begun" /\ c.op = op /\ c.m = m /\ c.u = u /\ c.arg = arg
  BY BlankIsHandler DEF IsHandler, Fields
<1> HIDE DEF c
<1>3. Purposeful(c) /\ SeesTheMatch(c)
  BY <1>2 DEF Purposeful, SeesTheMatch
<1> QED
  BY <1>1, <1>2, <1>3, GoOnKeeps

LEMMA LockMatchKeeps ==
  ASSUME InnoDB, Inv, NEW r \in Requests, LockMatch(r)
  PROVE  Inv'
<1> DEFINE c == [req[r] EXCEPT !.pc = "locked", !.view = Snapshot(req[r].m)]
<1>1. Become(r, c) /\ UNCHANGED <<match, vote>> /\ MatchFree(r, req[r].m) /\ req[r].pc = "begun"
  BY DEF LockMatch, InnoDB, At
<1>2. Purposeful(req[r])
  BY DEF Inv, HandlersFit
<1> DEFINE b == req[r]
           view == Snapshot(b.m)
<1>3. /\ IsHandler(c) /\ c.pc = "locked" /\ c.op = b.op /\ c.m = b.m
      /\ c.u = b.u /\ c.arg = b.arg /\ c.view = view
  BY <1>2 DEF Purposeful, IsHandler, Fields
<1>4. view.row = match[b.m] /\ view.votes = vote[b.m]
  BY DEF Snapshot
<1> HIDE DEF c, view
<1>5. Purposeful(c)
  BY <1>1, <1>2, <1>3 DEF Purposeful
<1>6. SeesTheMatch(c)
  BY <1>3, <1>4 DEF SeesTheMatch
<1> QED
  BY <1>1, <1>3, <1>5, <1>6, GoOnKeeps

LEMMA CheckKeeps ==
  ASSUME Inv, NEW r \in Requests, Check(r)
  PROVE  Inv'
<1>1. Purposeful(req[r]) /\ SeesTheMatch(req[r]) /\ req[r].pc = "locked" /\ HoldsMatch(r)
  BY DEF Inv, HandlersFit, Check, At, HoldsMatch
<1> PICK need : /\ Become(r, [req[r] EXCEPT !.pc = "paying", !.need = need])
                /\ req[r].op = "cast" => req[r].view.row.status = "open"
  BY DEF Check, MayCast
<1> DEFINE c == [req[r] EXCEPT !.pc = "paying", !.need = need]
           b == req[r]
<1>2. /\ IsHandler(c) /\ c.pc = "paying" /\ c.op = b.op /\ c.m = b.m
      /\ c.u = b.u /\ c.arg = b.arg /\ c.view = b.view
  BY <1>1 DEF Purposeful, IsHandler, Fields
<1>3. UNCHANGED <<match, vote>> /\ Become(r, c)
  BY DEF Check
<1> HIDE DEF c
<1>4. Purposeful(c)
  BY <1>1, <1>2 DEF Purposeful
<1>5. SeesTheMatch(c)
  BY <1>1, <1>2 DEF SeesTheMatch
<1> QED
  BY <1>1, <1>2, <1>3, <1>4, <1>5, GoOnKeeps

LEMMA LockUserKeeps ==
  ASSUME Inv, NEW r \in Requests, LockUser(r)
  PROVE  Inv'
<1>1. Purposeful(req[r]) /\ SeesTheMatch(req[r]) /\ req[r].pc = "paying" /\ HoldsMatch(r)
  BY DEF Inv, HandlersFit, LockUser, At, HoldsMatch
<1> DEFINE u == Min(req[r].need)
           c == [req[r] EXCEPT !.need = @ \ {u}, !.held = @ \cup {u}]
<1>2. UNCHANGED <<match, vote>> /\ Become(r, c)
  BY DEF LockUser
<1> HIDE DEF u
<1> DEFINE b == req[r]
<1>3. /\ IsHandler(c) /\ c.pc = b.pc /\ c.op = b.op /\ c.m = b.m
      /\ c.u = b.u /\ c.arg = b.arg /\ c.view = b.view
  BY <1>1 DEF Purposeful, IsHandler, Fields
<1> HIDE DEF c
<1>4. Purposeful(c)
  BY <1>1, <1>3 DEF Purposeful
<1>5. SeesTheMatch(c)
  BY <1>1, <1>3 DEF SeesTheMatch
<1> QED
  BY <1>1, <1>2, <1>3, <1>4, <1>5, GoOnKeeps

\* Who commits holds the match row, and its votes are those it saw.
LEMMA CommitSees ==
  ASSUME Inv, NEW r \in Requests, NEW op, MayCommit(r, op)
  PROVE  /\ req[r].m \in Matches /\ MatchFree(r, req[r].m) /\ Purposeful(req[r])
         /\ req[r].view.row = match[req[r].m] /\ req[r].view.votes = vote[req[r].m]
         /\ op = "cast" => match[req[r].m].status = "open"
         /\ match[req[r].m] \in Rows /\ vote[req[r].m] \in [Users -> Votes]
         /\ Pending(req[r].view) = {u \in Users : vote[req[r].m][u].status = "pending"}
<1>1. Purposeful(req[r]) /\ SeesTheMatch(req[r]) /\ HoldsMatch(r) /\ req[r].pc = "paying" /\ req[r].op = op
  BY DEF Inv, HandlersFit, MayCommit, At, HoldsMatch
<1>2. MatchFree(r, req[r].m)
  BY <1>1 DEF Inv, OneHolder, MatchFree
<1>3. req[r].m \in Matches
  BY <1>1 DEF Purposeful
<1>4. req[r].view.row = match[req[r].m] /\ req[r].view.votes = vote[req[r].m]
  BY <1>1 DEF SeesTheMatch
<1>5. match[req[r].m] \in Rows /\ vote[req[r].m] \in [Users -> Votes]
  BY <1>3 DEF Inv, RecordsTyped
<1> QED
  BY <1>1, <1>2, <1>3, <1>4, <1>5 DEF SeesTheMatch, Pending

LEMMA CastKeeps ==
  ASSUME Inv, NEW r \in Requests, CastCommit(r)
  PROVE  Inv'
<1> PICK m \in Matches, u \in Users : m = req[r].m /\ u = req[r].u /\ req[r].arg \in Results
  BY CommitSees DEF CastCommit, MayCommit, Purposeful, At
<1>1. MatchFree(r, m) /\ match[m].status = "open" /\ match[m] \in Rows /\ vote[m] \in [Users -> Votes]
  BY CommitSees DEF CastCommit
<1> DEFINE cast == [NoVote EXCEPT !.status = "pending", !.prediction = req[r].arg, !.spent = 1]
           votes == [vote[m] EXCEPT ![u] = cast]
<1>2. /\ cast \in Votes /\ cast.status = "pending"
      /\ cast.spent = 1 /\ cast.refunds = 0 /\ cast.rewards = 0
  BY DEF NoVote, Votes
<1>3. vote' = [vote EXCEPT ![m] = votes] /\ Finish(r) /\ UNCHANGED match
  BY DEF CastCommit, Inv, RecordsTyped
<1>4. match' = [match EXCEPT ![m] = match[m]]
  BY <1>3 DEF Inv, RecordsTyped
<1> HIDE DEF cast
<1>5. Writes(m, match[m], votes)
  BY <1>1, <1>2, <1>3, <1>4 DEF Writes, Inv, PaidAsDecided, Decided
<1> QED
  BY <1>1, <1>3, <1>5, WriteKeeps

LEMMA SettleKeeps ==
  ASSUME Inv, NEW r \in Requests, SettleCommit(r)
  PROVE  Inv'
<1> PICK m \in Matches : m = req[r].m /\ req[r].arg \in Results
  BY CommitSees DEF SettleCommit, MayCommit, Purposeful, At
<1> DEFINE result == req[r].arg
           pending == {u \in Users : vote[m][u].status = "pending"}
           row == [match[m] EXCEPT !.status = "settled", !.result = result]
           votes == [u \in Users |-> IF u \in pending THEN Settled(vote[m][u], result) ELSE vote[m][u]]
<1>1. MatchFree(r, m) /\ match[m] \in Rows /\ vote[m] \in [Users -> Votes] /\ Pending(req[r].view) = pending
  BY CommitSees DEF SettleCommit
<1>2. row \in Rows /\ row.status = "settled"
  BY <1>1 DEF Rows
<1>3. match' = [match EXCEPT ![m] = row] /\ vote' = [vote EXCEPT ![m] = votes] /\ Finish(r)
  BY <1>1 DEF SettleCommit, Inv, RecordsTyped
<1>4. ASSUME NEW u \in pending
      PROVE  LET v == votes[u] IN
             /\ v \in Votes /\ v.status \in {"won", "lost"}
             /\ v.spent = 1 /\ v.refunds = 0 /\ v.rewards = IF v.status = "won" THEN 1 ELSE 0
  <2> DEFINE old == vote[m][u]
  <2>1. old \in Votes /\ old.status = "pending"
    BY <1>1
  <2>2. old.spent = 1 /\ old.refunds = 0 /\ old.rewards = 0
    BY <2>1 DEF Inv, PaidAsDecided
  <2>3. votes[u] = Settled(old, result)
    OBVIOUS
  <2> HIDE DEF old, votes
  <2>4. CASE old.prediction # result
    <3>1. Settled(old, result) = [old EXCEPT !.status = "lost"]
      BY <2>4 DEF Settled
    <3> QED
      BY <2>1, <2>2, <2>3, <3>1 DEF Votes
  <2>5. CASE old.prediction = result
    <3>1. Settled(old, result) = [old EXCEPT !.status = "won", !.rewards = 1]
      BY <2>2, <2>5 DEF Settled
    <3> QED
      BY <2>1, <2>2, <2>3, <3>1 DEF Votes
  <2> QED
    BY <2>4, <2>5
<1>5. \A u \in Users : u \notin pending => votes[u] = vote[m][u] /\ vote[m][u] \in Votes
                                           /\ vote[m][u].status # "pending"
  BY <1>1
<1>6. votes \in [Users -> Votes]
  BY <1>4, <1>5
<1>7. Writes(m, row, votes)
  BY <1>2, <1>3, <1>4, <1>5, <1>6 DEF Writes, Inv, PaidAsDecided
<1> QED
  BY <1>1, <1>3, <1>7, WriteKeeps

LEMMA CancelKeeps ==
  ASSUME Inv, NEW r \in Requests, CancelCommit(r)
  PROVE  Inv'
<1> PICK m \in Matches : m = req[r].m
  BY CommitSees DEF CancelCommit
<1> DEFINE pending == {u \in Users : vote[m][u].status = "pending"}
           row == [match[m] EXCEPT !.status = "cancelled"]
           votes == [u \in Users |-> IF u \in pending
                       THEN Refunded(vote[m][u]) ELSE vote[m][u]]
<1>1. MatchFree(r, m) /\ match[m] \in Rows /\ vote[m] \in [Users -> Votes] /\ Pending(req[r].view) = pending
  BY CommitSees DEF CancelCommit
<1>2. row \in Rows /\ row.status = "cancelled"
  BY <1>1 DEF Rows
<1>3. match' = [match EXCEPT ![m] = row] /\ vote' = [vote EXCEPT ![m] = votes] /\ Finish(r)
  BY <1>1 DEF CancelCommit, Inv, RecordsTyped
<1>4. ASSUME NEW u \in pending
      PROVE  LET v == votes[u] IN
             v \in Votes /\ v.status = "refunded" /\ v.spent = 1 /\ v.refunds = 1 /\ v.rewards = 0
  <2> DEFINE old == vote[m][u]
  <2>1. old \in Votes /\ old.status = "pending"
    BY <1>1
  <2>2. old.spent = 1 /\ old.refunds = 0 /\ old.rewards = 0
    BY <2>1 DEF Inv, PaidAsDecided
  <2>3. votes[u] = Refunded(old)
    OBVIOUS
  <2> HIDE DEF old, votes
  <2>4. Refunded(old) = [old EXCEPT !.status = "refunded", !.refunds = 1]
    BY <2>2 DEF Refunded
  <2> QED
    BY <2>1, <2>2, <2>3, <2>4 DEF Votes
<1>5. \A u \in Users : u \notin pending => votes[u] = vote[m][u] /\ vote[m][u] \in Votes
                                           /\ vote[m][u].status # "pending"
  BY <1>1
<1>6. votes \in [Users -> Votes]
  BY <1>4, <1>5
<1>7. Writes(m, row, votes)
  BY <1>2, <1>3, <1>4, <1>5, <1>6 DEF Writes, Inv, PaidAsDecided
<1> QED
  BY <1>1, <1>3, <1>7, WriteKeeps

LEMMA EditWriteKeeps ==
  ASSUME Inv, NEW r \in Requests, EditWrite(r)
  PROVE  Inv'
<1> PICK m \in Matches : /\ m = req[r].m /\ req[r].u \in Nat
                         /\ req[r].arg \in {"keep", "draft", "open", "closed"}
  BY DEF EditWrite, At, Inv, HandlersFit, Purposeful
<1> DEFINE row == Patched(match[m], req[r].arg, req[r].u)
<1>1. MatchFree(r, m) /\ Finish(r) /\ match' = [match EXCEPT ![m] = row] /\ UNCHANGED vote
  BY DEF EditWrite
<1>2. match[m] \in Rows /\ vote[m] \in [Users -> Votes]
  BY DEF Inv, RecordsTyped
<1>3. row \in Rows /\ (row.status \in Decided => match[m].status \in Decided)
  BY <1>2 DEF Patched, Rows, Decided
<1>4. vote' = [vote EXCEPT ![m] = vote[m]]
  BY <1>1 DEF Inv, RecordsTyped
<1> HIDE DEF row
<1>5. Writes(m, row, vote[m])
  BY <1>1, <1>2, <1>3, <1>4 DEF Writes, Inv, PaidAsDecided, NoVoteLeftBehind
<1> QED
  BY <1>1, <1>5, WriteKeeps

LEMMA EditReadKeeps ==
  ASSUME Inv, NEW r \in Requests, NEW m \in Matches, NEW s \in {"keep", "draft", "open", "closed"},
         NEW d \in Nat, EditRead(r, m, s, d)
  PROVE  Inv'
<1> DEFINE c == [Blank EXCEPT !.pc = "edit", !.m = m, !.arg = s, !.u = d]
<1>1. Become(r, c) /\ UNCHANGED <<match, vote>>
  BY DEF EditRead
<1>2. IsHandler(c) /\ c.pc = "edit" /\ c.m = m /\ c.u = d /\ c.arg = s
  BY BlankIsHandler DEF IsHandler, Fields
<1> HIDE DEF c
<1>3. Purposeful(c) /\ SeesTheMatch(c)
  BY <1>2 DEF Purposeful, SeesTheMatch
<1> QED
  BY <1>1, <1>2, <1>3, GoOnKeeps

LEMMA InvInit == Init => Inv
<1> SUFFICES ASSUME Init PROVE Inv
  OBVIOUS
<1>1. RecordsTyped
  <2>1. NoVote \in Votes
    BY DEF NoVote, Votes
  <2> QED
    BY <2>1 DEF Init, RecordsTyped, Rows
<1>2. HandlersFit /\ OneHolder
  BY BlankFits DEF Init, HandlersFit, OneHolder, HoldsMatch
<1>3. PaidAsDecided /\ NoVoteLeftBehind
  BY DEF Init, PaidAsDecided, NoVoteLeftBehind, NoVote
<1> QED
  BY <1>1, <1>2, <1>3 DEF Inv

LEMMA InvNext == ASSUME InnoDB PROVE Inv /\ [Next]_vars => Inv'
<1> SUFFICES ASSUME Inv, [Next]_vars PROVE Inv'
  OBVIOUS
<1>1. CASE UNCHANGED <<match, vote, req>>
  BY <1>1 DEF Inv, RecordsTyped, HandlersFit, Purposeful, IsHandler, SeesTheMatch, OneHolder,
    HoldsMatch, PaidAsDecided, NoVoteLeftBehind
<1>2. ASSUME NEW r \in Requests, Fail(r) PROVE Inv'
  BY <1>2, BlankFits, GoOnKeeps DEF Fail, Finish
<1>3. ASSUME NEW r \in Requests, NEW m \in Matches,
             \/ \E u \in Users, p \in Results : Begin(r, "cast", m, u, p)
             \/ \E p \in Results : Begin(r, "settle", m, 0, p)
             \/ Begin(r, "cancel", m, 0, "none")
      PROVE  Inv'
  BY <1>3, BeginKeeps
<1>4. Deadlines \cup {0} \subseteq Nat
  BY SportsAssumption
<1>5. CASE Next
  BY <1>1, <1>2, <1>3, <1>4, <1>5, LockMatchKeeps, CheckKeeps, LockUserKeeps, CastKeeps, SettleKeeps,
    CancelKeeps, EditWriteKeeps, EditReadKeeps DEF Next, Tick
<1> QED
  BY <1>1, <1>5 DEF vars

\* Every reachable state satisfies the invariant, on InnoDB.
THEOREM Invariant == ASSUME InnoDB PROVE Spec => []Inv
BY InvInit, InvNext, PTL DEF Spec

\* On InnoDB a vote is charged once, a winner rewarded once, a refund made once, and
\* nobody gets both, however settlements, cancellations and edits overlap.
THEOREM PaidAsDecidedAlways == ASSUME InnoDB PROVE Spec => []PaidAsDecided
<1>1. Inv => PaidAsDecided
  BY DEF Inv
<1> QED
  BY <1>1, Invariant, PTL

\* On InnoDB no vote is left pending in a match that is settled or cancelled.
THEOREM NoVoteLeftBehindAlways == ASSUME InnoDB PROVE Spec => []NoVoteLeftBehind
<1>1. Inv => NoVoteLeftBehind
  BY DEF Inv
<1> QED
  BY <1>1, Invariant, PTL
=============================================================================
