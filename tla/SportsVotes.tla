----------------------------- MODULE SportsVotes -----------------------------
(***************************************************************************)
(* Predictions on sports matches (server/db.ts, castSportsVote,            *)
(* settleSportsMatch, cancelSportsMatch, updateSportsMatch).               *)
(*                                                                         *)
(* A vote costs points.  Settling a match pays the winners in points or    *)
(* with a coupon, cancelling it gives the points back.  The three          *)
(* transactions lock the match row, then the users rows they pay, in the   *)
(* order of their ids; what they read they read from their snapshot, fixed *)
(* by the first plain read (InnoDB) or when they begin (TiDB).  An edit by *)
(* an administrator reads the match and writes it in two statements        *)
(* without a transaction.  A transaction's writes appear at its commit:    *)
(* whoever could see them earlier waits for one of its locks.              *)
(***************************************************************************)
EXTENDS Integers, FiniteSets, FiniteSetsExt

CONSTANTS
  Users,            \* ids, which are numbers
  Matches, Results,
  InPoints,         \* matches whose reward is paid in points, not a coupon
  Opening, Cost, Reward,  \* points: first balance, price of a vote, prize
  Requests,
  MaxNow,           \* bound: time stops here
  MaxEdits,         \* bound: edits that may be started
  Deadlines,        \* deadlines an administrator may set
  SnapshotAtBegin   \* the engine fixes the snapshot when a transaction begins

ASSUME SportsAssumption ==
  /\ Users \subseteq Nat /\ InPoints \subseteq Matches /\ Deadlines \subseteq Nat \ {0}
  /\ {Opening, Cost, Reward, MaxNow, MaxEdits} \subseteq Nat
  /\ SnapshotAtBegin \in BOOLEAN

VARIABLES
  now,      \* the clock
  match,    \* sportsMatches: status, deadline, result
  vote,     \* sportsMatchVotes by match and user, with the rows that refer to it
  balance,  \* balanceAfter of every user's last pointsTransactions row
  req,      \* what every handler is doing
  edits

vars == <<now, match, vote, balance, req, edits>>

Decided == {"settled", "cancelled"}
NoVote == [status |-> "none", prediction |-> "none", spent |-> 0, refunds |-> 0, rewards |-> 0]
Blank == [pc |-> "idle", op |-> "none", m |-> "none", u |-> 0, arg |-> "none",
          need |-> {}, held |-> {}, view |-> "none"]

Init ==
  /\ now = 0
  /\ match \in [Matches -> [status: {"draft", "open"}, deadline: {1}, result: {"none"}]]
  /\ vote = [m \in Matches |-> [u \in Users |-> NoVote]]
  /\ balance = [u \in Users |-> Opening]
  /\ req = [r \in Requests |-> Blank] /\ edits = 0

At(r, phase) == req[r].pc = phase
Become(r, c) == req' = [req EXCEPT ![r] = c]
Finish(r) == Become(r, Blank)

HoldsMatch(q) == req[q].pc \in {"locked", "paying"}
\* mutant: nobody waits for the match row.
MatchFreeAlways(r, m) == TRUE
MatchFree(r, m) == \A q \in Requests \ {r} : HoldsMatch(q) => req[q].m # m
UserFree(r, u) == \A q \in Requests \ {r} : u \notin req[q].held

Late(row) == row.deadline <= now
Snapshot(m) == [row |-> match[m], votes |-> vote[m], balance |-> balance]
Pending(v) == {u \in Users : v.votes[u].status = "pending"}

-----------------------------------------------------------------------------
(* The early returns, decided on the snapshot.                              *)

\* mutant: only the deadline closes the vote.
MayCastUntilDeadline(v, u) == ~Late(v.row) /\ v.votes[u].status = "none"
MayCast(v, u) == v.row.status = "open" /\ ~Late(v.row) /\ v.votes[u].status = "none"

\* A settled match is settled again only in words: the same result is a
\* success that writes nothing, another one is an error.
MaySettle(v) == v.row.status = "closed" \/ (v.row.status = "open" /\ Late(v.row))

\* updateSportsMatch, called by the cancellation, refuses a cancelled match.
MayCancel(v) == v.row.status \notin Decided

-----------------------------------------------------------------------------
(* The transactions.                                                        *)

Begin(r, op, m, u, arg) ==
  /\ At(r, "idle")
  /\ Become(r, [Blank EXCEPT !.pc = "begun", !.op = op, !.m = m, !.u = u, !.arg = arg,
       !.view = IF SnapshotAtBegin THEN Snapshot(m) ELSE "none"])
  /\ UNCHANGED <<now, match, vote, balance, edits>>

\* lockSportsMatchForAccountMutation and getSportsMatchById.
LockMatch(r) ==
  /\ At(r, "begun") /\ MatchFree(r, req[r].m)
  /\ Become(r, [req[r] EXCEPT !.pc = "locked",
       !.view = IF SnapshotAtBegin THEN @ ELSE Snapshot(req[r].m)])
  /\ UNCHANGED <<now, match, vote, balance, edits>>

\* The checks, which end in a list of users rows to lock.
Check(r) ==
  LET c == req[r]  v == c.view IN
  /\ At(r, "locked")
  /\ \/ c.op = "cast" /\ MayCast(v, c.u) /\ Become(r, [c EXCEPT !.pc = "paying", !.need = {c.u}])
     \/ c.op = "settle" /\ MaySettle(v) /\ Become(r, [c EXCEPT !.pc = "paying", !.need = Pending(v)])
     \/ c.op = "cancel" /\ MayCancel(v) /\ Become(r, [c EXCEPT !.pc = "paying", !.need = Pending(v)])
  /\ UNCHANGED <<now, match, vote, balance, edits>>

\* lockUserForPoints; assertAccountMergeClassifiedMutationsAllowed, which
\* locks the rows of all pending voters in ascending order.
LockUser(r) ==
  LET u == Min(req[r].need) IN
  /\ At(r, "paying") /\ req[r].need # {} /\ UserFree(r, u)
  /\ Become(r, [req[r] EXCEPT !.need = @ \ {u}, !.held = @ \cup {u}])
  /\ UNCHANGED <<now, match, vote, balance, edits>>

MayCommit(r, op) == At(r, "paying") /\ req[r].op = op /\ req[r].need = {}

\* The unique key on match and user refuses a second row.
CastCommit(r) ==
  LET c == req[r]  left == c.view.balance[c.u] - Cost IN
  /\ MayCommit(r, "cast") /\ left >= 0 /\ vote[c.m][c.u].status = "none"
  /\ vote' = [vote EXCEPT ![c.m][c.u] =
       [NoVote EXCEPT !.status = "pending", !.prediction = c.arg, !.spent = 1]]
  /\ balance' = [balance EXCEPT ![c.u] = left]
  /\ Finish(r) /\ UNCHANGED <<now, match, edits>>

\* One vote settled.  One that has its reward row is only marked.
Settled(old, result) ==
  IF old.prediction # result THEN [old EXCEPT !.status = "lost"]
  ELSE [old EXCEPT !.status = "won", !.rewards = IF old.rewards > 0 THEN @ ELSE @ + 1]

\* The unique key on the vote refuses a second reward row.
SettleCommit(r) ==
  LET c == req[r]  v == c.view
      winners == {u \in Pending(v) : v.votes[u].prediction = c.arg}
      new == {u \in winners : v.votes[u].rewards = 0}
  IN
  /\ MayCommit(r, "settle") /\ \A u \in new : vote[c.m][u].rewards = 0
  /\ match' = [match EXCEPT ![c.m].status = "settled", ![c.m].result = c.arg]
  /\ vote' = [vote EXCEPT ![c.m] =
       [u \in Users |-> IF u \in Pending(v) THEN Settled(@[u], c.arg) ELSE @[u]]]
  /\ balance' = [u \in Users |->
       IF c.m \in InPoints /\ u \in new THEN v.balance[u] + Reward ELSE balance[u]]
  /\ Finish(r) /\ UNCHANGED <<now, edits>>

Refunded(old) == [old EXCEPT !.status = "refunded", !.refunds = @ + 1]

CancelCommit(r) ==
  LET c == req[r]  v == c.view IN
  /\ MayCommit(r, "cancel")
  /\ match' = [match EXCEPT ![c.m].status = "cancelled"]
  /\ vote' = [vote EXCEPT ![c.m] = [u \in Users |->
       IF u \in Pending(v) THEN Refunded(@[u]) ELSE @[u]]]
  /\ balance' = [u \in Users |-> IF u \in Pending(v) THEN v.balance[u] + Cost ELSE balance[u]]
  /\ Finish(r) /\ UNCHANGED <<now, edits>>

-----------------------------------------------------------------------------
(* An administrator's edit, time, and everything that goes wrong.           *)

\* The match a patch makes of a row; a field it lacks stays as it is.
Patched(row, s, d) ==
  [row EXCEPT !.status = IF s = "keep" THEN @ ELSE s, !.deadline = IF d = 0 THEN @ ELSE d]

\* The checks of updateSportsMatch, on a row read without a lock.
EditRead(r, m, s, d) ==
  /\ At(r, "idle") /\ edits < MaxEdits /\ match[m].status \notin Decided
  /\ Patched(match[m], s, d).status = "open" => ~Late(Patched(match[m], s, d))
  /\ edits' = edits + 1
  /\ Become(r, [Blank EXCEPT !.pc = "edit", !.m = m, !.arg = s, !.u = d])
  /\ UNCHANGED <<now, match, vote, balance>>

\* The UPDATE, which waits for the row and looks at nothing.
EditWrite(r) ==
  /\ At(r, "edit") /\ MatchFree(r, req[r].m)
  /\ match' = [match EXCEPT ![req[r].m] = Patched(@, req[r].arg, req[r].u)]
  /\ Finish(r) /\ UNCHANGED <<now, vote, balance, edits>>

Tick == now < MaxNow /\ now' = now + 1 /\ UNCHANGED <<match, vote, balance, req, edits>>

\* A check that refuses, too few points, a duplicate key, a crash: rolled back.
Fail(r) == ~At(r, "idle") /\ Finish(r) /\ UNCHANGED <<now, match, vote, balance, edits>>

Next ==
  \/ Tick
  \/ \E r \in Requests :
       \/ LockMatch(r) \/ Check(r) \/ LockUser(r) \/ CastCommit(r) \/ SettleCommit(r)
       \/ CancelCommit(r) \/ EditWrite(r) \/ Fail(r)
       \/ \E m \in Matches :
            \/ \E u \in Users, p \in Results : Begin(r, "cast", m, u, p)
            \/ \E p \in Results : Begin(r, "settle", m, 0, p)
            \/ Begin(r, "cancel", m, 0, "none")
            \/ \E s \in {"keep", "draft", "open", "closed"}, d \in Deadlines \cup {0} : EditRead(r, m, s, d)

Spec == Init /\ [][Next]_vars

-----------------------------------------------------------------------------
\* However settlements, cancellations, their retries and edits overlap, a vote
\* is charged once, a winner gets one reward, a refunded vote its points back
\* once, and nobody gets both.
PaidAsDecided ==
  \A m \in Matches, u \in Users :
    LET v == vote[m][u] IN
    /\ v.spent = IF v.status = "none" THEN 0 ELSE 1
    /\ v.rewards = IF v.status = "won" THEN 1 ELSE 0
    /\ v.refunds = IF v.status = "refunded" THEN 1 ELSE 0

\* No vote slips into a match that is being settled or cancelled: none is left
\* pending, its points gone, when the match is over.
NoVoteLeftBehind ==
  \A m \in Matches :
    match[m].status \in Decided => \A u \in Users : vote[m][u].status # "pending"

\* A settled match keeps its result.  An edit read before the settlement and
\* written after it breaks this, so no run takes it for a property.
ResultStands ==
  [][\A m \in Matches : match[m].status = "settled" => match'[m] = match[m]]_vars

Moved(u) ==
  LET Of(m) == LET v == vote[m][u] IN
        (v.refunds - v.spent) * Cost + (IF m \in InPoints THEN v.rewards * Reward ELSE 0)
  IN MapThenSumSet(Of, Matches)

\* The balance is what was charged, given back and won.  Votes of one user on
\* two matches break this, so no run takes it for an invariant.
PointsAddUp == \A u \in Users : balance[u] = Opening + Moved(u)

=============================================================================
