------------------------------ MODULE Sessions ------------------------------
(***************************************************************************)
(* The login sessions of one account and its paid-reading lease.           *)
(*                                                                         *)
(* server/services/sessionRegistry.ts keeps one row per session: a login   *)
(* takes a free slot or waits as pending_choice, a cookie from before the  *)
(* registry is adopted, a waiting session claims a freed slot, the         *)
(* third-login chooser displaces another one.  readingLease.ts gives one   *)
(* session at a time the right to paid pages.  _core/sdk.ts resolves every *)
(* request against the registry first and hands the status it found to the *)
(* handler, which uses it later.                                           *)
(*                                                                         *)
(* Every transaction locks what it decides on (the slots row, the session  *)
(* row, the lease row) and reads it after the locks, so a transaction is   *)
(* one step; everything between two transactions of a handler is another.  *)
(* The switch READER_SESSION_CONTROLS is read anew wherever the code reads *)
(* it.  All sessions here belong to one account: the statements filter by  *)
(* its id.  Readers are not administrators, who need no lease.             *)
(***************************************************************************)
EXTENDS Naturals, FiniteSets

CONSTANTS
  Sessions,    \* sessions this account may ever have
  Legacy,      \* those whose cookie is older than the registry
  Requests,    \* request handlers that run at the same time
  None,        \* no session
  SlotLimit,   \* SESSION_SLOT_LIMIT
  MaxVersion,  \* bound: the lease is handed out up to this version
  Span,        \* the lease's 90 seconds, in parts
  MaxExpired,  \* bound: this many cookies expire
  MaxFlips,    \* bound: how often the switch is turned
  FlagAtStart, \* the switch at the start
  Ops          \* in use: "login", "revoke", "choose", "lease", "read"

ASSUME SessionsAssumption ==
  /\ Legacy \subseteq Sessions /\ None \notin Sessions
  /\ SlotLimit \in Nat \ {0} /\ Span \in Nat \ {0} /\ MaxVersion \in Nat /\ MaxFlips \in Nat
  /\ MaxExpired \in Nat
  /\ FlagAtStart \in BOOLEAN

VARIABLES
  row,      \* authSessions: status, and the row's deadline: the cookie's, the
            \* chooser's 30-minute window, or that window when it is over
  jwtOver,  \* sessions whose cookie has expired
  lease,    \* readingLeases: holder, version (0: no row), and its time left
  flag,     \* READER_SESSION_CONTROLS
  flips,    \* how often it was turned
  issued,   \* sessions whose cookie a browser got
  given,    \* lease versions answered to each session
  quiet,    \* ghost: the quota has been in force without exception
  req       \* what every request handler is doing

switch == <<flag, flips>>
vars == <<row, jwtOver, lease, switch, issued, given, quiet, req>>

Held == {"active", "pending_choice", "unslotted_legacy"}
Ended == {"revoked", "superseded"}      \* superseded by a rotation or a chooser
Terminal == Ended \cup {"expired"}      \* superseded with reason "expired"

\* expiresAt <= NOW().
Past(s) == s \in jwtOver \/ row[s].exp = "over"
\* countActive: what a locking recount finds.
Seated == {s \in Sessions : row[s].status = "active" /\ ~Past(s)}
Free == Cardinality(Seated) < SlotLimit
Live == lease.left > 0

\* A handler's local data: its session, the status it was shown, the session
\* its login replaces, and every value the switch had since its last step.
Blank == [pc |-> "idle", session |-> None, got |-> "none", old |-> None, seen |-> {}]
Phases == {"idle", "login", "allocated", "adopt", "found", "live", "ctx", "acquire",
           "paid", "served"}

TypeOK ==
  /\ row \in [Sessions -> [status: Held \cup Terminal \cup {"none"}, exp: {"jwt", "window", "over"}]]
  /\ jwtOver \subseteq Sessions
  /\ lease \in [holder: Sessions \cup {None}, version: Nat, left: 0..Span]
  /\ flag \in BOOLEAN /\ flips \in 0..MaxFlips /\ quiet \in BOOLEAN
  /\ issued \subseteq Sessions /\ given \in [Sessions -> SUBSET (1..MaxVersion)]
  /\ req \in [Requests ->
       [pc: Phases, session: Sessions \cup {None}, old: Sessions \cup {None},
        got: Held \cup {"none"}, seen: SUBSET BOOLEAN]]
  /\ lease.version = 0 <=> lease.holder = None
  /\ \A s \in Sessions : row[s].status \in {"active", "unslotted_legacy"} => row[s].exp = "jwt"

Init ==
  /\ row = [s \in Sessions |-> [status |-> "none", exp |-> "jwt"]]
  /\ jwtOver = {}
  /\ lease = [holder |-> None, version |-> 0, left |-> 0]
  /\ flag = FlagAtStart /\ flips = 0 /\ quiet = FlagAtStart
  /\ issued = Legacy /\ given = [s \in Sessions |-> {}]
  /\ req = [r \in Requests |-> Blank]

At(r, phase) == req[r].pc = phase
Become(r, c) == req' = [req EXCEPT ![r] = [c EXCEPT !.seen = {flag}]]
Finish(r) == req' = [req EXCEPT ![r] = Blank]
GoTo(r, phase) == Become(r, [req[r] EXCEPT !.pc = phase])
\* From here on the status the request was shown no longer matters.
Proceed(r, phase) == Become(r, [req[r] EXCEPT !.pc = phase, !.got = "none"])
\* The request is authenticated with this status, or rejected.
Resolve(r, status) ==
  IF status \in Terminal THEN Finish(r)
  ELSE Become(r, [req[r] EXCEPT !.pc = "ctx", !.got = status])

SetStatus(s, status) == row' = [row EXCEPT ![s].status = status]

ActivateWithinWindow(s) == SetStatus(s, "active")  \* mutant: the chooser's deadline stays

\* A seat comes with the cookie's own deadline.
Activate(s) == row' = [row EXCEPT ![s] = [status |-> "active", exp |-> "jwt"]]

KeepLease(s) == UNCHANGED lease  \* mutant: the ended session keeps its lease

\* The lease dies with its holder, in the same transaction.
KillLease(s) ==
  lease' = IF lease.holder = s THEN [lease EXCEPT !.version = @ + 1, !.left = 0] ELSE lease

\* Any failure, every refusal, and a request that asks for nothing more.
Abandon(r) ==
  /\ ~At(r, "idle") /\ Finish(r)
  /\ UNCHANGED <<row, jwtOver, lease, switch, issued, given, quiet>>

-----------------------------------------------------------------------------
(* Time, and the operator's switch.                                         *)

\* The 30 minutes of a chooser pass.
WindowElapses(s) ==
  /\ row[s].status = "pending_choice" /\ row[s].exp = "window"
  /\ row' = [row EXCEPT ![s].exp = "over"]
  /\ UNCHANGED <<jwtOver, lease, switch, issued, given, quiet, req>>

\* A cookie reaches its exp claim, and the row its deadline.
CookieExpires(s) ==
  /\ s \notin jwtOver /\ Cardinality(jwtOver) < MaxExpired
  /\ row[s].status \in Held \/ (row[s].status = "none" /\ s \in issued)
  /\ jwtOver' = jwtOver \cup {s}
  /\ UNCHANGED <<row, lease, switch, issued, given, quiet, req>>

\* Part of the lease's 90 seconds pass.
LeaseRuns ==
  /\ Live /\ lease' = [lease EXCEPT !.left = @ - 1]
  /\ UNCHANGED <<row, jwtOver, switch, issued, given, quiet, req>>

\* Handlers under way may already have read the old value.
Flip ==
  /\ flips < MaxFlips /\ flips' = flips + 1 /\ flag' = ~flag
  /\ quiet' = FALSE
  /\ req' = [r \in Requests |->
       IF At(r, "idle") THEN Blank ELSE [req[r] EXCEPT !.seen = @ \cup {flag'}]]
  /\ UNCHANGED <<row, jwtOver, lease, issued, given>>

-----------------------------------------------------------------------------
(* Login.                                                                   *)

\* reconcileAfterFlagOn: the seats beyond the limit become unslotted_legacy.
\* Which ones stay is decided by lastSeenAt; here, any.  From here on the
\* quota is in force, unless a handler may still act on the switch being off.
Reconcile(r) ==
  /\ \E keep \in SUBSET Seated :
       /\ Cardinality(keep) = IF Free THEN Cardinality(Seated) ELSE SlotLimit
       /\ row' = [s \in Sessions |->
            IF s \in Seated \ keep THEN [row[s] EXCEPT !.status = "unslotted_legacy"] ELSE row[s]]
  /\ quiet' = (quiet \/ (flag /\ \A q \in Requests \ {r} : FALSE \notin req[q].seen))

\* The callback mints a cookie for s and looks for the session of the old
\* cookie (findRotatableRow), outside the transaction that will replace it.
LoginFind(r, s, old) ==
  /\ "login" \in Ops /\ At(r, "idle")
  /\ s \notin Legacy /\ row[s].status = "none" /\ \A q \in Requests : req[q].session # s
  /\ old # None => old \in issued \ jwtOver /\ row[old].status = "active"
  /\ Become(r, [Blank EXCEPT !.pc = "login", !.session = s, !.old = old])
  /\ UNCHANGED <<row, jwtOver, lease, switch, issued, given, quiet>>

\* allocateSessionRow.
LoginAllocate(r) ==
  LET s == req[r].session
      rotated == {req[r].old} \cap Seated
  IN
  /\ At(r, "login")
  /\ \E on \in req[r].seen :
       LET waits == on /\ Cardinality(Seated \ rotated) >= SlotLimit IN
       row' = [t \in Sessions |->
         CASE t \in rotated -> [row[t] EXCEPT !.status = "superseded"]
           [] t = s -> IF waits THEN [status |-> "pending_choice", exp |-> "window"]
                       ELSE [status |-> "active", exp |-> "jwt"]
           [] OTHER -> row[t]]
  /\ IF rotated = {} THEN UNCHANGED lease ELSE KillLease(req[r].old)
  /\ Become(r, [req[r] EXCEPT !.pc = "allocated", !.old = None])
  /\ UNCHANGED <<jwtOver, switch, issued, given, quiet>>

\* With the switch on the callback reconciles before it sets the cookie; had
\* it failed, the row would stay without a cookie.
LoginReconcile(r) ==
  /\ At(r, "allocated")
  /\ \/ TRUE \in req[r].seen /\ Reconcile(r)
     \/ FALSE \in req[r].seen /\ UNCHANGED <<row, quiet>>
  /\ issued' = issued \cup {req[r].session} /\ Finish(r)
  /\ UNCHANGED <<jwtOver, lease, switch, given>>

-----------------------------------------------------------------------------
(* Resolving a request: resolveRegistryRow.  "got" is what the request will *)
(* believe of its session from then on.                                     *)

\* findSessionByCookie; a terminal row never authenticates.
Request(r, s) ==
  /\ At(r, "idle") /\ s \in issued \ jwtOver /\ row[s].status \notin Terminal
  /\ Become(r, [Blank EXCEPT !.pc = IF row[s].status = "none" THEN "adopt" ELSE "found",
                             !.session = s, !.got = row[s].status])
  /\ UNCHANGED <<row, jwtOver, lease, switch, issued, given, quiet>>

\* adoptLegacySession; with the switch off the cookie stays outside.
Adopt(r) ==
  LET s == req[r].session
      adopted == IF row[s].status # "none" THEN row[s].status
                 ELSE IF Free THEN "active" ELSE "unslotted_legacy"
  IN
  /\ At(r, "adopt")
  /\ \/ TRUE \in req[r].seen /\ SetStatus(s, adopted) /\ Resolve(r, adopted)
     \/ FALSE \in req[r].seen /\ UNCHANGED row /\ Resolve(r, "none")
  /\ UNCHANGED <<jwtOver, lease, switch, issued, given, quiet>>

\* expireRowIfPastDeadline: the row goes, its lease stays.
CheckDeadline(r) ==
  LET s == req[r].session IN
  /\ At(r, "found")
  /\ IF row[s].status \in Held /\ Past(s)
     THEN SetStatus(s, "expired") /\ Finish(r)
     ELSE GoTo(r, "live") /\ UNCHANGED row
  /\ UNCHANGED <<jwtOver, lease, switch, issued, given, quiet>>

PromotedUncounted(s, on) ==  \* mutant: no recount under the slots lock
  IF row[s].status = "unslotted_legacy" THEN "active" ELSE row[s].status

\* maybePromoteUnslotted, under either value of the switch.
Promoted(s, on) ==
  IF row[s].status = "unslotted_legacy" /\ (on => Free) THEN "active" ELSE row[s].status

Promote(r) ==
  LET s == req[r].session IN
  /\ At(r, "live") /\ req[r].got = "unslotted_legacy" /\ TRUE \in req[r].seen
  /\ \E on \in req[r].seen : SetStatus(s, Promoted(s, on)) /\ Resolve(r, Promoted(s, on))
  /\ UNCHANGED <<jwtOver, lease, switch, issued, given, quiet>>

\* maybeActivatePending.
Claim(r) ==
  LET s == req[r].session
      mayClaim == row[s].status = "pending_choice" /\ s \notin jwtOver
  IN
  /\ At(r, "live") /\ req[r].got = "pending_choice"
  /\ \E on \in req[r].seen :
       IF mayClaim /\ on /\ Past(s) THEN SetStatus(s, "expired") /\ Finish(r)
       ELSE IF mayClaim /\ (on => Free) THEN Activate(s) /\ Resolve(r, "active")
       ELSE UNCHANGED row /\ Resolve(r, row[s].status)
  /\ UNCHANGED <<jwtOver, lease, switch, issued, given, quiet>>

\* An active session reconciles before its rights are decided, and takes its
\* status from a read after that.
ReconcileOwn(r) ==
  /\ At(r, "live") /\ req[r].got = "active" /\ TRUE \in req[r].seen
  /\ Reconcile(r) /\ Resolve(r, row'[req[r].session].status)
  /\ UNCHANGED <<jwtOver, lease, switch, issued, given>>

\* With the switch off the row is believed as it was found.
PassThrough(r) ==
  /\ At(r, "live") /\ req[r].got # "pending_choice" /\ FALSE \in req[r].seen
  /\ Resolve(r, req[r].got)
  /\ UNCHANGED <<row, jwtOver, lease, switch, issued, given, quiet>>

-----------------------------------------------------------------------------
(* Ending sessions.                                                         *)

\* revokeByToken: the caller's cookie, resolved or not.
Logout(s) ==
  /\ s \in issued /\ row[s].status \in Held
  /\ SetStatus(s, "revoked") /\ KillLease(s)
  /\ UNCHANGED <<jwtOver, switch, issued, given, quiet, req>>

\* authenticatedProcedure: a session that still waits may not do this.
Slotted(r) == req[r].got = "pending_choice" => FALSE \in req[r].seen

\* revokeOwnSession: a request of one session revokes another, or itself.
Revoke(r, t) ==
  /\ "revoke" \in Ops /\ At(r, "ctx") /\ Slotted(r) /\ row[t].status \in Held
  /\ SetStatus(t, "revoked") /\ KillLease(t) /\ Finish(r)
  /\ UNCHANGED <<jwtOver, switch, issued, given, quiet>>

\* resolveThirdLogin: displace session d and take its seat.  If no seat is
\* free even then, the displacement stays and the caller still waits.
Choose(r, d) ==
  LET s == req[r].session
      gone == IF row[d].status \in Held /\ ~Past(d) THEN {d} ELSE {}
      seat == s \notin gone /\ Cardinality(Seated \ gone) < SlotLimit
  IN
  /\ "choose" \in Ops /\ At(r, "ctx") /\ req[r].got # "none" /\ s \notin jwtOver
  /\ row[s].status = "pending_choice"
  /\ IF Past(s) THEN SetStatus(s, "expired") /\ UNCHANGED lease
     ELSE /\ row[d].status # "none"
          /\ row' = [t \in Sessions |->
               CASE t \in gone -> [row[t] EXCEPT !.status = "superseded"]
                 [] t = s /\ seat -> [status |-> "active", exp |-> "jwt"]
                 [] OTHER -> row[t]]
          /\ IF gone = {} THEN UNCHANGED lease ELSE KillLease(d)
  /\ Finish(r)
  /\ UNCHANGED <<jwtOver, switch, issued, given, quiet>>

-----------------------------------------------------------------------------
(* The reading lease.  Every transaction locks the caller's session row and *)
(* goes on only if it is active and before its deadline.                    *)

TakeSameVersion(s) ==  \* mutant: a lapsed lease changes hands under its old version
  /\ lease.version < MaxVersion
  /\ lease' = [holder |-> s, version |-> IF lease.version = 0 THEN 1 ELSE lease.version,
               left |-> Span]

Take(s) ==
  /\ lease.version < MaxVersion
  /\ lease' = [holder |-> s, version |-> lease.version + 1, left |-> Span]
Arm == lease' = [lease EXCEPT !.left = Span]
Answer(s) == given' = [given EXCEPT ![s] = @ \cup {lease'.version}]

\* acquireLease: an own live lease is armed again, another's is respected.
Acquire(s) ==
  /\ s \in Seated /\ (Live => lease.holder = s)
  /\ IF Live THEN Arm ELSE Take(s)

\* reader.lease.acquire first promotes an unslotted session.
AskLease(r) ==
  LET s == req[r].session IN
  /\ "lease" \in Ops /\ At(r, "ctx") /\ Slotted(r) /\ req[r].got # "none"
  /\ \E on \in req[r].seen :
       /\ SetStatus(s, Promoted(s, on))
       /\ IF Promoted(s, on) = "active" THEN Proceed(r, "acquire") ELSE Finish(r)
  /\ UNCHANGED <<jwtOver, lease, switch, issued, given, quiet>>

AcquireLease(r) ==
  LET s == req[r].session IN
  /\ At(r, "acquire") /\ Acquire(s) /\ Answer(s) /\ Finish(r)
  /\ UNCHANGED <<row, jwtOver, switch, issued, quiet>>

RenewLeaseOfAnyRow(r, v) ==  \* mutant: the session row is not locked and checked first
  LET s == req[r].session IN
  /\ "lease" \in Ops /\ At(r, "ctx") /\ Slotted(r) /\ v \in given[s]
  /\ lease.holder = s /\ lease.version = v /\ Live
  /\ Arm /\ Finish(r)
  /\ UNCHANGED <<row, jwtOver, switch, issued, given, quiet>>

\* renewLease, with any version this session was ever answered.
RenewLease(r, v) ==
  LET s == req[r].session IN
  /\ "lease" \in Ops /\ At(r, "ctx") /\ Slotted(r) /\ v \in given[s]
  /\ s \in Seated /\ lease.holder = s /\ lease.version = v /\ Live
  /\ Arm /\ Finish(r)
  /\ UNCHANGED <<row, jwtOver, switch, issued, given, quiet>>

\* transferLease takes even a live lease of another session.
TransferLease(r) ==
  LET s == req[r].session IN
  /\ "lease" \in Ops /\ At(r, "ctx") /\ req[r].got = "active" /\ s \in Seated
  /\ Take(s) /\ Answer(s) /\ Finish(r)
  /\ UNCHANGED <<row, jwtOver, switch, issued, quiet>>

\* evaluatePaidRead with the switch on: the status the request was given, then
\* the lease (holdsActiveLease).  Chapter pages try to acquire it.
Read(r) ==
  /\ "read" \in Ops /\ At(r, "ctx") /\ req[r].got = "active" /\ TRUE \in req[r].seen
  /\ Proceed(r, IF lease.holder = req[r].session /\ Live THEN "served" ELSE "paid")
  /\ UNCHANGED <<row, jwtOver, lease, switch, issued, given, quiet>>

AcquireToRead(r) ==
  /\ At(r, "paid") /\ Acquire(req[r].session) /\ GoTo(r, "served")
  /\ UNCHANGED <<row, jwtOver, switch, issued, given, quiet>>

-----------------------------------------------------------------------------
Next ==
  \/ LeaseRuns \/ Flip
  \/ \E s \in Sessions : WindowElapses(s) \/ CookieExpires(s) \/ Logout(s)
  \/ \E r \in Requests :
       \/ Abandon(r) \/ LoginAllocate(r) \/ LoginReconcile(r)
       \/ Adopt(r) \/ CheckDeadline(r) \/ Promote(r) \/ Claim(r) \/ ReconcileOwn(r)
       \/ PassThrough(r) \/ AskLease(r) \/ AcquireLease(r) \/ TransferLease(r)
       \/ Read(r) \/ AcquireToRead(r)
       \/ \E s \in Sessions : Request(r, s) \/ Revoke(r, s) \/ Choose(r, s)
       \/ \E s \in Sessions, old \in Sessions \cup {None} : LoginFind(r, s, old)
       \/ \E v \in 1..MaxVersion : RenewLease(r, v)

Spec == Init /\ [][Next]_vars

-----------------------------------------------------------------------------
\* Once the quota is in force without exception (the switch was on from the
\* start, or a reconciliation ran with no handler left that may act on its
\* being off), logins, adoptions, promotions, claims and choosers of any number
\* of devices never seat more than SESSION_SLOT_LIMIT sessions together.
QuotaKept == quiet => Cardinality(Seated) <= SlotLimit

\* No two sessions are ever answered the same lease version, so a version a
\* displaced reader still has can never renew the lease of the next one.
VersionsFenced ==
  \A s, t \in Sessions : s # t => given[s] \cap given[t] = {}

\* However old the status a request carries, a paid page is never served to a
\* session that was logged out, revoked, displaced or rotated away before.
ReadsNeedStanding ==
  [][\A r \in Requests : At(r, "served")' /\ ~At(r, "served")
       => row[req[r].session].status \notin Ended]_vars

\* The registry and the lease keep the promise of ReadingRight.
Right == INSTANCE ReadingRight WITH
  reader <- IF Live THEN lease.holder ELSE None,
  left <- lease.left,
  epoch <- lease.version,
  ended <- {s \in Sessions : row[s].status \in Ended},
  expired <- {s \in Sessions : row[s].status = "expired"}
ImplementsRight == Right!Spec

=============================================================================
