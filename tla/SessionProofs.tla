---------------------------- MODULE SessionProofs ----------------------------
(***************************************************************************)
(* Proofs about Sessions, for every number of sessions and handlers, every *)
(* slot limit, and the switch turned as often as one likes.                *)
(*                                                                         *)
(* A step is described by what it does to the rows, to the lease and to    *)
(* its handler.  A row once written is never unwritten; only a step that   *)
(* kills the lease of a session ends it; only a step that counted the      *)
(* seats, or that may believe the switch is off, adds one.                 *)
(***************************************************************************)
EXTENDS Sessions, FiniteSetTheorems, TLAPS

RowRecords == [status: Held \cup Terminal \cup {"none"}, exp: {"jwt", "window", "over"}]
Handlers == [pc: Phases, session: Sessions \cup {None}, old: Sessions \cup {None},
             got: Held \cup {"none"}, seen: SUBSET BOOLEAN]

\* Only the chooser has a deadline of its own.
RowFits(w) ==
  w \in RowRecords /\ (w.status \in {"active", "unslotted_legacy", "none"} => w.exp = "jwt")

\* A cookie is older than the registry or has a row.
RowsFit ==
  /\ row \in [Sessions -> RowRecords] /\ \A s \in Sessions : RowFits(row[s])
  /\ issued \subseteq Sessions /\ jwtOver \subseteq Sessions
  /\ \A s \in issued : s \in Legacy \/ row[s].status # "none"

LeaseTyped ==
  /\ lease \in [holder: Sessions \cup {None}, version: Nat, left: 0..Span]
  /\ given \in [Sessions -> SUBSET (1..MaxVersion)]
  /\ lease.version = 0 <=> lease.holder = None

\* A live lease was handed out, and its holder was not ended.
LiveStands ==
  Live => /\ lease.holder \in Sessions /\ lease.version <= MaxVersion
          /\ row[lease.holder].status \notin Ended

\* Every version answered is a past one, or the present one of its holder.
GivenFits ==
  /\ \A s \in Sessions : \A v \in given[s] :
       v <= lease.version /\ (v = lease.version => lease.holder = s)
  /\ VersionsFenced

LeaseFits == LeaseTyped /\ LiveStands /\ GivenFits

\* What a handler works on: a login on a session nobody has seen, anything else
\* on one whose cookie is out.
Serving(c) == c.pc \notin {"idle", "login", "allocated"}
Aims(c) ==
  /\ c.pc = "login" =>
       c.session \in Sessions \ issued /\ c.session \notin Legacy /\ row[c.session].status = "none"
  /\ c.pc = "allocated" => c.session \in Sessions /\ row[c.session].status # "none"
  /\ Serving(c) => c.session \in issued

LoggingIn(r) == req[r].pc \in {"login", "allocated"}
HandlersFit ==
  /\ req \in [Requests -> Handlers] /\ \A r \in Requests : Aims(req[r])
  /\ \A q, r \in Requests :
       LoggingIn(q) /\ LoggingIn(r) /\ req[q].session = req[r].session => q = r

\* While the quota is in force nobody may believe that the switch is off.
QuietMeans ==
  /\ flag \in BOOLEAN /\ flips \in 0..MaxFlips /\ quiet \in BOOLEAN
  /\ quiet => flag /\ \A r \in Requests : FALSE \notin req[r].seen

SeatsKept == IsFiniteSet(Seated) /\ QuotaKept

Inv == RowsFit /\ LeaseFits /\ HandlersFit /\ QuietMeans /\ SeatsKept

-----------------------------------------------------------------------------
(* What a step does to the rows, to the lease and to its handler.           *)

\* Rows stay rows, none disappears, and only those in new appear.
Writes(new) ==
  /\ row' \in [Sessions -> RowRecords] /\ \A s \in Sessions : RowFits(row'[s])
  /\ \A s \in Sessions :
       /\ row[s].status # "none" => row'[s].status # "none"
       /\ row'[s].status # "none" => row[s].status # "none" \/ s \in new

Spares ==
  /\ UNCHANGED <<lease, given>>
  /\ \A s \in Sessions : row'[s].status \in Ended => row[s].status \in Ended

Ends(d) ==
  /\ KillLease(d) /\ UNCHANGED given
  /\ \A s \in Sessions \ {d} : row'[s].status \in Ended => row[s].status \in Ended

Hands(s) ==
  /\ UNCHANGED row
  /\ Acquire(s) \/ Take(s) \/ (Live /\ lease.holder = s /\ Arm)
  /\ UNCHANGED given \/ Answer(s)

\* At most one handler goes on, not to a login, and knows only the present switch.
Serves(r, c) ==
  /\ req' = [req EXCEPT ![r] = c] /\ c.seen \subseteq {flag}
  /\ c.pc \notin {"login", "allocated"} /\ (Serving(c) => c.session \in issued)
ServedBy(r) == \E c \in Handlers : Serves(r, c)
Served == UNCHANGED req \/ \E r \in Requests : ServedBy(r)

LEMMA RowsKept ==
  ASSUME Inv, NEW new \in SUBSET Sessions, Writes(new), issued' = issued, jwtOver' \subseteq Sessions
  PROVE  RowsFit'
BY DEF Inv, RowsFit, Writes

LEMMA LeaseSpared ==
  ASSUME Inv, Spares
  PROVE  LeaseFits'
<1>1. LeaseTyped' /\ GivenFits'
  BY DEF Inv, LeaseFits, LeaseTyped, GivenFits, VersionsFenced, Spares
<1>2. LiveStands'
  BY DEF Inv, LeaseFits, LiveStands, Live, Spares
<1> QED
  BY <1>1, <1>2 DEF LeaseFits

LEMMA LeaseKilled ==
  ASSUME Inv, NEW d \in Sessions, Ends(d)
  PROVE  LeaseFits'
<1>1. lease.holder = d => /\ lease' = [holder |-> d, version |-> lease.version + 1, left |-> 0]
                          /\ lease.version \in Nat /\ 0 \in 0..Span
  <2>1. lease \in [holder: Sessions \cup {None}, version: Nat, left: 0..Span]
    BY DEF Inv, LeaseFits, LeaseTyped
  <2>2. lease.holder = d => lease' = [lease EXCEPT !.version = lease.version + 1, !.left = 0]
    BY DEF Ends, KillLease
  <2>3. 0 \in 0..Span /\ lease.version \in Nat
    BY <2>1, SessionsAssumption
  <2> QED
    BY <2>1, <2>2, <2>3
<1>2. lease.holder # d => UNCHANGED lease
  BY DEF Ends, KillLease
<1>3. UNCHANGED given
  BY DEF Ends
<1>4. LeaseTyped'
  <2>1. CASE lease.holder = d
    BY <1>1, <1>3, <2>1, SessionsAssumption DEF Inv, LeaseFits, LeaseTyped
  <2>2. CASE lease.holder # d
    BY <1>2, <1>3, <2>2 DEF Inv, LeaseFits, LeaseTyped
  <2> QED
    BY <2>1, <2>2
<1>5. GivenFits'
  <2>1. CASE lease.holder = d
    <3>1. lease'.version = lease.version + 1 /\ lease.version \in Nat
      BY <1>1, <2>1
    <3>2. \A s \in Sessions : \A v \in given[s] : v \in Nat /\ v <= lease.version
      BY DEF Inv, LeaseFits, LeaseTyped, GivenFits, VersionsFenced
    <3> QED
      BY <1>3, <3>1, <3>2 DEF Inv, LeaseFits, GivenFits, VersionsFenced
  <2>2. CASE lease.holder # d
    BY <1>2, <1>3, <2>2 DEF Inv, LeaseFits, GivenFits, VersionsFenced
  <2> QED
    BY <2>1, <2>2
<1>6. LiveStands'
  <2>1. CASE lease.holder = d
    BY <1>1, <2>1 DEF Live, LiveStands
  <2>2. CASE lease.holder # d
    BY <1>2, <2>2 DEF Inv, LeaseFits, LiveStands, Live, Ends
  <2> QED
    BY <2>1, <2>2
<1> QED
  BY <1>4, <1>5, <1>6 DEF LeaseFits

LEMMA LeaseHanded ==
  ASSUME Inv, NEW s \in Seated, Hands(s)
  PROVE  LeaseFits'
<1>1. s \in Sessions /\ row[s].status = "active" /\ UNCHANGED row
  BY DEF Seated, Hands
<1>2. PICK v \in 1..MaxVersion :
        /\ lease' = [holder |-> s, version |-> v, left |-> Span]
        /\ (v = lease.version /\ lease.holder = s) \/ v = lease.version + 1
  <2>1. CASE Take(s)
    BY <2>1, SessionsAssumption DEF Take, Inv, LeaseFits, LeaseTyped
  <2>2. CASE Live /\ lease.holder = s /\ Arm
    <3>1. lease.version \in 1..MaxVersion
      BY <1>1, <2>2, SessionsAssumption DEF Inv, LeaseFits, LeaseTyped, LiveStands
    <3> QED
      BY <2>2, <3>1 DEF Arm, Inv, LeaseFits, LeaseTyped
  <2> QED
    BY <2>1, <2>2 DEF Hands, Acquire
<1>3. LeaseTyped'
  BY <1>1, <1>2, SessionsAssumption DEF Hands, Answer, Inv, LeaseFits, LeaseTyped
<1>4. LiveStands'
  BY <1>1, <1>2 DEF LiveStands, Ended
<1>5. ASSUME NEW t \in Sessions, NEW x \in given'[t]
      PROVE  x <= v /\ (x = v => t = s)
  <2>1. x \in given[t] \/ (t = s /\ x = v)
    BY <1>1, <1>2, <1>5 DEF Hands, Answer, Inv, LeaseFits, LeaseTyped
  <2>2. x \in given[t] => x \in Nat /\ x <= lease.version /\ (x = lease.version => lease.holder = t)
    BY DEF Inv, LeaseFits, LeaseTyped, GivenFits, VersionsFenced
  <2> QED
    BY <1>2, <2>1, <2>2 DEF Inv, LeaseFits, LeaseTyped
<1>6. VersionsFenced'
  <2>1. \A t \in Sessions : given'[t] \in {given[t], given[t] \cup {v}}
    BY <1>1, <1>2 DEF Hands, Answer, Inv, LeaseFits, LeaseTyped
  <2> QED
    BY <1>5, <2>1 DEF Inv, LeaseFits, GivenFits, VersionsFenced
<1>7. GivenFits'
  BY <1>2, <1>5, <1>6 DEF GivenFits
<1> QED
  BY <1>3, <1>4, <1>7 DEF LeaseFits

\* A handler starts on what it may work on, and no login on another's session.
LEMMA HandlerKept ==
  ASSUME Inv, NEW r \in Requests, NEW c \in Handlers, req' = [req EXCEPT ![r] = c], Aims(c)',
         c.pc \in {"login", "allocated"} =>
           \A q \in Requests \ {r} : LoggingIn(q) => req[q].session # c.session,
         NEW new \in SUBSET Sessions, Writes(new), issued \subseteq issued',
         \A q \in Requests \ {r} :
           req[q].pc = "login" => req[q].session \notin new \cup (issued' \ issued)
  PROVE  HandlersFit'
<1>1. \A q \in Requests : req'[q] = IF q = r THEN c ELSE req[q]
  BY DEF Inv, HandlersFit
<1>2. req' \in [Requests -> Handlers]
  BY DEF Inv, HandlersFit
<1>3. ASSUME NEW q \in Requests, q # r PROVE Aims(req[q])'
  <2>1. Aims(req[q]) /\ req'[q] = req[q]
    BY <1>1, <1>3 DEF Inv, HandlersFit
  <2> QED
    BY <1>3, <2>1 DEF Aims, Serving, Writes
<1>4. \A q \in Requests : Aims(req[q])'
  BY <1>1, <1>3 DEF Aims, Serving
<1>5. \A q, x \in Requests :
        LoggingIn(q)' /\ LoggingIn(x)' /\ req'[q].session = req'[x].session => q = x
  BY <1>1 DEF Inv, HandlersFit, LoggingIn
<1> QED
  BY <1>2, <1>4, <1>5 DEF HandlersFit, LoggingIn

LEMMA HandlerServed ==
  ASSUME Inv, Served, Writes(issued), issued' = issued, UNCHANGED <<flag, flips, quiet>>
  PROVE  HandlersFit' /\ QuietMeans'
<1>0. issued \in SUBSET Sessions
  BY DEF Inv, RowsFit
<1>1. CASE UNCHANGED req
  BY <1>1 DEF Inv, HandlersFit, QuietMeans, LoggingIn, Aims, Serving, Writes
<1>2. ASSUME NEW r \in Requests, NEW c \in Handlers, Serves(r, c)
      PROVE  HandlersFit' /\ QuietMeans'
  <2>1. HandlersFit'
    <3>1. Aims(c)'
      BY <1>2 DEF Serves, Aims, Serving
    <3>2. \A q \in Requests : req[q].pc = "login" => req[q].session \notin issued
      BY DEF Inv, HandlersFit, Aims
    <3> QED
      BY <1>0, <1>2, <3>1, <3>2, HandlerKept DEF Serves
  <2>2. QuietMeans'
    BY <1>2 DEF Serves, Inv, HandlersFit, QuietMeans
  <2> QED
    BY <2>1, <2>2
<1> QED
  BY <1>1, <1>2 DEF Served, ServedBy

-----------------------------------------------------------------------------
(* Seats.                                                                   *)

LEMMA FewerSeats ==
  ASSUME Inv, \A s \in Sessions : s \in Seated' => s \in Seated, UNCHANGED quiet
  PROVE  SeatsKept'
<1>1. Seated' \subseteq Seated
  BY DEF Seated
<1>2. IsFiniteSet(Seated') /\ Cardinality(Seated') <= Cardinality(Seated)
  BY <1>1, FS_Subset DEF Inv, SeatsKept
<1>3. Cardinality(Seated) \in Nat /\ Cardinality(Seated') \in Nat
  BY <1>2, FS_CardinalityType DEF Inv, SeatsKept
<1> QED
  BY <1>2, <1>3, SessionsAssumption DEF Inv, SeatsKept, QuotaKept

LEMMA OneMoreSeat ==
  ASSUME Inv, NEW kept \in SUBSET Seated, NEW s, \A t \in Sessions : t \in Seated' => t \in kept \cup {s},
         quiet => Cardinality(kept) < SlotLimit, UNCHANGED quiet
  PROVE  SeatsKept'
<1>1. Seated' \subseteq kept \cup {s}
  BY DEF Seated
<1>2. IsFiniteSet(kept) /\ Cardinality(kept) \in Nat
  BY FS_Subset, FS_CardinalityType DEF Inv, SeatsKept
<1>3. IsFiniteSet(kept \cup {s}) /\ Cardinality(kept \cup {s}) <= Cardinality(kept) + 1
  BY <1>2, FS_AddElement
<1>4. IsFiniteSet(Seated') /\ Cardinality(Seated') <= Cardinality(kept \cup {s})
  BY <1>1, <1>3, FS_Subset
<1>5. Cardinality(Seated') \in Nat /\ Cardinality(kept \cup {s}) \in Nat
  BY <1>3, <1>4, FS_CardinalityType
<1> QED
  BY <1>2, <1>3, <1>4, <1>5, SessionsAssumption DEF SeatsKept, QuotaKept

-----------------------------------------------------------------------------
(* Every shape of step keeps the invariant.                                 *)

LEMMA RestKeeps ==
  ASSUME Inv, Served, UNCHANGED <<row, lease, given, switch, issued, quiet>>,
         jwtOver \subseteq jwtOver', jwtOver' \subseteq Sessions
  PROVE  Inv'
<1>0. issued \in SUBSET Sessions
  BY DEF Inv, RowsFit
<1>1. Writes(issued)
  BY DEF Inv, RowsFit, Writes
<1>2. RowsFit'
  BY <1>0, <1>1, RowsKept
<1>3. HandlersFit' /\ QuietMeans'
  BY <1>1, HandlerServed DEF switch
<1>4. LeaseFits'
  BY LeaseSpared DEF Spares
<1>5. SeatsKept'
  BY FewerSeats DEF Seated, Past
<1> QED
  BY <1>2, <1>3, <1>4, <1>5 DEF Inv

LEMMA AmendKeeps ==
  ASSUME Inv, Served, UNCHANGED <<jwtOver, lease, given, switch, issued, quiet>>,
         NEW s \in Sessions, NEW w, row' = [row EXCEPT ![s] = w], RowFits(w),
         w.status # "none", row[s].status # "none" \/ s \in issued,
         w.status \in Ended => row[s].status \in Ended,
         w.status = "active" /\ row[s].status # "active" => (quiet => Free)
  PROVE  Inv'
<1>0. issued \in SUBSET Sessions
  BY DEF Inv, RowsFit
<1>1. \A t \in Sessions : row'[t] = IF t = s THEN w ELSE row[t]
  BY DEF Inv, RowsFit
<1>2. Writes(issued)
  BY <1>1 DEF Inv, RowsFit, RowFits, Writes
<1>3. RowsFit'
  BY <1>0, <1>2, RowsKept DEF Inv, RowsFit
<1>4. HandlersFit' /\ QuietMeans'
  BY <1>2, HandlerServed DEF switch
<1>5. LeaseFits'
  BY <1>1, LeaseSpared DEF Spares
<1>6. SeatsKept'
  <2>1. CASE w.status = "active" /\ row[s].status # "active"
    <3>1. \A t \in Sessions : t \in Seated' => t \in Seated \cup {s}
      BY <1>1 DEF Seated, Past
    <3>2. quiet => Cardinality(Seated) < SlotLimit
      BY <2>1 DEF Free
    <3> HIDE DEF Seated
    <3> QED
      BY <3>1, <3>2, OneMoreSeat
  <2>2. CASE ~(w.status = "active" /\ row[s].status # "active")
    <3>1. \A t \in Sessions : t \in Seated' => t \in Seated
      BY <1>1, <2>2 DEF Seated, Past, Inv, RowsFit, RowFits
    <3> QED
      BY <3>1, FewerSeats
  <2> QED
    BY <2>1, <2>2
<1> QED
  BY <1>3, <1>4, <1>5, <1>6 DEF Inv

LEMMA StatusKeeps ==
  ASSUME Inv, Served, UNCHANGED <<jwtOver, lease, given, switch, issued, quiet>>,
         NEW s \in issued, NEW x \in Held \cup Terminal \cup {"none"}, SetStatus(s, x),
         x = "none" => row[s].status = "none",
         x \in {"active", "unslotted_legacy"} => row[s].exp = "jwt",
         x \in Ended => row[s].status \in Ended,
         x = "active" /\ row[s].status # "active" => (quiet => Free)
  PROVE  Inv'
<1> DEFINE w == [row[s] EXCEPT !.status = x]
<1>1. s \in Sessions /\ row[s] \in RowRecords
  BY DEF Inv, RowsFit
<1>2. w.status = x /\ w.exp = row[s].exp /\ w \in RowRecords
  BY <1>1 DEF RowRecords
<1>3. row' = [row EXCEPT ![s] = w]
  BY DEF SetStatus
<1>4. CASE x = "none"
  <2>1. w = row[s]
    BY <1>1, <1>4 DEF RowRecords
  <2>2. UNCHANGED row
    BY <1>3, <2>1 DEF Inv, RowsFit
  <2> QED
    BY <2>2, RestKeeps DEF Inv, RowsFit
<1>5. CASE x # "none"
  <2> HIDE DEF w
  <2>1. RowFits(w)
    BY <1>2, <1>5 DEF RowFits
  <2> QED
    BY <1>1, <1>2, <1>3, <1>5, <2>1, AmendKeeps
<1> QED
  BY <1>4, <1>5

LEMMA EndKeeps ==
  ASSUME Inv, Served, UNCHANGED <<jwtOver, switch, issued, given, quiet>>,
         NEW d \in Sessions, row[d].status \in Held, SetStatus(d, "revoked"), KillLease(d)
  PROVE  Inv'
<1>0. issued \in SUBSET Sessions
  BY DEF Inv, RowsFit
<1> DEFINE w == [row[d] EXCEPT !.status = "revoked"]
<1>1. row' = [row EXCEPT ![d] = w]
  BY DEF SetStatus, Inv, RowsFit
<1>2. w.status = "revoked" /\ w \in RowRecords /\ row[d] \in RowRecords
  BY DEF Inv, RowsFit, RowRecords, Terminal, Ended
<1> HIDE DEF w
<1>3. \A t \in Sessions : row'[t] = IF t = d THEN w ELSE row[t]
  BY <1>1 DEF Inv, RowsFit
<1>4. Writes(issued)
  BY <1>2, <1>3, <1>1 DEF Inv, RowsFit, RowFits, Writes, Held
<1>5. RowsFit'
  BY <1>0, <1>4, RowsKept DEF Inv, RowsFit
<1>6. HandlersFit' /\ QuietMeans'
  BY <1>4, HandlerServed DEF switch
<1>7. LeaseFits'
  BY <1>3, LeaseKilled DEF Ends
<1>8. SeatsKept'
  BY <1>2, <1>3, FewerSeats DEF Seated, Past
<1> QED
  BY <1>5, <1>6, <1>7, <1>8 DEF Inv

LEMMA HandKeeps ==
  ASSUME Inv, Served, NEW s \in Seated, Hands(s), UNCHANGED <<jwtOver, switch, issued, quiet>>
  PROVE  Inv'
<1>0. issued \in SUBSET Sessions
  BY DEF Inv, RowsFit
<1>1. Writes(issued) /\ UNCHANGED row
  BY DEF Inv, RowsFit, Writes, Hands
<1>2. RowsFit'
  BY <1>0, <1>1, RowsKept DEF Inv, RowsFit
<1>3. HandlersFit' /\ QuietMeans'
  BY <1>1, HandlerServed DEF switch
<1>4. SeatsKept'
  BY <1>1, FewerSeats DEF Seated, Past
<1> QED
  BY <1>2, <1>3, <1>4, LeaseHanded DEF Inv

-----------------------------------------------------------------------------
(* What handlers do with themselves.                                        *)

LEMMA FinishServes ==
  ASSUME NEW r \in Requests, Finish(r)
  PROVE  Served /\ ServedBy(r)
<1>1. Blank \in Handlers /\ Blank.seen = {} /\ Blank.pc = "idle"
  BY DEF Blank, Handlers, Phases
<1> QED
  BY <1>1 DEF Finish, Served, ServedBy, Serves, Serving

LEMMA GoOnServes ==
  ASSUME Inv, NEW r \in Requests, Serving(req[r]), NEW phase \in Phases \ {"login", "allocated"},
         NEW got \in Held \cup {"none"}, Become(r, [req[r] EXCEPT !.pc = phase, !.got = got])
  PROVE  Served /\ ServedBy(r)
<1>1. req[r] \in Handlers /\ req[r].session \in issued
  BY DEF Inv, HandlersFit, Aims
<1> DEFINE c == [[req[r] EXCEPT !.pc = phase, !.got = got] EXCEPT !.seen = {flag}]
<1>2. c \in Handlers /\ c.seen = {flag} /\ c.pc = phase /\ c.session = req[r].session
  BY <1>1 DEF Handlers, Inv, QuietMeans
<1>3. req' = [req EXCEPT ![r] = c]
  BY DEF Become
<1> HIDE DEF c
<1> QED
  BY <1>1, <1>2, <1>3 DEF Served, ServedBy, Serves

LEMMA ResolveServes ==
  ASSUME Inv, NEW r \in Requests, Serving(req[r]), NEW status \in Held \cup Terminal \cup {"none"},
         Resolve(r, status)
  PROVE  Served /\ ServedBy(r)
<1>1. CASE status \in Terminal
  BY <1>1, FinishServes DEF Resolve
<1>2. CASE status \notin Terminal
  BY <1>2, GoOnServes DEF Resolve, Phases
<1> QED
  BY <1>1, <1>2

LEMMA GoToServes ==
  ASSUME Inv, NEW r \in Requests, Serving(req[r]), NEW phase \in Phases \ {"login", "allocated"},
         GoTo(r, phase) \/ Proceed(r, phase)
  PROVE  Served /\ ServedBy(r)
<1>1. req[r] \in Handlers
  BY DEF Inv, HandlersFit
<1>2. req[r].got \in Held \cup {"none"}
  BY <1>1 DEF Handlers
<1>3. [req[r] EXCEPT !.pc = phase] = [req[r] EXCEPT !.pc = phase, !.got = req[r].got]
  BY <1>1 DEF Handlers
<1>4. PICK got \in Held \cup {"none"} : Become(r, [req[r] EXCEPT !.pc = phase, !.got = got])
  BY <1>2, <1>3 DEF GoTo, Proceed
<1> QED
  BY <1>4, GoOnServes

\* The session of a handler that serves a request has its cookie.
LEMMA ServedSession ==
  ASSUME Inv, NEW r \in Requests, Serving(req[r])
  PROVE  /\ req[r].session \in Sessions /\ req[r].session \in issued
         /\ RowFits(row[req[r].session])
BY DEF Inv, HandlersFit, Aims, RowsFit

-----------------------------------------------------------------------------
(* The steps.                                                               *)

LEMMA WindowElapsesKeeps == ASSUME Inv, NEW s \in Sessions, WindowElapses(s) PROVE Inv'
<1> DEFINE w == [row[s] EXCEPT !.exp = "over"]
<1>1. row[s] \in RowRecords /\ row[s].status = "pending_choice"
  BY DEF WindowElapses, Inv, RowsFit
<1>2. RowFits(w) /\ w.status = "pending_choice"
  BY <1>1 DEF RowRecords, RowFits
<1>3. row' = [row EXCEPT ![s] = w]
  BY DEF WindowElapses
<1> HIDE DEF w
<1> QED
  BY <1>1, <1>2, <1>3, AmendKeeps DEF WindowElapses, Served, Ended

LEMMA LeaseRunsKeeps == ASSUME Inv, LeaseRuns PROVE Inv'
<1>1. LeaseFits'
  <2>1. lease.left \in 1..Span
    BY SessionsAssumption DEF LeaseRuns, Live, Inv, LeaseFits, LeaseTyped
  <2>2. lease' = [holder |-> lease.holder, version |-> lease.version, left |-> lease.left - 1]
    BY DEF LeaseRuns, Inv, LeaseFits, LeaseTyped
  <2>3. lease.left - 1 \in 0..Span
    BY <2>1, SessionsAssumption
  <2>4. UNCHANGED <<row, given>> /\ Live
    BY DEF LeaseRuns
  <2>5. LeaseTyped'
    BY <2>2, <2>3, <2>4 DEF Inv, LeaseFits, LeaseTyped
  <2>6. GivenFits' /\ LiveStands'
    BY <2>2, <2>4 DEF Inv, LeaseFits, GivenFits, VersionsFenced, LiveStands
  <2> QED
    BY <2>5, <2>6 DEF LeaseFits
<1>2. UNCHANGED <<row, jwtOver, switch, issued, quiet, req>>
  BY DEF LeaseRuns
<1>3. RowsFit' /\ HandlersFit' /\ QuietMeans' /\ SeatsKept'
  BY <1>2 DEF Inv, RowsFit, HandlersFit, QuietMeans, SeatsKept, QuotaKept, switch, Seated, Past,
     LoggingIn, Aims, Serving
<1> QED
  BY <1>1, <1>3 DEF Inv

LEMMA FlipKeeps == ASSUME Inv, Flip PROVE Inv'
<1>1. UNCHANGED <<row, jwtOver, lease, issued, given>> /\ quiet' = FALSE /\ flag' \in BOOLEAN
  BY DEF Flip, Inv, QuietMeans
<1>2. \A r \in Requests : /\ req'[r] \in Handlers /\ req'[r].pc = req[r].pc
                          /\ (req[r].pc # "idle" => req'[r].session = req[r].session)
  <2> SUFFICES ASSUME NEW r \in Requests
               PROVE  /\ req'[r] \in Handlers /\ req'[r].pc = req[r].pc
                      /\ (req[r].pc # "idle" => req'[r].session = req[r].session)
    OBVIOUS
  <2>1. req[r] \in Handlers
    BY DEF Inv, HandlersFit
  <2>2. CASE At(r, "idle")
    <3>1. req'[r] = Blank
      BY <2>2 DEF Flip
    <3>2. Blank \in Handlers /\ Blank.pc = "idle"
      BY DEF Blank, Handlers, Phases
    <3> QED
      BY <2>2, <3>1, <3>2 DEF At
  <2>3. CASE ~At(r, "idle")
    <3>1. req'[r] = [req[r] EXCEPT !.seen = req[r].seen \cup {flag'}]
      BY <2>3 DEF Flip
    <3> QED
      BY <1>1, <2>1, <3>1 DEF Handlers
  <2> QED
    BY <2>2, <2>3
<1>3. req' \in [Requests -> Handlers]
  <2>1. req' = [r \in Requests |-> req'[r]]
    BY DEF Flip
  <2> QED
    BY <1>2, <2>1
<1>4. HandlersFit'
  BY <1>1, <1>2, <1>3 DEF Inv, HandlersFit, LoggingIn, Aims, Serving
<1>5. QuietMeans'
  <2>1. flips' \in 0..MaxFlips
    BY SessionsAssumption DEF Flip, Inv, QuietMeans
  <2> QED
    BY <1>1, <2>1 DEF QuietMeans
<1>6. RowsFit' /\ LeaseFits' /\ SeatsKept'
  BY <1>1 DEF Inv, RowsFit, LeaseFits, LeaseTyped, LiveStands, Live, GivenFits, VersionsFenced, SeatsKept, QuotaKept,
     Seated, Past
<1> QED
  BY <1>4, <1>5, <1>6 DEF Inv

LEMMA RequestKeeps == ASSUME Inv, NEW r \in Requests, NEW s \in Sessions, Request(r, s) PROVE Inv'
<1>1. row[s] \in RowRecords /\ row[s].status \in Held \cup {"none"} /\ s \in issued
  BY DEF Request, Inv, RowsFit, RowRecords
<1> PICK phase \in {"adopt", "found"} :
      Become(r, [Blank EXCEPT !.pc = phase, !.session = s, !.got = row[s].status])
  BY DEF Request
<1> DEFINE c == [[Blank EXCEPT !.pc = phase, !.session = s, !.got = row[s].status] EXCEPT !.seen = {flag}]
<1>2. Blank \in Handlers
  BY DEF Blank, Handlers, Phases
<1>3. c \in Handlers /\ c.pc = phase /\ c.seen = {flag} /\ c.session = s
  BY <1>1, <1>2 DEF Handlers, Phases, Inv, QuietMeans
<1>4. req' = [req EXCEPT ![r] = c]
  BY DEF Become
<1> HIDE DEF c
<1>5. Served
  BY <1>1, <1>3, <1>4 DEF Served, ServedBy, Serves
<1> QED
  BY <1>5, RestKeeps DEF Request, Inv, RowsFit

LEMMA AdoptKeeps == ASSUME Inv, NEW r \in Requests, Adopt(r) PROVE Inv'
<1> DEFINE s == req[r].session
           adopted == IF row[s].status # "none" THEN row[s].status
                      ELSE IF Free THEN "active" ELSE "unslotted_legacy"
<1>1. Serving(req[r])
  BY DEF Adopt, At, Serving
<1>2. s \in Sessions /\ s \in issued /\ RowFits(row[s])
  BY <1>1, ServedSession
<1>3. adopted \in Held \cup Terminal
  BY <1>2 DEF RowFits, RowRecords, Held
<1>4. CASE SetStatus(s, adopted) /\ Resolve(r, adopted)
  <2>1. /\ adopted \in {"active", "unslotted_legacy"} => row[s].exp = "jwt"
        /\ adopted \in Ended => row[s].status \in Ended
        /\ adopted = "active" /\ row[s].status # "active" => Free
        /\ adopted # "none"
    BY <1>2, <1>3 DEF RowFits, Ended
  <2>3. UNCHANGED <<jwtOver, lease, given, switch, issued, quiet>>
    BY DEF Adopt
  <2> HIDE DEF adopted
  <2>2. Served
    BY <1>1, <1>3, <1>4, ResolveServes
  <2> HIDE DEF s
  <2> QED
    BY <1>2, <1>3, <1>4, <2>1, <2>2, <2>3, StatusKeeps
<1>5. CASE UNCHANGED row /\ Resolve(r, "none")
  <2>1. Served
    BY <1>1, <1>5, ResolveServes
  <2> QED
    BY <1>5, <2>1, RestKeeps DEF Adopt, Inv, RowsFit
<1> QED
  BY <1>4, <1>5 DEF Adopt

LEMMA CheckDeadlineKeeps == ASSUME Inv, NEW r \in Requests, CheckDeadline(r) PROVE Inv'
<1> DEFINE s == req[r].session
<1>1. Serving(req[r])
  BY DEF CheckDeadline, At, Serving
<1>2. s \in Sessions /\ s \in issued /\ RowFits(row[s])
  BY <1>1, ServedSession
<1>3. CASE SetStatus(s, "expired") /\ Finish(r)
  BY <1>2, <1>3, FinishServes, StatusKeeps DEF CheckDeadline, Ended, Terminal
<1>4. CASE UNCHANGED row /\ GoTo(r, "live")
  <2>1. Served
    BY <1>1, <1>4, GoToServes DEF Phases
  <2> QED
    BY <1>4, <2>1, RestKeeps DEF CheckDeadline, Inv, RowsFit
<1> QED
  BY <1>3, <1>4 DEF CheckDeadline

\* A promotion counted the seats, or may believe that the switch is off.
LEMMA PromotedFits ==
  ASSUME Inv, NEW r \in Requests, Serving(req[r]), NEW on \in req[r].seen
  PROVE  LET s == req[r].session  x == Promoted(s, on) IN
         /\ x \in Held \cup Terminal \cup {"none"} /\ (x \in Ended => row[s].status \in Ended)
         /\ x \in {"active", "unslotted_legacy"} => row[s].exp = "jwt"
         /\ x = "active" /\ row[s].status # "active" => (quiet => Free)
         /\ x = "none" => row[s].status = "none"
<1>1. RowFits(row[req[r].session])
  BY ServedSession
<1>2. quiet => on
  BY DEF Inv, QuietMeans, HandlersFit, Handlers
<1> QED
  BY <1>1, <1>2 DEF Promoted, RowFits, RowRecords, Ended, Terminal, Held

LEMMA PromoteKeeps == ASSUME Inv, NEW r \in Requests, Promote(r) PROVE Inv'
<1> DEFINE s == req[r].session
<1>1. Serving(req[r])
  BY DEF Promote, At, Serving
<1>2. s \in issued
  BY <1>1, ServedSession
<1> PICK on \in req[r].seen : SetStatus(s, Promoted(s, on)) /\ Resolve(r, Promoted(s, on))
  BY DEF Promote
<1> DEFINE x == Promoted(s, on)
<1>3. /\ x \in Held \cup Terminal \cup {"none"} /\ (x \in Ended => row[s].status \in Ended)
      /\ x \in {"active", "unslotted_legacy"} => row[s].exp = "jwt"
      /\ x = "active" /\ row[s].status # "active" => (quiet => Free)
      /\ x = "none" => row[s].status = "none"
  BY <1>1, PromotedFits
<1>4. SetStatus(s, x) /\ Resolve(r, x)
  OBVIOUS
<1> HIDE DEF x
<1>5. Served
  BY <1>1, <1>3, <1>4, ResolveServes
<1> HIDE DEF s
<1> QED
  BY <1>2, <1>3, <1>4, <1>5, StatusKeeps DEF Promote

LEMMA ClaimKeeps == ASSUME Inv, NEW r \in Requests, Claim(r) PROVE Inv'
<1> DEFINE s == req[r].session
<1>1. Serving(req[r])
  BY DEF Claim, At, Serving
<1>2. s \in issued /\ s \in Sessions /\ RowFits(row[s])
  BY <1>1, ServedSession
<1>3. UNCHANGED <<jwtOver, lease, given, switch, issued, quiet>> /\ jwtOver \subseteq Sessions
  BY DEF Claim, Inv, RowsFit
<1>4. CASE SetStatus(s, "expired") /\ Finish(r)
  BY <1>2, <1>3, <1>4, FinishServes, StatusKeeps DEF Terminal, Ended
<1>5. CASE UNCHANGED row /\ Resolve(r, row[s].status)
  <2>1. Served
    BY <1>1, <1>2, <1>5, ResolveServes DEF RowFits, RowRecords
  <2> QED
    BY <1>3, <1>5, <2>1, RestKeeps
<1>6. ASSUME NEW on \in req[r].seen, row[s].status = "pending_choice", on => Free,
             Activate(s), Resolve(r, "active")
      PROVE  Inv'
  <2> DEFINE w == [status |-> "active", exp |-> "jwt"]
  <2>1. RowFits(w) /\ w.status = "active" /\ row' = [row EXCEPT ![s] = w]
    BY <1>6 DEF RowFits, RowRecords, Held, Activate
  <2>2. Served
    BY <1>1, <1>6, ResolveServes DEF Held
  <2>3. quiet => Free
    BY <1>6 DEF Inv, QuietMeans, HandlersFit, Handlers
  <2> HIDE DEF w, s
  <2> QED
    BY <1>2, <1>3, <1>6, <2>1, <2>2, <2>3, AmendKeeps DEF Ended
<1> QED
  BY <1>4, <1>5, <1>6 DEF Claim

LEMMA PassThroughKeeps == ASSUME Inv, NEW r \in Requests, PassThrough(r) PROVE Inv'
<1>1. Serving(req[r]) /\ req[r].got \in Held \cup {"none"}
  BY DEF PassThrough, At, Serving, Inv, HandlersFit, Handlers
<1>2. Served
  BY <1>1, ResolveServes DEF PassThrough
<1> QED
  BY <1>2, RestKeeps DEF PassThrough, Inv, RowsFit

LEMMA AskLeaseKeeps == ASSUME Inv, NEW r \in Requests, AskLease(r) PROVE Inv'
<1> DEFINE s == req[r].session
<1>1. Serving(req[r])
  BY DEF AskLease, At, Serving
<1>2. s \in issued
  BY <1>1, ServedSession
<1> PICK on \in req[r].seen : SetStatus(s, Promoted(s, on)) /\ (Proceed(r, "acquire") \/ Finish(r))
  BY DEF AskLease
<1> DEFINE x == Promoted(s, on)
<1>3. /\ x \in Held \cup Terminal \cup {"none"} /\ (x \in Ended => row[s].status \in Ended)
      /\ x \in {"active", "unslotted_legacy"} => row[s].exp = "jwt"
      /\ x = "active" /\ row[s].status # "active" => (quiet => Free)
      /\ x = "none" => row[s].status = "none"
  BY <1>1, PromotedFits
<1>4. SetStatus(s, x)
  OBVIOUS
<1> HIDE DEF x
<1>5. Served
  BY <1>1, GoToServes, FinishServes DEF Phases
<1> HIDE DEF s
<1> QED
  BY <1>2, <1>3, <1>4, <1>5, StatusKeeps DEF AskLease

LEMMA LeaseStepsKeep ==
  ASSUME Inv, NEW r \in Requests,
         \/ AcquireLease(r) \/ TransferLease(r) \/ AcquireToRead(r)
         \/ \E v \in 1..MaxVersion : RenewLease(r, v)
  PROVE  Inv'
<1> DEFINE s == req[r].session
<1>1. Serving(req[r])
  BY DEF AcquireLease, TransferLease, AcquireToRead, RenewLease, At, Serving
<1>2. Served
  BY <1>1, GoToServes, FinishServes DEF AcquireLease, TransferLease, AcquireToRead, RenewLease, Phases
<1>3. s \in Seated /\ Hands(s)
  BY DEF AcquireLease, TransferLease, AcquireToRead, RenewLease, Acquire, Hands
<1>4. UNCHANGED <<jwtOver, switch, issued, quiet>>
  BY DEF AcquireLease, TransferLease, AcquireToRead, RenewLease
<1> HIDE DEF s
<1> QED
  BY <1>2, <1>3, <1>4, HandKeeps

LEMMA ReadKeeps == ASSUME Inv, NEW r \in Requests, Read(r) PROVE Inv'
<1>1. Serving(req[r])
  BY DEF Read, At, Serving
<1>2. Served
  BY <1>1, GoToServes DEF Read, Phases
<1> QED
  BY <1>2, RestKeeps DEF Read, Inv, RowsFit

LEMMA RevokesKeep ==
  ASSUME Inv, NEW t \in Sessions, Logout(t) \/ \E r \in Requests : Revoke(r, t)
  PROVE  Inv'
<1>1. Served
  BY FinishServes DEF Logout, Revoke, Served
<1>2. /\ row[t].status \in Held /\ SetStatus(t, "revoked") /\ KillLease(t)
      /\ UNCHANGED <<jwtOver, switch, issued, given, quiet>>
  BY DEF Logout, Revoke
<1> QED
  BY <1>1, <1>2, EndKeeps

\* The chooser displaces d, if it can, and takes the seat, if there is one.
LEMMA ChooseKeeps == ASSUME Inv, NEW r \in Requests, NEW d \in Sessions, Choose(r, d) PROVE Inv'
<1> DEFINE s == req[r].session
           gone == IF row[d].status \in Held /\ ~Past(d) THEN {d} ELSE {}
           seat == s \notin gone /\ Cardinality(Seated \ gone) < SlotLimit
           dead == [row[d] EXCEPT !.status = "superseded"]
           new == [status |-> "active", exp |-> "jwt"]
<1>1. Serving(req[r])
  BY DEF Choose, At, Serving
<1>2. s \in issued /\ s \in Sessions /\ RowFits(row[s]) /\ row[s].status = "pending_choice"
  BY <1>1, ServedSession DEF Choose
<1>3. UNCHANGED <<jwtOver, given, switch, issued, quiet>> /\ issued \in SUBSET Sessions
  BY DEF Choose, Inv, RowsFit
<1>4. Served
  BY FinishServes DEF Choose
<1>5. CASE SetStatus(s, "expired") /\ UNCHANGED lease
  BY <1>2, <1>3, <1>4, <1>5, StatusKeeps DEF Terminal, Ended
<1>6. CASE /\ row' = [t \in Sessions |-> CASE t \in gone -> [row[t] EXCEPT !.status = "superseded"]
                                           [] t = s /\ seat -> new
                                           [] OTHER -> row[t]]
           /\ IF gone = {} THEN UNCHANGED lease ELSE KillLease(d)
  <2>1. RowFits(row[d])
    BY DEF Inv, RowsFit
  <2>2. RowFits(dead) /\ dead.status = "superseded" /\ RowFits(new) /\ new.status = "active"
    BY <2>1 DEF RowFits, RowRecords, Terminal, Ended, Held
  <2>3. \A t \in Sessions : row'[t] = IF t \in gone THEN dead ELSE IF t = s /\ seat THEN new ELSE row[t]
    BY <1>6
  <2>4. row' = [t \in Sessions |-> row'[t]]
    BY <1>6
  <2>5. gone \in {{}, {d}} /\ (gone = {d} => row[d].status \in Held) /\ (seat => s \notin gone)
    OBVIOUS
  <2>6. \A t \in Sessions : RowFits(row[t])
    BY DEF Inv, RowsFit
  <2>7. seat => Cardinality(Seated \ gone) < SlotLimit
    OBVIOUS
  <2> HIDE DEF gone, seat, dead, new, s
  <2>8. Writes(issued)
    <3>1. \A t \in Sessions : RowFits(row'[t])
      BY <2>2, <2>3, <2>6
    <3> QED
      BY <1>2, <2>2, <2>3, <2>4, <2>5, <3>1 DEF Writes, RowFits, Held
  <2>9. RowsFit'
    BY <1>3, <2>8, RowsKept DEF Inv, RowsFit
  <2>10. HandlersFit' /\ QuietMeans'
    BY <1>3, <1>4, <2>8, HandlerServed DEF switch
  <2>11. LeaseFits'
    <3>1. \A t \in Sessions \ gone : row'[t].status \in Ended => row[t].status \in Ended
      BY <2>2, <2>3 DEF Ended
    <3>2. CASE gone = {}
      BY <1>3, <1>6, <3>1, <3>2, LeaseSpared DEF Spares
    <3>3. CASE gone = {d}
      BY <1>3, <1>6, <3>1, <3>3, LeaseKilled DEF Ends
    <3> QED
      BY <2>5, <3>2, <3>3
  <2>12. SeatsKept'
    <3>1. \A t \in Sessions : t \in Seated' => t \in (Seated \ gone) \/ (seat /\ t = s)
      BY <1>3, <2>2, <2>3 DEF Seated, Past
    <3>2. CASE seat
      BY <1>3, <2>7, <3>1, <3>2, OneMoreSeat
    <3>3. CASE ~seat
      BY <1>3, <3>1, <3>3, FewerSeats
    <3> QED
      BY <3>2, <3>3
  <2> QED
    BY <2>9, <2>10, <2>11, <2>12 DEF Inv
<1> QED
  BY <1>5, <1>6 DEF Choose

-----------------------------------------------------------------------------
(* Login, and the reconciliation.                                           *)

LEMMA LoginFindKeeps ==
  ASSUME Inv, NEW r \in Requests, NEW s \in Sessions, NEW old \in Sessions \cup {None}, LoginFind(r, s, old)
  PROVE  Inv'
<1> DEFINE b == [[Blank EXCEPT !.pc = "login", !.session = s, !.old = old] EXCEPT !.seen = {flag}]
<1>1. Blank \in Handlers
  BY DEF Blank, Handlers, Phases
<1>2. b \in Handlers /\ b.pc = "login" /\ b.seen = {flag} /\ b.session = s
  BY <1>1 DEF Handlers, Phases, Inv, QuietMeans
<1>3. PICK c \in Handlers : c.pc = "login" /\ c.seen = {flag} /\ c.session = s /\ req' = [req EXCEPT ![r] = c]
  BY <1>2 DEF LoginFind, Become
<1>4. UNCHANGED <<row, jwtOver, lease, switch, issued, given, quiet>>
  BY DEF LoginFind
<1>5. /\ s \notin Legacy /\ s \notin issued /\ row[s].status = "none"
      /\ \A q \in Requests : req[q].session # s
  BY DEF LoginFind, Inv, RowsFit
<1>6. Writes({})
  BY <1>4 DEF Inv, RowsFit, Writes
<1>7. Aims(c)'
  BY <1>3, <1>4, <1>5 DEF Aims, Serving
<1>8. HandlersFit'
  BY <1>3, <1>4, <1>5, <1>6, <1>7, HandlerKept
<1>9. QuietMeans'
  BY <1>3, <1>4 DEF Inv, QuietMeans, HandlersFit, switch
<1>10. RowsFit' /\ LeaseFits' /\ SeatsKept'
  BY <1>4 DEF Inv, RowsFit, LeaseFits, LeaseTyped, LiveStands, Live, GivenFits, VersionsFenced, SeatsKept, QuotaKept,
     Seated, Past
<1> QED
  BY <1>8, <1>9, <1>10 DEF Inv

\* allocateSessionRow: the rotated session leaves its seat before seats are counted.
LEMMA LoginAllocateKeeps == ASSUME Inv, NEW r \in Requests, LoginAllocate(r) PROVE Inv'
<1> PICK s \in Sessions : /\ s = req[r].session /\ s \notin issued /\ s \notin Legacy
                         /\ row[s].status = "none"
  BY DEF LoginAllocate, At, Inv, HandlersFit, Aims
<1> PICK old \in Sessions \cup {None} : old = req[r].old
  BY DEF Inv, HandlersFit, Handlers
<1> DEFINE rotated == {old} \cap Seated
           dead == [row[old] EXCEPT !.status = "superseded"]
<1> PICK on \in req[r].seen, w \in RowRecords :
      /\ row' = [t \in Sessions |-> CASE t \in rotated -> [row[t] EXCEPT !.status = "superseded"]
                                      [] t = s -> w
                                      [] OTHER -> row[t]]
      /\ \/ w = [status |-> "pending_choice", exp |-> "window"]
         \/ /\ w = [status |-> "active", exp |-> "jwt"]
            /\ ~(on /\ Cardinality(Seated \ rotated) >= SlotLimit)
  BY DEF LoginAllocate, RowRecords, Held
<1>1. /\ UNCHANGED <<jwtOver, switch, issued, given, quiet>>
      /\ IF rotated = {} THEN UNCHANGED lease ELSE KillLease(old)
  BY DEF LoginAllocate
<1>2. RowFits(w) /\ w.status \in {"active", "pending_choice"}
  BY DEF RowFits, RowRecords, Held
<1>3. \A t \in Sessions : RowFits(row[t])
  BY DEF Inv, RowsFit
<1>4. /\ rotated \in SUBSET Seated /\ rotated \in {{}, {old}}
      /\ s \notin rotated /\ (rotated = {old} => old \in Sessions /\ row[old].status = "active")
  BY DEF Seated
<1>5. rotated = {old} => RowFits(dead) /\ dead.status = "superseded"
  BY <1>3, <1>4 DEF RowFits, RowRecords, Terminal, Ended
<1>6. \A t \in Sessions : row'[t] = IF t \in rotated THEN dead ELSE IF t = s THEN w ELSE row[t]
  BY <1>4
<1>7. row' = [t \in Sessions |-> row'[t]]
  OBVIOUS
<1>8. quiet => (w.status = "active" => ~(Cardinality(Seated \ rotated) >= SlotLimit))
  <2>1. quiet => on
    BY DEF Inv, QuietMeans, HandlersFit, Handlers
  <2> QED
    BY <2>1
<1>9. PICK c \in Handlers : /\ c.pc = "allocated" /\ c.session = s /\ c.seen = {flag}
                           /\ req' = [req EXCEPT ![r] = c]
  <2> DEFINE b == [[req[r] EXCEPT !.pc = "allocated", !.old = None] EXCEPT !.seen = {flag}]
  <2>1. b \in Handlers /\ b.pc = "allocated" /\ b.session = s /\ b.seen = {flag}
    BY DEF Inv, HandlersFit, Handlers, Phases, QuietMeans
  <2>2. req' = [req EXCEPT ![r] = b]
    BY DEF LoginAllocate, Become
  <2> HIDE DEF b
  <2> QED
    BY <2>1, <2>2
<1> HIDE DEF rotated, dead
<1>10. Writes({s})
  <2>1. \A t \in Sessions : RowFits(row'[t])
    BY <1>2, <1>3, <1>4, <1>5, <1>6
  <2> QED
    BY <1>2, <1>4, <1>5, <1>6, <1>7, <2>1 DEF Writes, RowFits
<1>11. RowsFit'
  BY <1>1, <1>10, RowsKept DEF Inv, RowsFit
<1>12. HandlersFit'
  <2>1. Aims(c)'
    BY <1>2, <1>4, <1>6, <1>9 DEF Aims, Serving
  <2>2. \A q \in Requests \ {r} : LoggingIn(q) => req[q].session # s
    BY DEF Inv, HandlersFit, LoggingIn, LoginAllocate, At
  <2>3. \A q \in Requests \ {r} : req[q].pc = "login" => req[q].session \notin {s} \cup (issued' \ issued)
    BY <1>1, <2>2 DEF LoggingIn
  <2>4. {s} \in SUBSET Sessions /\ issued \subseteq issued'
    BY <1>1
  <2>5. /\ req' = [req EXCEPT ![r] = c]
        /\ \A q \in Requests \ {r} : LoggingIn(q) => req[q].session # c.session
    BY <1>9, <2>2
  <2> QED
    BY <1>10, <2>1, <2>3, <2>4, <2>5, HandlerKept
<1>13. QuietMeans'
  BY <1>1, <1>9 DEF Inv, QuietMeans, HandlersFit, switch
<1>14. LeaseFits'
  <2>1. \A t \in Sessions \ rotated : row'[t].status \in Ended => row[t].status \in Ended
    BY <1>2, <1>6 DEF Ended
  <2>2. CASE rotated = {}
    BY <1>1, <2>1, <2>2, LeaseSpared DEF Spares
  <2>3. CASE rotated = {old}
    BY <1>1, <1>4, <2>1, <2>3, LeaseKilled DEF Ends
  <2> QED
    BY <1>4, <2>2, <2>3
<1>15. SeatsKept'
  <2>1. \A t \in Sessions : t \in Seated' => t \in (Seated \ rotated) \/ (w.status = "active" /\ t = s)
    BY <1>1, <1>4, <1>5, <1>6 DEF Seated, Past
  <2>2. CASE w.status = "active"
    <3>1. IsFiniteSet(Seated \ rotated)
      BY FS_Subset DEF Inv, SeatsKept
    <3>2. Cardinality(Seated \ rotated) \in Nat
      BY <3>1, FS_CardinalityType
    <3>3. quiet => Cardinality(Seated \ rotated) < SlotLimit
      BY <1>8, <2>2, <3>2, SessionsAssumption
    <3> QED
      BY <1>1, <2>1, <3>3, OneMoreSeat
  <2>3. CASE w.status # "active"
    BY <1>1, <2>1, <2>3, FewerSeats
  <2> QED
    BY <2>2, <2>3
<1> QED
  BY <1>11, <1>12, <1>13, <1>14, <1>15 DEF Inv

\* Only sessions that had a seat lose it, and as many keep theirs as there are.
LEMMA ReconcileEffect ==
  ASSUME Inv, NEW r \in Requests, Reconcile(r), UNCHANGED jwtOver
  PROVE  /\ Writes({}) /\ SeatsKept' /\ \A s \in Sessions : row'[s].status \in Ended => row[s].status \in Ended
         /\ quiet' \in BOOLEAN
         /\ quiet' => quiet \/ (flag /\ \A q \in Requests \ {r} : FALSE \notin req[q].seen)
<1> PICK keep \in SUBSET Seated :
      /\ Cardinality(keep) = IF Free THEN Cardinality(Seated) ELSE SlotLimit
      /\ row' = [s \in Sessions |->
           IF s \in Seated \ keep THEN [row[s] EXCEPT !.status = "unslotted_legacy"] ELSE row[s]]
  BY DEF Reconcile
<1>1. \A s \in Sessions : RowFits(row[s])
  BY DEF Inv, RowsFit
<1>2. \A s \in Sessions :
        /\ RowFits(row'[s])
        /\ IF s \in Seated \ keep THEN row'[s].status = "unslotted_legacy" /\ row[s].status = "active"
           ELSE row'[s] = row[s]
  BY <1>1 DEF Seated, RowFits, RowRecords, Held
<1>3. row' = [s \in Sessions |-> row'[s]]
  OBVIOUS
<1>4. Writes({})
  BY <1>1, <1>2, <1>3 DEF Writes, RowFits
<1>5. \A s \in Sessions : row'[s].status \in Ended => row[s].status \in Ended
  BY <1>2 DEF Ended
<1>6. SeatsKept'
  <2>1. Seated' \subseteq keep
    BY <1>2 DEF Seated, Past
  <2>2. IsFiniteSet(keep) /\ Cardinality(keep) \in Nat
    BY FS_Subset, FS_CardinalityType DEF Inv, SeatsKept
  <2>3. IsFiniteSet(Seated') /\ Cardinality(Seated') <= Cardinality(keep)
    BY <2>1, <2>2, FS_Subset
  <2>4. Cardinality(Seated') \in Nat
    BY <2>3, FS_CardinalityType
  <2>5. Cardinality(keep) <= SlotLimit
    BY <2>2, SessionsAssumption DEF Free
  <2> QED
    BY <2>2, <2>3, <2>4, <2>5, SessionsAssumption DEF SeatsKept, QuotaKept
<1>7. quiet' = (quiet \/ (flag /\ \A q \in Requests \ {r} : FALSE \notin req[q].seen))
  BY DEF Reconcile
<1> QED
  BY <1>4, <1>5, <1>6, <1>7

LEMMA QuietReconciled ==
  ASSUME Inv, NEW r \in Requests, ServedBy(r), UNCHANGED switch, quiet' \in BOOLEAN,
         quiet' => quiet \/ (flag /\ \A q \in Requests \ {r} : FALSE \notin req[q].seen)
  PROVE  QuietMeans'
BY DEF ServedBy, Serves, Inv, QuietMeans, HandlersFit, switch

LEMMA LoginReconcileKeeps == ASSUME Inv, NEW r \in Requests, LoginReconcile(r) PROVE Inv'
<1> PICK s \in Sessions : s = req[r].session /\ row[s].status # "none"
  BY DEF LoginReconcile, At, Inv, HandlersFit, Aims
<1>1. UNCHANGED <<jwtOver, lease, switch, given>> /\ issued' = issued \cup {s} /\ Finish(r)
  BY DEF LoginReconcile
<1>2. /\ Writes({}) /\ SeatsKept' /\ \A t \in Sessions : row'[t].status \in Ended => row[t].status \in Ended
      /\ quiet' \in BOOLEAN
      /\ quiet' => quiet \/ (flag /\ \A q \in Requests \ {r} : FALSE \notin req[q].seen)
  <2>1. CASE Reconcile(r)
    BY <1>1, <2>1, ReconcileEffect
  <2>2. CASE UNCHANGED <<row, quiet>>
    <3>1. Writes({}) /\ quiet' \in BOOLEAN
      BY <2>2 DEF Inv, RowsFit, Writes, QuietMeans
    <3>2. SeatsKept'
      BY <1>1, <2>2, FewerSeats DEF Seated, Past
    <3> QED
      BY <2>2, <3>1, <3>2
  <2> QED
    BY <2>1, <2>2 DEF LoginReconcile
<1>3. RowsFit'
  BY <1>1, <1>2 DEF Inv, RowsFit, Writes
<1>4. LeaseFits'
  BY <1>1, <1>2, LeaseSpared DEF Spares
<1>5. HandlersFit'
  <2>1. Blank \in Handlers /\ Blank.pc = "idle"
    BY DEF Blank, Handlers, Phases
  <2>2. req' = [req EXCEPT ![r] = Blank] /\ Aims(Blank)'
    BY <1>1, <2>1 DEF Finish, Aims, Serving
  <2>3. \A q \in Requests \ {r} : req[q].pc = "login" => req[q].session \notin {} \cup (issued' \ issued)
    BY <1>1 DEF Inv, HandlersFit, LoggingIn, LoginReconcile, At
  <2>4. issued \subseteq issued'
    BY <1>1
  <2> QED
    BY <1>2, <2>1, <2>2, <2>3, <2>4, HandlerKept
<1>6. QuietMeans'
  BY <1>1, <1>2, FinishServes, QuietReconciled
<1> QED
  BY <1>2, <1>3, <1>4, <1>5, <1>6 DEF Inv

LEMMA ReconcileOwnKeeps == ASSUME Inv, NEW r \in Requests, ReconcileOwn(r) PROVE Inv'
<1>1. UNCHANGED <<jwtOver, lease, switch, issued, given>> /\ Reconcile(r) /\ Serving(req[r])
  BY DEF ReconcileOwn, At, Serving
<1>2. /\ Writes({}) /\ SeatsKept' /\ \A t \in Sessions : row'[t].status \in Ended => row[t].status \in Ended
      /\ quiet' \in BOOLEAN
      /\ quiet' => quiet \/ (flag /\ \A q \in Requests \ {r} : FALSE \notin req[q].seen)
  BY <1>1, ReconcileEffect
<1>3. RowsFit'
  BY <1>1, <1>2, RowsKept DEF Inv, RowsFit
<1>4. LeaseFits'
  BY <1>1, <1>2, LeaseSpared DEF Spares
<1>5. PICK status \in Held \cup Terminal \cup {"none"} : Resolve(r, status)
  BY <1>1, <1>2, ServedSession DEF ReconcileOwn, Writes, RowRecords
<1>6. ServedBy(r)
  BY <1>1, <1>5, ResolveServes
<1>7. HandlersFit'
  <2>1. PICK c \in Handlers : Serves(r, c)
    BY <1>6 DEF ServedBy
  <2>2. Aims(c)'
    BY <1>1, <2>1 DEF Serves, Aims, Serving
  <2>3. \A q \in Requests \ {r} : req[q].pc = "login" => req[q].session \notin {} \cup (issued' \ issued)
    BY <1>1
  <2>4. issued \subseteq issued' /\ req' = [req EXCEPT ![r] = c] /\ c.pc \notin {"login", "allocated"}
    BY <1>1, <2>1 DEF Serves
  <2> QED
    BY <1>2, <2>2, <2>3, <2>4, HandlerKept
<1>8. QuietMeans'
  BY <1>1, <1>2, <1>6, QuietReconciled
<1> QED
  BY <1>2, <1>3, <1>4, <1>7, <1>8 DEF Inv

-----------------------------------------------------------------------------
(* The theorems.                                                            *)

LEMMA InvInit == Init => Inv
<1> SUFFICES ASSUME Init PROVE Inv
  OBVIOUS
<1>1. RowsFit
  BY SessionsAssumption DEF Init, RowsFit, RowFits, RowRecords
<1>2. LeaseFits
  BY SessionsAssumption DEF Init, LeaseFits, LeaseTyped, LiveStands, Live, GivenFits, VersionsFenced
<1>3. HandlersFit
  <2>1. Blank \in Handlers /\ Blank.pc = "idle"
    BY DEF Blank, Handlers, Phases
  <2> QED
    BY <2>1 DEF Init, HandlersFit, Aims, Serving, LoggingIn
<1>4. QuietMeans
  <2>1. 0 \in 0..MaxFlips /\ FlagAtStart \in BOOLEAN /\ FALSE \notin Blank.seen
    BY SessionsAssumption DEF Blank
  <2> QED
    BY <2>1 DEF Init, QuietMeans
<1>5. SeatsKept
  <2>1. Seated = {}
    BY DEF Init, Seated
  <2> QED
    BY <2>1, FS_EmptySet, SessionsAssumption DEF SeatsKept, QuotaKept
<1> QED
  BY <1>1, <1>2, <1>3, <1>4, <1>5 DEF Inv

LEMMA InvNext == Inv /\ [Next]_vars => Inv'
<1> SUFFICES ASSUME Inv, [Next]_vars PROVE Inv'
  OBVIOUS
<1>1. ASSUME NEW r \in Requests, Abandon(r) PROVE Inv'
  BY <1>1, FinishServes, RestKeeps DEF Abandon, Inv, RowsFit
<1>2. ASSUME NEW s \in Sessions, CookieExpires(s) PROVE Inv'
  <2>1. jwtOver \subseteq jwtOver' /\ jwtOver' \subseteq Sessions
    BY <1>2 DEF CookieExpires, Inv, RowsFit
  <2> QED
    BY <1>2, <2>1, RestKeeps DEF CookieExpires, Served
<1>3. CASE UNCHANGED vars
  BY <1>3, RestKeeps DEF vars, Served, Inv, RowsFit
<1>4. CASE Next
  <2>1. CASE LeaseRuns \/ Flip \/ \E s \in Sessions : WindowElapses(s) \/ CookieExpires(s) \/ Logout(s)
    BY <1>2, <2>1, LeaseRunsKeeps, FlipKeeps, WindowElapsesKeeps, RevokesKeep
  <2>2. ASSUME NEW r \in Requests,
               \/ Abandon(r) \/ LoginAllocate(r) \/ LoginReconcile(r)
               \/ Adopt(r) \/ CheckDeadline(r) \/ Promote(r) \/ Claim(r) \/ ReconcileOwn(r)
               \/ PassThrough(r) \/ AskLease(r) \/ AcquireLease(r) \/ TransferLease(r)
               \/ Read(r) \/ AcquireToRead(r)
        PROVE  Inv'
    BY <1>1, <2>2, LoginAllocateKeeps, LoginReconcileKeeps, AdoptKeeps, CheckDeadlineKeeps, PromoteKeeps,
       ClaimKeeps, ReconcileOwnKeeps, PassThroughKeeps, AskLeaseKeeps, LeaseStepsKeep, ReadKeeps
  <2>3. ASSUME NEW r \in Requests,
               \/ \E s \in Sessions : Request(r, s) \/ Revoke(r, s) \/ Choose(r, s)
               \/ \E s \in Sessions, old \in Sessions \cup {None} : LoginFind(r, s, old)
               \/ \E v \in 1..MaxVersion : RenewLease(r, v)
        PROVE  Inv'
    BY <2>3, RequestKeeps, RevokesKeep, ChooseKeeps, LoginFindKeeps, LeaseStepsKeep
  <2> QED
    BY <1>4, <2>1, <2>2, <2>3 DEF Next
<1> QED
  BY <1>3, <1>4

\* Every reachable state of Sessions satisfies the invariant.
THEOREM Invariant == Spec => []Inv
BY InvInit, InvNext, PTL DEF Spec

\* Rows, lease, switch, handlers and answered versions keep their types, and
\* only the chooser has a deadline of its own.
THEOREM Typed == Spec => []TypeOK
<1>1. Inv => TypeOK
  BY DEF Inv, TypeOK, RowsFit, RowFits, RowRecords, LeaseFits, LeaseTyped, HandlersFit, Handlers, QuietMeans
<1> QED
  BY <1>1, Invariant, PTL

\* While the quota is in force there are never more seats than the limit, for any
\* number of devices (allocateSessionRow, maybePromoteUnslotted, resolveThirdLogin).
THEOREM QuotaKeptAlways == Spec => []QuotaKept
<1>1. Inv => QuotaKept
  BY DEF Inv, SeatsKept
<1> QED
  BY <1>1, Invariant, PTL

\* No two sessions are answered the same lease version (acquireLease, renewLease).
THEOREM VersionsFencedAlways == Spec => []VersionsFenced
<1>1. Inv => VersionsFenced
  BY DEF Inv, LeaseFits, GivenFits, VersionsFenced
<1> QED
  BY <1>1, Invariant, PTL

-----------------------------------------------------------------------------
(* Paid pages.                                                              *)

\* No handler is about to serve a page that was not before.
NoPage == \A r \in Requests : req'[r].pc = "served" => req[r].pc = "served"

LEMMA FinishNoPage == ASSUME Inv, NEW q \in Requests, Finish(q) PROVE NoPage
BY DEF Inv, HandlersFit, Finish, Blank, NoPage

LEMMA BecomeNoPage ==
  ASSUME Inv, NEW q \in Requests, NEW c \in Handlers, c.pc # "served", Become(q, c)
  PROVE  NoPage
<1>1. [c EXCEPT !.seen = {flag}].pc = c.pc
  BY DEF Handlers
<1> QED
  BY <1>1 DEF Inv, HandlersFit, Become, NoPage

LEMMA GoToNoPage ==
  ASSUME Inv, NEW q \in Requests, NEW phase \in Phases \ {"served"}, GoTo(q, phase) \/ Proceed(q, phase)
  PROVE  NoPage
<1>1. req[q] \in Handlers
  BY DEF Inv, HandlersFit
<1>2. /\ [req[q] EXCEPT !.pc = phase] \in Handlers /\ [req[q] EXCEPT !.pc = phase].pc = phase
      /\ [req[q] EXCEPT !.pc = phase, !.got = "none"] \in Handlers
      /\ [req[q] EXCEPT !.pc = phase, !.got = "none"].pc = phase
  BY <1>1 DEF Handlers
<1> QED
  BY <1>2, BecomeNoPage DEF GoTo, Proceed

LEMMA ResolveNoPage ==
  ASSUME Inv, NEW q \in Requests, NEW status \in Held \cup Terminal \cup {"none"}, Resolve(q, status)
  PROVE  NoPage
<1> DEFINE c == [req[q] EXCEPT !.pc = "ctx", !.got = status]
<1>1. req[q] \in Handlers
  BY DEF Inv, HandlersFit
<1>2. status \notin Terminal => c \in Handlers /\ c.pc = "ctx"
  BY <1>1 DEF Handlers, Phases
<1>3. Finish(q) \/ (status \notin Terminal /\ Become(q, c))
  BY DEF Resolve
<1> HIDE DEF c
<1> QED
  BY <1>2, <1>3, FinishNoPage, BecomeNoPage

\* Only two steps serve a page, and both make sure of the lease or take it.
LEMMA PageServed ==
  ASSUME Inv, [Next]_vars, NEW r \in Requests, At(r, "served")', ~At(r, "served")
  PROVE  Read(r) \/ AcquireToRead(r)
<1>0. ~NoPage
  BY DEF NoPage, At
<1>1. ASSUME NEW s \in Sessions, WindowElapses(s) \/ CookieExpires(s) \/ Logout(s) PROVE FALSE
  BY <1>0, <1>1 DEF WindowElapses, CookieExpires, Logout, NoPage
<1>2. CASE LeaseRuns \/ UNCHANGED vars
  BY <1>0, <1>2 DEF LeaseRuns, vars, NoPage
<1>3. ASSUME Flip PROVE FALSE
  BY <1>3 DEF Flip, At, Blank, Inv, HandlersFit, Handlers
<1>4. ASSUME NEW q \in Requests,
             \/ Abandon(q) \/ LoginReconcile(q) \/ AskLease(q) \/ AcquireLease(q) \/ TransferLease(q)
             \/ (\E t \in Sessions : Revoke(q, t) \/ Choose(q, t))
             \/ \E v \in 1..MaxVersion : RenewLease(q, v)
      PROVE  FALSE
  BY <1>0, <1>4, FinishNoPage, GoToNoPage
     DEF Abandon, LoginReconcile, AskLease, AcquireLease, TransferLease, Revoke, Choose, RenewLease, Phases
<1>5. ASSUME NEW q \in Requests, Adopt(q) \/ Promote(q) \/ Claim(q) \/ ReconcileOwn(q) \/ PassThrough(q)
      PROVE  FALSE
  <2>1. Serving(req[q])
    BY <1>5 DEF Adopt, Promote, Claim, ReconcileOwn, PassThrough, At, Serving
  <2>2. /\ row[req[q].session].status \in Held \cup Terminal \cup {"none"}
        /\ req[q].got \in Held \cup {"none"}
    BY <2>1, ServedSession DEF RowFits, RowRecords, Inv, HandlersFit, Handlers
  <2>3. ReconcileOwn(q) => row'[req[q].session].status \in Held \cup Terminal \cup {"none"}
    BY <2>1, ServedSession, ReconcileEffect DEF ReconcileOwn, Writes, RowRecords
  <2>4. PICK status \in Held \cup Terminal \cup {"none"} : Resolve(q, status) \/ Finish(q)
    BY <1>5, <2>2, <2>3 DEF Adopt, Promote, Promoted, Claim, ReconcileOwn, PassThrough, Held
  <2> QED
    BY <1>0, <2>4, ResolveNoPage, FinishNoPage
<1>6. ASSUME NEW q \in Requests, CheckDeadline(q) PROVE FALSE
  BY <1>0, <1>6, FinishNoPage, GoToNoPage DEF CheckDeadline, Phases
<1>7. ASSUME NEW q \in Requests, NEW s \in Sessions, NEW old \in Sessions \cup {None},
             Request(q, s) \/ LoginFind(q, s, old)
      PROVE  FALSE
  <2>1. Blank \in Handlers
    BY DEF Blank, Handlers, Phases
  <2>2. Request(q, s) => row[s].status \in Held \cup {"none"}
    BY DEF Request, Inv, RowsFit, RowRecords
  <2>3. PICK c \in Handlers : c.pc # "served" /\ Become(q, c)
    <3>1. CASE Request(q, s)
      <4>1. PICK phase \in {"adopt", "found"} :
              Become(q, [Blank EXCEPT !.pc = phase, !.session = s, !.got = row[s].status])
        BY <3>1 DEF Request
      <4> DEFINE c == [Blank EXCEPT !.pc = phase, !.session = s, !.got = row[s].status]
      <4>2. c \in Handlers /\ c.pc = phase
        BY <2>1, <2>2, <3>1 DEF Handlers, Phases
      <4> HIDE DEF c
      <4> QED
        BY <4>1, <4>2 DEF c
    <3>2. CASE LoginFind(q, s, old)
      <4> DEFINE c == [Blank EXCEPT !.pc = "login", !.session = s, !.old = old]
      <4>1. c \in Handlers /\ c.pc = "login" /\ Become(q, c)
        BY <2>1, <3>2 DEF Handlers, Phases, LoginFind
      <4> HIDE DEF c
      <4> QED
        BY <4>1
    <3> QED
      BY <1>7, <3>1, <3>2
  <2> QED
    BY <1>0, <2>3, BecomeNoPage
<1>8. ASSUME NEW q \in Requests, LoginAllocate(q) PROVE FALSE
  <2> DEFINE c == [req[q] EXCEPT !.pc = "allocated", !.old = None]
  <2>0. req[q] \in Handlers
    BY DEF Inv, HandlersFit
  <2>1. c \in Handlers /\ c.pc = "allocated"
    BY <2>0 DEF Handlers, Phases
  <2>2. Become(q, c)
    BY <1>8 DEF LoginAllocate
  <2> HIDE DEF c
  <2> QED
    BY <1>0, <2>1, <2>2, BecomeNoPage
<1>9. ASSUME NEW q \in Requests, q # r, Read(q) \/ AcquireToRead(q) PROVE FALSE
  BY <1>9 DEF Read, AcquireToRead, GoTo, Proceed, Become, At, Inv, HandlersFit
<1> QED
  BY <1>0, <1>1, <1>2, <1>3, <1>4, <1>5, <1>6, <1>7, <1>8, <1>9 DEF Next, vars, NoPage

LEMMA PageStands ==
  ASSUME Inv, NEW r \in Requests, Read(r) \/ AcquireToRead(r), At(r, "served")'
  PROVE  row[req[r].session].status \notin Ended
<1>1. req[r] \in Handlers
  BY DEF Inv, HandlersFit
<1>2. CASE Read(r)
  <2>1. lease.holder = req[r].session /\ Live
    <3> SUFFICES ASSUME ~(lease.holder = req[r].session /\ Live) PROVE FALSE
      OBVIOUS
    <3>1. Proceed(r, "paid")
      BY <1>2 DEF Read
    <3>2. [[req[r] EXCEPT !.pc = "paid", !.got = "none"] EXCEPT !.seen = {flag}].pc = "paid"
      BY <1>1 DEF Handlers
    <3> QED
      BY <3>1, <3>2 DEF Proceed, Become, At, Inv, HandlersFit
  <2> QED
    BY <2>1 DEF Inv, LeaseFits, LiveStands
<1>3. CASE AcquireToRead(r)
  BY <1>3 DEF AcquireToRead, Acquire, Seated, Ended
<1> QED
  BY <1>2, <1>3

\* A paid page is never served to a session that was ended before, however old
\* the status its request carries (evaluatePaidRead, holdsActiveLease).
THEOREM ReadsNeedStandingAlways == Spec => ReadsNeedStanding
<1>1. Inv /\ [Next]_vars => [\A r \in Requests : At(r, "served")' /\ ~At(r, "served")
                                 => row[req[r].session].status \notin Ended]_vars
  BY PageServed, PageStands
<1> QED
  BY <1>1, Invariant, PTL DEF Spec, ReadsNeedStanding

-----------------------------------------------------------------------------
(* The refinement of ReadingRight.  Of the rows it shows only who was ended *)
(* and who expired; of the lease everything but a dead lease's holder.      *)

\* The right does not see how the rows of these sessions change.
Lasts(S) ==
  \A s \in S : /\ row'[s].status \in Ended <=> row[s].status \in Ended
               /\ row'[s].status = "expired" <=> row[s].status = "expired"

LEMMA RightSame ==
  ASSUME UNCHANGED lease, Lasts(Sessions)
  PROVE  UNCHANGED Right!vars
BY DEF Right!vars, Right!right, Live, Lasts

LEMMA RightExpires ==
  ASSUME UNCHANGED lease, NEW s \in Sessions, row[s].status \notin Terminal,
         row'[s].status = "expired", Lasts(Sessions \ {s})
  PROVE  Right!Expire(s)
<1>1. row'[s].status \notin Ended /\ row[s].status \notin Ended /\ row[s].status # "expired"
  BY DEF Ended, Terminal
<1>2. {x \in Sessions : row'[x].status \in Ended} = {x \in Sessions : row[x].status \in Ended}
  BY <1>1 DEF Lasts
<1>3. {x \in Sessions : row'[x].status = "expired"} = {x \in Sessions : row[x].status = "expired"} \cup {s}
  BY <1>1 DEF Lasts
<1> QED
  BY <1>1, <1>2, <1>3 DEF Right!Expire, Right!Standing, Right!right, Live

LEMMA RightEnds ==
  ASSUME Inv, NEW d \in Sessions, KillLease(d), row[d].status \notin Terminal, row'[d].status \in Ended,
         Lasts(Sessions \ {d})
  PROVE  Right!End(d)
<1>1. row[d].status \notin Ended /\ row[d].status # "expired" /\ row'[d].status # "expired"
  BY DEF Ended, Terminal
<1>2. {x \in Sessions : row'[x].status \in Ended} = {x \in Sessions : row[x].status \in Ended} \cup {d}
  BY <1>1 DEF Lasts
<1>3. {x \in Sessions : row'[x].status = "expired"} = {x \in Sessions : row[x].status = "expired"}
  BY <1>1 DEF Lasts
<1>4. lease \in [holder: Sessions \cup {None}, version: Nat, left: 0..Span]
  BY DEF Inv, LeaseFits, LeaseTyped
<1>5. CASE lease.holder = d
  <2>1. lease' = [holder |-> d, version |-> lease.version + 1, left |-> 0]
    BY <1>4, <1>5 DEF KillLease
  <2>2. ~Live'
    BY <2>1 DEF Live
  <2>3. ~Live => lease.left = 0
    BY <1>4, SessionsAssumption DEF Live
  <2> QED
    BY <1>1, <1>2, <1>3, <1>5, <2>1, <2>2, <2>3, SessionsAssumption DEF Right!End, Right!Standing
<1>6. CASE lease.holder # d
  <2>1. UNCHANGED lease
    BY <1>6 DEF KillLease
  <2> QED
    BY <1>1, <1>2, <1>3, <1>6, <2>1, SessionsAssumption DEF Right!End, Right!Standing, Live
<1> QED
  BY <1>5, <1>6

LEMMA RightHands ==
  ASSUME Inv, NEW s \in Seated, Hands(s)
  PROVE  Right!Take(s) \/ Right!Renew(s)
<1>1. s \in Sessions /\ row[s].status = "active" /\ UNCHANGED row
  BY DEF Seated, Hands
<1>2. Right!Standing(s)
  BY <1>1 DEF Right!Standing, Ended
<1>3. lease \in [holder: Sessions \cup {None}, version: Nat, left: 0..Span]
  BY DEF Inv, LeaseFits, LeaseTyped
<1>4. CASE Take(s)
  <2>1. lease' = [holder |-> s, version |-> lease.version + 1, left |-> Span] /\ Live'
    BY <1>4, SessionsAssumption DEF Take, Live
  <2> QED
    BY <1>1, <1>2, <2>1 DEF Right!Take
<1>5. CASE Live /\ lease.holder = s /\ Arm
  <2>1. lease' = [holder |-> s, version |-> lease.version, left |-> Span] /\ Live'
    BY <1>3, <1>5, SessionsAssumption DEF Arm, Live
  <2> QED
    BY <1>1, <1>2, <1>5, <2>1 DEF Right!Renew
<1> QED
  BY <1>4, <1>5 DEF Hands, Acquire

LEMMA RightRunsDown == ASSUME Inv, LeaseRuns PROVE Right!RunDown
<1>1. lease \in [holder: Sessions \cup {None}, version: Nat, left: 0..Span] /\ lease.left > 0
  BY DEF Inv, LeaseFits, LeaseTyped, LeaseRuns, Live
<1>2. lease' = [holder |-> lease.holder, version |-> lease.version, left |-> lease.left - 1]
  BY <1>1 DEF LeaseRuns
<1>3. UNCHANGED row
  BY DEF LeaseRuns
<1>4. Live' <=> lease'.left # 0
  BY <1>1, <1>2, SessionsAssumption DEF Live
<1> QED
  BY <1>1, <1>2, <1>3, <1>4 DEF Right!RunDown, Live

LEMMA ReconcileLasts == ASSUME Inv, NEW r \in Requests, Reconcile(r) PROVE Lasts(Sessions)
<1> PICK keep \in SUBSET Seated :
      row' = [s \in Sessions |->
        IF s \in Seated \ keep THEN [row[s] EXCEPT !.status = "unslotted_legacy"] ELSE row[s]]
  BY DEF Reconcile
<1>1. \A s \in Sessions : row[s] \in RowRecords
  BY DEF Inv, RowsFit
<1>2. \A s \in Sessions :
        IF s \in Seated \ keep THEN row'[s].status = "unslotted_legacy" /\ row[s].status = "active"
        ELSE row'[s] = row[s]
  BY <1>1 DEF Seated, RowRecords
<1> QED
  BY <1>2 DEF Lasts, Ended

\* A session that is not terminal gets another status that is not.
LEMMA StatusLasts ==
  ASSUME Inv, NEW s \in Sessions, NEW status, SetStatus(s, status), status # row[s].status =>
           status \notin Terminal /\ row[s].status \notin Terminal
  PROVE  Lasts(Sessions)
<1>1. \A t \in Sessions : row'[t].status = IF t = s THEN status ELSE row[t].status
  BY DEF SetStatus, Inv, RowsFit, RowRecords
<1> QED
  BY <1>1 DEF Lasts, Terminal, Ended

LEMMA StatusExpires ==
  ASSUME Inv, NEW s \in Sessions, SetStatus(s, "expired"), UNCHANGED lease, row[s].status \notin Terminal
  PROVE  Right!Expire(s)
<1>1. \A t \in Sessions : row'[t].status = IF t = s THEN "expired" ELSE row[t].status
  BY DEF SetStatus, Inv, RowsFit, RowRecords
<1> QED
  BY <1>1, RightExpires DEF Lasts

LEMMA StatusEnds ==
  ASSUME Inv, NEW d \in Sessions, SetStatus(d, "revoked"), KillLease(d), row[d].status \in Held
  PROVE  Right!End(d)
<1>1. \A t \in Sessions : row'[t].status = IF t = d THEN "revoked" ELSE row[t].status
  BY DEF SetStatus, Inv, RowsFit, RowRecords
<1>2. row[d].status \notin Terminal /\ row'[d].status \in Ended
  BY <1>1 DEF Held, Terminal, Ended
<1> QED
  BY <1>1, <1>2, RightEnds DEF Lasts

Advances == [Right!Next]_(Right!vars)

LEMMA SameAdvances == ASSUME UNCHANGED lease, Lasts(Sessions) PROVE Advances
BY RightSame DEF Advances

LEMMA MoveAdvances ==
  ASSUME Right!RunDown \/ \E s \in Sessions : Right!Take(s) \/ Right!Renew(s) \/ Right!Expire(s) \/ Right!End(s)
  PROVE  Advances
BY DEF Advances, Right!Next

\* The steps that leave the rows alone, or only a chooser's deadline.
LEMMA QuietAdvances ==
  ASSUME Inv, UNCHANGED lease, UNCHANGED row \/ \E s \in Sessions : WindowElapses(s)
  PROVE  Advances
<1>1. Lasts(Sessions)
  BY DEF WindowElapses, Lasts, Inv, RowsFit, RowRecords
<1> QED
  BY <1>1, SameAdvances

LEMMA AdoptAdvances == ASSUME Inv, NEW r \in Requests, Adopt(r) PROVE Advances
<1> DEFINE s == req[r].session
           adopted == IF row[s].status # "none" THEN row[s].status
                      ELSE IF Free THEN "active" ELSE "unslotted_legacy"
<1>1. s \in Sessions
  BY ServedSession DEF Adopt, At, Serving
<1>2. UNCHANGED lease /\ (UNCHANGED row \/ SetStatus(s, adopted))
  BY DEF Adopt
<1>3. adopted # row[s].status => adopted \notin Terminal /\ row[s].status \notin Terminal
  BY DEF Terminal, Ended
<1> HIDE DEF s, adopted
<1> QED
  BY <1>1, <1>2, <1>3, QuietAdvances, StatusLasts, SameAdvances

LEMMA PromotionAdvances == ASSUME Inv, NEW r \in Requests, Promote(r) \/ AskLease(r) PROVE Advances
<1> DEFINE s == req[r].session
<1>1. s \in Sessions
  BY ServedSession DEF Promote, AskLease, At, Serving
<1> PICK on \in req[r].seen : SetStatus(s, Promoted(s, on))
  BY DEF Promote, AskLease
<1> DEFINE x == Promoted(s, on)
<1>2. x # row[s].status => x \notin Terminal /\ row[s].status \notin Terminal
  BY DEF Promoted, Terminal, Ended
<1>3. SetStatus(s, x) /\ UNCHANGED lease
  BY DEF Promote, AskLease
<1> HIDE DEF s, x
<1> QED
  BY <1>1, <1>2, <1>3, StatusLasts, SameAdvances

LEMMA CheckDeadlineAdvances == ASSUME Inv, NEW r \in Requests, CheckDeadline(r) PROVE Advances
<1> DEFINE s == req[r].session
<1>1. s \in Sessions
  BY ServedSession DEF CheckDeadline, At, Serving
<1>2. UNCHANGED lease /\ (UNCHANGED row \/ (SetStatus(s, "expired") /\ row[s].status \in Held))
  BY DEF CheckDeadline
<1>3. row[s].status \in Held => row[s].status \notin Terminal
  BY DEF Held, Terminal, Ended
<1> HIDE DEF s
<1> QED
  BY <1>1, <1>2, <1>3, QuietAdvances, StatusExpires, MoveAdvances

LEMMA ClaimAdvances == ASSUME Inv, NEW r \in Requests, Claim(r) PROVE Advances
<1> DEFINE s == req[r].session
<1>1. s \in Sessions
  BY ServedSession DEF Claim, At, Serving
<1>2. /\ UNCHANGED lease
      /\ \/ UNCHANGED row
         \/ row[s].status = "pending_choice" /\ (SetStatus(s, "expired") \/ Activate(s))
  BY DEF Claim
<1>3. row[s].status = "pending_choice" => row[s].status \notin Terminal
  BY DEF Terminal, Ended
<1>4. row[s].status = "pending_choice" /\ Activate(s) => Lasts(Sessions)
  BY <1>1 DEF Activate, Lasts, Ended, Inv, RowsFit
<1> HIDE DEF s
<1> QED
  BY <1>1, <1>2, <1>3, <1>4, QuietAdvances, StatusExpires, MoveAdvances, SameAdvances

LEMMA ReconcilingAdvances == ASSUME Inv, NEW r \in Requests, LoginReconcile(r) \/ ReconcileOwn(r) PROVE Advances
BY ReconcileLasts, SameAdvances, QuietAdvances DEF LoginReconcile, ReconcileOwn

LEMMA RevokingAdvances ==
  ASSUME Inv, NEW t \in Sessions, Logout(t) \/ \E r \in Requests : Revoke(r, t)
  PROVE  Advances
BY StatusEnds, MoveAdvances DEF Logout, Revoke

LEMMA LeaseAdvances ==
  ASSUME Inv, NEW r \in Requests,
         \/ AcquireLease(r) \/ TransferLease(r) \/ AcquireToRead(r)
         \/ \E v \in 1..MaxVersion : RenewLease(r, v)
  PROVE  Advances
<1> DEFINE s == req[r].session
<1>1. s \in Seated /\ Hands(s) /\ s \in Sessions
  BY DEF AcquireLease, TransferLease, AcquireToRead, RenewLease, Acquire, Hands, Seated
<1> HIDE DEF s
<1> QED
  BY <1>1, RightHands, MoveAdvances

\* The chooser displaces at most one session.
LEMMA ChooseAdvances == ASSUME Inv, NEW r \in Requests, NEW d \in Sessions, Choose(r, d) PROVE Advances
<1> DEFINE s == req[r].session
           gone == IF row[d].status \in Held /\ ~Past(d) THEN {d} ELSE {}
           seat == s \notin gone /\ Cardinality(Seated \ gone) < SlotLimit
<1>1. s \in Sessions /\ row[s].status = "pending_choice" /\ row[s].status \notin Terminal
  BY ServedSession DEF Choose, At, Serving, Terminal, Ended
<1>2. CASE SetStatus(s, "expired") /\ UNCHANGED lease
  BY <1>1, <1>2, StatusExpires, MoveAdvances
<1>3. CASE /\ row' = [t \in Sessions |-> CASE t \in gone -> [row[t] EXCEPT !.status = "superseded"]
                                           [] t = s /\ seat -> [status |-> "active", exp |-> "jwt"]
                                           [] OTHER -> row[t]]
           /\ IF gone = {} THEN UNCHANGED lease ELSE KillLease(d)
  <2>1. \A t \in Sessions : row[t] \in RowRecords
    BY DEF Inv, RowsFit
  <2>2. \A t \in Sessions : row'[t].status = IF t \in gone THEN "superseded"
                                             ELSE IF t = s /\ seat THEN "active" ELSE row[t].status
    BY <1>3, <2>1 DEF RowRecords
  <2>3. gone \in {{}, {d}} /\ (gone = {d} => row[d].status \notin Terminal)
    BY DEF Held, Terminal, Ended
  <2> HIDE DEF gone, seat, s
  <2>4. Lasts(Sessions \ gone)
    BY <1>1, <2>2 DEF Lasts, Ended
  <2>5. CASE gone = {}
    BY <1>3, <2>4, <2>5, SameAdvances
  <2>6. CASE gone = {d}
    <3>1. row'[d].status \in Ended
      BY <2>2, <2>6 DEF Ended
    <3>2. Right!End(d)
      BY <1>3, <2>3, <2>4, <2>6, <3>1, RightEnds
    <3> QED
      BY <3>2, MoveAdvances
  <2> QED
    BY <2>3, <2>5, <2>6
<1> QED
  BY <1>2, <1>3 DEF Choose

\* A login ends the session it rotates.
LEMMA LoginAllocateAdvances == ASSUME Inv, NEW r \in Requests, LoginAllocate(r) PROVE Advances
<1> PICK s \in Sessions : s = req[r].session /\ row[s].status = "none"
  BY DEF LoginAllocate, At, Inv, HandlersFit, Aims
<1> PICK old \in Sessions \cup {None} : old = req[r].old
  BY DEF Inv, HandlersFit, Handlers
<1> DEFINE rotated == {old} \cap Seated
<1>1. PICK w \in RowRecords :
      /\ row' = [t \in Sessions |-> CASE t \in rotated -> [row[t] EXCEPT !.status = "superseded"]
                                      [] t = s -> w
                                      [] OTHER -> row[t]]
      /\ w.status \in {"active", "pending_choice"}
  BY DEF LoginAllocate, RowRecords, Held
<1>2. IF rotated = {} THEN UNCHANGED lease ELSE KillLease(old)
  BY DEF LoginAllocate
<1>3. \A t \in Sessions : row[t] \in RowRecords
  BY DEF Inv, RowsFit
<1>4. \A t \in Sessions : row'[t].status = IF t \in rotated THEN "superseded"
                                           ELSE IF t = s THEN w.status ELSE row[t].status
  <2>1. s \notin rotated
    BY DEF Seated
  <2> HIDE DEF rotated
  <2> QED
    BY <1>1, <1>3, <2>1 DEF RowRecords
<1>5. rotated \in {{}, {old}} /\ (rotated = {old} => old \in Sessions /\ row[old].status = "active")
  BY DEF Seated
<1> HIDE DEF rotated
<1>6. Lasts(Sessions \ rotated)
  BY <1>1, <1>4 DEF Lasts, Ended
<1>7. CASE rotated = {}
  BY <1>2, <1>6, <1>7, SameAdvances
<1>8. CASE rotated = {old}
  <2>1. old \in Sessions /\ row'[old].status \in Ended /\ row[old].status \notin Terminal /\ KillLease(old)
    BY <1>2, <1>4, <1>5, <1>8 DEF Ended, Terminal
  <2>2. Right!End(old)
    BY <1>6, <1>8, <2>1, RightEnds
  <2> QED
    BY <2>1, <2>2, MoveAdvances
<1> QED
  BY <1>5, <1>7, <1>8

LEMMA StepRefines == Inv /\ [Next]_vars => [Right!Next]_(Right!vars)
<1> SUFFICES ASSUME Inv, [Next]_vars PROVE Advances
  BY DEF Advances
<1>1. ASSUME UNCHANGED vars PROVE Advances
  BY <1>1, QuietAdvances DEF vars
<1>2. CASE LeaseRuns \/ Flip \/ \E s \in Sessions : WindowElapses(s) \/ CookieExpires(s) \/ Logout(s)
  BY <1>2, RightRunsDown, MoveAdvances, QuietAdvances, RevokingAdvances DEF Flip, WindowElapses, CookieExpires
<1>3. ASSUME NEW r \in Requests,
             \/ Abandon(r) \/ LoginAllocate(r) \/ LoginReconcile(r)
             \/ Adopt(r) \/ CheckDeadline(r) \/ Promote(r) \/ Claim(r) \/ ReconcileOwn(r)
             \/ PassThrough(r) \/ AskLease(r) \/ AcquireLease(r) \/ TransferLease(r)
             \/ Read(r) \/ AcquireToRead(r)
      PROVE  Advances
  BY <1>3, QuietAdvances, LoginAllocateAdvances, ReconcilingAdvances, AdoptAdvances, CheckDeadlineAdvances,
     PromotionAdvances, ClaimAdvances, LeaseAdvances DEF Abandon, PassThrough, Read
<1>4. ASSUME NEW r \in Requests,
             \/ \E s \in Sessions : Request(r, s) \/ Revoke(r, s) \/ Choose(r, s)
             \/ \E s \in Sessions, old \in Sessions \cup {None} : LoginFind(r, s, old)
             \/ \E v \in 1..MaxVersion : RenewLease(r, v)
      PROVE  Advances
  BY <1>4, QuietAdvances, RevokingAdvances, ChooseAdvances, LeaseAdvances DEF Request, LoginFind
<1> QED
  BY <1>1, <1>2, <1>3, <1>4 DEF Next

\* The registry and the lease keep the promise of ReadingRight, however often
\* the switch is turned: one reader at a time, under an epoch of its own, and
\* none that was ended.
THEOREM SessionsImplementRight == Spec => ImplementsRight
<1>1. Init => Right!Init
  BY DEF Init, Right!Init, Live, Ended
<1> QED
  BY <1>1, StepRefines, Invariant, PTL DEF Spec, ImplementsRight, Right!Spec
=============================================================================
