------------------------- MODULE NotificationProofs -------------------------
(***************************************************************************)
(* Proofs about NotificationDelivery, for any number of readers, events,   *)
(* workers, faults and changes, and every page size.                       *)
(*                                                                         *)
(* A page that is not full is the last one, and a full page ends at its    *)
(* greatest reader: so nobody between two cursors is left out.  While a    *)
(* worker holds its lease, whoever its page must still serve is on it;     *)
(* readers only lose interest in an event of the past.                     *)
(***************************************************************************)
EXTENDS NotificationDelivery, FiniteSetTheorems, WellFoundedInduction, TLAPS

-----------------------------------------------------------------------------
(* Least and greatest numbers, and pages.                                   *)

LEMMA LeastNat ==
  ASSUME NEW S \in SUBSET Nat, S # {}
  PROVE  \E x \in S : \A y \in S : x <= y
<1> DEFINE R == OpToRel(<, Nat)
<1>1. PICK x \in S : \A y \in S : <<y, x>> \notin R
  <2>1. IsWellFoundedOn(R, Nat)
    BY NatLessThanWellFounded
  <2> HIDE DEF R
  <2> QED
    BY <2>1, WFMin
<1>2. \A a, b \in Nat : a < b => <<a, b>> \in R
  BY DEF OpToRel
<1> HIDE DEF R
<1>3. \A y \in S : ~(y < x)
  BY <1>1, <1>2
<1> QED
  BY <1>3

LEMMA MinLeast ==
  ASSUME NEW S \in SUBSET Nat, S # {}
  PROVE  Min(S) \in S /\ \A y \in S : Min(S) <= y
BY LeastNat DEF Min

\* The element with the fewest above it has none.
LEMMA MaxGreatest ==
  ASSUME NEW S \in SUBSET Nat, S # {}, IsFiniteSet(S)
  PROVE  Max(S) \in S /\ \A y \in S : y <= Max(S)
<1> DEFINE Over(x) == {y \in S : y > x}
           Counts == {Cardinality(Over(x)) : x \in S}
<1>1. \A x \in S : IsFiniteSet(Over(x)) /\ Cardinality(Over(x)) \in Nat
  BY FS_Subset, FS_CardinalityType
<1>2. Counts \in SUBSET Nat /\ Counts # {}
  BY <1>1
<1>3. PICK n \in Counts : \A m \in Counts : n <= m
  <2> HIDE DEF Counts
  <2> QED
    BY <1>2, LeastNat
<1>4. PICK x \in S : n = Cardinality(Over(x))
  OBVIOUS
<1>5. ASSUME NEW y \in S, y > x PROVE FALSE
  <2>1. \A z \in S : z \in Nat
    OBVIOUS
  <2>2. \A z \in S : z > y => z > x
    BY <1>5, <2>1
  <2>3. Over(y) \subseteq Over(x)
    BY <2>2
  <2>4. y \in Over(x) /\ y \notin Over(y)
    BY <1>5, <2>1
  <2>5. Cardinality(Over(y)) >= Cardinality(Over(x))
    BY <1>3, <1>4
  <2> HIDE DEF Over
  <2>6. /\ Cardinality(Over(y)) <= Cardinality(Over(x))
        /\ Cardinality(Over(x)) = Cardinality(Over(y)) => Over(x) = Over(y)
    BY <1>1, <2>3, FS_Subset
  <2> QED
    BY <1>1, <2>4, <2>5, <2>6
<1>6. \A y \in S : y <= x
  BY <1>5
<1> QED
  BY <1>6 DEF Max

\* The first n elements of S.
Below(S, u) == {v \in S : v < u}
First(S, n) == {u \in S : Cardinality(Below(S, u)) < n}

LEMMA BelowFinite ==
  ASSUME NEW S \in SUBSET Nat, NEW u \in S
  PROVE  IsFiniteSet(Below(S, u)) /\ Cardinality(Below(S, u)) \in Nat
<1>1. Below(S, u) \subseteq Nat
  BY DEF Below
<1>2. \A v \in Below(S, u) : v <= u
  BY DEF Below
<1>3. IsFiniteSet(Below(S, u))
  BY <1>1, <1>2, FS_BoundedSetOfNaturals
<1> QED
  BY <1>3, FS_CardinalityType

LEMMA BelowGrows ==
  ASSUME NEW S \in SUBSET Nat, NEW u \in S, NEW v \in S, v < u
  PROVE  Cardinality(Below(S, v)) < Cardinality(Below(S, u))
<1>1. \A z \in S : z < v => z < u
  OBVIOUS
<1>2. Below(S, v) \subseteq Below(S, u)
  BY <1>1 DEF Below
<1>3. v \in Below(S, u) /\ v \notin Below(S, v)
  BY DEF Below
<1>4. /\ Cardinality(Below(S, v)) <= Cardinality(Below(S, u))
      /\ Cardinality(Below(S, u)) = Cardinality(Below(S, v)) => Below(S, u) = Below(S, v)
  BY <1>2, BelowFinite, FS_Subset
<1> QED
  BY <1>3, <1>4, BelowFinite

LEMMA FirstFits ==
  ASSUME NEW S \in SUBSET Nat, NEW n \in Nat
  PROVE  /\ IsFiniteSet(First(S, n)) /\ Cardinality(First(S, n)) <= n
         /\ \A u \in First(S, n) : \A v \in S : v < u => v \in First(S, n)
<1> DEFINE raw == First(S, n)
           rank == [u \in raw |-> Cardinality(Below(S, u))]
<1>1. \A u \in raw : u \in S /\ u \in Nat /\ Cardinality(Below(S, u)) \in 0..(n - 1)
  BY BelowFinite DEF First
<1>2. \A u, v \in raw : u # v => rank[u] # rank[v]
  <2>1. \A u, v \in raw : v < u => Cardinality(Below(S, v)) < Cardinality(Below(S, u))
    BY <1>1, BelowGrows
  <2>2. ASSUME NEW u \in raw, NEW v \in raw, u # v PROVE rank[u] # rank[v]
    <3>1. u < v \/ v < u
      BY <1>1, <2>2
    <3> QED
      BY <1>1, <2>1, <3>1
  <2> QED
    BY <2>2
<1>3. rank \in [raw -> 0..(n - 1)]
  BY <1>1
<1> HIDE DEF rank
<1>4. rank \in Injection(raw, 0..(n - 1))
  BY <1>2, <1>3 DEF Injection, IsInjective
<1>5. IsFiniteSet(0..(n - 1)) /\ Cardinality(0..(n - 1)) = n
  BY FS_Interval
<1>6. IsFiniteSet(raw) /\ Cardinality(raw) <= n
  BY <1>4, <1>5, FS_Injection
<1>7. ASSUME NEW u \in raw, NEW v \in S, v < u PROVE v \in raw
  <2>1. Cardinality(Below(S, v)) < Cardinality(Below(S, u))
    BY <1>1, <1>7, BelowGrows
  <2> QED
    BY <1>1, <2>1, BelowFinite DEF First
<1> QED
  BY <1>6, <1>7

\* A page that is not full is the last.
LEMMA FirstAll ==
  ASSUME NEW S \in SUBSET Nat, NEW n \in Nat, Cardinality(First(S, n)) # n
  PROVE  First(S, n) = S
<1> SUFFICES ASSUME First(S, n) # S PROVE FALSE
  OBVIOUS
<1>1. First(S, n) \in SUBSET S
  BY DEF First
<1>2. S \ First(S, n) \in SUBSET Nat /\ S \ First(S, n) # {}
  BY <1>1
<1>3. PICK u \in S \ First(S, n) : \A v \in S \ First(S, n) : u <= v
  BY <1>2, LeastNat
<1>4. \A v \in S : v < u => v \in First(S, n)
  BY <1>3
<1>5. \A v \in First(S, n) : v < u
  <2> TAKE v \in First(S, n)
  <2>1. v # u /\ v \in Nat /\ u \in Nat /\ ~(u < v)
    BY <1>1, <1>3, FirstFits
  <2> QED
    BY <2>1
<1>6. Below(S, u) = First(S, n)
  BY <1>1, <1>4, <1>5 DEF Below
<1>7. ~(Cardinality(Below(S, u)) < n) /\ Cardinality(Below(S, u)) \in Nat
  BY BelowFinite DEF First
<1> QED
  BY <1>6, <1>7, FirstFits

-----------------------------------------------------------------------------
(* The invariant.                                                           *)

Rows == [state : OutboxStates, attempt : Nat, holder : Workers \cup {None},
         live : BOOLEAN, cursor : Readers \cup {0}]
Ticks == [pc : {"idle", "read", "insert", "failed"}, claims : SUBSET Events,
          page : SUBSET Readers, next : Readers \cup {0}]

RowFits(o) ==
  /\ o \in Rows /\ (o.state = "leased" <=> o.holder # None) /\ (o.live => o.state = "leased")
  /\ o.state = "none" => o.cursor = 0
OutboxFits == outbox \in [Events -> Rows] /\ \A e \in Events : RowFits(outbox[e])

TickFits(t) == t \in Ticks /\ (t.claims = {} <=> t.pc = "idle")
WorkFits == work \in [Workers -> Ticks] /\ \A w \in Workers : TickFits(work[w])

InboxTyped ==
  /\ inbox \in [Readers -> [Events -> RowStates]]
  /\ bulk \in [Readers -> [Keys -> [kind : {"none", "mark_all_read", "delete_all"}, cut : SUBSET Events]]]

\* A reader whose deletion has begun has no inbox row, and gets none.
InboxFits ==
  /\ InboxTyped /\ DismissalsExact /\ NoOrphans
  /\ \A u \in deleting, e \in Events : inbox[u][e] = "none"

AudienceTyped ==
  /\ choice \in [Readers -> [Kinds -> Preferences]] /\ late \in [Events -> SUBSET Readers]
  /\ alive \subseteq Readers /\ followers \subseteq alive /\ deleting \subseteq alive
  /\ published \in BOOLEAN /\ waived \subseteq Events

\* No follower is being deleted, and an event that is hidden is known to be.
AudienceFits ==
  /\ AudienceTyped /\ followers \cap deleting = {}
  /\ \A e \in Events : outbox[e].state # "none" /\ ~Shown(e) => e \in waived

CountersFit == faults \in 0..MaxFaults /\ changes \in 0..MaxChanges

\* u still wants e and does not have it.
Missing(e, u) == Wanted(e, u) /\ e \notin waived /\ inbox[u][e] = "none"

\* Whom the cursor would pass, or the completion leave out, is on the page.
PageFits(w) ==
  LET e == Current(w)  next == work[w].next IN
  /\ next # 0 => next >= outbox[e].cursor
  /\ \A u \in Readers : Missing(e, u) /\ (next = 0 \/ u <= next) => u \in work[w].page
PagesFit == \A w \in Workers : work[w].pc = "insert" /\ HoldsCurrent(w) => PageFits(w)

Inv ==
  /\ OutboxFits /\ WorkFits /\ InboxFits /\ AudienceFits /\ CountersFit
  /\ PagedAreServed /\ PagesFit

-----------------------------------------------------------------------------
(* Shapes of steps.                                                         *)

\* Nobody starts to miss an event of the past.
Narrows ==
  \A e \in Events, u \in Readers : outbox[e].state # "none" /\ Missing(e, u)' => Missing(e, u)

\* Cursors stay, or pass nobody who misses the event.
CursorsServe ==
  \A e \in Events :
    \/ outbox'[e].cursor = outbox[e].cursor
    \/ \A u \in Readers : u <= outbox'[e].cursor => ~Missing(e, u)'

\* Workers that insert go on as before, or have a page that fits.
Inserters ==
  \A w \in Workers :
    work'[w].pc = "insert" /\ HoldsCurrent(w)' =>
      PageFits(w)' \/ (work'[w] = work[w] /\ outbox'[Current(w)] = outbox[Current(w)])

NothingHappens == \A e \in Events : outbox'[e].state # "none" => outbox[e].state # "none"

LEMMA CurrentClaim ==
  ASSUME Inv, NEW w \in Workers, work[w].claims # {}
  PROVE  Current(w) \in work[w].claims /\ Current(w) \in Events
<1>1. work[w].claims \in SUBSET Events
  BY DEF Inv, WorkFits, Ticks
<1>2. work[w].claims \in SUBSET Nat
  BY <1>1, NotificationAssumptions
<1>3. Min(work[w].claims) \in work[w].claims
  BY <1>2, MinLeast
<1> QED
  BY <1>1, <1>3 DEF Current

LEMMA PagesKeep ==
  ASSUME Inv, Narrows, CursorsServe, Inserters
  PROVE  PagedAreServed' /\ PagesFit'
<1>1. ASSUME NEW e \in Events, NEW u \in Readers, u <= outbox'[e].cursor PROVE ~Missing(e, u)'
  <2>1. CASE outbox'[e].cursor = outbox[e].cursor
    <3>1. u \in Nat \ {0}
      BY NotificationAssumptions
    <3>2. outbox[e].state # "none"
      BY <1>1, <2>1, <3>1 DEF Inv, OutboxFits, RowFits
    <3>3. ~Missing(e, u)
      BY <1>1, <2>1 DEF Inv, PagedAreServed, Missing
    <3> QED
      BY <3>2, <3>3 DEF Narrows
  <2> QED
    BY <1>1, <2>1 DEF CursorsServe
<1>2. PagedAreServed'
  BY <1>1 DEF PagedAreServed, Missing
<1>3. ASSUME NEW w \in Workers, work'[w].pc = "insert", HoldsCurrent(w)',
             work'[w] = work[w], outbox'[Current(w)] = outbox[Current(w)]
      PROVE  PageFits(w)'
  <2>1. Current(w)' = Current(w)
    BY <1>3 DEF Current
  <2>2. HoldsCurrent(w) /\ work[w].pc = "insert" /\ work[w].claims # {}
    BY <1>3, <2>1 DEF HoldsCurrent, Holds
  <2>3. PageFits(w)
    BY <2>2 DEF Inv, PagesFit
  <2>4. PICK e \in Events : e = Current(w)
    BY <2>2, CurrentClaim
  <2>5. outbox[e].state # "none" /\ outbox'[e] = outbox[e]
    BY <1>3, <2>2, <2>4 DEF HoldsCurrent, Holds
  <2>6. \A u \in Readers : Missing(e, u)' => Missing(e, u)
    BY <2>5 DEF Narrows
  <2> HIDE DEF Current
  <2> QED
    BY <1>3, <2>1, <2>3, <2>4, <2>5, <2>6 DEF PageFits
<1>4. PagesFit'
  BY <1>3 DEF Inserters, PagesFit
<1> QED
  BY <1>2, <1>4

\* A step of the delivery, apart from the insertion.
LEMMA DeliveryKeeps ==
  ASSUME Inv, UNCHANGED <<inbox, bulk, audience, changes>>, OutboxFits', WorkFits', faults' \in 0..MaxFaults,
         NothingHappens, CursorsServe, Inserters
  PROVE  Inv'
<1>1. InboxFits' /\ AudienceFits' /\ CountersFit'
  BY DEF Inv, InboxFits, InboxTyped, DismissalsExact, NoOrphans, AudienceFits, AudienceTyped, Shown, Fanout,
     CountersFit, NothingHappens, audience
<1>2. Narrows
  BY DEF Narrows, Missing, Wanted, Follows, PreferenceAllows, audience
<1> QED
  BY <1>1, <1>2, PagesKeep DEF Inv

\* A step of a reader, an author or an administrator.
LEMMA CommandKeeps ==
  ASSUME Inv, UNCHANGED <<outbox, work>>, Narrows, InboxFits', AudienceFits', CountersFit'
  PROVE  Inv'
<1>1. OutboxFits' /\ WorkFits'
  BY DEF Inv, OutboxFits, WorkFits
<1>2. CursorsServe /\ Inserters
  BY DEF CursorsServe, Inserters
<1> QED
  BY <1>1, <1>2, PagesKeep DEF Inv

-----------------------------------------------------------------------------
(* The steps of the outbox and its workers.                                 *)

LEMMA EmitKeeps == ASSUME Inv, NEW e \in Events, Emit(e) PROVE Inv'
<1>1. \A x \in Events : outbox'[x] = IF x = e THEN [outbox[e] EXCEPT !.state = "pending"] ELSE outbox[x]
  BY DEF Emit, Inv, OutboxFits
<1>2. RowFits(outbox[e]) /\ outbox[e].state = "none"
  BY DEF Emit, Inv, OutboxFits
<1>3. RowFits([outbox[e] EXCEPT !.state = "pending"])
  BY <1>2 DEF RowFits, Rows, OutboxStates
<1>4. OutboxFits'
  <2>1. outbox' = [x \in Events |-> outbox'[x]]
    BY DEF Emit, Inv, OutboxFits
  <2>2. \A x \in Events : RowFits(outbox'[x])
    BY <1>1, <1>3 DEF Inv, OutboxFits
  <2> QED
    BY <2>1, <2>2 DEF OutboxFits, RowFits
<1>5. WorkFits' /\ InboxFits' /\ CountersFit'
  BY DEF Emit, Inv, WorkFits, InboxFits, InboxTyped, DismissalsExact, NoOrphans, CountersFit
<1>6. PICK T \in SUBSET Readers : late' = [late EXCEPT ![e] = T]
  BY DEF Emit
<1>7. AudienceFits'
  <2>1. AudienceTyped'
    BY <1>6 DEF Emit, Inv, AudienceFits, AudienceTyped
  <2>2. ~Shown(e) => FALSE
    BY DEF Emit, Shown
  <2> QED
    BY <1>1, <2>1, <2>2 DEF Emit, Inv, AudienceFits, Shown, Fanout
<1>8. Narrows
  <2>1. \A x \in Events : outbox[x].state # "none" => late'[x] = late[x]
    BY <1>2, <1>6 DEF Inv, AudienceFits, AudienceTyped
  <2> QED
    BY <2>1 DEF Emit, Narrows, Missing, Wanted, Follows, PreferenceAllows
<1>9. CursorsServe
  BY <1>1, <1>2 DEF CursorsServe, RowFits, Rows
<1>10. Inserters
  <2> SUFFICES ASSUME NEW w \in Workers, HoldsCurrent(w)'
               PROVE  work'[w] = work[w] /\ outbox'[Current(w)] = outbox[Current(w)]
    BY DEF Inserters
  <2>1. work' = work /\ Current(w)' = Current(w)
    BY DEF Emit, Current
  <2>2. PICK x \in Events : x = Current(w)
    BY <2>1, CurrentClaim DEF HoldsCurrent
  <2>3. outbox'[x].state = "leased"
    BY <2>1, <2>2 DEF HoldsCurrent, Holds
  <2>4. x # e
    BY <1>1, <1>2, <2>3 DEF RowFits, Rows
  <2> QED
    BY <1>1, <2>1, <2>2, <2>4
<1> QED
  BY <1>4, <1>5, <1>7, <1>8, <1>9, <1>10, PagesKeep DEF Inv

LEMMA ExpireKeeps == ASSUME Inv, NEW e \in Events, ExpireAbandoned(e) \/ ExpireOverrun(e) PROVE Inv'
<1>1. Expire(e) /\ UNCHANGED <<inbox, bulk, audience, work, changes>> /\ faults' \in 0..MaxFaults
  <2>1. faults \in 0..MaxFaults /\ MaxFaults \in Nat
    BY NotificationAssumptions DEF Inv, CountersFit
  <2> QED
    BY <2>1 DEF ExpireAbandoned, ExpireOverrun, Expire
<1>2. \A x \in Events : outbox'[x] = IF x = e THEN [outbox[e] EXCEPT !.live = FALSE] ELSE outbox[x]
  BY <1>1 DEF Expire, Inv, OutboxFits
<1>3. RowFits(outbox[e])
  BY DEF Inv, OutboxFits
<1>4. /\ RowFits([outbox[e] EXCEPT !.live = FALSE])
      /\ ~outbox'[e].live /\ outbox'[e].state = outbox[e].state /\ outbox'[e].cursor = outbox[e].cursor
  BY <1>2, <1>3 DEF RowFits, Rows
<1>5. OutboxFits'
  <2>1. outbox' = [x \in Events |-> outbox'[x]]
    BY <1>1 DEF Expire, Inv, OutboxFits
  <2>2. \A x \in Events : RowFits(outbox'[x])
    BY <1>2, <1>4 DEF Inv, OutboxFits
  <2> QED
    BY <2>1, <2>2 DEF OutboxFits, RowFits
<1>6. NothingHappens /\ CursorsServe
  BY <1>2, <1>4 DEF NothingHappens, CursorsServe
<1>7. Inserters
  <2> SUFFICES ASSUME NEW w \in Workers, HoldsCurrent(w)'
               PROVE  work'[w] = work[w] /\ outbox'[Current(w)] = outbox[Current(w)]
    BY DEF Inserters
  <2>1. work' = work /\ Current(w)' = Current(w)
    BY <1>1 DEF Current
  <2>2. PICK x \in Events : x = Current(w)
    BY <2>1, CurrentClaim DEF HoldsCurrent
  <2>3. outbox'[x].live
    BY <2>1, <2>2 DEF HoldsCurrent, Holds
  <2> QED
    BY <1>2, <1>4, <2>1, <2>2, <2>3
<1>8. WorkFits'
  BY <1>1 DEF Inv, WorkFits
<1> QED
  BY <1>1, <1>5, <1>6, <1>7, <1>8, DeliveryKeeps

\* A tick that goes on, without a word to the outbox.
LEMMA GoOnKeeps ==
  ASSUME Inv, NEW w \in Workers, NEW t, work' = [work EXCEPT ![w] = t], TickFits(t),
         UNCHANGED <<outbox, inbox, bulk, audience, changes>>, faults' \in 0..MaxFaults,
         t.pc = "insert" /\ HoldsCurrent(w)' => PageFits(w)'
  PROVE  Inv'
<1>1. \A v \in Workers : work'[v] = IF v = w THEN t ELSE work[v]
  BY DEF Inv, WorkFits
<1>2. WorkFits'
  <2>1. work' = [v \in Workers |-> work'[v]]
    BY DEF Inv, WorkFits
  <2> QED
    BY <1>1, <2>1 DEF Inv, WorkFits, TickFits
<1>3. OutboxFits'
  BY DEF Inv, OutboxFits
<1>4. NothingHappens /\ CursorsServe
  BY DEF NothingHappens, CursorsServe
<1>5. Inserters
  BY <1>1 DEF Inserters
<1> QED
  BY <1>2, <1>3, <1>4, <1>5, DeliveryKeeps

LEMMA StopsKeep ==
  ASSUME Inv, NEW w \in Workers, StatementFails(w) \/ LeaseLost(w) \/ Crash(w)
  PROVE  Inv'
<1>1. PICK t \in {Idle, [work[w] EXCEPT !.pc = "failed"]} :
        work' = [work EXCEPT ![w] = t] /\ (t = Idle \/ work[w].pc \in {"read", "insert"})
  BY DEF StatementFails, LeaseLost, Crash
<1>2. TickFits(work[w])
  BY DEF Inv, WorkFits
<1>3. TickFits(t) /\ t.pc # "insert"
  BY <1>1, <1>2 DEF TickFits, Ticks, Idle
<1>4. faults' \in 0..MaxFaults
  <2>1. faults \in 0..MaxFaults /\ MaxFaults \in Nat
    BY NotificationAssumptions DEF Inv, CountersFit
  <2> QED
    BY <2>1 DEF StatementFails, LeaseLost, Crash
<1>5. UNCHANGED <<outbox, inbox, bulk, audience, changes>>
  BY DEF StatementFails, LeaseLost, Crash
<1> QED
  BY <1>1, <1>3, <1>4, <1>5, GoOnKeeps

\* What the page of a claim holds, and where it ends.
LEMMA PageEnds ==
  ASSUME Inv, NEW e \in Events
  PROVE  LET raw == Candidates(e)  next == NextCursor(e, raw) IN
         /\ raw \subseteq Readers /\ next \in Readers \cup {0}
         /\ next # 0 => next > outbox[e].cursor
         /\ \A u \in Readers : /\ Missing(e, u) /\ (next = 0 \/ u <= next) /\ outbox[e].state # "none"
                               => u \in raw /\ Eligible(e, u)
<1> DEFINE after == {u \in alive : u > outbox[e].cursor /\ Follows(e, u)}
           raw == Candidates(e)
           next == NextCursor(e, raw)
<1>1. after \subseteq Readers /\ Readers \subseteq Nat \ {0} /\ PageSize \in Nat \ {0}
  BY NotificationAssumptions DEF Inv, AudienceFits, AudienceTyped
<1>2. CASE ~Shown(e)
  <2>1. raw = {} /\ next = 0
    <3>1. raw = {}
      BY <1>2 DEF Candidates, Shown
    <3>2. Cardinality({}) = 0 /\ PageSize # 0
      BY <1>1, FS_EmptySet
    <3> QED
      BY <3>1, <3>2 DEF NextCursor
  <2>2. \A u \in Readers : outbox[e].state # "none" => ~Missing(e, u)
    BY <1>2 DEF Missing, Inv, AudienceFits
  <2> QED
    BY <2>1, <2>2
<1>3. CASE Shown(e) /\ Fanout(e)
  <2>1. raw = First(after, PageSize)
    BY <1>3 DEF Candidates, Shown, First, Below
  <2>2. /\ IsFiniteSet(raw) /\ \A u \in raw : \A v \in after : v < u => v \in raw
        /\ raw \subseteq after
    BY <1>1, <2>1, FirstFits DEF First
  <2>3. Cardinality(raw) # PageSize => raw = after
    BY <1>1, <2>1, FirstAll
  <2>4. Cardinality(raw) = PageSize => raw # {}
    BY <1>1, FS_EmptySet
  <2>5. Cardinality(raw) = PageSize => Max(raw) \in raw /\ next = Max(raw)
    BY <1>1, <1>3, <2>2, <2>4, MaxGreatest DEF NextCursor
  <2>6. Cardinality(raw) # PageSize => next = 0
    BY DEF NextCursor
  <2> HIDE DEF raw, next
  <2>7. \A u \in Readers : Missing(e, u) => u \in alive /\ Follows(e, u) /\ u > outbox[e].cursor /\ Eligible(e, u)
    <3>1. \A u \in Readers : Missing(e, u) => ~(u <= outbox[e].cursor)
      BY DEF Inv, PagedAreServed, Missing
    <3>2. outbox[e].cursor \in Readers \cup {0}
      BY DEF Inv, OutboxFits, Rows
    <3>3. outbox[e].cursor \in Nat /\ \A u \in Readers : u \in Nat
      BY <1>1, <3>2
    <3>4. \A u \in Readers : Missing(e, u) => u > outbox[e].cursor
      BY <3>1, <3>3
    <3> QED
      BY <1>3, <3>4 DEF Missing, Wanted, Eligible
  <2>8. \A u \in Readers : Missing(e, u) => u \in after
    BY <2>7 DEF Missing, Wanted
  <2>9. ASSUME NEW u \in Readers, Missing(e, u), next = 0 \/ u <= next PROVE u \in raw
    <3>1. CASE Cardinality(raw) # PageSize
      BY <2>3, <2>8, <2>9, <3>1
    <3>2. CASE Cardinality(raw) = PageSize
      <4>1. next \in raw /\ next \in Nat \ {0} /\ u \in after /\ u \in Nat
        BY <1>1, <2>2, <2>5, <2>8, <2>9, <3>2
      <4> HIDE DEF after
      <4>2. u < next \/ u = next
        BY <2>9, <4>1
      <4> QED
        BY <2>2, <4>1, <4>2
    <3> QED
      BY <3>1, <3>2
  <2>10. next # 0 => next \in after
    BY <2>2, <2>5, <2>6
  <2> QED
    BY <1>1, <2>2, <2>7, <2>9, <2>10 DEF raw, next
<1>4. CASE ~Fanout(e)
  <2>1. raw = {Target[e]} \cap alive /\ next = 0 /\ Shown(e)
    BY <1>4 DEF Candidates, NextCursor, Shown
  <2> QED
    BY <1>4, <2>1 DEF Missing, Wanted, Eligible, Inv, AudienceFits, AudienceTyped
<1> QED
  BY <1>2, <1>3, <1>4

LEMMA ReadAudienceKeeps == ASSUME Inv, NEW w \in Workers, ReadAudience(w) PROVE Inv'
<1>1. PICK e \in Events : e = Current(w) /\ Holds(w, e)
  BY CurrentClaim DEF ReadAudience, HoldsCurrent
<1> DEFINE raw == Candidates(e)
           page == {u \in raw : Eligible(e, u)}
           next == NextCursor(e, raw)
           t == [work[w] EXCEPT !.pc = "insert", !.page = page, !.next = next]
<1>2. /\ raw \subseteq Readers /\ next \in Readers \cup {0}
      /\ next # 0 => next > outbox[e].cursor
      /\ \A u \in Readers : Missing(e, u) /\ (next = 0 \/ u <= next) => u \in raw /\ Eligible(e, u)
  BY <1>1, PageEnds DEF Holds
<1>3. work' = [work EXCEPT ![w] = t]
  BY <1>1 DEF ReadAudience, Inv, WorkFits
<1>4. TickFits(work[w]) /\ work[w].pc = "read"
  BY DEF ReadAudience, Inv, WorkFits
<1>5. /\ page \subseteq Readers
      /\ \A u \in Readers : Missing(e, u) /\ (next = 0 \/ u <= next) => u \in page
  BY <1>2
<1> HIDE DEF raw, page, next
<1>6. TickFits(t) /\ t.pc = "insert" /\ t.page = page /\ t.next = next /\ t.claims = work[w].claims
  BY <1>2, <1>4, <1>5 DEF TickFits, Ticks
<1> HIDE DEF t
<1>7. UNCHANGED <<outbox, inbox, bulk, audience, faults, changes>>
  BY DEF ReadAudience
<1>8. work'[w] = t
  BY <1>3 DEF Inv, WorkFits
<1>9. PageFits(w)'
  <2>1. Current(w)' = e
    BY <1>1, <1>6, <1>8 DEF Current
  <2>2. outbox[e].cursor \in Readers \cup {0}
    BY DEF Inv, OutboxFits, Rows
  <2>3. \A x \in Readers \cup {0} : x \in Int
    BY NotificationAssumptions
  <2>4. next # 0 => next >= outbox[e].cursor
    BY <1>2, <2>2, <2>3
  <2>5. \A u \in Readers : Missing(e, u)' <=> Missing(e, u)
    BY <1>7 DEF Missing, Wanted, Follows, PreferenceAllows, audience
  <2> QED
    BY <1>5, <1>6, <1>7, <1>8, <2>1, <2>4, <2>5 DEF PageFits
<1>10. faults' \in 0..MaxFaults
  BY <1>7 DEF Inv, CountersFit
<1> QED
  BY <1>3, <1>6, <1>7, <1>9, <1>10, GoOnKeeps

\* Giving the lease of e back.
LEMMA ReleaseEffect ==
  ASSUME Inv, NEW w \in Workers, NEW e \in work[w].claims, NEW row \in Rows,
         row.state \in {"pending", "completed", "dead_letter"}, Release(w, e, row)
  PROVE  /\ OutboxFits' /\ WorkFits'
         /\ work'[w].pc # "insert" /\ \A v \in Workers \ {w} : work'[v] = work[v]
         /\ \A x \in Events \ {e} : outbox'[x] = outbox[x]
         /\ e \in Events /\ outbox'[e].state = row.state /\ outbox'[e].cursor = row.cursor
         /\ outbox'[e].attempt = row.attempt /\ outbox'[e].state # "leased"
<1> DEFINE free == [row EXCEPT !.holder = None, !.live = FALSE]
           rest == [Idle EXCEPT !.pc = "read", !.claims = work[w].claims \ {e}]
           t == IF work[w].claims = {e} THEN Idle ELSE rest
<1>1. TickFits(work[w]) /\ e \in Events
  BY DEF Inv, WorkFits, Ticks
<1>2. RowFits(free) /\ free.state = row.state /\ free.cursor = row.cursor /\ free.attempt = row.attempt
  BY DEF RowFits, Rows
<1>3. TickFits(t) /\ t.pc # "insert"
  <2>1. work[w].claims \ {e} \subseteq Events /\ (work[w].claims # {e} => work[w].claims \ {e} # {})
    BY <1>1 DEF TickFits, Ticks
  <2>2. TickFits(Idle) /\ Idle.pc = "idle"
    BY DEF Idle, TickFits, Ticks
  <2>3. work[w].claims # {e} => TickFits(rest) /\ rest.pc = "read"
    BY <2>1 DEF Idle, TickFits, Ticks
  <2> QED
    BY <2>2, <2>3
<1>4. outbox' = [outbox EXCEPT ![e] = free] /\ work' = [work EXCEPT ![w] = t]
  BY DEF Release, Inv, WorkFits
<1> HIDE DEF free, t
<1>5. \A x \in Events : outbox'[x] = IF x = e THEN free ELSE outbox[x]
  BY <1>4 DEF Inv, OutboxFits
<1>6. \A v \in Workers : work'[v] = IF v = w THEN t ELSE work[v]
  BY <1>4 DEF Inv, WorkFits
<1>7. outbox' = [x \in Events |-> outbox'[x]] /\ work' = [v \in Workers |-> work'[v]]
  BY <1>4 DEF Inv, OutboxFits, WorkFits
<1>8. OutboxFits'
  BY <1>2, <1>5, <1>7 DEF Inv, OutboxFits, RowFits
<1>9. WorkFits'
  BY <1>3, <1>6, <1>7 DEF Inv, WorkFits, TickFits
<1> QED
  BY <1>1, <1>2, <1>3, <1>5, <1>6, <1>8, <1>9

LEMMA ReleaseKeeps ==
  ASSUME Inv, NEW w \in Workers, NEW e \in work[w].claims, NEW row \in Rows, outbox[e].state # "none",
         row.state \in {"pending", "completed", "dead_letter"}, Release(w, e, row),
         \/ row.cursor = outbox[e].cursor
         \/ \A u \in Readers : u <= row.cursor => ~Missing(e, u),
         UNCHANGED <<inbox, bulk, audience, faults, changes>>
  PROVE  Inv'
<1>1. /\ OutboxFits' /\ WorkFits'
      /\ work'[w].pc # "insert" /\ \A v \in Workers \ {w} : work'[v] = work[v]
      /\ \A x \in Events \ {e} : outbox'[x] = outbox[x]
      /\ e \in Events /\ outbox'[e].state = row.state /\ outbox'[e].cursor = row.cursor
      /\ outbox'[e].state # "leased"
  BY ReleaseEffect
<1>2. NothingHappens
  BY <1>1 DEF NothingHappens
<1>3. CursorsServe
  <2>1. \A u \in Readers : Missing(e, u)' <=> Missing(e, u)
    BY DEF Missing, Wanted, Follows, PreferenceAllows, audience
  <2> QED
    BY <1>1, <2>1 DEF CursorsServe
<1>4. Inserters
  <2> SUFFICES ASSUME NEW v \in Workers, work'[v].pc = "insert", HoldsCurrent(v)'
               PROVE  work'[v] = work[v] /\ outbox'[Current(v)] = outbox[Current(v)]
    BY DEF Inserters
  <2>1. v # w /\ work'[v] = work[v]
    BY <1>1
  <2>2. Current(v)' = Current(v)
    BY <2>1 DEF Current
  <2>3. PICK x \in Events : x = Current(v)
    BY <2>1, CurrentClaim DEF HoldsCurrent
  <2>4. outbox'[x].state = "leased"
    BY <2>2, <2>3 DEF HoldsCurrent, Holds
  <2> QED
    BY <1>1, <2>1, <2>3, <2>4
<1>5. faults' \in 0..MaxFaults
  BY DEF Inv, CountersFit
<1> QED
  BY <1>1, <1>2, <1>3, <1>4, <1>5, DeliveryKeeps

LEMMA FinishPageKeeps == ASSUME Inv, NEW w \in Workers, FinishPage(w) PROVE Inv'
<1>1. PICK e \in work[w].claims : e = Current(w) /\ Holds(w, e) /\ e \in Events
  BY CurrentClaim DEF FinishPage, HoldsCurrent
<1> DEFINE next == work[w].next
           row == IF next = 0 THEN [outbox[e] EXCEPT !.state = "completed"]
                  ELSE [outbox[e] EXCEPT !.state = "pending", !.cursor = next]
<1>2. outbox[e] \in Rows /\ next \in Readers \cup {0} /\ outbox[e].state # "none"
  BY <1>1 DEF Holds, Inv, OutboxFits, WorkFits, Ticks
<1>3. row \in Rows /\ row.state \in {"pending", "completed"} /\ row.cursor \in {outbox[e].cursor, next}
  BY <1>2 DEF Rows, OutboxStates
<1>4. next # 0 => \A u \in Readers : u <= next => ~Missing(e, u)
  <2>1. PageFits(w) /\ work[w].page = {}
    BY DEF FinishPage, Inv, PagesFit
  <2> QED
    BY <1>1, <2>1 DEF PageFits
<1>5. next = 0 => row.cursor = outbox[e].cursor
  BY <1>2 DEF Rows
<1>6. Release(w, e, row) /\ UNCHANGED <<inbox, bulk, audience, faults, changes>>
  BY <1>1 DEF FinishPage
<1> HIDE DEF row, next
<1>7. row.cursor = outbox[e].cursor \/ \A u \in Readers : u <= row.cursor => ~Missing(e, u)
  BY <1>3, <1>4, <1>5
<1> QED
  BY <1>1, <1>2, <1>3, <1>6, <1>7, ReleaseKeeps

LEMMA HandleFailureKeeps == ASSUME Inv, NEW w \in Workers, HandleFailure(w) PROVE Inv'
<1>1. PICK e \in work[w].claims : e = Current(w) /\ Holds(w, e) /\ e \in Events
  BY CurrentClaim DEF HandleFailure, HoldsCurrent
<1>2. outbox[e] \in Rows /\ outbox[e].state # "none"
  BY <1>1 DEF Holds, Inv, OutboxFits
<1>3. PICK row : /\ row \in {[outbox[e] EXCEPT !.state = "dead_letter"], [outbox[e] EXCEPT !.state = "pending"]}
                 /\ Release(w, e, row)
  BY <1>1 DEF HandleFailure
<1>4. row \in Rows /\ row.state \in {"pending", "dead_letter"} /\ row.cursor = outbox[e].cursor
  BY <1>2, <1>3 DEF Rows, OutboxStates
<1>5. UNCHANGED <<inbox, bulk, audience, faults, changes>>
  BY DEF HandleFailure
<1> QED
  BY <1>1, <1>2, <1>3, <1>4, <1>5, ReleaseKeeps

LEMMA TickKeeps == ASSUME Inv, NEW w \in Workers, Tick(w) PROVE Inv'
<1>1. PICK S \in SUBSET {e \in Events : Ready(e)} :
        /\ S # {}
        /\ outbox' = [e \in Events |->
             IF e \in S
               THEN [outbox[e] EXCEPT !.state = "leased", !.attempt = @ + 1, !.holder = w, !.live = TRUE]
               ELSE outbox[e]]
        /\ work' = [work EXCEPT ![w] = [Idle EXCEPT !.pc = "read", !.claims = S]]
  BY DEF Tick
<1>2. \A e \in Events : RowFits(outbox[e])
  BY DEF Inv, OutboxFits
<1>3. \A e \in S : e \in Events /\ outbox[e].state \in {"pending", "leased"} /\ (outbox[e].live => FALSE)
  BY <1>1, <1>2 DEF Ready, RowFits
<1>4. \A e \in S : /\ RowFits(outbox'[e]) /\ outbox'[e].cursor = outbox[e].cursor
                   /\ outbox'[e].holder = w
  <2> TAKE e \in S
  <2>1. outbox'[e] = [outbox[e] EXCEPT !.state = "leased", !.attempt = outbox[e].attempt + 1,
                                       !.holder = w, !.live = TRUE]
    BY <1>1, <1>3
  <2>2. outbox[e] \in Rows
    BY <1>2, <1>3 DEF RowFits
  <2>3. outbox[e].attempt + 1 \in Nat
    BY <2>2 DEF Rows
  <2>4. w # None
    BY NotificationAssumptions
  <2> QED
    BY <2>1, <2>2, <2>3, <2>4 DEF RowFits, Rows, OutboxStates
<1>5. \A e \in Events \ S : outbox'[e] = outbox[e]
  BY <1>1
<1>6. OutboxFits'
  <2>1. outbox' = [e \in Events |-> outbox'[e]]
    BY <1>1
  <2>2. \A e \in Events : RowFits(outbox'[e])
    BY <1>2, <1>4, <1>5
  <2> QED
    BY <2>1, <2>2 DEF OutboxFits, RowFits
<1>7. \A v \in Workers : work'[v] = IF v = w THEN [Idle EXCEPT !.pc = "read", !.claims = S] ELSE work[v]
  BY <1>1 DEF Inv, WorkFits
<1>8. WorkFits'
  <2>1. TickFits([Idle EXCEPT !.pc = "read", !.claims = S])
    BY <1>1, <1>3 DEF TickFits, Ticks, Idle
  <2>2. work' = [v \in Workers |-> work'[v]]
    BY <1>1 DEF Inv, WorkFits
  <2> QED
    BY <1>7, <2>1, <2>2 DEF Inv, WorkFits, TickFits
<1>9. NothingHappens /\ CursorsServe
  BY <1>3, <1>4, <1>5 DEF NothingHappens, CursorsServe
<1>10. Inserters
  <2> SUFFICES ASSUME NEW v \in Workers, work'[v].pc = "insert", HoldsCurrent(v)'
               PROVE  work'[v] = work[v] /\ outbox'[Current(v)] = outbox[Current(v)]
    BY DEF Inserters
  <2>1. v # w /\ work'[v] = work[v]
    BY <1>7 DEF Idle
  <2>2. Current(v)' = Current(v)
    BY <2>1 DEF Current
  <2>3. PICK x \in Events : x = Current(v)
    BY <2>1, CurrentClaim DEF HoldsCurrent
  <2>4. outbox'[x].holder = v
    BY <2>2, <2>3 DEF HoldsCurrent, Holds
  <2> QED
    BY <1>4, <1>5, <2>1, <2>3, <2>4
<1>11. UNCHANGED <<inbox, bulk, audience, faults, changes>>
  BY DEF Tick
<1>12. faults' \in 0..MaxFaults
  BY <1>11 DEF Inv, CountersFit
<1> QED
  BY <1>6, <1>8, <1>9, <1>10, <1>11, <1>12, DeliveryKeeps

\* The insertion: the reader gets the event, or does not miss it.
LEMMA InsertRecipientKeeps == ASSUME Inv, NEW w \in Workers, InsertRecipient(w) PROVE Inv'
<1>1. PICK e \in Events : e = Current(w) /\ Holds(w, e)
  BY CurrentClaim DEF InsertRecipient, HoldsCurrent
<1>2. TickFits(work[w]) /\ work[w].page # {}
  BY DEF InsertRecipient, Inv, WorkFits
<1>3. PICK u \in work[w].page : u = Min(work[w].page) /\ u \in Readers
  <2>1. work[w].page \subseteq Readers
    BY <1>2 DEF TickFits, Ticks
  <2>2. work[w].page \in SUBSET Nat
    BY <2>1, NotificationAssumptions
  <2> QED
    BY <1>2, <2>1, <2>2, MinLeast
<1> DEFINE t == [work[w] EXCEPT !.page = work[w].page \ {u}]
<1>4. /\ u \notin deleting /\ inbox' = [inbox EXCEPT ![u][e] = InboxAfterInsert(e, u)]
      /\ work' = [work EXCEPT ![w] = t]
  BY <1>1, <1>3 DEF InsertRecipient
<1>5. UNCHANGED <<outbox, bulk, audience, faults, changes>>
  BY DEF InsertRecipient
<1>6. /\ TickFits(t) /\ t.page = work[w].page \ {u} /\ t.next = work[w].next /\ t.claims = work[w].claims
      /\ t.pc = "insert" /\ work[w].pc = "insert"
  BY <1>2 DEF TickFits, Ticks, InsertRecipient
<1> HIDE DEF t
<1>7. \A x \in Readers, y \in Events :
        inbox'[x][y] = IF x = u /\ y = e THEN InboxAfterInsert(e, u) ELSE inbox[x][y]
  BY <1>3, <1>4 DEF Inv, InboxFits, InboxTyped
<1>8. InboxAfterInsert(e, u) \in {inbox[u][e], "unread"}
      /\ (InboxAfterInsert(e, u) # inbox[u][e] => inbox[u][e] = "none" /\ Eligible(e, u))
  BY DEF InboxAfterInsert
<1>9. InboxFits'
  <2>1. InboxTyped'
    <3>1. PICK x \in RowStates : x = InboxAfterInsert(e, u)
      BY <1>3, <1>8 DEF Inv, InboxFits, InboxTyped, RowStates
    <3>2. inbox' = [inbox EXCEPT ![u][e] = x]
      BY <1>4, <3>1
    <3> QED
      BY <1>5, <3>2 DEF Inv, InboxFits, InboxTyped
  <2>2. \A x \in Readers, y \in Events : inbox'[x][y] = "dismissed" <=> inbox[x][y] = "dismissed"
    BY <1>7, <1>8
  <2>3. DismissalsExact'
    BY <1>5, <2>2 DEF Inv, InboxFits, DismissalsExact
  <2>4. NoOrphans'
    BY <1>5, <1>7, <1>8 DEF Inv, InboxFits, NoOrphans, Eligible, Wanted, audience
  <2>5. \A x \in deleting', y \in Events : inbox'[x][y] = "none"
    BY <1>4, <1>5, <1>7 DEF Inv, InboxFits, AudienceFits, AudienceTyped, audience
  <2> QED
    BY <2>1, <2>3, <2>4, <2>5 DEF InboxFits
<1>10. /\ \A x \in Readers, y \in Events : Missing(y, x)' => Missing(y, x)
       /\ ~Missing(e, u)'
  <2>1. \A x \in Readers, y \in Events : Wanted(y, x)' <=> Wanted(y, x)
    BY <1>5 DEF Wanted, Follows, PreferenceAllows, audience
  <2>2. outbox[e].state # "none"
    BY <1>1 DEF Holds
  <2>3. Wanted(e, u) /\ ~Eligible(e, u) => e \in waived
    BY <2>2 DEF Eligible, Inv, AudienceFits
  <2>4. inbox[u][e] = "none" /\ Eligible(e, u) => inbox'[u][e] = "unread"
    BY <1>3, <1>7 DEF InboxAfterInsert
  <2>5. inbox[u][e] # "none" => inbox'[u][e] # "none"
    BY <1>3, <1>7 DEF InboxAfterInsert
  <2>6. \A x \in Readers, y \in Events : inbox'[x][y] = "none" => inbox[x][y] = "none"
    BY <1>7, <1>8
  <2> QED
    BY <1>3, <1>5, <2>1, <2>3, <2>4, <2>5, <2>6 DEF Missing, audience
<1>11. AudienceFits' /\ CountersFit' /\ OutboxFits'
  BY <1>5 DEF Inv, AudienceFits, AudienceTyped, Shown, Fanout, CountersFit, OutboxFits, audience
<1>12. \A v \in Workers : work'[v] = IF v = w THEN t ELSE work[v]
  BY <1>4 DEF Inv, WorkFits
<1>13. WorkFits'
  <2>1. work' = [v \in Workers |-> work'[v]]
    BY <1>4 DEF Inv, WorkFits
  <2> QED
    BY <1>6, <1>12, <2>1 DEF Inv, WorkFits, TickFits
<1>14. Narrows /\ CursorsServe
  BY <1>5, <1>10 DEF Narrows, CursorsServe
<1>15. PageFits(w)'
  <2>1. PageFits(w)
    BY DEF InsertRecipient, Inv, PagesFit
  <2>2. Current(w)' = e /\ work'[w] = t
    BY <1>1, <1>6, <1>12 DEF Current
  <2> HIDE DEF Current
  <2> QED
    BY <1>1, <1>5, <1>6, <1>10, <2>1, <2>2 DEF PageFits
<1>16. Inserters
  BY <1>5, <1>12, <1>15 DEF Inserters
<1> QED
  BY <1>9, <1>11, <1>13, <1>14, <1>16, PagesKeep DEF Inv

-----------------------------------------------------------------------------
(* The steps of readers, authors and administrators.                        *)

LEMMA ChangeCounts ==
  ASSUME Inv, (Change /\ UNCHANGED faults) \/ UNCHANGED <<faults, changes>>
  PROVE  CountersFit'
<1>1. changes \in 0..MaxChanges /\ MaxChanges \in Nat
  BY NotificationAssumptions DEF Inv, CountersFit
<1> QED
  BY <1>1 DEF Change, Inv, CountersFit

\* Whoever sets a preference now does not come to want an event of the past.
LEMMA SetPreferenceKeeps ==
  ASSUME Inv, NEW u \in Readers, NEW k \in Kinds, NEW v \in {"on", "off"}, SetPreference(u, k, v)
  PROVE  Inv'
<1>1. AudienceFits'
  <2>1. choice' \in [Readers -> [Kinds -> Preferences]]
    BY DEF SetPreference, Inv, AudienceFits, AudienceTyped, Preferences
  <2>2. late' \in [Events -> SUBSET Readers]
    BY DEF SetPreference, Inv, AudienceFits, AudienceTyped
  <2> QED
    BY <2>1, <2>2 DEF SetPreference, Inv, AudienceFits, AudienceTyped, Shown, Fanout
<1>2. InboxFits'
  BY DEF SetPreference, Inv, InboxFits, InboxTyped, DismissalsExact, NoOrphans
<1>3. CountersFit'
  BY ChangeCounts DEF SetPreference
<1>4. Narrows
  <2> SUFFICES ASSUME NEW e \in Events, NEW x \in Readers, outbox[e].state # "none", Missing(e, x)'
               PROVE  Missing(e, x)
    BY DEF Narrows
  <2>1. Kind[e] \in Kinds
    BY DEF Kinds
  <2>2. choice'[x][Kind[e]] = IF x = u /\ Kind[e] = k THEN v ELSE choice[x][Kind[e]]
    BY <2>1 DEF SetPreference, Inv, AudienceFits, AudienceTyped
  <2>3. late'[e] = IF Kind[e] = k THEN late[e] \cup {u} ELSE late[e]
    BY DEF SetPreference
  <2>4. x # u \/ Kind[e] # k
    BY <2>2, <2>3 DEF Missing, Wanted, PreferenceAllows
  <2>5. PreferenceAllows(e, x)' => PreferenceAllows(e, x)
    BY <2>2, <2>3, <2>4 DEF PreferenceAllows
  <2> QED
    BY <2>5 DEF Missing, Wanted, Follows, SetPreference
<1> QED
  BY <1>1, <1>2, <1>3, <1>4, CommandKeeps DEF SetPreference

\* A command on the inbox alone takes no row away, and dismisses by a bulk
\* operation only.
LEMMA InboxCommandKeeps ==
  ASSUME Inv, UNCHANGED <<outbox, work, audience, faults>>, Change, InboxTyped', DismissalsExact',
         \A u \in Readers, e \in Events : inbox'[u][e] = "none" <=> inbox[u][e] = "none"
  PROVE  Inv'
<1>1. InboxFits'
  BY DEF Inv, InboxFits, NoOrphans, AudienceFits, AudienceTyped, audience
<1>2. AudienceFits'
  BY DEF Inv, AudienceFits, AudienceTyped, Shown, Fanout, audience
<1>3. CountersFit'
  BY ChangeCounts
<1>4. Narrows
  BY DEF Narrows, Missing, Wanted, Follows, PreferenceAllows, audience
<1> QED
  BY <1>1, <1>2, <1>3, <1>4, CommandKeeps

LEMMA MarkOwnReadKeeps ==
  ASSUME Inv, NEW u \in Readers, NEW e \in Events, MarkOwnRead(u, e)
  PROVE  Inv'
<1>1. InboxTyped'
  BY DEF MarkOwnRead, Inv, InboxFits, InboxTyped, RowStates
<1>2. /\ inbox[u][e] = "unread"
      /\ \A x \in Readers, y \in Events :
           inbox'[x][y] = IF x = u /\ y = e THEN "read" ELSE inbox[x][y]
  BY DEF MarkOwnRead, Inv, InboxFits, InboxTyped
<1>3. DismissalsExact'
  <2>1. \A x \in Readers, y \in Events : inbox'[x][y] = "dismissed" <=> inbox[x][y] = "dismissed"
    BY <1>2
  <2> QED
    BY <2>1 DEF MarkOwnRead, Inv, InboxFits, DismissalsExact
<1>4. \A x \in Readers, y \in Events : inbox'[x][y] = "none" <=> inbox[x][y] = "none"
  BY <1>2
<1> QED
  BY <1>1, <1>3, <1>4, InboxCommandKeeps DEF MarkOwnRead

LEMMA BulkOperationKeeps ==
  ASSUME Inv, NEW u \in Readers, NEW k \in Keys, NEW kind \in {"mark_all_read", "delete_all"},
         BulkOperation(u, k, kind)
  PROVE  Inv'
<1> DEFINE cut == {e \in Events : inbox[u][e] # "none"}
           after == IF kind = "delete_all" THEN "dismissed" ELSE "read"
<1>1. /\ bulk' = [bulk EXCEPT ![u][k] = [kind |-> kind, cut |-> cut]]
      /\ inbox' = [inbox EXCEPT ![u] = [e \in Events |->
           IF e \in cut /\ inbox[u][e] # "dismissed" THEN after ELSE inbox[u][e]]]
      /\ bulk[u][k] = NotSubmitted
  BY DEF BulkOperation
<1>2. cut \in SUBSET Events /\ \A e \in Events : e \in cut <=> inbox[u][e] # "none"
  OBVIOUS
<1>3. after \in {"read", "dismissed"} /\ (after = "dismissed" <=> kind = "delete_all")
  OBVIOUS
<1> HIDE DEF cut, after
<1>4. \A x \in Readers, y \in Events :
        inbox'[x][y] = IF x = u /\ y \in cut /\ inbox[u][y] # "dismissed" THEN after ELSE inbox[x][y]
  BY <1>1 DEF Inv, InboxFits, InboxTyped
<1>5. \A x \in Readers, j \in Keys :
        bulk'[x][j] = IF x = u /\ j = k THEN [kind |-> kind, cut |-> cut] ELSE bulk[x][j]
  BY <1>1 DEF Inv, InboxFits, InboxTyped
<1>6. InboxTyped'
  <2>1. inbox' \in [Readers -> [Events -> RowStates]]
    <3>1. [e \in Events |-> IF e \in cut /\ inbox[u][e] # "dismissed" THEN after ELSE inbox[u][e]]
            \in [Events -> RowStates]
      BY <1>3 DEF Inv, InboxFits, InboxTyped, RowStates
    <3> QED
      BY <1>1, <3>1 DEF Inv, InboxFits, InboxTyped
  <2>2. bulk' \in [Readers -> [Keys -> [kind : {"none", "mark_all_read", "delete_all"}, cut : SUBSET Events]]]
    BY <1>1, <1>2 DEF Inv, InboxFits, InboxTyped
  <2> QED
    BY <2>1, <2>2 DEF InboxTyped
<1>7. \A x \in Readers, y \in Events : inbox'[x][y] = "none" <=> inbox[x][y] = "none"
  BY <1>2, <1>3, <1>4
<1>8. ASSUME NEW x \in Readers, NEW y \in Events
      PROVE  inbox'[x][y] = "dismissed" <=> \E j \in Keys : bulk'[x][j].kind = "delete_all" /\ y \in bulk'[x][j].cut
  <2>1. inbox[x][y] = "dismissed" <=> \E j \in Keys : bulk[x][j].kind = "delete_all" /\ y \in bulk[x][j].cut
    BY DEF Inv, InboxFits, DismissalsExact
  <2>2. bulk[u][k].kind # "delete_all"
    BY <1>1 DEF NotSubmitted
  <2>3. CASE x # u
    BY <1>4, <1>5, <2>1, <2>3
  <2>4. CASE x = u
    <3>1. (\E j \in Keys : bulk'[x][j].kind = "delete_all" /\ y \in bulk'[x][j].cut)
            <=> inbox[x][y] = "dismissed" \/ (kind = "delete_all" /\ y \in cut)
      BY <1>5, <2>1, <2>2, <2>4
    <3>2. inbox'[x][y] = "dismissed" <=> inbox[x][y] = "dismissed" \/ (kind = "delete_all" /\ y \in cut)
      BY <1>3, <1>4, <2>4
    <3> QED
      BY <3>1, <3>2
  <2> QED
    BY <2>3, <2>4
<1>9. DismissalsExact'
  BY <1>8 DEF DismissalsExact
<1> QED
  BY <1>6, <1>7, <1>9, InboxCommandKeeps DEF BulkOperation

\* A command on the audience alone: an account, a follower or the novel.
LEMMA AudienceCommandKeeps ==
  ASSUME Inv, UNCHANGED <<outbox, work, inbox, bulk, choice, late>>,
         (Change /\ UNCHANGED faults) \/ UNCHANGED <<faults, changes>>,
         AudienceFits', followers' \subseteq followers, alive' \subseteq alive, waived \subseteq waived',
         \A u \in Readers : (u \in alive /\ u \notin alive') \/ u \in deleting' =>
           \A e \in Events : inbox[u][e] = "none"
  PROVE  Inv'
<1>1. InboxFits'
  <2>1. NoOrphans'
    BY DEF Inv, InboxFits, NoOrphans
  <2>2. \A u \in deleting', e \in Events : inbox'[u][e] = "none"
    BY DEF AudienceFits, AudienceTyped
  <2> QED
    BY <2>1, <2>2 DEF Inv, InboxFits, InboxTyped, DismissalsExact
<1>2. CountersFit'
  BY ChangeCounts
<1>3. Narrows
  BY DEF Narrows, Missing, Wanted, Follows, PreferenceAllows
<1> QED
  BY <1>1, <1>2, <1>3, CommandKeeps

LEMMA UnfollowKeeps == ASSUME Inv, NEW u \in Readers, Unfollow(u) PROVE Inv'
<1>1. AudienceFits'
  BY DEF Unfollow, Inv, AudienceFits, AudienceTyped, Shown, Fanout
<1> QED
  BY <1>1, AudienceCommandKeeps DEF Unfollow, Inv, InboxFits

LEMMA NovelKeeps == ASSUME Inv, Unpublish \/ Publish PROVE Inv'
<1>1. AudienceFits'
  BY DEF Unpublish, Publish, Inv, AudienceFits, AudienceTyped, Shown, Fanout
<1>2. waived \subseteq waived'
  BY DEF Unpublish, Publish
<1> QED
  BY <1>1, <1>2, AudienceCommandKeeps DEF Unpublish, Publish, Inv, InboxFits

LEMMA DeletionKeeps ==
  ASSUME Inv, NEW u \in Readers, DeleteAssess(u) \/ DeleteCommit(u)
  PROVE  Inv'
<1>1. CASE DeleteAssess(u)
  <2>1. u \notin followers /\ \A e \in Events : inbox[u][e] = "none"
    BY <1>1 DEF DeleteAssess, DeletionBlocked
  <2>2. AudienceFits'
    BY <1>1, <2>1 DEF DeleteAssess, Inv, AudienceFits, AudienceTyped, Shown, Fanout
  <2> QED
    BY <1>1, <2>1, <2>2, AudienceCommandKeeps DEF DeleteAssess, Inv, InboxFits
<1>2. CASE DeleteCommit(u)
  <2>1. \A e \in Events : inbox[u][e] = "none"
    BY <1>2 DEF DeleteCommit, Inv, InboxFits
  <2>2. AudienceFits'
    BY <1>2 DEF DeleteCommit, Inv, AudienceFits, AudienceTyped, Shown, Fanout
  <2> QED
    BY <1>2, <2>1, <2>2, AudienceCommandKeeps DEF DeleteCommit, Inv, InboxFits
<1> QED
  BY <1>1, <1>2

-----------------------------------------------------------------------------
(* The theorems.                                                            *)

LEMMA InvInit == Init => Inv
<1> SUFFICES ASSUME Init PROVE Inv
  OBVIOUS
<1>1. OutboxFits
  BY DEF Init, OutboxFits, RowFits, Rows, OutboxStates
<1>2. WorkFits
  BY DEF Init, WorkFits, TickFits, Ticks, Idle
<1>3. InboxFits
  BY DEF Init, InboxFits, InboxTyped, DismissalsExact, NoOrphans, NotSubmitted, RowStates
<1>4. AudienceFits
  BY NotificationAssumptions DEF Init, AudienceFits, AudienceTyped
<1>5. CountersFit
  BY NotificationAssumptions DEF Init, CountersFit
<1>6. PagedAreServed
  <2>1. \A u \in Readers : ~(u <= 0)
    BY NotificationAssumptions
  <2> QED
    BY <2>1 DEF Init, PagedAreServed
<1>7. PagesFit
  BY DEF Init, PagesFit, Idle
<1> QED
  BY <1>1, <1>2, <1>3, <1>4, <1>5, <1>6, <1>7 DEF Inv

LEMMA InvNext == Inv /\ [Next]_vars => Inv'
<1> SUFFICES ASSUME Inv, [Next]_vars PROVE Inv'
  OBVIOUS
<1>1. CASE UNCHANGED vars
  <2>1. Narrows
    BY <1>1 DEF Narrows, Missing, Wanted, Follows, PreferenceAllows, vars, audience
  <2>2. InboxFits' /\ AudienceFits' /\ CountersFit'
    BY <1>1 DEF vars, audience, Inv, InboxFits, InboxTyped, DismissalsExact, NoOrphans, AudienceFits, AudienceTyped,
       Shown, Fanout, CountersFit
  <2> QED
    BY <1>1, <2>1, <2>2, CommandKeeps DEF vars
<1>2. ASSUME NEW e \in Events, Emit(e) \/ ExpireAbandoned(e) \/ ExpireOverrun(e) PROVE Inv'
  BY <1>2, EmitKeeps, ExpireKeeps
<1>3. ASSUME NEW w \in Workers, Tick(w) \/ Process(w) \/ StatementFails(w) \/ Crash(w) PROVE Inv'
  BY <1>3, TickKeeps, ReadAudienceKeeps, InsertRecipientKeeps, FinishPageKeeps, HandleFailureKeeps, StopsKeep
     DEF Process
<1>4. ASSUME NEW u \in Commanders,
             \/ \E k \in Kinds, v \in {"on", "off"} : SetPreference(u, k, v)
             \/ \E e \in Events : MarkOwnRead(u, e)
             \/ \E k \in Keys, kind \in {"mark_all_read", "delete_all"} : BulkOperation(u, k, kind)
             \/ Unfollow(u) \/ DeleteAssess(u) \/ DeleteCommit(u)
      PROVE  Inv'
  <2>1. u \in Readers
    BY NotificationAssumptions
  <2> QED
    BY <1>4, <2>1, SetPreferenceKeeps, MarkOwnReadKeeps, BulkOperationKeeps, UnfollowKeeps, DeletionKeeps
<1> QED
  BY <1>1, <1>2, <1>3, <1>4, NovelKeeps DEF Next, Done

\* Every reachable state of NotificationDelivery satisfies the invariant.
THEOREM Invariant == Spec => []Inv
BY InvInit, InvNext, PTL DEF Spec

\* The rows and the ticks keep their shape; a row has a holder exactly while it
\* is leased, and a tick in progress has claims.
THEOREM Typed == Spec => []TypeOK
<1>1. Inv => TypeOK
  BY DEF Inv, TypeOK, OutboxFits, RowFits, Rows, WorkFits, TickFits, Ticks, InboxFits, InboxTyped, AudienceFits,
     AudienceTyped, CountersFit
<1> QED
  BY <1>1, Invariant, PTL

\* A row is dismissed exactly when a delete-all of its reader covered it
\* (insertRecipientIfAbsent, executeInboxBulkOperation).
THEOREM DismissalsExactAlways == Spec => []DismissalsExact
<1>1. Inv => DismissalsExact
  BY DEF Inv, InboxFits
<1> QED
  BY <1>1, Invariant, PTL

\* A deleted account leaves no inbox row behind, whichever of the deletion and a
\* delivery in progress commits first.
THEOREM NoOrphansAlways == Spec => []NoOrphans
<1>1. Inv => NoOrphans
  BY DEF Inv, InboxFits
<1> QED
  BY <1>1, Invariant, PTL

\* The keyset cursor never passes a reader who still wants the event and does not
\* have it, for every page size (createQualifiedSqlAudienceReader, checkpointAudience).
THEOREM PagedAreServedAlways == Spec => []PagedAreServed
<1>1. Inv => PagedAreServed
  BY DEF Inv
<1> QED
  BY <1>1, Invariant, PTL

-----------------------------------------------------------------------------
(* Progress is never taken back.                                            *)

Forward(e) ==
  /\ outbox'[e].cursor >= outbox[e].cursor
  /\ outbox'[e].attempt >= outbox[e].attempt
  /\ outbox[e].state \in {"completed", "dead_letter"} => outbox'[e] = outbox[e]

LEMMA RowNumbers ==
  ASSUME Inv, NEW e \in Events
  PROVE  outbox[e].cursor \in Nat /\ outbox[e].attempt \in Nat
<1>1. outbox[e].cursor \in Readers \cup {0} /\ outbox[e].attempt \in Nat
  BY DEF Inv, OutboxFits, Rows
<1>2. \A u \in Readers \cup {0} : u \in Nat
  BY NotificationAssumptions
<1> QED
  BY <1>1, <1>2

LEMMA SameForward == ASSUME Inv, NEW e \in Events, outbox'[e] = outbox[e] PROVE Forward(e)
BY RowNumbers DEF Forward

LEMMA ReleaseForward ==
  ASSUME Inv, NEW w \in Workers, FinishPage(w) \/ HandleFailure(w), NEW x \in Events
  PROVE  Forward(x)
<1>1. PICK e \in work[w].claims : e = Current(w) /\ Holds(w, e) /\ e \in Events
  BY CurrentClaim DEF FinishPage, HandleFailure, HoldsCurrent
<1>2. outbox[e] \in Rows /\ outbox[e].state = "leased"
  BY <1>1 DEF Holds, Inv, OutboxFits
<1>3. work[w].next \in Readers \cup {0}
  BY DEF Inv, WorkFits, Ticks
<1>4. PICK row \in Rows : /\ row.state \in {"pending", "completed", "dead_letter"} /\ Release(w, e, row)
                          /\ row.attempt = outbox[e].attempt
                          /\ \/ row.cursor = outbox[e].cursor
                             \/ row.cursor = work[w].next /\ work[w].next # 0 /\ FinishPage(w)
  <2>1. CASE FinishPage(w) /\ work[w].next # 0
    <3> DEFINE row == [outbox[e] EXCEPT !.state = "pending", !.cursor = work[w].next]
    <3>1. Release(w, e, row)
      BY <1>1, <2>1 DEF FinishPage
    <3>2. row \in Rows /\ row.state = "pending" /\ row.attempt = outbox[e].attempt /\ row.cursor = work[w].next
      BY <1>2, <1>3 DEF Rows, OutboxStates
    <3> QED
      BY <2>1, <3>1, <3>2
  <2>2. CASE (FinishPage(w) /\ work[w].next = 0) \/ HandleFailure(w)
    <3>1. PICK state \in {"pending", "completed", "dead_letter"} : Release(w, e, [outbox[e] EXCEPT !.state = state])
      BY <1>1, <2>2 DEF FinishPage, HandleFailure
    <3> DEFINE row == [outbox[e] EXCEPT !.state = state]
    <3>2. /\ row \in Rows /\ row.state = state /\ row.attempt = outbox[e].attempt
          /\ row.cursor = outbox[e].cursor
      BY <1>2 DEF Rows, OutboxStates
    <3> QED
      BY <3>1, <3>2
  <2> QED
    BY <2>1, <2>2
<1>5. row.cursor >= outbox[e].cursor
  <2>1. FinishPage(w) /\ work[w].next # 0 => work[w].next >= outbox[e].cursor
    BY <1>1 DEF FinishPage, Inv, PagesFit, PageFits
  <2> QED
    BY <1>4, <2>1, <1>1, RowNumbers
<1>6. /\ \A y \in Events \ {e} : outbox'[y] = outbox[y]
      /\ outbox'[e].cursor = row.cursor /\ outbox'[e].attempt = row.attempt
  BY <1>4, ReleaseEffect
<1>7. CASE x = e
  BY <1>1, <1>2, <1>4, <1>5, <1>6, <1>7, RowNumbers DEF Forward
<1>8. CASE x # e
  BY <1>6, <1>8, SameForward
<1> QED
  BY <1>7, <1>8

LEMMA StepForward ==
  ASSUME Inv, [Next]_vars, NEW x \in Events, outbox' # outbox
  PROVE  Forward(x)
<1>1. outbox[x] \in Rows /\ RowFits(outbox[x])
  BY DEF Inv, OutboxFits
<1>2. ASSUME NEW e \in Events, Emit(e) \/ ExpireAbandoned(e) \/ ExpireOverrun(e) PROVE Forward(x)
  <2>1. CASE Emit(e) /\ x = e
    <3>1. outbox'[x] = [outbox[x] EXCEPT !.state = "pending"] /\ outbox[x].state = "none"
      BY <2>1 DEF Emit, Inv, OutboxFits
    <3> QED
      BY <1>1, <3>1, RowNumbers DEF Forward, Rows
  <2>2. CASE Expire(e) /\ x = e
    <3>1. outbox'[x] = [outbox[x] EXCEPT !.live = FALSE] /\ outbox[x].state = "leased"
      BY <2>2 DEF Expire, Inv, OutboxFits
    <3> QED
      BY <1>1, <3>1, RowNumbers DEF Forward, Rows
  <2>3. CASE x # e
    BY <1>2, <2>3, SameForward DEF Emit, ExpireAbandoned, ExpireOverrun, Expire, Inv, OutboxFits
  <2> QED
    BY <1>2, <2>1, <2>2, <2>3 DEF ExpireAbandoned, ExpireOverrun
<1>3. ASSUME NEW w \in Workers, Tick(w) PROVE Forward(x)
  <2>1. \/ outbox'[x] = outbox[x]
        \/ /\ Ready(x)
           /\ outbox'[x] = [outbox[x] EXCEPT !.state = "leased", !.attempt = outbox[x].attempt + 1,
                                             !.holder = w, !.live = TRUE]
    BY <1>3 DEF Tick
  <2>2. CASE outbox'[x] # outbox[x]
    <3>1. outbox'[x].cursor = outbox[x].cursor /\ outbox'[x].attempt = outbox[x].attempt + 1
      BY <1>1, <2>1, <2>2 DEF Rows
    <3>2. outbox[x].state \notin {"completed", "dead_letter"}
      BY <2>1, <2>2 DEF Ready
    <3> QED
      BY <3>1, <3>2, RowNumbers DEF Forward
  <2> QED
    BY <2>2, SameForward
<1>4. ASSUME NEW w \in Workers, Process(w) \/ StatementFails(w) \/ Crash(w) PROVE Forward(x)
  BY <1>4, ReleaseForward DEF Process, ReadAudience, InsertRecipient, LeaseLost, StatementFails, Crash
<1>5. ASSUME NEW u \in Commanders,
             \/ \E k \in Kinds, v \in {"on", "off"} : SetPreference(u, k, v)
             \/ \E e \in Events : MarkOwnRead(u, e)
             \/ \E k \in Keys, kind \in {"mark_all_read", "delete_all"} : BulkOperation(u, k, kind)
             \/ Unfollow(u) \/ DeleteAssess(u) \/ DeleteCommit(u)
      PROVE  FALSE
  BY <1>5 DEF SetPreference, MarkOwnRead, BulkOperation, Unfollow, DeleteAssess, DeleteCommit
<1>6. CASE UNCHANGED vars \/ Unpublish \/ Publish \/ Done
  BY <1>6 DEF vars, Unpublish, Publish, Done
<1> QED
  BY <1>2, <1>3, <1>4, <1>5, <1>6 DEF Next

\* Cursors and attempts only grow, and an event that is completed or dead-lettered
\* stays as it is, however late a worker comes with its write (fencedUpdate).
THEOREM OutboxForwardAlways == Spec => OutboxForward
<1>1. Inv /\ [Next]_vars =>
        [\A e \in Events :
           /\ outbox'[e].cursor >= outbox[e].cursor
           /\ outbox'[e].attempt >= outbox[e].attempt
           /\ outbox[e].state \in {"completed", "dead_letter"} => outbox'[e] = outbox[e]]_outbox
  BY StepForward DEF Forward
<1> QED
  BY <1>1, Invariant, PTL DEF Spec, OutboxForward

-----------------------------------------------------------------------------
(* The refinement of InboxPromise.  Of the outbox it shows whether an event *)
(* has happened and how it ended; of an inbox, which events have a row.     *)

Advances == [Promise!Next]_(Promise!vars)

WantedBy(e) == IF outbox[e].state = "none" THEN {} ELSE {u \in Readers : Wanted(e, u)}
GotBy(e) == {u \in Readers : inbox[u][e] # "none"}

Same(E) == \A e \in E : Promised(e)' = Promised(e) /\ WantedBy(e)' = WantedBy(e)
GotSame(E) == \A e \in E : GotBy(e)' = GotBy(e)

LEMMA PromisedRows ==
  ASSUME Inv, NEW e \in Events
  PROVE  /\ Promised(e) = "unheard" <=> outbox[e].state = "none"
         /\ Promised(e) = "open" <=> outbox[e].state \in {"pending", "leased"}
         /\ outbox[e].state = "completed" => Promised(e) = "closed"
         /\ outbox[e].state = "dead_letter" => Promised(e) = "abandoned"
<1>1. outbox[e].state \in OutboxStates
  BY DEF Inv, OutboxFits, Rows
<1> QED
  BY <1>1 DEF Promised, OutboxStates

LEMMA SameAdvances ==
  ASSUME Same(Events), GotSame(Events), UNCHANGED <<published, waived>>
  PROVE  Advances
BY DEF Advances, Promise!vars, Same, GotSame, WantedBy, GotBy, Shown

LEMMA HappenAdvances ==
  ASSUME NEW e \in Events, Promised(e) = "unheard", Promised(e)' = "open", Shown(e), Same(Events \ {e}),
         GotSame(Events), UNCHANGED <<published, waived>>
  PROVE  Advances
<1> DEFINE status == [x \in Events |-> Promised(x)]
           wanted == [x \in Events |-> WantedBy(x)]
           got == [x \in Events |-> GotBy(x)]
           shown == {x \in Events : Shown(x)}
<1>1. status[e] = "unheard" /\ e \in shown /\ status' = [status EXCEPT ![e] = "open"]
  BY DEF Same
<1>2. \E W \in SUBSET Readers : wanted' = [wanted EXCEPT ![e] = W]
  <2>1. WantedBy(e)' \in SUBSET Readers
    BY DEF WantedBy
  <2>2. wanted' = [wanted EXCEPT ![e] = WantedBy(e)']
    BY DEF Same
  <2> HIDE DEF wanted
  <2> QED
    BY <2>1, <2>2
<1>3. UNCHANGED <<got, shown, waived>>
  BY DEF GotSame, Shown
<1>4. Promise!Happen(e)
  BY <1>1, <1>2, <1>3 DEF Promise!Happen, WantedBy, GotBy
<1> QED
  BY <1>4 DEF Advances, Promise!Next

LEMMA DeliverAdvances ==
  ASSUME NEW e \in Events, NEW u \in Readers, Promised(e) = "open", Shown(e), u \in WantedBy(e),
         u \notin GotBy(e), GotBy(e)' = GotBy(e) \cup {u}, Same(Events), GotSame(Events \ {e}),
         UNCHANGED <<published, waived>>
  PROVE  Advances
<1> DEFINE status == [x \in Events |-> Promised(x)]
           wanted == [x \in Events |-> WantedBy(x)]
           got == [x \in Events |-> GotBy(x)]
           shown == {x \in Events : Shown(x)}
<1>1. status[e] = "open" /\ e \in shown /\ u \in wanted[e] \ got[e]
  OBVIOUS
<1>2. got' = [got EXCEPT ![e] = got[e] \cup {u}]
  BY DEF GotSame
<1>3. UNCHANGED <<status, wanted, shown, waived>>
  BY DEF Same, Shown
<1>4. Promise!Deliver(e, u)
  BY <1>1, <1>2, <1>3 DEF Promise!Deliver, WantedBy, GotBy
<1> QED
  BY <1>4 DEF Advances, Promise!Next

LEMMA CloseAdvances ==
  ASSUME NEW e \in Events, Promised(e) = "open", Same(Events \ {e}), GotSame(Events),
         WantedBy(e)' = WantedBy(e), UNCHANGED <<published, waived>>,
         \/ Promised(e)' = "abandoned"
         \/ Promised(e)' = "closed" /\ (e \in waived \/ WantedBy(e) \subseteq GotBy(e))
  PROVE  Advances
<1> DEFINE status == [x \in Events |-> Promised(x)]
           wanted == [x \in Events |-> WantedBy(x)]
           got == [x \in Events |-> GotBy(x)]
           shown == {x \in Events : Shown(x)}
<1>1. status[e] = "open" /\ status' = [status EXCEPT ![e] = Promised(e)']
  BY DEF Same
<1>2. wanted[e] = WantedBy(e) /\ got[e] = GotBy(e)
  OBVIOUS
<1>3. UNCHANGED <<wanted, got, shown, waived>>
  BY DEF Same, GotSame, Shown
<1>4. Promise!Close(e) \/ Promise!Abandon(e)
  BY <1>1, <1>2, <1>3 DEF Promise!Close, Promise!Abandon, WantedBy, GotBy
<1> QED
  BY <1>4 DEF Advances, Promise!Next

LEMMA LapseAdvances ==
  ASSUME \A e \in Events : Promised(e)' = Promised(e) /\ WantedBy(e)' \subseteq WantedBy(e),
         GotSame(Events), UNCHANGED <<published, waived>>
  PROVE  Advances
<1> DEFINE status == [x \in Events |-> Promised(x)]
           wanted == [x \in Events |-> WantedBy(x)]
           got == [x \in Events |-> GotBy(x)]
           shown == {x \in Events : Shown(x)}
<1>1. /\ \A e \in Events : wanted'[e] \subseteq wanted[e]
      /\ wanted' = [e \in Events |-> wanted'[e]]
  OBVIOUS
<1>2. UNCHANGED <<status, got, shown, waived>>
  BY DEF GotSame, Shown
<1>3. Promise!Lapse
  BY <1>1, <1>2 DEF Promise!Lapse, WantedBy, GotBy
<1> QED
  BY <1>3 DEF Advances, Promise!Next

LEMMA SourceAdvances ==
  ASSUME Same(Events), GotSame(Events),
         waived' = waived \cup {e \in Events : ~Shown(e)' /\ Promised(e) # "unheard"}
  PROVE  Advances
<1> DEFINE status == [x \in Events |-> Promised(x)]
           wanted == [x \in Events |-> WantedBy(x)]
           got == [x \in Events |-> GotBy(x)]
           shown == {x \in Events : Shown(x)}
<1>1. shown' \in SUBSET Events
  OBVIOUS
<1>2. waived' = waived \cup {e \in Events \ shown' : status[e] # "unheard"}
  OBVIOUS
<1>3. UNCHANGED <<status, wanted, got>>
  BY DEF Same, GotSame
<1>4. Promise!Source
  BY <1>1, <1>2, <1>3 DEF Promise!Source, WantedBy, GotBy
<1> QED
  BY <1>4 DEF Advances, Promise!Next

\* Who wants what hangs on the audience, and on what has happened.
LEMMA AudienceWants ==
  ASSUME UNCHANGED audience, NEW e \in Events, outbox'[e].state = "none" <=> outbox[e].state = "none"
  PROVE  WantedBy(e)' = WantedBy(e)
BY DEF WantedBy, Wanted, Follows, PreferenceAllows, audience

LEMMA RowsAdvance ==
  ASSUME UNCHANGED <<inbox, audience>>, \A e \in Events : Promised(e)' = Promised(e),
         \A e \in Events : outbox'[e].state = "none" <=> outbox[e].state = "none"
  PROVE  Advances
<1>1. Same(Events)
  BY AudienceWants DEF Same
<1>2. GotSame(Events)
  BY DEF GotSame, GotBy
<1> QED
  BY <1>1, <1>2, SameAdvances DEF audience

LEMMA OutboxStands ==
  ASSUME UNCHANGED outbox
  PROVE  \A e \in Events : Promised(e)' = Promised(e) /\ outbox'[e].state = outbox[e].state
BY DEF Promised

LEMMA EmitAdvances == ASSUME Inv, NEW e \in Events, Emit(e) PROVE Advances
<1>1. \A x \in Events : outbox'[x] = IF x = e THEN [outbox[e] EXCEPT !.state = "pending"] ELSE outbox[x]
  BY DEF Emit, Inv, OutboxFits
<1>2. outbox[e].state = "none" /\ outbox'[e].state = "pending"
  BY <1>1 DEF Emit, Inv, OutboxFits, Rows
<1>3. Promised(e) = "unheard" /\ Promised(e)' = "open"
  BY <1>2 DEF Promised
<1>4. Shown(e)
  BY DEF Emit, Shown
<1>5. PICK T \in SUBSET Readers : late' = [late EXCEPT ![e] = T]
  BY DEF Emit
<1>6. \A x \in Events \ {e} : outbox'[x] = outbox[x] /\ late'[x] = late[x]
  BY <1>1, <1>5 DEF Inv, AudienceFits, AudienceTyped
<1>7. Same(Events \ {e})
  BY <1>6 DEF Emit, Same, Promised, WantedBy, Wanted, Follows, PreferenceAllows
<1>8. GotSame(Events) /\ UNCHANGED <<published, waived>>
  BY DEF Emit, GotSame, GotBy
<1> QED
  BY <1>3, <1>4, <1>7, <1>8, HappenAdvances

LEMMA ExpireAdvances == ASSUME Inv, NEW e \in Events, ExpireAbandoned(e) \/ ExpireOverrun(e) PROVE Advances
<1>1. Expire(e) /\ UNCHANGED <<inbox, audience>>
  BY DEF ExpireAbandoned, ExpireOverrun, Expire
<1>2. \A x \in Events : outbox'[x].state = outbox[x].state
  BY <1>1 DEF Expire, Inv, OutboxFits, Rows
<1>3. \A x \in Events : Promised(x)' = Promised(x)
  BY <1>2 DEF Promised
<1> QED
  BY <1>1, <1>2, <1>3, RowsAdvance

LEMMA TickAdvances == ASSUME Inv, NEW w \in Workers, Tick(w) PROVE Advances
<1>1. \A x \in Events :
        \/ outbox'[x] = outbox[x]
        \/ outbox[x].state \in {"pending", "leased"} /\ outbox'[x].state = "leased"
  <2> TAKE x \in Events
  <2>1. \/ outbox'[x] = outbox[x]
        \/ /\ Ready(x)
           /\ outbox'[x] = [outbox[x] EXCEPT !.state = "leased", !.attempt = outbox[x].attempt + 1,
                                             !.holder = w, !.live = TRUE]
    BY DEF Tick
  <2>2. outbox[x] \in Rows
    BY DEF Inv, OutboxFits
  <2> QED
    BY <2>1, <2>2 DEF Ready, Rows
<1>2. \A x \in Events : Promised(x)' = Promised(x) /\ (outbox'[x].state = "none" <=> outbox[x].state = "none")
  BY <1>1 DEF Promised
<1>3. UNCHANGED <<inbox, audience>>
  BY DEF Tick
<1> QED
  BY <1>2, <1>3, RowsAdvance

\* The completion leaves nobody out; the rest of the release is not seen, but
\* that the event was given up.
LEMMA ReleaseAdvances ==
  ASSUME Inv, NEW w \in Workers, FinishPage(w) \/ HandleFailure(w)
  PROVE  Advances
<1>1. PICK e \in work[w].claims : e = Current(w) /\ Holds(w, e) /\ e \in Events
  BY CurrentClaim DEF FinishPage, HandleFailure, HoldsCurrent
<1>2. outbox[e] \in Rows /\ outbox[e].state = "leased" /\ work[w].next \in Readers \cup {0}
  BY <1>1 DEF Holds, Inv, OutboxFits, WorkFits, Ticks
<1>3. PICK row \in Rows : /\ row.state \in {"pending", "completed", "dead_letter"} /\ Release(w, e, row)
                          /\ row.state = "completed" => FinishPage(w) /\ work[w].next = 0
  <2>1. CASE FinishPage(w) /\ work[w].next # 0
    <3> DEFINE row == [outbox[e] EXCEPT !.state = "pending", !.cursor = work[w].next]
    <3>1. Release(w, e, row)
      BY <1>1, <2>1 DEF FinishPage
    <3>2. row \in Rows /\ row.state = "pending"
      BY <1>2 DEF Rows, OutboxStates
    <3> QED
      BY <3>1, <3>2
  <2>2. CASE (FinishPage(w) /\ work[w].next = 0) \/ HandleFailure(w)
    <3>1. PICK state \in {"pending", "completed", "dead_letter"} :
            /\ Release(w, e, [outbox[e] EXCEPT !.state = state])
            /\ state = "completed" => FinishPage(w) /\ work[w].next = 0
      BY <1>1, <2>2 DEF FinishPage, HandleFailure
    <3> DEFINE row == [outbox[e] EXCEPT !.state = state]
    <3>2. row \in Rows /\ row.state = state
      BY <1>2 DEF Rows, OutboxStates
    <3> QED
      BY <3>1, <3>2
  <2> QED
    BY <2>1, <2>2
<1>4. (\A x \in Events \ {e} : outbox'[x] = outbox[x]) /\ outbox'[e].state = row.state
  BY <1>3, ReleaseEffect
<1>5. UNCHANGED <<inbox, audience>>
  BY DEF FinishPage, HandleFailure
<1>6. /\ \A x \in Events : outbox'[x].state = "none" <=> outbox[x].state = "none"
      /\ \A x \in Events \ {e} : Promised(x)' = Promised(x)
  BY <1>2, <1>3, <1>4 DEF Promised
<1>7. Promised(e) = "open"
  BY <1>2 DEF Promised
<1>8. CASE row.state = "pending"
  <2>1. Promised(e)' = "open"
    BY <1>4, <1>8 DEF Promised
  <2> QED
    BY <1>5, <1>6, <1>7, <2>1, RowsAdvance
<1>9. CASE row.state \in {"completed", "dead_letter"}
  <2>1. \/ Promised(e)' = "abandoned"
        \/ Promised(e)' = "closed" /\ row.state = "completed"
    BY <1>4, <1>9 DEF Promised
  <2>2. row.state = "completed" => e \in waived \/ WantedBy(e) \subseteq GotBy(e)
    <3>1. SUFFICES ASSUME row.state = "completed", e \notin waived PROVE WantedBy(e) \subseteq GotBy(e)
      OBVIOUS
    <3>2. \A u \in Readers : ~Missing(e, u)
      BY <1>1, <1>3, <3>1 DEF FinishPage, Inv, PagesFit, PageFits
    <3> QED
      BY <1>2, <3>1, <3>2 DEF WantedBy, GotBy, Missing
  <2>3. Same(Events \ {e}) /\ WantedBy(e)' = WantedBy(e)
    BY <1>5, <1>6, <1>1, AudienceWants DEF Same
  <2>4. GotSame(Events) /\ UNCHANGED <<published, waived>>
    BY <1>5 DEF GotSame, GotBy, audience
  <2> QED
    BY <1>1, <1>7, <2>1, <2>2, <2>3, <2>4, CloseAdvances
<1> QED
  BY <1>3, <1>8, <1>9

LEMMA InsertRecipientAdvances == ASSUME Inv, NEW w \in Workers, InsertRecipient(w) PROVE Advances
<1>1. PICK e \in Events : e = Current(w) /\ Holds(w, e)
  BY CurrentClaim DEF InsertRecipient, HoldsCurrent
<1>2. PICK u \in Readers : inbox' = [inbox EXCEPT ![u][e] = InboxAfterInsert(e, u)]
  <2>1. work[w].page \subseteq Readers /\ work[w].page # {}
    BY DEF InsertRecipient, Inv, WorkFits, Ticks
  <2>2. Min(work[w].page) \in work[w].page
    <3>1. work[w].page \in SUBSET Nat
      BY <2>1, NotificationAssumptions
    <3> QED
      BY <2>1, <3>1, MinLeast
  <2> QED
    BY <1>1, <2>1, <2>2 DEF InsertRecipient
<1>3. \A x \in Readers, y \in Events :
        inbox'[x][y] = IF x = u /\ y = e THEN InboxAfterInsert(e, u) ELSE inbox[x][y]
  BY <1>2 DEF Inv, InboxFits, InboxTyped
<1>4. UNCHANGED <<outbox, audience>>
  BY DEF InsertRecipient
<1>5. Same(Events)
  BY <1>4, OutboxStands, AudienceWants DEF Same
<1>6. CASE inbox[u][e] = "none" /\ Eligible(e, u)
  <2>1. inbox'[u][e] = "unread"
    BY <1>3, <1>6 DEF InboxAfterInsert
  <2>2. GotBy(e)' = GotBy(e) \cup {u} /\ u \notin GotBy(e)
    BY <1>3, <1>6, <2>1 DEF GotBy
  <2>3. GotSame(Events \ {e})
    BY <1>3 DEF GotSame, GotBy
  <2>4. Promised(e) = "open" /\ outbox[e].state # "none"
    BY <1>1 DEF Holds, Promised
  <2>5. u \in WantedBy(e) /\ Shown(e)
    BY <1>6, <2>4 DEF Eligible, WantedBy
  <2> QED
    BY <1>4, <1>5, <2>2, <2>3, <2>4, <2>5, DeliverAdvances DEF audience
<1>7. CASE ~(inbox[u][e] = "none" /\ Eligible(e, u))
  <2>1. GotSame(Events)
    BY <1>3, <1>7 DEF GotSame, GotBy, InboxAfterInsert
  <2> QED
    BY <1>4, <1>5, <2>1, SameAdvances DEF audience
<1> QED
  BY <1>6, <1>7

\* A command on the inbox gives and takes no row.
LEMMA InboxCommandAdvances ==
  ASSUME Inv, NEW u \in Readers,
         \/ \E e \in Events : MarkOwnRead(u, e)
         \/ \E k \in Keys, kind \in {"mark_all_read", "delete_all"} : BulkOperation(u, k, kind)
  PROVE  Advances
<1>1. UNCHANGED <<outbox, audience>>
  BY DEF MarkOwnRead, BulkOperation
<1>2. Same(Events)
  BY <1>1, OutboxStands, AudienceWants DEF Same
<1>3. \A x \in Readers, y \in Events : inbox'[x][y] = "none" <=> inbox[x][y] = "none"
  <2>1. ASSUME NEW e \in Events, MarkOwnRead(u, e), NEW x \in Readers, NEW y \in Events
        PROVE  inbox'[x][y] = "none" <=> inbox[x][y] = "none"
    BY <2>1 DEF MarkOwnRead, Inv, InboxFits, InboxTyped
  <2>2. ASSUME NEW k \in Keys, NEW kind \in {"mark_all_read", "delete_all"}, BulkOperation(u, k, kind),
               NEW x \in Readers, NEW y \in Events
        PROVE  inbox'[x][y] = "none" <=> inbox[x][y] = "none"
    BY <2>2 DEF BulkOperation, Inv, InboxFits, InboxTyped
  <2> QED
    BY <2>1, <2>2
<1>4. GotSame(Events)
  BY <1>3 DEF GotSame, GotBy
<1> QED
  BY <1>1, <1>2, <1>4, SameAdvances DEF audience

\* A preference, an unfollowing or a deletion at most ends a reader's interest.
LEMMA AudienceCommandAdvances ==
  ASSUME Inv, NEW u \in Readers,
         \/ \E k \in Kinds, v \in {"on", "off"} : SetPreference(u, k, v)
         \/ Unfollow(u) \/ DeleteAssess(u) \/ DeleteCommit(u)
  PROVE  Advances
<1>1. UNCHANGED <<outbox, inbox, published, waived>>
  BY DEF SetPreference, Unfollow, DeleteAssess, DeleteCommit
<1>2. GotSame(Events)
  BY <1>1 DEF GotSame, GotBy
<1>3. ASSUME NEW e \in Events, NEW x \in Readers, outbox[e].state # "none", Wanted(e, x)' PROVE Wanted(e, x)
  <2>1. ASSUME NEW k \in Kinds, NEW v \in {"on", "off"}, SetPreference(u, k, v) PROVE Wanted(e, x)
    <3>1. Kind[e] \in Kinds
      BY DEF Kinds
    <3>2. choice'[x][Kind[e]] = IF x = u /\ Kind[e] = k THEN v ELSE choice[x][Kind[e]]
      BY <2>1, <3>1 DEF SetPreference, Inv, AudienceFits, AudienceTyped
    <3>3. late'[e] = IF Kind[e] = k THEN late[e] \cup {u} ELSE late[e]
      BY <1>3, <2>1 DEF SetPreference
    <3>4. PreferenceAllows(e, x)' => PreferenceAllows(e, x)
      BY <3>2, <3>3 DEF PreferenceAllows
    <3> QED
      BY <1>3, <2>1, <3>4 DEF Wanted, Follows, SetPreference
  <2>2. CASE Unfollow(u) \/ DeleteAssess(u) \/ DeleteCommit(u)
    BY <1>3, <2>2 DEF Wanted, Follows, PreferenceAllows, Unfollow, DeleteAssess, DeleteCommit
  <2> QED
    BY <2>1, <2>2
<1>4. \A e \in Events : WantedBy(e)' \subseteq WantedBy(e)
  BY <1>1, <1>3 DEF WantedBy
<1> QED
  BY <1>1, <1>2, <1>4, OutboxStands, LapseAdvances

LEMMA NovelAdvances == ASSUME Inv, Unpublish \/ Publish PROVE Advances
<1>1. UNCHANGED <<outbox, inbox, choice, late, alive, followers>>
  BY DEF Unpublish, Publish
<1>2. Same(Events) /\ GotSame(Events)
  BY <1>1 DEF Same, GotSame, GotBy, Promised, WantedBy, Wanted, Follows, PreferenceAllows
<1>3. \A e \in Events : Promised(e) # "unheard" <=> outbox[e].state # "none"
  BY PromisedRows
<1>4. waived' = waived \cup {e \in Events : ~Shown(e)' /\ Promised(e) # "unheard"}
  BY <1>3 DEF Unpublish, Publish, Shown, Fanout
<1> QED
  BY <1>2, <1>4, SourceAdvances

LEMMA StepRefines == Inv /\ [Next]_vars => [Promise!Next]_(Promise!vars)
<1> SUFFICES ASSUME Inv, [Next]_vars PROVE Advances
  BY DEF Advances
<1>1. ASSUME UNCHANGED <<outbox, inbox, audience>> PROVE Advances
  BY <1>1, OutboxStands, RowsAdvance
<1>2. ASSUME NEW e \in Events, Emit(e) \/ ExpireAbandoned(e) \/ ExpireOverrun(e) PROVE Advances
  BY <1>2, EmitAdvances, ExpireAdvances
<1>3. ASSUME NEW w \in Workers, Tick(w) \/ Process(w) \/ StatementFails(w) \/ Crash(w) PROVE Advances
  BY <1>1, <1>3, TickAdvances, InsertRecipientAdvances, ReleaseAdvances
     DEF Process, ReadAudience, LeaseLost, StatementFails, Crash
<1>4. ASSUME NEW u \in Commanders,
             \/ \E k \in Kinds, v \in {"on", "off"} : SetPreference(u, k, v)
             \/ \E e \in Events : MarkOwnRead(u, e)
             \/ \E k \in Keys, kind \in {"mark_all_read", "delete_all"} : BulkOperation(u, k, kind)
             \/ Unfollow(u) \/ DeleteAssess(u) \/ DeleteCommit(u)
      PROVE  Advances
  <2>1. u \in Readers
    BY NotificationAssumptions
  <2> QED
    BY <1>4, <2>1, InboxCommandAdvances, AudienceCommandAdvances
<1>5. CASE UNCHANGED vars \/ Done
  BY <1>1, <1>5 DEF vars, Done
<1> QED
  BY <1>2, <1>3, <1>4, <1>5, NovelAdvances DEF Next

\* Workers, leases, pages, retries and crashes together keep InboxPromise: at
\* most one row per reader and event, none against the reader's preference or
\* for a withdrawn novel, and nobody left out at completion.
THEOREM DeliveryImplementsPromise == Spec => ImplementsPromise
<1>1. Init => Promise!Init
  BY DEF Init, Promise!Init, Promised, Shown
<1> QED
  BY <1>1, StepRefines, Invariant, PTL DEF Spec, ImplementsPromise, Promise!Spec
=============================================================================
