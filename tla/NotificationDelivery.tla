------------------------ MODULE NotificationDelivery ------------------------
(***************************************************************************)
(* The in-app notification outbox and its one-shot delivery ticks          *)
(* (server/notifications).  A business transaction commits an event        *)
(* together with its outbox row; scheduled workers claim rows under a      *)
(* lease, read one page of the audience per claim, insert one inbox row    *)
(* per reader and either move the cursor or close the event, every write   *)
(* fenced by the lease.  Readers meanwhile change their preferences, empty *)
(* their inbox and leave, and the novel behind a fan-out can be withdrawn. *)
(*                                                                         *)
(* A lease token is the worker that took it: a process runs one tick, and  *)
(* forgets its tokens when the tick ends.  The attempt and the cursor that *)
(* a worker copied at its claim equal the row's for as long as it holds    *)
(* the lease, and are used only behind that fence, so they are not copied. *)
(***************************************************************************)
EXTENDS Integers, FiniteSetsExt

CONSTANTS
  Readers,      \* user ids, paged in ascending order
  NovelAuthor,  \* the author of the novel the fan-outs are about
  Events,       \* outbox ids, claimed work is processed in their order
  Kind,         \* [Events -> Kinds]
  Target,       \* [Events -> Readers \cup {None}]: None for a public fan-out
  DefaultOn,    \* [Kinds -> BOOLEAN]: the preference nobody has set
  FirstChoice,  \* [Readers -> [Kinds -> Preferences]]: the preferences at first
  Workers,      \* ticks that may overlap: two schedulers, a redeploy
  Keys,         \* operation keys of bulk inbox operations
  PageSize, MaxEvents, MaxAttempts,
  MaxFaults,    \* bound: crashes, failed statements and overrun leases
  MaxChanges,   \* bound: preferences, bulk operations, unfollows, ...
  Commanders,   \* bound: the readers who make them
  None

Kinds == {Kind[e] : e \in Events}
Preferences == {"default", "on", "off"}
Fanout(e) == Target[e] = None

ASSUME NotificationAssumptions ==
  /\ Readers \subseteq Nat \ {0}
  /\ Events \subseteq Nat
  /\ Target \in [Events -> Readers \cup {None}]
  /\ DefaultOn \in [Kinds -> BOOLEAN]
  /\ FirstChoice \in [Readers -> [Kinds -> Preferences]]
  /\ {PageSize, MaxEvents, MaxAttempts} \subseteq Nat \ {0}
  /\ {MaxFaults, MaxChanges} \subseteq Nat
  /\ Commanders \subseteq Readers
  /\ None \notin Readers \cup Workers

VARIABLES
  outbox,      \* [Events -> row]: state, attempt, holder, live, cursor
  inbox,       \* [Readers -> [Events -> row state]]
  bulk,        \* [Readers -> [Keys -> committed bulk operation]]
  choice,      \* [Readers -> [Kinds -> "default" | "on" | "off"]]
  late,        \* [Events -> readers whose preference is not older than it]
  alive,       \* users rows that exist
  deleting,    \* users rows locked by a deletion that found nothing in its way
  followers,   \* wishlist rows of the novel, all older than any event
  published,   \* the novel's publicationStatus is "published"
  waived,      \* fan-outs whose novel was withdrawn since they happened
  work,        \* [Workers -> tick in progress]
  faults, changes

audience == <<choice, late, alive, deleting, followers, published, waived>>
vars == <<outbox, inbox, bulk, audience, work, faults, changes>>

Idle == [pc |-> "idle", claims |-> {}, page |-> {}, next |-> 0]
NotSubmitted == [kind |-> "none", cut |-> {}]

Init ==
  /\ outbox = [e \in Events |-> [state |-> "none", attempt |-> 0,
                                 holder |-> None, live |-> FALSE, cursor |-> 0]]
  /\ inbox = [u \in Readers |-> [e \in Events |-> "none"]]
  /\ bulk = [u \in Readers |-> [k \in Keys |-> NotSubmitted]]
  /\ choice = FirstChoice
  /\ late = [e \in Events |-> {}]
  /\ alive = Readers
  /\ deleting = {}
  /\ followers = Readers \ {NovelAuthor}
  /\ published = TRUE
  /\ waived = {}
  /\ work = [w \in Workers |-> Idle]
  /\ faults = 0
  /\ changes = 0

-----------------------------------------------------------------------------
(* Who gets an event.                                                      *)

(* An opt-out always wins, an opt-in counts only when older than the event *)
PreferenceAllows(e, u) ==
  \/ choice[u][Kind[e]] = "default" /\ DefaultOn[Kind[e]]
  \/ choice[u][Kind[e]] = "on" /\ u \notin late[e]

Follows(e, u) == Kind[e] = "wishlist_episodes_published" => u \in followers

Wanted(e, u) ==
  /\ u \in alive
  /\ IF Fanout(e) THEN u # NovelAuthor /\ Follows(e, u) ELSE u = Target[e]
  /\ PreferenceAllows(e, u)

Shown(e) == Fanout(e) => published

Eligible(e, u) == Wanted(e, u) /\ Shown(e)

(* The raw page: the first PageSize candidates after the cursor, eligible  *)
(* or not.                                                                 *)
Candidates(e) ==
  LET after == {u \in alive : u > outbox[e].cursor /\ Follows(e, u)}
  IN IF ~Fanout(e) THEN {Target[e]} \cap alive
     ELSE IF published THEN {u \in after : Cardinality({v \in after : v < u}) < PageSize}
     ELSE {}

NextCursor(e, raw) ==
  IF Fanout(e) /\ Cardinality(raw) = PageSize THEN Max(raw) ELSE 0

-----------------------------------------------------------------------------
(* Producers.                                                              *)

(* A business transaction records its event once: a repeated key is a      *)
(* duplicate and inserts nothing.  A preference of the same second is not  *)
(* older than the event.                                                   *)
Emit(e) ==
  /\ outbox[e].state = "none"
  /\ IF Fanout(e) THEN published ELSE Target[e] \in alive \ deleting
  /\ outbox' = [outbox EXCEPT ![e].state = "pending"]
  /\ \E T \in SUBSET {u \in Readers : choice[u][Kind[e]] # "default"} :
       late' = [late EXCEPT ![e] = T]
  /\ UNCHANGED <<inbox, bulk, choice, alive, deleting, followers, published, waived, work, faults, changes>>

-----------------------------------------------------------------------------
(* Workers.                                                                *)

HoldsUnfenced(w, e) == e \in work[w].claims  \* mutant: writes without the fence

Holds(w, e) ==
  outbox[e].state = "leased" /\ outbox[e].holder = w /\ outbox[e].live

Current(w) == Min(work[w].claims)
HoldsCurrent(w) == work[w].claims # {} /\ Holds(w, Current(w))

ReadyPending(e) == outbox[e].state = "pending"  \* mutant: expired leases stay

Ready(e) ==
  \/ outbox[e].state = "pending"
  \/ outbox[e].state = "leased" /\ ~outbox[e].live

ReleaseKeepsHolder(w, e, row) ==  \* mutant: the lease token is not cleared
  /\ outbox' = [outbox EXCEPT ![e] = [row EXCEPT !.live = FALSE]]
  /\ work' = [work EXCEPT ![w] =
       IF @.claims = {e} THEN Idle
       ELSE [Idle EXCEPT !.pc = "read", !.claims = work[w].claims \ {e}]]

(* Give the lease of e back and go on with the tick's next event.          *)
Release(w, e, row) ==
  /\ outbox' = [outbox EXCEPT ![e] = [row EXCEPT !.holder = None, !.live = FALSE]]
  /\ work' = [work EXCEPT ![w] =
       IF @.claims = {e} THEN Idle
       ELSE [Idle EXCEPT !.pc = "read", !.claims = work[w].claims \ {e}]]

(* One transaction leases any of the ready rows: rows that are locked or   *)
(* whose next attempt is not due yet are passed over.                      *)
Tick(w) ==
  /\ work[w].pc = "idle"
  /\ \E S \in SUBSET {e \in Events : Ready(e)} :
       /\ S # {} /\ Cardinality(S) <= MaxEvents
       /\ outbox' = [e \in Events |->
            IF e \in S
              THEN [outbox[e] EXCEPT !.state = "leased", !.attempt = @ + 1,
                                     !.holder = w, !.live = TRUE]
              ELSE outbox[e]]
       /\ work' = [work EXCEPT ![w] = [Idle EXCEPT !.pc = "read", !.claims = S]]
  /\ UNCHANGED <<inbox, bulk, audience, faults, changes>>

ReadAudience(w) ==
  /\ work[w].pc = "read" /\ HoldsCurrent(w)
  /\ LET e == Current(w)
         raw == Candidates(e)
     IN work' = [work EXCEPT ![w].pc = "insert",
                             ![w].page = {u \in raw : Eligible(e, u)},
                             ![w].next = NextCursor(e, raw)]
  /\ UNCHANGED <<outbox, inbox, bulk, audience, faults, changes>>

InboxRevived(e, u) ==    \* mutant: a dismissed row counts as absent
  IF inbox[u][e] \in {"none", "dismissed"} /\ Eligible(e, u) THEN "unread" ELSE inbox[u][e]

InboxUnchecked(e, u) ==  \* mutant: the page's verdict is not checked again
  IF inbox[u][e] = "none" THEN "unread" ELSE inbox[u][e]

(* What inserting the recipient u of e makes of the reader's row: a row    *)
(* that exists, dismissed or not, is left alone, and the reader is judged  *)
(* again on the current rows (its users row under a lock, which a deletion *)
(* in progress makes the insertion wait for).                              *)
InboxAfterInsert(e, u) ==
  IF inbox[u][e] = "none" /\ Eligible(e, u) THEN "unread" ELSE inbox[u][e]

InsertRecipient(w) ==
  /\ work[w].pc = "insert" /\ work[w].page # {} /\ HoldsCurrent(w)
  /\ LET e == Current(w)
         u == Min(work[w].page)
     IN /\ u \notin deleting
        /\ inbox' = [inbox EXCEPT ![u][e] = InboxAfterInsert(e, u)]
        /\ work' = [work EXCEPT ![w].page = @ \ {u}]
  /\ UNCHANGED <<outbox, bulk, audience, faults, changes>>

(* The page is done: complete the event, or move its cursor and leave the  *)
(* next page to a later claim.                                             *)
FinishPage(w) ==
  /\ work[w].pc = "insert" /\ work[w].page = {} /\ HoldsCurrent(w)
  /\ LET e == Current(w)
         next == work[w].next
     IN Release(w, e, IF next = 0
                        THEN [outbox[e] EXCEPT !.state = "completed"]
                        ELSE [outbox[e] EXCEPT !.state = "pending", !.cursor = next])
  /\ UNCHANGED <<inbox, bulk, audience, faults, changes>>

(* A statement fails, and the tick's handler retries later or gives up.    *)
StatementFails(w) ==
  /\ work[w].pc \in {"read", "insert"} /\ faults < MaxFaults
  /\ work' = [work EXCEPT ![w].pc = "failed"]
  /\ faults' = faults + 1
  /\ UNCHANGED <<outbox, inbox, bulk, audience, changes>>

HandleFailureMovesOn(w) ==  \* mutant: the retry starts after the failed page
  /\ work[w].pc = "failed" /\ HoldsCurrent(w)
  /\ LET e == Current(w)
     IN Release(w, e, IF outbox[e].attempt >= MaxAttempts
                        THEN [outbox[e] EXCEPT !.state = "dead_letter"]
                        ELSE [outbox[e] EXCEPT !.state = "pending",
                                               !.cursor = work[w].next])
  /\ UNCHANGED <<inbox, bulk, audience, faults, changes>>

HandleFailure(w) ==
  /\ work[w].pc = "failed" /\ HoldsCurrent(w)
  /\ LET e == Current(w)
     IN Release(w, e, IF outbox[e].attempt >= MaxAttempts
                        THEN [outbox[e] EXCEPT !.state = "dead_letter"]
                        ELSE [outbox[e] EXCEPT !.state = "pending"])
  /\ UNCHANGED <<inbox, bulk, audience, faults, changes>>

(* Without the lease the current statement throws, the handler's fenced    *)
(* write throws too, and the exception ends the tick with its other claims.*)
LeaseLost(w) ==
  /\ work[w].pc # "idle" /\ ~HoldsCurrent(w)
  /\ work' = [work EXCEPT ![w] = Idle]
  /\ UNCHANGED <<outbox, inbox, bulk, audience, faults, changes>>

(* The process is killed, or its handler's own write fails.                *)
Crash(w) ==
  /\ work[w].pc # "idle" /\ faults < MaxFaults
  /\ work' = [work EXCEPT ![w] = Idle]
  /\ faults' = faults + 1
  /\ UNCHANGED <<outbox, inbox, bulk, audience, changes>>

(* The lease of e runs out: of a worker that is gone, in the end, or of    *)
(* one that is merely slow.                                                *)
Expire(e) ==
  /\ outbox[e].state = "leased" /\ outbox[e].live
  /\ outbox' = [outbox EXCEPT ![e].live = FALSE]
  /\ UNCHANGED <<inbox, bulk, audience, work, changes>>

Abandoned(e) == e \notin work[outbox[e].holder].claims

ExpireAbandoned(e) == Expire(e) /\ Abandoned(e) /\ UNCHANGED faults
ExpireOverrun(e) ==
  Expire(e) /\ ~Abandoned(e) /\ faults < MaxFaults /\ faults' = faults + 1

-----------------------------------------------------------------------------
(* Readers, authors and administrators.                                    *)

Change == changes < MaxChanges /\ changes' = changes + 1

SetPreference(u, k, v) ==
  /\ Change /\ u \in alive
  /\ choice' = [choice EXCEPT ![u][k] = v]
  /\ late' = [e \in Events |->
       IF Kind[e] = k /\ outbox[e].state # "none" THEN late[e] \cup {u} ELSE late[e]]
  /\ UNCHANGED <<outbox, inbox, bulk, alive, deleting, followers, published, waived, work, faults>>

MarkOwnRead(u, e) ==
  /\ Change /\ inbox[u][e] = "unread"
  /\ inbox' = [inbox EXCEPT ![u][e] = "read"]
  /\ UNCHANGED <<outbox, bulk, audience, work, faults>>

(* A bulk operation, committed with its effect under the sequence lock.    *)
(* Its cutoff is the set of rows that the reader has at that moment; the   *)
(* same key submitted again changes nothing.                               *)
BulkOperation(u, k, kind) ==
  /\ Change /\ u \in alive
  /\ bulk[u][k] = NotSubmitted
  /\ LET cut == {e \in Events : inbox[u][e] # "none"}
         after == IF kind = "delete_all" THEN "dismissed" ELSE "read"
     IN /\ bulk' = [bulk EXCEPT ![u][k] = [kind |-> kind, cut |-> cut]]
        /\ inbox' = [inbox EXCEPT ![u] = [e \in Events |->
             IF e \in cut /\ inbox[u][e] # "dismissed" THEN after ELSE inbox[u][e]]]
  /\ UNCHANGED <<outbox, audience, work, faults>>

Unfollow(u) ==
  /\ Change /\ u \in followers
  /\ followers' = followers \ {u}
  /\ UNCHANGED <<outbox, inbox, bulk, choice, late, alive, deleting, published, waived, work, faults>>

Unpublish ==
  /\ Change /\ published
  /\ published' = FALSE
  /\ waived' = waived \cup {e \in Events : Fanout(e) /\ outbox[e].state # "none"}
  /\ UNCHANGED <<outbox, inbox, bulk, choice, late, alive, deleting, followers, work, faults>>

Publish ==
  /\ Change /\ ~published
  /\ published' = TRUE
  /\ UNCHANGED <<outbox, inbox, bulk, choice, late, alive, deleting, followers, waived, work, faults>>

DeletionBlockedByProfile(u) ==  \* mutant: notification rows are not assessed
  u \in followers \/ u = NovelAuthor

(* What keeps an administrator from deleting an account: rows it owns.     *)
DeletionBlocked(u) ==
  \/ u \in followers \/ u = NovelAuthor
  \/ \E e \in Events : inbox[u][e] # "none" \/ (Target[e] = u /\ outbox[e].state # "none")
  \/ \E k \in Kinds : choice[u][k] # "default"
  \/ \E k \in Keys : bulk[u][k] # NotSubmitted

(* The deletion locks the users row, finds nothing in its way and, without *)
(* a lock on any other table, deletes the row a few statements later.      *)
DeleteAssess(u) ==
  /\ Change /\ u \in alive \ deleting /\ ~DeletionBlocked(u)
  /\ deleting' = deleting \cup {u}
  /\ UNCHANGED <<outbox, inbox, bulk, choice, late, alive, followers, published, waived, work, faults>>

DeleteCommit(u) ==
  /\ u \in deleting
  /\ alive' = alive \ {u}
  /\ deleting' = deleting \ {u}
  /\ UNCHANGED <<outbox, inbox, bulk, choice, late, followers, published, waived, work, faults, changes>>

-----------------------------------------------------------------------------
Done ==
  /\ \A e \in Events : outbox[e].state \in {"none", "completed", "dead_letter"}
  /\ \A w \in Workers : work[w].pc = "idle"
  /\ UNCHANGED vars

Process(w) ==
  \/ ReadAudience(w) \/ InsertRecipient(w) \/ FinishPage(w)
  \/ HandleFailure(w) \/ LeaseLost(w)

Next ==
  \/ \E e \in Events :
       Emit(e) \/ ExpireAbandoned(e) \/ ExpireOverrun(e)
  \/ \E w \in Workers :
       Tick(w) \/ Process(w) \/ StatementFails(w) \/ Crash(w)
  \/ \E u \in Commanders :
       \/ \E k \in Kinds, v \in {"on", "off"} : SetPreference(u, k, v)
       \/ \E e \in Events : MarkOwnRead(u, e)
       \/ \E k \in Keys, kind \in {"mark_all_read", "delete_all"} :
            BulkOperation(u, k, kind)
       \/ Unfollow(u) \/ DeleteAssess(u) \/ DeleteCommit(u)
  \/ Unpublish \/ Publish
  \/ Done

(* Cron starts ticks for ever, a tick that is not killed goes on, and the  *)
(* lease of one that was killed runs out; a deletion's transaction ends.   *)
Fairness ==
  /\ WF_vars(\E w \in Workers : Tick(w))
  /\ \A w \in Workers : WF_vars(Process(w))
  /\ \A e \in Events : WF_vars(ExpireAbandoned(e))
  /\ \A u \in Readers : WF_vars(DeleteCommit(u))

Spec == Init /\ [][Next]_vars /\ Fairness

-----------------------------------------------------------------------------
(* Properties.                                                             *)

RowStates == {"none", "unread", "read", "dismissed"}
OutboxStates == {"none", "pending", "leased", "completed", "dead_letter"}

(* The rows and the ticks have their shape; in particular a row has a      *)
(* holder exactly while it is leased, and a tick in progress has claims.   *)
TypeOK ==
  /\ outbox \in [Events -> [state : OutboxStates, attempt : Nat,
                            holder : Workers \cup {None}, live : BOOLEAN,
                            cursor : Readers \cup {0}]]
  /\ \A e \in Events : outbox[e].state = "leased" <=> outbox[e].holder # None
  /\ \A e \in Events : outbox[e].live => outbox[e].state = "leased"
  /\ inbox \in [Readers -> [Events -> RowStates]]
  /\ bulk \in [Readers -> [Keys ->
       [kind : {"none", "mark_all_read", "delete_all"}, cut : SUBSET Events]]]
  /\ choice \in [Readers -> [Kinds -> Preferences]]
  /\ late \in [Events -> SUBSET Readers]
  /\ alive \subseteq Readers /\ followers \subseteq alive /\ deleting \subseteq alive
  /\ published \in BOOLEAN /\ waived \subseteq Events
  /\ work \in [Workers -> [pc : {"idle", "read", "insert", "failed"},
                           claims : SUBSET Events, page : SUBSET Readers,
                           next : Readers \cup {0}]]
  /\ \A w \in Workers : work[w].claims = {} <=> work[w].pc = "idle"
  /\ faults \in 0 .. MaxFaults /\ changes \in 0 .. MaxChanges

(* A row is dismissed exactly when a delete-all of its reader covered it:  *)
(* a replayed delivery never revives a tombstone, and a repeated operation *)
(* never removes what arrived after its first submission                   *)
(* (insertRecipientIfAbsent, executeInboxBulkOperation).                   *)
DismissalsExact ==
  \A u \in Readers, e \in Events :
    inbox[u][e] = "dismissed" <=>
      \E k \in Keys : bulk[u][k].kind = "delete_all" /\ e \in bulk[u][k].cut

(* A deleted account leaves no inbox row behind, whichever of the deletion *)
(* and a delivery in progress commits first (insertRecipientIfAbsent's     *)
(* locking read of users, getAdminUserDeleteAssessment).                   *)
NoOrphans ==
  \A u \in Readers, e \in Events : inbox[u][e] # "none" => u \in alive

(* The keyset cursor never passes a reader who still wants the event and   *)
(* does not have it, unless the novel was withdrawn since                  *)
(* (createQualifiedSqlAudienceReader, checkpointAudience).                 *)
PagedAreServed ==
  \A e \in Events, u \in Readers :
    u <= outbox[e].cursor /\ Wanted(e, u) /\ e \notin waived => inbox[u][e] # "none"

(* Progress is never taken back: cursors and attempts only grow, and an    *)
(* event that is completed or dead-lettered stays as it is, however late   *)
(* a worker that lost its lease comes with its write (fencedUpdate).       *)
OutboxForward ==
  [][\A e \in Events :
       /\ outbox'[e].cursor >= outbox[e].cursor
       /\ outbox'[e].attempt >= outbox[e].attempt
       /\ outbox[e].state \in {"completed", "dead_letter"} => outbox'[e] = outbox[e]
    ]_outbox

(* The workers, leases, pages and retries together keep InboxPromise: at   *)
(* most one row per reader and event, none against the reader's current    *)
(* preference or for a withdrawn novel, and nobody left out at completion. *)
Promised(e) ==
  CASE outbox[e].state = "none"                  -> "unheard"
    [] outbox[e].state \in {"pending", "leased"} -> "open"
    [] outbox[e].state = "completed"             -> "closed"
    [] outbox[e].state = "dead_letter"           -> "abandoned"

Promise == INSTANCE InboxPromise WITH
  status <- [e \in Events |-> Promised(e)],
  wanted <- [e \in Events |->
    IF outbox[e].state = "none" THEN {} ELSE {u \in Readers : Wanted(e, u)}],
  got    <- [e \in Events |-> {u \in Readers : inbox[u][e] # "none"}],
  shown  <- {e \in Events : Shown(e)},
  waived <- waived

ImplementsPromise == Promise!Spec

(* Every event is completed or dead-lettered in the end, whatever crashed  *)
(* on the way: nothing stays leased to a tick that is gone                 *)
(* (buildNotificationClaimQuery, runInAppDeliveryTick).                    *)
Settled ==
  \A e \in Events :
    outbox[e].state = "pending" ~> outbox[e].state \in {"completed", "dead_letter"}
=============================================================================
