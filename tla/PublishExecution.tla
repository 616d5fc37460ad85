-------------------------- MODULE PublishExecution --------------------------
(***************************************************************************)
(* Controlled publication of a workspace novel                             *)
(* (server/workspace/publishExecution.service.ts, the unattended worker,   *)
(* the IpeNovel provider and the ownership transition).                    *)
(*                                                                         *)
(* An editor stages a draft over its episodes: a new episode is written    *)
(* unpublished, one that readers see already is left alone until the run   *)
(* replaces it.  The stage records the row it leaves, which the provider   *)
(* compares with the row it locks.  An administrator plans a run, a batch  *)
(* of episodes to publish, and requests its execution, which leaves an     *)
(* outbox row.  Workers of several replicas poll the outbox, claim a row   *)
(* under a lease and publish its items one by one: statements that commit  *)
(* on their own, guarded by the item's version, around the provider's own  *)
(* transaction, which writes the episode and a receipt together.  A last   *)
(* transaction settles run, outbox and the hash of the document published  *)
(* last.  A worker that lost its lease goes on until a guard stops it.     *)
(***************************************************************************)
EXTENDS Naturals, Sequences

CONSTANTS
  Runs, Episodes, Hashes, Texts,
  Batch,        \* the episodes of a run
  Snapshot,     \* the hash of the document a run publishes
  FirstHash,    \* the hash published before
  Staged,       \* runs whose items an editor stages; the others publish episodes as they are
  Text,         \* the text of a staged run's draft, its sale metadata included
  Sale,         \* the sale metadata of a text
  First,        \* episodes as they may be at the beginning
  Workers,
  Name,         \* the lease owner a worker's process calls itself
  None,         \* no lease owner, no stage, no text
  MaxAttempts,
  MaxFaults     \* bound: crashes, errors and refusals of the provider

ASSUME PublishAssumption ==
  /\ Batch \in [Runs -> Seq(Episodes)] /\ \A r \in Runs : Batch[r] # <<>>
  /\ Snapshot \in [Runs -> Hashes] /\ FirstHash \in Hashes
  /\ Staged \subseteq Runs /\ Text \in [Staged -> Texts]
  /\ First \subseteq [Episodes -> [published: BOOLEAN, text: Texts \cup {None}]]
  /\ None \notin Texts /\ None \notin [published: BOOLEAN, text: Texts \cup {None}]
  /\ \A w \in Workers : Name[w] # None
  /\ MaxAttempts \in Nat \ {0} /\ MaxFaults \in Nat

VARIABLES
  owner,      \* who owns publication; once returned to Sheets it stays there
  last,       \* lastPublishedSha256 of the document
  run,        \* workspacePublishRuns
  item,       \* workspacePublishItems, by run and position
  episode,    \* the rows readers see: published or not, and their text
  stage,      \* workspaceEditorialEpisodeStages: the row recorded, by run and position
  receipts,   \* provider receipts in workspaceAuditEvents: one per publication
  outbox,     \* workspaceOutbox
  before,     \* pairs of runs: the first one's outbox row becomes available before the second's
  projected,  \* runs whose card was moved to the column "published"
  worker,     \* what every worker is doing
  faults

provided == <<episode, stage, receipts>>
vars == <<owner, last, run, item, provided, outbox, before, projected, worker, faults>>
tables == <<owner, last, run, item, provided, outbox, before, projected>>

Positions(r) == DOMAIN Batch[r]
NoStage(r) == [i \in Positions(r) |-> None]
NewItem == [status |-> "pending", receipt |-> FALSE, version |-> 0]
NoRow == [status |-> "none", attempts |-> 0, by |-> None, live |-> FALSE]
Blank == [pc |-> "idle", run |-> None, at |-> 0, attempt |-> 0, seen |-> NewItem,
          version |-> 0, saw |-> FALSE, answer |-> None]

Init ==
  /\ owner = "workspace" /\ last = FirstHash
  /\ run = [r \in Runs |-> [status |-> "none", expected |-> FirstHash]]
  /\ item = [r \in Runs |-> [i \in Positions(r) |-> NewItem]]
  /\ episode \in First /\ stage = [r \in Runs |-> NoStage(r)]
  /\ receipts = [r \in Runs |-> [i \in Positions(r) |-> 0]]
  /\ outbox = [r \in Runs |-> NoRow] /\ before = {} /\ projected = {}
  /\ worker = [w \in Workers |-> Blank] /\ faults = 0

-----------------------------------------------------------------------------
(* The editor and the administrator.                                        *)

Covers(r, e) == \E i \in Positions(r) : Batch[r][i] = e
\* The unpublished row is still as an earlier stage has left it.
AsStaged(e) == \E s \in Staged : \E j \in Positions(s) :
  Batch[s][j] = e /\ stage[s][j] = episode[e]

\* A new episode is created, or its unpublished row written again; a published
\* row is only recorded.  The same draft is staged once: a repetition answers
\* the stage there is.
Stage(r) ==
  /\ r \in Staged /\ stage[r] = NoStage(r)
  /\ \A e \in Episodes : Covers(r, e) =>
       episode[e].published \/ episode[e].text = None \/ AsStaged(e)
  /\ episode' = [e \in Episodes |->
       IF Covers(r, e) /\ ~episode[e].published THEN [published |-> FALSE, text |-> Text[r]]
       ELSE episode[e]]
  /\ stage' = [stage EXCEPT ![r] = [i \in Positions(r) |-> episode'[Batch[r][i]]]]
  /\ UNCHANGED <<owner, last, run, item, receipts, outbox, before, projected, worker, faults>>

Done(row) == row.status = "published" /\ row.receipt
AllDone(r) == \A i \in Positions(r) : Done(item[r][i])
Current(r) == owner = "workspace" /\ run[r].expected = last

Requested == {r \in Runs : outbox[r].status # "none"}
\* The row becomes available after all the others.
ToBack(r) ==
  before' = {p \in before : p[1] # r /\ p[2] # r} \cup {<<s, r>> : s \in Requested \ {r}}

\* Only a stage there is can be planned, whether it still fits or not.
Plan(r) ==
  /\ run[r].status = "none" /\ owner = "workspace"
  /\ r \in Staged => stage[r] # NoStage(r)
  /\ run' = [run EXCEPT ![r] = [status |-> "ready", expected |-> last]]
  /\ UNCHANGED <<owner, last, item, provided, outbox, before, projected, worker, faults>>

\* A row that failed is retried by the workers whether asked again or not; the
\* second request only shows the run as publishing.
Request(r) ==
  /\ Current(r) /\ run[r].status \in {"ready", "partially_failed", "failed", "publishing"}
  /\ \/ /\ outbox[r].status = "none"
        /\ outbox' = [outbox EXCEPT ![r].status = "pending"] /\ ToBack(r)
     \/ /\ outbox[r].status = "failed" /\ run[r].status \in {"partially_failed", "failed"}
        /\ UNCHANGED <<outbox, before>>
  /\ run' = [run EXCEPT ![r].status = "publishing"]
  /\ UNCHANGED <<owner, last, item, provided, projected, worker, faults>>

\* Rollback of the ownership, on the evidence of a run that needs nothing more.
Rollback(r) ==
  /\ Current(r) /\ run[r].status # "none" /\ AllDone(r)
  /\ outbox[r].status \in {"none", "delivered"}
  /\ owner' = "returned"
  /\ UNCHANGED <<last, run, item, provided, outbox, before, projected, worker, faults>>

-----------------------------------------------------------------------------
(* Polling and claiming.                                                    *)

At(w, phase) == worker[w].pc = phase
Become(w, c) == worker' = [worker EXCEPT ![w] = c]
GoTo(w, phase) == worker' = [worker EXCEPT ![w].pc = phase]
Finish(w) == Become(w, Blank)
\* To the catch block, which knows the run and the attempt.
Fail(w) == Become(w, [Blank EXCEPT !.pc = "failing", !.run = worker[w].run,
                                   !.attempt = worker[w].attempt])

Lapsed(r) == outbox[r].status = "claimed" /\ ~outbox[r].live
\* mutant: a row whose worker died is not picked up again.
EligibleReleased(r) ==
  outbox[r].attempts < MaxAttempts /\ outbox[r].status \in {"pending", "failed"}
Eligible(r) ==
  outbox[r].attempts < MaxAttempts /\ (outbox[r].status \in {"pending", "failed"} \/ Lapsed(r))

\* The oldest eligible row.
Resolve(w) ==
  /\ At(w, "idle") /\ owner = "workspace"
  /\ \E r \in Runs : /\ Eligible(r) /\ \A s \in Runs : Eligible(s) => <<s, r>> \notin before
                     /\ Become(w, [Blank EXCEPT !.pc = "resolved", !.run = r])
  /\ UNCHANGED <<tables, faults>>

\* A new episode is a stage of the contract V2, a replacement one of V3.
New(r, i) == stage[r][i] # None /\ ~stage[r][i].published
Replaces(r, i) == stage[r][i] # None /\ stage[r][i].published

\* reconcileEditorialPublishRun, which every cycle calls before and after: it
\* throws when an episode is sold otherwise than its stage says, for a
\* replacement once it is published; the card of a delivered run moves.
Refused(r) ==
  r \in Staged /\ \E i \in Positions(r) :
    /\ New(r, i) \/ (Replaces(r, i) /\ item[r][i].status = "published")
    /\ Sale[episode[Batch[r][i]].text] # Sale[Text[r]]
Project(r) ==
  projected' = IF r \in Staged /\ ~Refused(r) /\ outbox[r].status = "delivered"
               THEN projected \cup {r} ELSE projected

ClaimTaken(w) ==
  LET r == worker[w].run IN
  /\ At(w, "resolved") /\ ~Refused(r) /\ Eligible(r) /\ owner = "workspace"
  /\ outbox' = [outbox EXCEPT ![r].status = "claimed", ![r].by = Name[w], ![r].live = TRUE,
                              ![r].attempts = @ + 1]
  /\ GoTo(w, "claimed")
  /\ UNCHANGED <<owner, last, run, item, provided, before, projected, faults>>

\* Another worker was faster.  A row without attempts left becomes a dead letter.
ClaimMissed(w) ==
  LET r == worker[w].run IN
  /\ At(w, "resolved") /\ ~Refused(r) /\ ~Eligible(r)
  /\ Project(r)
  /\ outbox' = IF outbox[r].attempts >= MaxAttempts /\ (outbox[r].status = "failed" \/ Lapsed(r))
               THEN [outbox EXCEPT ![r] = [@ EXCEPT !.status = "dead_letter", !.by = None,
                                                    !.live = FALSE]]
               ELSE outbox
  /\ Finish(w)
  /\ UNCHANGED <<owner, last, run, item, provided, before, faults>>

ClaimRefused(w) ==
  /\ At(w, "resolved")
  /\ Refused(worker[w].run) \/ (Eligible(worker[w].run) /\ owner # "workspace")
  /\ Finish(w) /\ UNCHANGED <<tables, faults>>

-----------------------------------------------------------------------------
(* processClaimedPublishOutbox.                                             *)

HoldsLease(w, r) ==
  outbox[r].status = "claimed" /\ outbox[r].by = Name[w] /\ outbox[r].live

\* Before the try block: an error leaves the row claimed until its lease lapses.
Begin(w) ==
  LET r == worker[w].run IN
  /\ At(w, "claimed")
  /\ IF HoldsLease(w, r) /\ Current(r)
     THEN Become(w, [worker[w] EXCEPT !.pc = "next", !.at = 1, !.attempt = outbox[r].attempts])
     ELSE Finish(w)
  /\ UNCHANGED <<tables, faults>>

Row(w) == item[worker[w].run][worker[w].at]
Over(w) == worker[w].at > Len(Batch[worker[w].run])
Skip(c) == [Blank EXCEPT !.pc = "next", !.run = c.run, !.at = c.at + 1, !.attempt = c.attempt]

\* A statement guarded by what was read of the item: if it changed, the worker
\* throws.
Guarded(w, unchanged, row, next) ==
  /\ IF unchanged
     THEN /\ item' = [item EXCEPT ![worker[w].run][worker[w].at] =
                        [row EXCEPT !.version = Row(w).version + 1]]
          /\ Become(w, next)
     ELSE UNCHANGED item /\ Fail(w)
  /\ UNCHANGED <<owner, last, run, provided, outbox, before, projected, faults>>

\* Somebody else's unfinished item is taken over as it is.
Read(w) ==
  /\ At(w, "next") /\ ~Over(w)
  /\ Become(w,
       IF Done(Row(w)) THEN Skip(worker[w])
       ELSE IF Row(w).status = "publishing" /\ ~Row(w).receipt
       THEN [worker[w] EXCEPT !.pc = "reconcile", !.version = Row(w).version]
       ELSE [worker[w] EXCEPT !.pc = "take", !.seen = Row(w)])
  /\ UNCHANGED <<tables, faults>>

\* A receipt is stored, only the status is missing.
Recover(w) ==
  LET seen == worker[w].seen IN
  /\ At(w, "take") /\ seen.status = "publishing" /\ seen.receipt
  /\ Guarded(w, Row(w) = seen, [seen EXCEPT !.status = "published"], Skip(worker[w]))

Take(w) ==
  LET seen == worker[w].seen IN
  /\ At(w, "take") /\ seen.status # "publishing"
  /\ Guarded(w, Row(w).version = seen.version, [Row(w) EXCEPT !.status = "publishing"],
             [worker[w] EXCEPT !.pc = "reconcile", !.version = seen.version + 1,
                                !.seen = NewItem])

Receipts(w) == receipts[worker[w].run][worker[w].at]

\* provider.reconcile between the two checks of the ownership, which never
\* comes back: the second check decides.
Reconcile(w) ==
  /\ At(w, "reconcile")
  /\ IF owner # "workspace" THEN Fail(w)
     ELSE IF Receipts(w) > 0
     THEN Become(w, [worker[w] EXCEPT !.pc = "answered", !.answer = "published"])
     ELSE GoTo(w, "preflight")
  /\ UNCHANGED <<tables, faults>>

Target(w) == Batch[worker[w].run][worker[w].at]

\* The row of a new episode must be the one recorded, a row to replace must be
\* published.
StageStands(w) ==
  LET recorded == stage[worker[w].run][worker[w].at] IN
  IF recorded.published THEN episode[Target(w)].published ELSE episode[Target(w)] = recorded

\* assertEditorialPublishRequestCurrent: unlocked, and content with anybody's lease.
Preflight(w) ==
  LET r == worker[w].run IN
  /\ At(w, "preflight")
  /\ IF r \in Staged => /\ outbox[r].status = "claimed" /\ outbox[r].live
                         /\ run[r].status \in {"publishing", "partially_failed", "failed"}
                         /\ owner = "workspace" /\ Row(w).status = "publishing"
                         /\ StageStands(w)
     THEN GoTo(w, "execute") ELSE Fail(w)
  /\ UNCHANGED <<tables, faults>>

\* provider.execute: the transaction's first read fixes what it sees of the
\* receipts, also after it has the locks of the novel and the episode.
ExecuteBegin(w) ==
  /\ At(w, "execute")
  /\ Become(w, [worker[w] EXCEPT !.pc = "locking", !.saw = Receipts(w) > 0])
  /\ UNCHANGED <<tables, faults>>

\* mutant: the state recorded at the stage is compared only before the locks.
MayExecuteUnlocked(r, i) == episode[Batch[r][i]].text # None
\* The locked episode must exist and, whatever the contract, be in the state
\* recorded at its stage, which says whether it was published.
MayExecute(r, i) ==
  /\ episode[Batch[r][i]].text # None
  /\ r \in Staged => stage[r][i] = episode[Batch[r][i]]

Shown(r, e) == [published |-> TRUE, text |-> IF r \in Staged THEN Text[r] ELSE episode[e].text]

Answer(w, a) ==
  Become(w, [worker[w] EXCEPT !.pc = "answered", !.answer = a, !.saw = FALSE])

ExecuteCommit(w) ==
  LET c == worker[w] IN
  /\ At(w, "locking")
  /\ \/ c.saw /\ Answer(w, "published") /\ UNCHANGED <<episode, receipts>>
     \/ /\ ~c.saw /\ MayExecute(c.run, c.at)
        /\ episode' = [episode EXCEPT ![Target(w)] = Shown(c.run, Target(w))]
        /\ receipts' = [receipts EXCEPT ![c.run][c.at] = @ + 1] /\ Answer(w, "published")
     \/ ~c.saw /\ ~MayExecute(c.run, c.at) /\ Fail(w) /\ UNCHANGED <<episode, receipts>>
  /\ UNCHANGED <<owner, last, run, item, stage, outbox, before, projected, faults>>

PersistReceipt(w) ==
  /\ At(w, "answered") /\ worker[w].answer = "published"
  /\ Guarded(w, Row(w).version = worker[w].version /\ Row(w).status = "publishing",
             [Row(w) EXCEPT !.receipt = TRUE],
             [worker[w] EXCEPT !.pc = "receipted", !.version = @ + 1])

PersistPublished(w) ==
  /\ At(w, "receipted")
  /\ Guarded(w, /\ Row(w).version = worker[w].version
                /\ Row(w).status = "publishing" /\ Row(w).receipt,
             [Row(w) EXCEPT !.status = "published"], Skip(worker[w]))

MayFail(w) == Row(w).version = worker[w].version /\ Row(w).status = "publishing"
PersistFailed(w) ==
  /\ At(w, "answered") /\ worker[w].answer = "failed"
  /\ Guarded(w, MayFail(w), [Row(w) EXCEPT !.status = "failed", !.receipt = FALSE],
             Skip(worker[w]))

-----------------------------------------------------------------------------
(* finalizePublishExecution, one transaction under the locks of run, outbox, *)
(* ownership and fingerprint.                                               *)

\* mutant: a run is published as soon as one of its items is.
OutcomeAnyDone(r) ==
  IF \E i \in Positions(r) : Done(item[r][i]) THEN "published"
  ELSE IF \E i \in Positions(r) : item[r][i].status = "failed" THEN "failed" ELSE "publishing"
Outcome(r) ==
  IF AllDone(r) THEN "published"
  ELSE IF \E i \in Positions(r) : Done(item[r][i]) THEN "partially_failed"
  ELSE IF \E i \in Positions(r) : item[r][i].status = "failed" THEN "failed" ELSE "publishing"

\* The lease ends without success: retry later, or never.
Release(r, attempt) ==
  /\ outbox' = [outbox EXCEPT ![r].by = None, ![r].live = FALSE,
                  ![r].status = IF attempt >= MaxAttempts THEN "dead_letter" ELSE "failed"]
  /\ IF attempt >= MaxAttempts THEN UNCHANGED before ELSE ToBack(r)

MaySettle(w, r) == HoldsLease(w, r) /\ Current(r)
Finalize(w) ==
  LET r == worker[w].run
      outcome == Outcome(r) IN
  /\ At(w, "next") /\ Over(w) /\ MaySettle(w, r)
  /\ run' = [run EXCEPT ![r].status = outcome]
  /\ \/ /\ outcome = "published"
        /\ last' = Snapshot[r]
        /\ outbox' = [outbox EXCEPT ![r].status = "delivered", ![r].by = None, ![r].live = FALSE]
        /\ UNCHANGED before
     \/ outcome # "published" /\ Release(r, outbox[r].attempts) /\ UNCHANGED last
  /\ GoTo(w, "finalized")
  /\ UNCHANGED <<owner, item, provided, projected, faults>>

FinalizeRefused(w) ==
  /\ At(w, "next") /\ Over(w) /\ ~MaySettle(w, worker[w].run)
  /\ Fail(w) /\ UNCHANGED <<tables, faults>>

CardMoved(w) ==
  /\ At(w, "finalized") /\ Project(worker[w].run) /\ Finish(w)
  /\ UNCHANGED <<owner, last, run, item, provided, outbox, before, faults>>

\* mutant: the row is released whoever has claimed it since.
MayReleaseAny(w, r) == outbox[r].status = "claimed"
MayRelease(w, r) == outbox[r].status = "claimed" /\ outbox[r].by = Name[w]
\* The catch block, with the attempts read at the beginning.
Caught(w) ==
  LET r == worker[w].run IN
  /\ At(w, "failing")
  /\ IF MayRelease(w, r) THEN Release(r, worker[w].attempt) ELSE UNCHANGED <<outbox, before>>
  /\ Finish(w)
  /\ UNCHANGED <<owner, last, run, item, provided, projected, faults>>

-----------------------------------------------------------------------------
(* Time and faults.                                                         *)

Expire(r) ==
  /\ outbox[r].live /\ outbox' = [outbox EXCEPT ![r].live = FALSE]
  /\ UNCHANGED <<owner, last, run, item, provided, before, projected, worker, faults>>

Fault == faults < MaxFaults /\ faults' = faults + 1

\* Any statement inside the try block can throw; the provider's contract lets
\* it answer that it failed.
Throw(w) ==
  /\ Fault /\ worker[w].pc \in {"next", "take", "reconcile", "preflight", "execute", "locking",
                                "answered", "receipted"}
  /\ Fail(w) /\ UNCHANGED tables
Refuse(w) == Fault /\ At(w, "execute") /\ Answer(w, "failed") /\ UNCHANGED tables

\* The process dies; its successor starts with an empty memory.
Crash(w) == Fault /\ ~At(w, "idle") /\ Finish(w) /\ UNCHANGED tables

Cycle(w) ==
  \/ Resolve(w) \/ ClaimTaken(w) \/ ClaimMissed(w) \/ ClaimRefused(w) \/ Begin(w)
  \/ Read(w) \/ Recover(w) \/ Take(w) \/ Reconcile(w) \/ Preflight(w)
  \/ ExecuteBegin(w) \/ ExecuteCommit(w)
  \/ PersistReceipt(w) \/ PersistPublished(w) \/ PersistFailed(w)
  \/ Finalize(w) \/ FinalizeRefused(w) \/ CardMoved(w) \/ Caught(w)

Next ==
  \/ \E r \in Runs : Stage(r) \/ Plan(r) \/ Request(r) \/ Rollback(r) \/ Expire(r)
  \/ \E w \in Workers : Cycle(w) \/ Throw(w) \/ Refuse(w) \/ Crash(w)

\* A process polls again and again and finishes its cycle; leases run out.
Fairness ==
  /\ \A w \in Workers : WF_vars(Cycle(w))
  /\ \A r \in Runs : WF_vars(Expire(r))

Spec == Init /\ [][Next]_vars
FairSpec == Spec /\ Fairness
-----------------------------------------------------------------------------
(* Properties.                                                              *)

Rows == [published: BOOLEAN, text: Texts \cup {None}]
Items == [status: {"pending", "publishing", "published", "failed"}, receipt: BOOLEAN,
          version: Nat]
Phases == {"idle", "resolved", "claimed", "next", "take", "reconcile", "preflight", "execute",
           "locking", "answered", "receipted", "finalized", "failing"}

(* Types; the requested rows are in one order, and only a claimed row has a
   lease. *)
TypeOK ==
  /\ owner \in {"workspace", "returned"} /\ last \in Hashes /\ faults \in 0..MaxFaults
  /\ episode \in [Episodes -> Rows]
  /\ run \in [Runs -> [status: {"none", "ready", "publishing", "published", "partially_failed",
                                "failed"}, expected: Hashes]]
  /\ \A r \in Runs : /\ item[r] \in [Positions(r) -> Items]
                     /\ receipts[r] \in [Positions(r) -> Nat]
                     /\ stage[r] \in [Positions(r) -> Rows \cup {None}]
                     /\ outbox[r].live => outbox[r].by # None
                     /\ (outbox[r].by # None) = (outbox[r].status = "claimed")
  /\ outbox \in [Runs -> [status: {"none", "pending", "claimed", "delivered", "failed",
                                   "dead_letter"},
                          attempts: 0..MaxAttempts, by: {Name[w] : w \in Workers} \cup {None},
                          live: BOOLEAN]]
  /\ before \subseteq Requested \X Requested
  /\ \A r, s \in Requested : r # s => (<<r, s>> \in before) # (<<s, r>> \in before)
  /\ \A r, s, t \in Requested : <<r, s>> \in before /\ <<s, t>> \in before => <<r, t>> \in before
  /\ \A r \in Requested : <<r, r>> \notin before
  /\ projected \subseteq Staged
  /\ worker \in [Workers -> [pc: Phases, run: Runs \cup {None}, at: Nat,
                             attempt: 0..MaxAttempts, seen: Items, version: Nat, saw: BOOLEAN,
                             answer: {"published", "failed", None}]]

\* A replacement has published that text of the episode.
PutBack(e, text) ==
  \E q \in Staged : \E k \in Positions(q) :
    Batch[q][k] = e /\ Text[q] = text /\ Replaces(q, k) /\ receipts[q][k] > 0

\* Stages of which one at most can be published: those of a new episode, and the
\* replacements of one published text, unless that text came back.
Rivals(r, i, s, j) ==
  /\ Batch[r][i] = Batch[s][j]
  /\ \/ New(r, i) /\ New(s, j)
     \/ /\ Replaces(r, i) /\ stage[r][i] = stage[s][j]
        /\ ~PutBack(Batch[r][i], stage[r][i].text)

(* A stage is published once, and of several stages made of the same episode
   one only, whatever workers overlap, crash or retry: a new episode appears
   once, and two drafts staged over the same published text do not overwrite
   each other.  The locked row is compared with the one recorded at the stage
   (ipenovelPublish.provider.ts).  A replacement that changes nothing, or whose
   old text another one has put back, is not stopped by that. *)
PublishedOnce ==
  \A r, s \in Staged : \A i \in Positions(r), j \in Positions(s) :
    Rivals(r, i, s, j) =>
      receipts[r][i] + (IF r = s /\ i = j THEN 0 ELSE receipts[s][j]) <= 1

(* What the tables say is true: a stored receipt is one the provider committed,
   a run is published if and only if its outbox row is delivered, and then all
   its items are published with receipts; a card moves only then. *)
DeliveredIsPublished ==
  /\ \A r \in Runs : \A i \in Positions(r) :
       item[r][i].receipt \/ item[r][i].status = "published" => receipts[r][i] > 0
  /\ \A r \in Runs : /\ run[r].status = "published" <=> outbox[r].status = "delivered"
                     /\ outbox[r].status = "delivered" => AllDone(r)
  /\ \A r \in projected : outbox[r].status = "delivered"

(* A worker that has lost its lease, or works for an old base of the document,
   does no harm: a published item stays as it is ("immutable retry exclusions",
   schema.ts), a live claim is ended only by the worker whose claim it is, and
   a run becomes published only on the hash it was planned on. *)
Claimer(w, r) ==
  Name[w] = outbox[r].by /\ worker[w].run = r /\ worker[w].attempt = outbox[r].attempts
LateStepsHarmless ==
  [][\A r \in Runs :
       /\ \A i \in Positions(r) : Done(item[r][i]) => item'[r][i] = item[r][i]
       /\ outbox[r].live /\ outbox'[r].status # "claimed"
            => \E w \in Workers : Claimer(w, r) /\ worker'[w] # worker[w]
       /\ run[r].status # "published" /\ run'[r].status = "published"
            => run[r].expected = last /\ last' = Snapshot[r]]_vars

(* No run is left half published: again and again (hence, as requests and
   outcomes stay, once and for all) a run is not requested, delivered or given
   up, unless the ownership went back or the worker of its last attempt died
   outside the catch block.  The drafts do not differ in what they cost. *)
GivenUp(r) ==
  outbox[r].status = "dead_letter" \/ (Lapsed(r) /\ outbox[r].attempts >= MaxAttempts)
Settled ==
  \A r \in Runs :
    []<>(outbox[r].status \in {"none", "delivered"} \/ GivenUp(r) \/ owner # "workspace")

(* A committed publication had the ownership: the doc's "side effects require
   current ownership" (docs/workspace/coexistence-and-test-strategy.md). *)
PublishesOnlyOwned ==
  [][receipts' # receipts => owner = "workspace"]_vars

(* A row is never given up without being marked so: "bounded attempts and
   dead-letter" (docs/workspace/M12D9). *)
DeadLettersMarked ==
  \A r \in Runs : Lapsed(r) /\ ~Eligible(r) ~> outbox[r].status = "dead_letter"

(* The card of a delivered staged run moves. *)
CardFollows == \A r \in Staged : outbox[r].status = "delivered" ~> r \in projected

(* Every item is published once, staged or not, and whatever its draft changes. *)
NoSecondPublication == \A r \in Runs : \A i \in Positions(r) : receipts[r][i] <= 1
=============================================================================
