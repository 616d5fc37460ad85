----------------------------- MODULE PublishProofs -----------------------------
(***************************************************************************)
(* Proofs about PublishExecution, for any number of runs, workers, faults  *)
(* and attempts, and batches of any length.                                *)
(*                                                                         *)
(* An item changes only under the version its writer has read, and no      *)
(* worker writes one it has seen done; whoever says that an item is        *)
(* published has the provider's receipt; an episode with a receipt is      *)
(* published, and a replacement that has one has left the row different    *)
(* from the one recorded, unless its old text came back; and a worker that *)
(* still finds its name on the claim knows the attempt the claim is for.   *)
(***************************************************************************)
EXTENDS PublishExecution, TLAPS

-----------------------------------------------------------------------------
(* The inductive invariant.                                                 *)

InItem == {"take", "reconcile", "preflight", "execute", "locking", "answered", "receipted"}
Running == InItem \cup {"next", "failing"}

Cycles == [pc: Phases, run: Runs \cup {None}, at: Nat, attempt: 0..MaxAttempts, seen: Items,
           version: Nat, saw: BOOLEAN, answer: {"published", "failed", None}]
CycleFits(c) ==
  /\ c \in Cycles
  /\ c.pc # "idle" => c.run \in Runs
  /\ c.pc \in InItem \cup {"next"} => c.at # 0
  /\ c.pc \in InItem => c.at \in Positions(c.run)
WorkersFit ==
  /\ worker = [w \in Workers |-> worker[w]]
  /\ \A w \in Workers : CycleFits(worker[w])

RunRows == [status: {"none", "ready", "publishing", "published", "partially_failed", "failed"},
            expected: Hashes]
RunsFit ==
  /\ owner \in {"workspace", "returned"} /\ last \in Hashes /\ faults \in 0..MaxFaults
  /\ run \in [Runs -> RunRows] /\ projected \subseteq Staged

\* A table of rows by run and position.
Table(f, S) ==
  /\ f = [r \in Runs |-> f[r]]
  /\ \A r \in Runs : f[r] \in [Positions(r) -> S]
ItemsFit == Table(item, Items)
ReceiptsFit == Table(receipts, Nat)
StagesFit == Table(stage, Rows \cup {None})
EpisodesFit == episode \in [Episodes -> Rows]
ProvidedFit == EpisodesFit /\ StagesFit /\ ReceiptsFit

Boxes == [status: {"none", "pending", "claimed", "delivered", "failed", "dead_letter"},
          attempts: 0..MaxAttempts, by: {Name[w] : w \in Workers} \cup {None}, live: BOOLEAN]
BoxFits(b) ==
  /\ b \in Boxes
  /\ b.live => b.by # None
  /\ (b.by # None) = (b.status = "claimed")
OutboxFits ==
  /\ outbox = [r \in Runs |-> outbox[r]]
  /\ \A r \in Runs : BoxFits(outbox[r])

OrderFits ==
  /\ before \subseteq Requested \X Requested
  /\ \A r, s \in Requested : r # s => (<<r, s>> \in before) # (<<s, r>> \in before)
  /\ \A r, s, t \in Requested : <<r, s>> \in before /\ <<s, t>> \in before => <<r, t>> \in before
  /\ \A r \in Requested : <<r, r>> \notin before

Fits == RunsFit /\ ItemsFit /\ ProvidedFit /\ OutboxFits /\ OrderFits /\ WorkersFit

\* What a worker has read of an item it is about to write: it was not done, and
\* under the same version it has not changed.
ReadsFenced ==
  \A w \in Workers : At(w, "take") =>
    /\ ~Done(worker[w].seen) /\ worker[w].seen.version <= Row(w).version
    /\ worker[w].seen.version = Row(w).version => Row(w) = worker[w].seen

\* An answer "published" comes with a receipt.
AnswersBacked ==
  \A w \in Workers :
    \/ At(w, "locking") /\ worker[w].saw
    \/ At(w, "answered") /\ worker[w].answer = "published"
    => Receipts(w) > 0

\* A worker whose name is on the claim knows the attempt.
AttemptsKnown ==
  \A w \in Workers :
    /\ worker[w].pc \in Running
    /\ outbox[worker[w].run].status = "claimed" /\ outbox[worker[w].run].by = Name[w]
    => worker[w].attempt = outbox[worker[w].run].attempts

\* What is published is there to see, and was staged before if its run is staged.
Shows ==
  \A r \in Runs : \A i \in Positions(r) : receipts[r][i] > 0 =>
    episode[Batch[r][i]].published /\ (r \in Staged => stage[r][i] # None)

\* A replacement that was published cannot find the row as recorded again.
Spent ==
  \A r \in Staged : \A i \in Positions(r) : Replaces(r, i) /\ receipts[r][i] > 0 =>
    episode[Batch[r][i]] # stage[r][i] \/ PutBack(Batch[r][i], stage[r][i].text)

Inv ==
  /\ Fits /\ ReadsFenced /\ AnswersBacked /\ DeliveredIsPublished
  /\ Shows /\ Spent /\ PublishedOnce

\* Every worker calls itself differently.
OwnNames == \A v, w \in Workers : Name[v] = Name[w] => v = w

-----------------------------------------------------------------------------
(* Tables and local data.                                                   *)

LEMMA Nonempty == \A r \in Runs : /\ Len(Batch[r]) \in Nat /\ Positions(r) = 1..Len(Batch[r])
                                  /\ \A i \in Positions(r) : i \in Nat /\ i # 0
<1>1. SUFFICES ASSUME NEW r \in Runs
               PROVE  /\ Len(Batch[r]) \in Nat /\ Positions(r) = 1..Len(Batch[r])
                      /\ \A i \in Positions(r) : i \in Nat /\ i # 0
  OBVIOUS
<1>2. Batch[r] \in Seq(Episodes)
  BY PublishAssumption DEF PublishAssumption
<1>3. Len(Batch[r]) \in Nat /\ DOMAIN Batch[r] = 1..Len(Batch[r])
  BY <1>2
<1> QED
  BY <1>3 DEF Positions

With(f, r, i, x) == [f EXCEPT ![r][i] = x]

\* One row of a table is written, and only that one.
LEMMA Put ==
  ASSUME NEW S, NEW f, Table(f, S), NEW r \in Runs, NEW i \in Positions(r), NEW x \in S,
         NEW g, g = With(f, r, i, x)
  PROVE  /\ Table(g, S) /\ g[r][i] = x
         /\ \A s \in Runs : \A j \in Positions(s) : s # r \/ j # i => g[s][j] = f[s][j]
<1>1. DOMAIN f = Runs /\ f[r] \in [Positions(r) -> S]
  BY DEF Table
<1>2. g[r] = [f[r] EXCEPT ![i] = x] /\ \A s \in Runs : s # r => g[s] = f[s]
  BY <1>1 DEF With
<1>3. g = [s \in Runs |-> g[s]]
  BY <1>1 DEF With
<1>4. \A s \in Runs : g[s] \in [Positions(s) -> S]
  BY <1>1, <1>2 DEF Table, With
<1> QED
  BY <1>1, <1>2, <1>3, <1>4 DEF Table, With

LEMMA BlankFits == CycleFits(Blank) /\ Blank.pc = "idle"
<1>1. NewItem \in Items
  BY DEF NewItem, Items
<1>2. 0 \in 0..MaxAttempts
  BY PublishAssumption DEF PublishAssumption
<1> QED
  BY <1>1, <1>2 DEF Blank, CycleFits, Cycles, Phases, InItem

\* Going on inside an item, or out of it, or between two cycles' ends.
LEMMA GoFits ==
  ASSUME NEW c, CycleFits(c), c.pc # "idle", NEW p \in Phases,
         \/ p \in InItem /\ c.pc \in InItem
         \/ p \in {"claimed", "finalized"}
  PROVE  CycleFits([c EXCEPT !.pc = p]) /\ [c EXCEPT !.pc = p].pc = p
BY DEF CycleFits, Cycles, InItem

LEMMA SkipFits ==
  ASSUME NEW c, CycleFits(c), c.pc # "idle"
  PROVE  CycleFits(Skip(c)) /\ Skip(c).pc = "next" /\ Skip(c).run = c.run
         /\ Skip(c).attempt = c.attempt
<1>1. Blank \in Cycles
  BY BlankFits DEF CycleFits
<1>2. c.at \in Nat /\ c.at + 1 \in Nat /\ c.at + 1 # 0 /\ c.run \in Runs
  BY DEF CycleFits, Cycles
<1>3. c.attempt \in 0..MaxAttempts /\ c.run \in Runs \cup {None} /\ "next" \in Phases
  BY DEF CycleFits, Cycles, Phases
<1>4. Skip(c) \in Cycles
  BY <1>1, <1>2, <1>3 DEF Skip, Cycles
<1>5. Skip(c).pc = "next" /\ Skip(c).run = c.run /\ Skip(c).at = c.at + 1
      /\ Skip(c).attempt = c.attempt
  BY <1>1 DEF Skip, Cycles
<1>6. "next" \notin InItem
  BY DEF InItem
<1> QED
  BY <1>2, <1>4, <1>5, <1>6 DEF CycleFits

LEMMA PutWorker ==
  ASSUME WorkersFit, NEW w \in Workers, NEW c, CycleFits(c),
         worker' = [worker EXCEPT ![w] = c]
  PROVE  /\ WorkersFit' /\ worker'[w] = c
         /\ \A v \in Workers : v # w => worker'[v] = worker[v]
BY DEF WorkersFit, CycleFits, Positions

LEMMA RowFits ==
  ASSUME Fits, NEW w \in Workers, worker[w].pc \in InItem \/ (At(w, "next") /\ ~Over(w))
  PROVE  /\ worker[w].run \in Runs /\ worker[w].at \in Positions(worker[w].run)
         /\ Row(w) \in Items /\ Row(w).version \in Nat /\ Receipts(w) \in Nat
<1>1. CycleFits(worker[w])
  BY DEF Fits, WorkersFit
<1>2. worker[w].run \in Runs /\ worker[w].at \in Nat
  BY <1>1 DEF CycleFits, Cycles, InItem, At
<1>3. worker[w].at \in Positions(worker[w].run)
  <2>1. CASE worker[w].pc \in InItem
    BY <1>1, <2>1 DEF CycleFits
  <2>2. CASE At(w, "next") /\ ~Over(w)
    <3>1. worker[w].at # 0
      BY <1>1, <2>2 DEF CycleFits, At
    <3> QED
      BY <1>2, <2>2, <3>1, Nonempty DEF Over
  <2> QED
    BY <2>1, <2>2
<1>4. Row(w) \in Items
  BY <1>2, <1>3 DEF Fits, ItemsFit, Table, Row
<1>5. Receipts(w) \in Nat
  BY <1>2, <1>3 DEF Fits, ProvidedFit, ReceiptsFit, Table, Receipts
<1> QED
  BY <1>2, <1>3, <1>4, <1>5 DEF Items

-----------------------------------------------------------------------------
(* What a step does to a worker.                                            *)

AttemptKept(w) ==
  worker'[w].pc \in Running =>
    \/ /\ worker[w].pc \in Running
       /\ worker'[w].run = worker[w].run /\ worker'[w].attempt = worker[w].attempt
    \/ /\ At(w, "claimed") /\ UNCHANGED outbox /\ worker'[w].run = worker[w].run
       /\ worker'[w].attempt = outbox[worker[w].run].attempts
SeenKept(w) ==
  worker'[w].pc = "take" =>
    \/ worker'[w] = worker[w]
    \/ /\ UNCHANGED item /\ worker'[w].run = worker[w].run /\ worker'[w].at = worker[w].at
       /\ ~Over(w) /\ worker'[w].seen = Row(w) /\ ~Done(Row(w))
AnswerKept(w) ==
  \/ worker'[w].pc = "locking" /\ worker'[w].saw
  \/ worker'[w].pc = "answered" /\ worker'[w].answer = "published"
  => \/ worker'[w] = worker[w]
     \/ /\ worker'[w].run = worker[w].run /\ worker'[w].at = worker[w].at
        /\ receipts'[worker[w].run][worker[w].at] > 0
WorkersMove ==
  /\ WorkersFit'
  /\ \A w \in Workers : AttemptKept(w) /\ SeenKept(w) /\ AnswerKept(w)

LEMMA OneMoves ==
  ASSUME WorkersFit, NEW w \in Workers, NEW c, CycleFits(c),
         worker' = [worker EXCEPT ![w] = c], AttemptKept(w), SeenKept(w), AnswerKept(w)
  PROVE  WorkersMove
<1>1. WorkersFit' /\ \A v \in Workers : v # w => worker'[v] = worker[v]
  BY PutWorker
<1>2. ASSUME NEW v \in Workers PROVE AttemptKept(v) /\ SeenKept(v) /\ AnswerKept(v)
  BY <1>1 DEF AttemptKept, SeenKept, AnswerKept
<1> QED
  BY <1>1, <1>2 DEF WorkersMove

LEMMA NobodyMoves == ASSUME WorkersFit, UNCHANGED worker PROVE WorkersMove
<1>1. WorkersFit'
  BY DEF WorkersFit, CycleFits, Positions
<1>2. ASSUME NEW v \in Workers PROVE AttemptKept(v) /\ SeenKept(v) /\ AnswerKept(v)
  BY DEF AttemptKept, SeenKept, AnswerKept
<1> QED
  BY <1>1, <1>2 DEF WorkersMove

LEMMA Finishes == ASSUME WorkersFit, NEW w \in Workers, Finish(w) PROVE WorkersMove
<1>1. worker' = [worker EXCEPT ![w] = Blank] /\ worker'[w].pc = "idle"
  BY PutWorker, BlankFits DEF Finish, Become
<1>2. AttemptKept(w) /\ SeenKept(w) /\ AnswerKept(w)
  BY <1>1 DEF AttemptKept, SeenKept, AnswerKept, Running, InItem
<1> QED
  BY <1>1, <1>2, BlankFits, OneMoves

\* A change of phase alone.
LEMMA Goes ==
  ASSUME WorkersFit, NEW w \in Workers, NEW p \in Phases, GoTo(w, p), worker[w].pc # "idle",
         \/ p \in InItem /\ worker[w].pc \in InItem
         \/ p \in {"claimed", "finalized"}
  PROVE  /\ worker' = [worker EXCEPT ![w] = [worker[w] EXCEPT !.pc = p]]
         /\ CycleFits([worker[w] EXCEPT !.pc = p])
         /\ worker'[w] = [worker[w] EXCEPT !.pc = p]
         /\ worker'[w].pc = p /\ worker'[w].run = worker[w].run
         /\ worker'[w].attempt = worker[w].attempt
<1>1. CycleFits(worker[w]) /\ worker = [v \in Workers |-> worker[v]]
  BY DEF WorkersFit
<1>2. worker' = [worker EXCEPT ![w] = [worker[w] EXCEPT !.pc = p]]
  BY <1>1 DEF GoTo
<1>3. CycleFits([worker[w] EXCEPT !.pc = p]) /\ [worker[w] EXCEPT !.pc = p].pc = p
  BY <1>1, GoFits
<1>4. worker'[w] = [worker[w] EXCEPT !.pc = p]
  BY <1>2, <1>3, PutWorker
<1>5. worker[w] \in Cycles
  BY <1>1 DEF CycleFits
<1>6. [worker[w] EXCEPT !.pc = p].run = worker[w].run
      /\ [worker[w] EXCEPT !.pc = p].attempt = worker[w].attempt
  BY <1>5 DEF Cycles
<1> QED
  BY <1>2, <1>3, <1>4, <1>6

LEMMA Fails ==
  ASSUME WorkersFit, NEW w \in Workers, Fail(w), worker[w].pc \in Running
  PROVE  WorkersMove
<1> DEFINE c == worker[w]
<1> DEFINE d == [Blank EXCEPT !.pc = "failing", !.run = c.run, !.attempt = c.attempt]
<1>1. CycleFits(c) /\ c.run \in Runs /\ c \in Cycles
  BY DEF WorkersFit, CycleFits, Running, InItem
<1>2. worker' = [worker EXCEPT ![w] = d]
  BY DEF Fail, Become
<1>3. "failing" \in Phases /\ Blank \in Cycles
  BY BlankFits DEF CycleFits, Phases
<1>4. d \in Cycles /\ d.pc = "failing" /\ d.run = c.run /\ d.attempt = c.attempt
  BY <1>1, <1>3 DEF Cycles
<1> HIDE DEF d
<1>5. CycleFits(d)
  BY <1>1, <1>4 DEF CycleFits, InItem
<1>6. worker'[w] = d
  BY <1>2, <1>5, PutWorker
<1>7. AttemptKept(w) /\ SeenKept(w) /\ AnswerKept(w)
  BY <1>4, <1>6 DEF AttemptKept, SeenKept, AnswerKept
<1> QED
  BY <1>2, <1>5, <1>7, OneMoves

LEMMA Skips ==
  ASSUME WorkersFit, NEW w \in Workers, Become(w, Skip(worker[w])),
         worker[w].pc \in InItem \cup {"next"}
  PROVE  WorkersMove
<1>1. CycleFits(worker[w]) /\ worker[w].pc # "idle" /\ worker[w].pc \in Running
  BY DEF WorkersFit, InItem, Running
<1>2. CycleFits(Skip(worker[w])) /\ Skip(worker[w]).pc = "next"
      /\ Skip(worker[w]).run = worker[w].run /\ Skip(worker[w]).attempt = worker[w].attempt
  BY <1>1, SkipFits
<1>3. worker' = [worker EXCEPT ![w] = Skip(worker[w])]
  BY DEF Become
<1>4. worker'[w] = Skip(worker[w])
  BY <1>2, <1>3, PutWorker
<1>5. AttemptKept(w) /\ SeenKept(w) /\ AnswerKept(w)
  BY <1>1, <1>2, <1>4 DEF AttemptKept, SeenKept, AnswerKept
<1> QED
  BY <1>2, <1>3, <1>5, OneMoves

LEMMA WorkersStep == ASSUME Fits, AnswersBacked, Next PROVE WorkersMove
<1>f. WorkersFit
  BY DEF Fits
<1>1. CASE \E r \in Runs : Stage(r) \/ Plan(r) \/ Request(r) \/ Rollback(r) \/ Expire(r)
  <2>1. UNCHANGED worker
    BY <1>1 DEF Stage, Plan, Request, Rollback, Expire
  <2> QED
    BY <1>f, <2>1, NobodyMoves
<1>2. ASSUME NEW w \in Workers, Cycle(w) \/ Throw(w) \/ Refuse(w) \/ Crash(w) PROVE WorkersMove
  <2> DEFINE c == worker[w]
             r == c.run
  <2>c. CycleFits(c) /\ c \in Cycles /\ (c.pc # "idle" => r \in Runs)
    BY <1>f DEF WorkersFit, CycleFits
  <2>o. r \in Runs => outbox[r].attempts \in 0..MaxAttempts
    BY DEF Fits, OutboxFits, BoxFits, Boxes
  <2>1. CASE Resolve(w)
    <3>1. PICK s \in Runs : Become(w, [Blank EXCEPT !.pc = "resolved", !.run = s])
      BY <2>1 DEF Resolve
    <3> DEFINE d == [Blank EXCEPT !.pc = "resolved", !.run = s]
    <3>2. Blank \in Cycles /\ "resolved" \in Phases
      BY BlankFits DEF CycleFits, Phases
    <3>3. d \in Cycles /\ d.pc = "resolved" /\ d.run = s
      BY <3>2 DEF Cycles
    <3>4. worker' = [worker EXCEPT ![w] = d]
      BY <3>1 DEF Become
    <3> HIDE DEF d
    <3>5. CycleFits(d)
      BY <3>3 DEF CycleFits, InItem
    <3>6. worker'[w] = d
      BY <1>f, <3>4, <3>5, PutWorker
    <3>7. AttemptKept(w) /\ SeenKept(w) /\ AnswerKept(w)
      BY <3>3, <3>6 DEF AttemptKept, SeenKept, AnswerKept, Running, InItem
    <3> QED
      BY <1>f, <3>4, <3>5, <3>7, OneMoves
  <2>2. CASE ClaimTaken(w)
    <3>1. GoTo(w, "claimed") /\ c.pc # "idle" /\ "claimed" \in Phases
      BY <2>2 DEF ClaimTaken, At, Phases
    <3>2. /\ worker' = [worker EXCEPT ![w] = [c EXCEPT !.pc = "claimed"]]
          /\ CycleFits([c EXCEPT !.pc = "claimed"]) /\ worker'[w].pc = "claimed"
      BY <1>f, <3>1, Goes
    <3>3. AttemptKept(w) /\ SeenKept(w) /\ AnswerKept(w)
      BY <3>2 DEF AttemptKept, SeenKept, AnswerKept, Running, InItem
    <3> QED
      BY <1>f, <3>2, <3>3, OneMoves
  <2>3. CASE ClaimMissed(w) \/ ClaimRefused(w) \/ CardMoved(w) \/ Caught(w) \/ Crash(w)
    <3>1. Finish(w)
      BY <2>3 DEF ClaimMissed, ClaimRefused, CardMoved, Caught, Crash
    <3> QED
      BY <1>f, <3>1, Finishes
  <2>4. CASE Begin(w)
    <3>1. CASE ~(HoldsLease(w, r) /\ Current(r))
      <4>1. Finish(w)
        BY <2>4, <3>1 DEF Begin
      <4> QED
        BY <1>f, <4>1, Finishes
    <3>2. CASE HoldsLease(w, r) /\ Current(r)
      <4> DEFINE d == [c EXCEPT !.pc = "next", !.at = 1, !.attempt = outbox[r].attempts]
      <4>1. c.pc = "claimed" /\ r \in Runs /\ "next" \in Phases
        BY <2>4, <2>c DEF Begin, At, Phases
      <4>2. worker' = [worker EXCEPT ![w] = d] /\ UNCHANGED outbox
        BY <2>4, <3>2 DEF Begin, Become, tables
      <4>3. outbox[r].attempts \in 0..MaxAttempts
        BY <2>o, <4>1
      <4>4. d \in Cycles /\ d.pc = "next" /\ d.at = 1 /\ d.run = r
            /\ d.attempt = outbox[r].attempts
        BY <2>c, <4>1, <4>3 DEF Cycles
      <4> HIDE DEF d
      <4>5. CycleFits(d)
        BY <4>1, <4>4 DEF CycleFits, InItem
      <4>6. worker'[w] = d
        BY <1>f, <4>2, <4>5, PutWorker
      <4>7. AttemptKept(w) /\ SeenKept(w) /\ AnswerKept(w)
        BY <4>1, <4>2, <4>4, <4>6 DEF AttemptKept, SeenKept, AnswerKept, At
      <4> QED
        BY <1>f, <4>2, <4>5, <4>7, OneMoves
    <3> QED
      BY <3>1, <3>2
  <2>5. CASE Read(w)
    <3>1. c.pc = "next" /\ ~Over(w) /\ r \in Runs
      BY <2>5, <2>c DEF Read, At
    <3>2. /\ c.at \in Positions(r) /\ Row(w) \in Items /\ Row(w).version \in Nat
      BY <3>1, RowFits DEF At
    <3>3. CASE Done(Row(w))
      <4>1. Become(w, Skip(c))
        BY <2>5, <3>3 DEF Read
      <4> QED
        BY <1>f, <3>1, <4>1, Skips
    <3>4. CASE ~Done(Row(w)) /\ Row(w).status = "publishing" /\ ~Row(w).receipt
      <4> DEFINE d == [c EXCEPT !.pc = "reconcile", !.version = Row(w).version]
      <4>1. worker' = [worker EXCEPT ![w] = d]
        BY <2>5, <3>4 DEF Read, Become
      <4>2. "reconcile" \in Phases
        BY DEF Phases
      <4>3. d \in Cycles /\ d.pc = "reconcile" /\ d.at = c.at /\ d.run = r /\ d.attempt = c.attempt
        BY <2>c, <3>2, <4>2 DEF Cycles
      <4> HIDE DEF d
      <4>4. CycleFits(d)
        BY <3>1, <3>2, <4>3, Nonempty DEF CycleFits
      <4>5. worker'[w] = d
        BY <1>f, <4>1, <4>4, PutWorker
      <4>6. AttemptKept(w) /\ SeenKept(w) /\ AnswerKept(w)
        BY <3>1, <4>3, <4>5 DEF AttemptKept, SeenKept, AnswerKept, Running
      <4> QED
        BY <1>f, <4>1, <4>4, <4>6, OneMoves
    <3>5. CASE ~Done(Row(w)) /\ ~(Row(w).status = "publishing" /\ ~Row(w).receipt)
      <4> DEFINE d == [c EXCEPT !.pc = "take", !.seen = Row(w)]
      <4>1. worker' = [worker EXCEPT ![w] = d] /\ UNCHANGED item
        BY <2>5, <3>5 DEF Read, Become, tables
      <4>2. "take" \in Phases
        BY DEF Phases
      <4>3. d \in Cycles /\ d.pc = "take" /\ d.at = c.at /\ d.run = r /\ d.attempt = c.attempt
            /\ d.seen = Row(w)
        BY <2>c, <3>2, <4>2 DEF Cycles
      <4> HIDE DEF d
      <4>4. CycleFits(d)
        BY <3>1, <3>2, <4>3, Nonempty DEF CycleFits
      <4>5. worker'[w] = d
        BY <1>f, <4>1, <4>4, PutWorker
      <4>6. AttemptKept(w) /\ SeenKept(w) /\ AnswerKept(w)
        BY <3>1, <3>5, <4>1, <4>3, <4>5 DEF AttemptKept, SeenKept, AnswerKept, Running
      <4> QED
        BY <1>f, <4>1, <4>4, <4>6, OneMoves
    <3> QED
      BY <3>3, <3>4, <3>5
  <2>6. CASE Recover(w) \/ PersistPublished(w) \/ PersistFailed(w)
    <3>1. c.pc \in InItem /\ c.pc \in Running
      BY <2>6 DEF Recover, PersistPublished, PersistFailed, At, InItem, Running
    <3>2. Become(w, Skip(c)) \/ Fail(w)
      BY <2>6 DEF Recover, PersistPublished, PersistFailed, Guarded
    <3> QED
      BY <1>f, <3>1, <3>2, Skips, Fails
  <2>7. CASE Take(w)
    <3>1. c.pc = "take" /\ c.pc \in InItem /\ c.pc \in Running
      BY <2>7 DEF Take, At, InItem, Running
    <3> DEFINE d == [c EXCEPT !.pc = "reconcile", !.version = c.seen.version + 1, !.seen = NewItem]
    <3>2. Fail(w) \/ Become(w, d)
      BY <2>7 DEF Take, Guarded
    <3>3. "reconcile" \in Phases /\ NewItem \in Items
      BY DEF Phases, NewItem, Items
    <3>4. c.seen.version + 1 \in Nat
      BY <2>c DEF Cycles, Items
    <3>5. d \in Cycles /\ d.pc = "reconcile" /\ d.at = c.at /\ d.run = r /\ d.attempt = c.attempt
      BY <2>c, <3>3, <3>4 DEF Cycles
    <3>6. ASSUME Become(w, d) PROVE WorkersMove
      <4>1. worker' = [worker EXCEPT ![w] = d]
        BY <3>6 DEF Become
      <4> HIDE DEF d
      <4>2. CycleFits(d)
        BY <2>c, <3>1, <3>5 DEF CycleFits, InItem
      <4>3. worker'[w] = d
        BY <1>f, <4>1, <4>2, PutWorker
      <4>4. AttemptKept(w) /\ SeenKept(w) /\ AnswerKept(w)
        BY <3>1, <3>5, <4>3 DEF AttemptKept, SeenKept, AnswerKept
      <4> QED
        BY <1>f, <4>1, <4>2, <4>4, OneMoves
    <3> QED
      BY <1>f, <3>1, <3>2, <3>6, Fails
  <2>8. CASE Reconcile(w) \/ Preflight(w)
    <3>1. c.pc \in InItem /\ c.pc \in Running /\ c.pc # "idle"
      BY <2>8 DEF Reconcile, Preflight, At, InItem, Running
    <3> DEFINE d == [c EXCEPT !.pc = "answered", !.answer = "published"]
    <3>2. \/ Fail(w) \/ GoTo(w, "preflight") \/ GoTo(w, "execute")
          \/ Become(w, d) /\ Receipts(w) > 0 /\ UNCHANGED receipts
      BY <2>8 DEF Reconcile, Preflight, tables, provided
    <3>3. ASSUME NEW p \in {"preflight", "execute"}, GoTo(w, p) PROVE WorkersMove
      <4>1. p \in Phases /\ p \in InItem
        BY DEF Phases, InItem
      <4>2. /\ worker' = [worker EXCEPT ![w] = [c EXCEPT !.pc = p]]
            /\ CycleFits([c EXCEPT !.pc = p])
            /\ worker'[w].pc = p /\ worker'[w].run = r /\ worker'[w].attempt = c.attempt
        BY <1>f, <3>1, <3>3, <4>1, Goes
      <4>3. AttemptKept(w) /\ SeenKept(w) /\ AnswerKept(w)
        BY <3>1, <4>2 DEF AttemptKept, SeenKept, AnswerKept
      <4> QED
        BY <1>f, <4>2, <4>3, OneMoves
    <3>4. ASSUME Become(w, d), Receipts(w) > 0, UNCHANGED receipts PROVE WorkersMove
      <4>1. worker' = [worker EXCEPT ![w] = d]
        BY <3>4 DEF Become
      <4>2. "answered" \in Phases
        BY DEF Phases
      <4>3. d \in Cycles /\ d.pc = "answered" /\ d.at = c.at /\ d.run = r /\ d.attempt = c.attempt
        BY <2>c, <4>2 DEF Cycles
      <4> HIDE DEF d
      <4>4. CycleFits(d)
        BY <2>c, <3>1, <4>3 DEF CycleFits, InItem
      <4>5. worker'[w] = d
        BY <1>f, <4>1, <4>4, PutWorker
      <4>6. AttemptKept(w) /\ SeenKept(w) /\ AnswerKept(w)
        BY <3>1, <3>4, <4>3, <4>5 DEF AttemptKept, SeenKept, AnswerKept, Receipts
      <4> QED
        BY <1>f, <4>1, <4>4, <4>6, OneMoves
    <3> QED
      BY <1>f, <3>1, <3>2, <3>3, <3>4, Fails
  <2>9. CASE ExecuteBegin(w)
    <3> DEFINE d == [c EXCEPT !.pc = "locking", !.saw = Receipts(w) > 0]
    <3>1. c.pc = "execute" /\ c.pc \in InItem /\ c.pc \in Running
      BY <2>9 DEF ExecuteBegin, At, InItem, Running
    <3>2. worker' = [worker EXCEPT ![w] = d] /\ UNCHANGED receipts
      BY <2>9 DEF ExecuteBegin, Become, tables, provided
    <3>3. "locking" \in Phases /\ (Receipts(w) > 0) \in BOOLEAN
      BY DEF Phases
    <3>4. d \in Cycles /\ d.pc = "locking" /\ d.at = c.at /\ d.run = r /\ d.attempt = c.attempt
      BY <2>c, <3>3 DEF Cycles
    <3>s. d.saw = (Receipts(w) > 0)
      BY <2>c, <3>3 DEF Cycles
    <3> HIDE DEF d
    <3>5. CycleFits(d)
      BY <2>c, <3>1, <3>4 DEF CycleFits, InItem
    <3>6. worker'[w] = d
      BY <1>f, <3>2, <3>5, PutWorker
    <3>7. AttemptKept(w) /\ SeenKept(w) /\ AnswerKept(w)
      BY <3>1, <3>2, <3>4, <3>s, <3>6 DEF AttemptKept, SeenKept, AnswerKept, Receipts
    <3> QED
      BY <1>f, <3>2, <3>5, <3>7, OneMoves
  <2>10. CASE ExecuteCommit(w) \/ Refuse(w)
    <3>1. c.pc \in InItem /\ c.pc \in Running /\ (ExecuteCommit(w) => c.pc = "locking")
      BY <2>10 DEF ExecuteCommit, Refuse, At, InItem, Running
    <3>2. c.at \in Positions(r) /\ Receipts(w) \in Nat
      BY <3>1, RowFits
    <3>3. receipts = [s \in Runs |-> receipts[s]] /\ r \in Runs
          /\ receipts[r] \in [Positions(r) -> Nat]
      BY <2>c, <3>1 DEF Fits, ProvidedFit, ReceiptsFit, Table, InItem
    <3>4. \/ Fail(w)
          \/ Answer(w, "failed")
          \/ Answer(w, "published") /\ receipts'[r][c.at] > 0
      <4>1. CASE Refuse(w)
        BY <4>1 DEF Refuse
      <4>2. CASE ExecuteCommit(w)
        <5>1. CASE c.saw /\ Answer(w, "published") /\ UNCHANGED receipts
          <6>1. Receipts(w) > 0
            BY <3>1, <4>2, <5>1 DEF AnswersBacked, At
          <6>2. receipts'[r][c.at] > 0
            BY <5>1, <6>1 DEF Receipts
          <6> QED
            BY <5>1, <6>2
        <5>2. CASE receipts' = [receipts EXCEPT ![r][c.at] = @ + 1] /\ Answer(w, "published")
          <6>1. receipts'[r][c.at] = receipts[r][c.at] + 1
            BY <3>2, <3>3, <5>2
          <6>2. receipts[r][c.at] + 1 > 0
            BY <3>2 DEF Receipts
          <6> QED
            BY <5>2, <6>1, <6>2
        <5>3. CASE Fail(w)
          BY <5>3
        <5> QED
          BY <4>2, <5>1, <5>2, <5>3 DEF ExecuteCommit
      <4> QED
        BY <2>10, <4>1, <4>2
    <3>5. ASSUME NEW a \in {"published", "failed"}, Answer(w, a),
                 a = "published" => receipts'[r][c.at] > 0
          PROVE WorkersMove
      <4> DEFINE d == [c EXCEPT !.pc = "answered", !.answer = a, !.saw = FALSE]
      <4>1. worker' = [worker EXCEPT ![w] = d]
        BY <3>5 DEF Answer, Become
      <4>2. "answered" \in Phases
        BY DEF Phases
      <4>3. d \in Cycles /\ d.pc = "answered" /\ d.at = c.at /\ d.run = r /\ d.attempt = c.attempt
            /\ d.answer = a
        BY <2>c, <4>2 DEF Cycles
      <4> HIDE DEF d
      <4>4. CycleFits(d)
        BY <2>c, <3>1, <4>3 DEF CycleFits, InItem
      <4>5. worker'[w] = d
        BY <1>f, <4>1, <4>4, PutWorker
      <4>6. AttemptKept(w) /\ SeenKept(w) /\ AnswerKept(w)
        BY <3>1, <3>5, <4>3, <4>5 DEF AttemptKept, SeenKept, AnswerKept
      <4> QED
        BY <1>f, <4>1, <4>4, <4>6, OneMoves
    <3> QED
      BY <1>f, <3>1, <3>4, <3>5, Fails
  <2>11. CASE PersistReceipt(w)
    <3> DEFINE d == [c EXCEPT !.pc = "receipted", !.version = @ + 1]
    <3>1. c.pc = "answered" /\ c.pc \in InItem /\ c.pc \in Running
      BY <2>11 DEF PersistReceipt, At, InItem, Running
    <3>2. Become(w, d) \/ Fail(w)
      BY <2>11 DEF PersistReceipt, Guarded
    <3>3. "receipted" \in Phases /\ c.version \in Nat /\ c.version + 1 \in Nat
      BY <2>c DEF Phases, Cycles
    <3>4. d \in Cycles /\ d.pc = "receipted" /\ d.at = c.at /\ d.run = r /\ d.attempt = c.attempt
      BY <2>c, <3>3 DEF Cycles
    <3>5. ASSUME Become(w, d) PROVE WorkersMove
      <4>1. worker' = [worker EXCEPT ![w] = d]
        BY <3>5 DEF Become
      <4> HIDE DEF d
      <4>2. CycleFits(d)
        BY <2>c, <3>1, <3>4 DEF CycleFits, InItem
      <4>3. worker'[w] = d
        BY <1>f, <4>1, <4>2, PutWorker
      <4>4. AttemptKept(w) /\ SeenKept(w) /\ AnswerKept(w)
        BY <3>1, <3>4, <4>3 DEF AttemptKept, SeenKept, AnswerKept
      <4> QED
        BY <1>f, <4>1, <4>2, <4>4, OneMoves
    <3> QED
      BY <1>f, <3>1, <3>2, <3>5, Fails
  <2>12. CASE Finalize(w)
    <3>1. GoTo(w, "finalized") /\ c.pc = "next" /\ "finalized" \in Phases
      BY <2>12 DEF Finalize, At, Phases
    <3>2. /\ worker' = [worker EXCEPT ![w] = [c EXCEPT !.pc = "finalized"]]
          /\ CycleFits([c EXCEPT !.pc = "finalized"]) /\ worker'[w].pc = "finalized"
      BY <1>f, <3>1, Goes
    <3>3. AttemptKept(w) /\ SeenKept(w) /\ AnswerKept(w)
      BY <3>2 DEF AttemptKept, SeenKept, AnswerKept, Running, InItem
    <3> QED
      BY <1>f, <3>2, <3>3, OneMoves
  <2>13. CASE FinalizeRefused(w) \/ Throw(w)
    <3>1. Fail(w) /\ c.pc \in Running
      BY <2>13 DEF FinalizeRefused, Throw, At, Running, InItem
    <3> QED
      BY <1>f, <3>1, Fails
  <2> QED
    BY <1>2, <2>1, <2>2, <2>3, <2>4, <2>5, <2>6, <2>7, <2>8, <2>9, <2>10, <2>11, <2>12, <2>13
    DEF Cycle
<1> QED
  BY <1>1, <1>2 DEF Next

-----------------------------------------------------------------------------
(* What a step does to the items and the provider's.                          *)

ItemsMove ==
  /\ ItemsFit'
  /\ \A r \in Runs : \A i \in Positions(r) :
       \/ item'[r][i] = item[r][i]
       \/ /\ ~Done(item[r][i]) /\ item'[r][i].version = item[r][i].version + 1
          /\ item'[r][i].receipt \/ item'[r][i].status = "published" => receipts[r][i] > 0

LEMMA NoItemMoves == ASSUME Fits, UNCHANGED item PROVE ItemsMove
BY DEF ItemsMove, Fits, ItemsFit, Table, Positions

LEMMA Writes ==
  ASSUME Fits, NEW w \in Workers, worker[w].pc \in InItem, NEW row \in Items,
         item' = With(item, worker[w].run, worker[w].at,
                      [row EXCEPT !.version = Row(w).version + 1]),
         ~Done(Row(w)),
         row.receipt \/ row.status = "published" => Receipts(w) > 0
  PROVE  ItemsMove
<1> DEFINE r == worker[w].run
           i == worker[w].at
           x == [row EXCEPT !.version = Row(w).version + 1]
<1>1. r \in Runs /\ i \in Positions(r) /\ Row(w).version \in Nat
  BY RowFits
<1>2. Row(w).version + 1 \in Nat
  BY <1>1
<1>3. x \in Items /\ x.version = Row(w).version + 1 /\ x.receipt = row.receipt
      /\ x.status = row.status
  BY <1>2 DEF Items
<1>4. Table(item, Items)
  BY DEF Fits, ItemsFit
<1> HIDE DEF x
<1>5. item' = With(item, r, i, x)
  BY DEF x
<1>6. /\ Table(item', Items) /\ item'[r][i] = x
      /\ \A s \in Runs : \A j \in Positions(s) : s # r \/ j # i => item'[s][j] = item[s][j]
  <2> HIDE DEF r, i
  <2> QED
    BY <1>1, <1>3, <1>4, <1>5, Put
<1>7. ItemsFit'
  BY <1>6 DEF ItemsFit, Table, Positions
<1>8. ASSUME NEW s \in Runs, NEW j \in Positions(s)
      PROVE  \/ item'[s][j] = item[s][j]
             \/ /\ ~Done(item[s][j]) /\ item'[s][j].version = item[s][j].version + 1
                /\ item'[s][j].receipt \/ item'[s][j].status = "published" => receipts[s][j] > 0
  <2>1. CASE s # r \/ j # i
    BY <1>6, <2>1
  <2>2. CASE s = r /\ j = i
    <3>1. ~Done(item[s][j]) /\ item'[s][j].version = item[s][j].version + 1
      BY <1>3, <1>6, <2>2 DEF Row
    <3>2. item'[s][j].receipt \/ item'[s][j].status = "published" => receipts[s][j] > 0
      BY <1>3, <1>6, <2>2 DEF Receipts
    <3> QED
      BY <3>1, <3>2
  <2> QED
    BY <2>1, <2>2
<1> QED
  BY <1>7, <1>8 DEF ItemsMove

LEMMA ItemsStep == ASSUME Inv, Next PROVE ItemsMove
<1>f. Fits
  BY DEF Inv
<1>1. CASE \E r \in Runs : Stage(r) \/ Plan(r) \/ Request(r) \/ Rollback(r) \/ Expire(r)
  <2>1. UNCHANGED item
    BY <1>1 DEF Stage, Plan, Request, Rollback, Expire
  <2> QED
    BY <1>f, <2>1, NoItemMoves
<1>2. ASSUME NEW w \in Workers, Cycle(w) \/ Throw(w) \/ Refuse(w) \/ Crash(w) PROVE ItemsMove
  <2> DEFINE seen == worker[w].seen
  <2>1. CASE UNCHANGED item
    BY <1>f, <2>1, NoItemMoves
  <2>i. ASSUME worker[w].pc \in InItem
        PROVE  /\ Row(w) \in Items /\ worker[w].run \in Runs
               /\ worker[w].at \in Positions(worker[w].run)
    BY <1>f, <2>i, RowFits
  <2>b. ASSUME worker[w].pc \in InItem, Row(w).receipt \/ Row(w).status = "published"
        PROVE  Receipts(w) > 0
    BY <2>i, <2>b DEF Inv, DeliveredIsPublished, Row, Receipts
  <2>2. CASE Recover(w) /\ ~UNCHANGED item
    <3>1. worker[w].pc \in InItem /\ At(w, "take")
      BY <2>2 DEF Recover, At, InItem
    <3>2. /\ Row(w) = seen /\ seen.status = "publishing" /\ seen.receipt
          /\ item' = [item EXCEPT ![worker[w].run][worker[w].at] =
                        [[seen EXCEPT !.status = "published"]
                            EXCEPT !.version = Row(w).version + 1]]
      BY <2>2 DEF Recover, Guarded
    <3> DEFINE row == [seen EXCEPT !.status = "published"]
    <3>3. row \in Items
      BY <2>i, <3>1, <3>2 DEF Items
    <3>4. Receipts(w) > 0
      BY <2>b, <3>1, <3>2
    <3>5. ~Done(Row(w))
      BY <3>2 DEF Done
    <3>6. item' = With(item, worker[w].run, worker[w].at,
                      [row EXCEPT !.version = Row(w).version + 1])
      BY <3>2 DEF With
    <3> HIDE DEF row
    <3> QED
      BY <1>f, <3>1, <3>3, <3>4, <3>5, <3>6, Writes
  <2>3. CASE Take(w) /\ ~UNCHANGED item
    <3>1. worker[w].pc \in InItem /\ At(w, "take")
      BY <2>3 DEF Take, At, InItem
    <3>2. /\ Row(w).version = seen.version /\ seen.status # "publishing"
          /\ item' = [item EXCEPT ![worker[w].run][worker[w].at] =
                        [[Row(w) EXCEPT !.status = "publishing"]
                            EXCEPT !.version = Row(w).version + 1]]
      BY <2>3 DEF Take, Guarded
    <3> DEFINE row == [Row(w) EXCEPT !.status = "publishing"]
    <3>3. row \in Items /\ row.receipt = Row(w).receipt /\ row.status = "publishing"
      BY <2>i, <3>1 DEF Items
    <3>4. ~Done(Row(w))
      BY <3>1, <3>2 DEF Inv, ReadsFenced
    <3>5. row.receipt \/ row.status = "published" => Receipts(w) > 0
      BY <2>b, <3>1, <3>3
    <3>6. item' = With(item, worker[w].run, worker[w].at,
                      [row EXCEPT !.version = Row(w).version + 1])
      BY <3>2 DEF With
    <3> HIDE DEF row
    <3> QED
      BY <1>f, <3>1, <3>3, <3>4, <3>5, <3>6, Writes
  <2>4. CASE PersistReceipt(w) /\ ~UNCHANGED item
    <3>1. worker[w].pc \in InItem /\ At(w, "answered") /\ worker[w].answer = "published"
      BY <2>4 DEF PersistReceipt, At, InItem
    <3>2. /\ Row(w).status = "publishing"
          /\ item' = [item EXCEPT ![worker[w].run][worker[w].at] =
                        [[Row(w) EXCEPT !.receipt = TRUE]
                            EXCEPT !.version = Row(w).version + 1]]
      BY <2>4 DEF PersistReceipt, Guarded
    <3> DEFINE row == [Row(w) EXCEPT !.receipt = TRUE]
    <3>3. row \in Items
      BY <2>i, <3>1 DEF Items
    <3>4. ~Done(Row(w)) /\ Receipts(w) > 0
      BY <3>1, <3>2 DEF Inv, AnswersBacked, Done
    <3>5. item' = With(item, worker[w].run, worker[w].at,
                      [row EXCEPT !.version = Row(w).version + 1])
      BY <3>2 DEF With
    <3> HIDE DEF row
    <3> QED
      BY <1>f, <3>1, <3>3, <3>4, <3>5, Writes
  <2>5. CASE PersistPublished(w) /\ ~UNCHANGED item
    <3>1. worker[w].pc \in InItem
      BY <2>5 DEF PersistPublished, At, InItem
    <3>2. /\ Row(w).status = "publishing" /\ Row(w).receipt
          /\ item' = [item EXCEPT ![worker[w].run][worker[w].at] =
                        [[Row(w) EXCEPT !.status = "published"]
                            EXCEPT !.version = Row(w).version + 1]]
      BY <2>5 DEF PersistPublished, Guarded
    <3> DEFINE row == [Row(w) EXCEPT !.status = "published"]
    <3>3. row \in Items
      BY <2>i, <3>1 DEF Items
    <3>4. ~Done(Row(w)) /\ Receipts(w) > 0
      BY <2>b, <3>1, <3>2 DEF Done
    <3>5. item' = With(item, worker[w].run, worker[w].at,
                      [row EXCEPT !.version = Row(w).version + 1])
      BY <3>2 DEF With
    <3> HIDE DEF row
    <3> QED
      BY <1>f, <3>1, <3>3, <3>4, <3>5, Writes
  <2>6. CASE PersistFailed(w) /\ ~UNCHANGED item
    <3>1. worker[w].pc \in InItem
      BY <2>6 DEF PersistFailed, At, InItem
    <3>2. /\ Row(w).status = "publishing"
          /\ item' = [item EXCEPT ![worker[w].run][worker[w].at] =
                        [[Row(w) EXCEPT !.status = "failed", !.receipt = FALSE]
                            EXCEPT !.version = Row(w).version + 1]]
      BY <2>6 DEF PersistFailed, Guarded, MayFail
    <3> DEFINE row == [Row(w) EXCEPT !.status = "failed", !.receipt = FALSE]
    <3>3. row \in Items /\ ~row.receipt /\ row.status = "failed"
      BY <2>i, <3>1 DEF Items
    <3>4. ~Done(Row(w))
      BY <3>2 DEF Done
    <3>5. item' = With(item, worker[w].run, worker[w].at,
                      [row EXCEPT !.version = Row(w).version + 1])
      BY <3>2 DEF With
    <3> HIDE DEF row
    <3> QED
      BY <1>f, <3>1, <3>3, <3>4, <3>5, Writes
  <2>7. CASE ~(Recover(w) \/ Take(w) \/ PersistReceipt(w) \/ PersistPublished(w)
               \/ PersistFailed(w))
    <3>1. UNCHANGED item
      BY <1>2, <2>7 DEF Cycle, Throw, Refuse, Crash, tables, Resolve, ClaimTaken, ClaimMissed,
         ClaimRefused, Begin, Read, Reconcile, Preflight, ExecuteBegin, ExecuteCommit, Finalize,
         FinalizeRefused, CardMoved, Caught
    <3> QED
      BY <1>f, <3>1, NoItemMoves
  <2> QED
    BY <2>1, <2>2, <2>3, <2>4, <2>5, <2>6, <2>7
<1> QED
  BY <1>1, <1>2 DEF Next

\* A publication: one receipt, and the row of its episode.
Publishes(r, i) ==
  /\ MayExecute(r, i) /\ UNCHANGED stage
  /\ episode' = [episode EXCEPT ![Batch[r][i]] = Shown(r, Batch[r][i])]
  /\ receipts'[r][i] = receipts[r][i] + 1
  /\ \A s \in Runs : \A j \in Positions(s) : s # r \/ j # i => receipts'[s][j] = receipts[s][j]
ProvidedMove ==
  /\ ProvidedFit'
  /\ \/ UNCHANGED episode /\ UNCHANGED stage /\ UNCHANGED receipts
     \/ \E r \in Runs : Stage(r)
     \/ \E r \in Runs : \E i \in Positions(r) : Publishes(r, i)

LEMMA RowsKnown ==
  /\ None \notin Rows
  /\ \A r \in Runs : \A i \in Positions(r) : Batch[r][i] \in Episodes
  /\ \A r \in Staged : r \in Runs /\ Text[r] \in Texts
<1>1. \A r \in Runs : \A i \in Positions(r) : Batch[r][i] \in Episodes
  <2>1. SUFFICES ASSUME NEW r \in Runs, NEW i \in Positions(r) PROVE Batch[r][i] \in Episodes
    OBVIOUS
  <2>2. Batch[r] \in Seq(Episodes)
    BY PublishAssumption DEF PublishAssumption
  <2> QED
    BY <2>1, <2>2 DEF Positions
<1> QED
  BY <1>1, PublishAssumption DEF PublishAssumption, Rows

LEMMA NothingProvided ==
  ASSUME Fits, UNCHANGED episode, UNCHANGED stage, UNCHANGED receipts PROVE ProvidedMove
BY DEF ProvidedMove, Fits, ProvidedFit, EpisodesFit, StagesFit, ReceiptsFit, Table, Positions

LEMMA StageFits == ASSUME Fits, NEW r \in Runs, Stage(r) PROVE ProvidedMove
<1>f. EpisodesFit /\ StagesFit /\ ReceiptsFit
  BY DEF Fits, ProvidedFit
<1>1. /\ r \in Staged /\ UNCHANGED receipts
      /\ episode' = [e \in Episodes |->
           IF Covers(r, e) /\ ~episode[e].published THEN [published |-> FALSE, text |-> Text[r]]
           ELSE episode[e]]
      /\ stage' = [stage EXCEPT ![r] = [i \in Positions(r) |-> episode'[Batch[r][i]]]]
  BY DEF Stage
<1>2. [published |-> FALSE, text |-> Text[r]] \in Rows
  BY <1>1, RowsKnown DEF Rows
<1>3. episode' \in [Episodes -> Rows]
  BY <1>f, <1>1, <1>2 DEF EpisodesFit
<1>4. [i \in Positions(r) |-> episode'[Batch[r][i]]] \in [Positions(r) -> Rows \cup {None}]
  BY <1>3, RowsKnown
<1>5. /\ stage' = [s \in Runs |-> stage'[s]]
      /\ \A s \in Runs : stage'[s] \in [Positions(s) -> Rows \cup {None}]
  BY <1>f, <1>1, <1>4 DEF StagesFit, Table
<1>6. EpisodesFit' /\ StagesFit' /\ ReceiptsFit'
  BY <1>f, <1>1, <1>3, <1>5 DEF EpisodesFit, StagesFit, ReceiptsFit, Table, Positions, Rows
<1> QED
  BY <1>6 DEF ProvidedMove, ProvidedFit

LEMMA CommitFits ==
  ASSUME Fits, NEW w \in Workers, ExecuteCommit(w), ~UNCHANGED receipts PROVE ProvidedMove
<1> DEFINE r == worker[w].run
           i == worker[w].at
<1>1. worker[w].pc \in InItem
  BY DEF ExecuteCommit, At, InItem
<1>2. /\ MayExecute(r, i) /\ UNCHANGED stage
      /\ episode' = [episode EXCEPT ![Batch[r][i]] = Shown(r, Batch[r][i])]
      /\ receipts' = [receipts EXCEPT ![r][i] = @ + 1]
  BY DEF ExecuteCommit, Target
<1>3. r \in Runs /\ i \in Positions(r) /\ Receipts(w) \in Nat
  BY <1>1, RowFits
<1>4. receipts[r][i] + 1 \in Nat
  BY <1>3 DEF Receipts
<1>5. Table(receipts, Nat) /\ EpisodesFit /\ StagesFit
  BY DEF Fits, ProvidedFit, ReceiptsFit
<1>6. receipts' = With(receipts, r, i, receipts[r][i] + 1)
  BY <1>2 DEF With
<1> HIDE DEF r, i
<1>7. /\ Table(receipts', Nat) /\ receipts'[r][i] = receipts[r][i] + 1
      /\ \A s \in Runs : \A j \in Positions(s) :
           s # r \/ j # i => receipts'[s][j] = receipts[s][j]
  BY <1>3, <1>4, <1>5, <1>6, Put
<1>8. Shown(r, Batch[r][i]) \in Rows
  <2>1. Batch[r][i] \in Episodes
    BY <1>3, RowsKnown
  <2>2. episode[Batch[r][i]] \in Rows
    BY <1>5, <2>1 DEF EpisodesFit
  <2> QED
    BY <2>2, RowsKnown DEF Shown, Rows
<1>9. episode' \in [Episodes -> Rows]
  BY <1>2, <1>5, <1>8 DEF EpisodesFit
<1>10. EpisodesFit' /\ StagesFit' /\ ReceiptsFit'
  BY <1>2, <1>5, <1>7, <1>9 DEF EpisodesFit, StagesFit, ReceiptsFit, Table, Positions, Rows
<1>11. Publishes(r, i)
  BY <1>2, <1>7 DEF Publishes
<1> QED
  BY <1>3, <1>10, <1>11 DEF ProvidedMove, ProvidedFit

LEMMA ProvidedStep == ASSUME Fits, Next PROVE ProvidedMove
<1>1. \/ UNCHANGED provided
      \/ \E r \in Runs : Stage(r)
      \/ \E w \in Workers : ExecuteCommit(w)
  BY DEF Next, Plan, Request, Rollback, Expire, Cycle, Throw, Refuse, Crash, tables, Resolve,
     ClaimTaken, ClaimMissed, ClaimRefused, Begin, Read, Recover, Take, Guarded, Reconcile,
     Preflight, ExecuteBegin, PersistReceipt, PersistPublished, PersistFailed, Finalize,
     FinalizeRefused, CardMoved, Caught
<1>2. CASE UNCHANGED provided
  BY <1>2, NothingProvided DEF provided
<1>3. ASSUME NEW w \in Workers, ExecuteCommit(w), UNCHANGED receipts PROVE ProvidedMove
  <2>1. worker[w].pc \in InItem /\ UNCHANGED stage
    BY <1>3 DEF ExecuteCommit, At, InItem
  <2>2. Receipts(w) \in Nat /\ worker[w].run \in Runs /\ worker[w].at \in Positions(worker[w].run)
    BY <2>1, RowFits
  <2>3. receipts' # [receipts EXCEPT ![worker[w].run][worker[w].at] = @ + 1]
    BY <1>3, <2>2 DEF Receipts, Fits, ProvidedFit, ReceiptsFit, Table
  <2>4. UNCHANGED episode
    BY <1>3, <2>3 DEF ExecuteCommit
  <2> QED
    BY <1>3, <2>1, <2>4, NothingProvided
<1> QED
  BY <1>1, <1>2, <1>3, StageFits, CommitFits

-----------------------------------------------------------------------------
(* What a step does to the outbox.                                          *)

BoxMoves(r) ==
  \/ outbox'[r] = outbox[r]
  \/ Request(r) /\ outbox[r].status = "none" /\ outbox'[r].status = "pending"
  \/ /\ outbox[r].status \notin {"none", "delivered"} /\ ~outbox[r].live
     /\ outbox'[r].status = "claimed"
     /\ \E w \in Workers : outbox'[r].by = Name[w] /\ worker'[w].pc = "claimed"
  \/ /\ outbox[r].status \notin {"none", "delivered"} /\ ~outbox[r].live
     /\ outbox'[r].status = "dead_letter"
  \/ /\ outbox[r].status = "claimed"
     /\ outbox'[r].status \in {"failed", "dead_letter", "delivered"}
     /\ \E w \in Workers : /\ worker[w].pc \in Running /\ worker[w].run = r
                           /\ outbox[r].by = Name[w] /\ worker'[w] # worker[w]
                           /\ outbox'[r].status = "delivered" => Finalize(w)
  \/ /\ outbox[r].status = "claimed" /\ outbox'[r].status = "claimed"
     /\ outbox'[r].by = outbox[r].by /\ outbox'[r].attempts = outbox[r].attempts
BoxesMove == OutboxFits' /\ \A r \in Runs : BoxMoves(r)

LEMMA NoBoxMoves == ASSUME OutboxFits, UNCHANGED outbox PROVE BoxesMove
BY DEF BoxesMove, BoxMoves, OutboxFits, BoxFits

LEMMA OneBoxMoves ==
  ASSUME OutboxFits, NEW r \in Runs, NEW b, BoxFits(b), outbox' = [outbox EXCEPT ![r] = b],
         outbox'[r] = b => BoxMoves(r)
  PROVE  BoxesMove /\ outbox'[r] = b
<1>1. /\ outbox' = [s \in Runs |-> outbox'[s]] /\ outbox'[r] = b
      /\ \A s \in Runs : s # r => outbox'[s] = outbox[s]
  BY DEF OutboxFits
<1>2. OutboxFits'
  BY <1>1 DEF OutboxFits, BoxFits
<1>3. ASSUME NEW s \in Runs PROVE BoxMoves(s)
  BY <1>1 DEF BoxMoves
<1> QED
  BY <1>1, <1>2, <1>3 DEF BoxesMove

\* A claim ends without delivery.
LEMMA Releases ==
  ASSUME Fits, NEW w \in Workers, worker[w].pc \in Running, worker'[w] # worker[w],
         NEW attempt \in Nat, Release(worker[w].run, attempt),
         outbox[worker[w].run].status = "claimed", outbox[worker[w].run].by = Name[w]
  PROVE  BoxesMove
<1> DEFINE r == worker[w].run
           q == IF attempt >= MaxAttempts THEN "dead_letter" ELSE "failed"
           b == [outbox[r] EXCEPT !.by = None, !.live = FALSE, !.status = q]
<1>1. r \in Runs
  BY DEF Fits, WorkersFit, CycleFits, Running, InItem
<1>2. OutboxFits /\ BoxFits(outbox[r])
  BY <1>1 DEF Fits, OutboxFits
<1>3. q \in {"dead_letter", "failed"}
  OBVIOUS
<1>4. outbox' = [outbox EXCEPT ![r].by = None, ![r].live = FALSE, ![r].status = q]
  BY DEF Release
<1> HIDE DEF q
<1>5. outbox' = [outbox EXCEPT ![r] = b]
  BY <1>1, <1>2, <1>4 DEF OutboxFits
<1>6. b \in Boxes /\ b.by = None /\ ~b.live /\ b.status = q
  BY <1>2, <1>3 DEF BoxFits, Boxes
<1> HIDE DEF b
<1>7. BoxFits(b)
  BY <1>3, <1>6 DEF BoxFits
<1>8. outbox'[r] = b => BoxMoves(r)
  BY <1>3, <1>6 DEF BoxMoves
<1> QED
  BY <1>1, <1>2, <1>5, <1>7, <1>8, OneBoxMoves

LEMMA BoxesStep == ASSUME Fits, Next PROVE BoxesMove
<1>f. OutboxFits /\ WorkersFit
  BY DEF Fits
<1>0. ASSUME NEW r \in Runs PROVE BoxFits(outbox[r]) /\ outbox[r] \in Boxes
  BY <1>f DEF OutboxFits, BoxFits
<1>1. CASE UNCHANGED outbox
  BY <1>1, <1>f, NoBoxMoves
<1>2. ASSUME NEW r \in Runs, Request(r), ~UNCHANGED outbox PROVE BoxesMove
  <2> DEFINE b == [outbox[r] EXCEPT !.status = "pending"]
  <2>1. outbox[r].status = "none" /\ outbox' = [outbox EXCEPT ![r].status = "pending"]
    BY <1>2 DEF Request
  <2>2. outbox' = [outbox EXCEPT ![r] = b]
    BY <1>f, <2>1 DEF OutboxFits
  <2>3. b \in Boxes /\ b.status = "pending" /\ b.by = outbox[r].by /\ b.live = outbox[r].live
    BY <1>0 DEF Boxes
  <2> HIDE DEF b
  <2>4. BoxFits(b)
    BY <1>0, <2>1, <2>3 DEF BoxFits
  <2>5. outbox'[r] = b => BoxMoves(r)
    BY <1>2, <2>1, <2>3 DEF BoxMoves
  <2> QED
    BY <1>f, <2>2, <2>4, <2>5, OneBoxMoves
<1>3. ASSUME NEW r \in Runs, Expire(r) PROVE BoxesMove
  <2> DEFINE b == [outbox[r] EXCEPT !.live = FALSE]
  <2>1. outbox[r].live /\ outbox' = [outbox EXCEPT ![r].live = FALSE]
    BY <1>3 DEF Expire
  <2>2. outbox' = [outbox EXCEPT ![r] = b]
    BY <1>f, <2>1 DEF OutboxFits
  <2>3. b \in Boxes /\ b.status = outbox[r].status /\ b.by = outbox[r].by /\ ~b.live
        /\ b.attempts = outbox[r].attempts
    BY <1>0 DEF Boxes
  <2> HIDE DEF b
  <2>4. BoxFits(b) /\ outbox[r].status = "claimed"
    BY <1>0, <2>1, <2>3 DEF BoxFits
  <2>5. outbox'[r] = b => BoxMoves(r)
    BY <2>3, <2>4 DEF BoxMoves
  <2> QED
    BY <1>f, <2>2, <2>4, <2>5, OneBoxMoves
<1>4. ASSUME NEW w \in Workers, ClaimTaken(w) PROVE BoxesMove
  <2> DEFINE r == worker[w].run
             b == [outbox[r] EXCEPT !.status = "claimed", !.by = Name[w], !.live = TRUE,
                                    !.attempts = outbox[r].attempts + 1]
  <2>1. /\ worker[w].pc = "resolved" /\ Eligible(r) /\ GoTo(w, "claimed")
        /\ outbox' = [outbox EXCEPT ![r].status = "claimed", ![r].by = Name[w],
                                    ![r].live = TRUE, ![r].attempts = @ + 1]
    BY <1>4 DEF ClaimTaken, At
  <2>2. r \in Runs
    BY <1>f, <2>1 DEF WorkersFit, CycleFits
  <2>3. outbox' = [outbox EXCEPT ![r] = b]
    BY <1>f, <2>1, <2>2 DEF OutboxFits
  <2>4. outbox[r] \in Boxes /\ outbox[r].attempts \in 0..MaxAttempts
        /\ outbox[r].attempts < MaxAttempts /\ MaxAttempts \in Nat
    BY <1>0, <2>1, <2>2, PublishAssumption DEF Boxes, Eligible, PublishAssumption
  <2>5. outbox[r].attempts + 1 \in 0..MaxAttempts
    BY <2>4
  <2>6. Name[w] \in {Name[v] : v \in Workers} /\ Name[w] # None
    BY PublishAssumption DEF PublishAssumption
  <2>7. b \in Boxes /\ b.status = "claimed" /\ b.by = Name[w] /\ b.live
    BY <2>4, <2>5, <2>6 DEF Boxes
  <2> HIDE DEF b
  <2>8. BoxFits(b)
    BY <2>6, <2>7 DEF BoxFits
  <2>9. worker'[w].pc = "claimed"
    <3>1. "claimed" \in Phases
      BY DEF Phases
    <3> QED
      BY <1>f, <2>1, <3>1, Goes
  <2>10. outbox[r].status \notin {"none", "delivered"} /\ ~outbox[r].live
    BY <1>0, <2>1, <2>2 DEF Eligible, Lapsed, BoxFits
  <2>11. outbox'[r] = b => BoxMoves(r)
    BY <2>7, <2>9, <2>10 DEF BoxMoves
  <2> QED
    BY <1>f, <2>2, <2>3, <2>8, <2>11, OneBoxMoves
<1>5. ASSUME NEW w \in Workers, ClaimMissed(w), ~UNCHANGED outbox PROVE BoxesMove
  <2> DEFINE r == worker[w].run
             b == [outbox[r] EXCEPT !.status = "dead_letter", !.by = None, !.live = FALSE]
  <2>1. /\ worker[w].pc = "resolved" /\ (outbox[r].status = "failed" \/ Lapsed(r))
        /\ outbox' = [outbox EXCEPT ![r] = b]
    BY <1>5 DEF ClaimMissed, At
  <2>2. r \in Runs
    BY <1>f, <2>1 DEF WorkersFit, CycleFits
  <2>3. b \in Boxes /\ b.status = "dead_letter" /\ b.by = None /\ ~b.live
    BY <1>0, <2>2 DEF Boxes
  <2> HIDE DEF b
  <2>4. BoxFits(b)
    BY <2>3 DEF BoxFits
  <2>5. outbox[r].status \notin {"none", "delivered"} /\ ~outbox[r].live
    BY <1>0, <2>1, <2>2 DEF Lapsed, BoxFits
  <2>6. outbox'[r] = b => BoxMoves(r)
    BY <2>3, <2>5 DEF BoxMoves
  <2> QED
    BY <1>f, <2>1, <2>2, <2>4, <2>6, OneBoxMoves
<1>6. ASSUME NEW w \in Workers, Finalize(w) PROVE BoxesMove
  <2> DEFINE r == worker[w].run
             b == [outbox[r] EXCEPT !.status = "delivered", !.by = None, !.live = FALSE]
  <2>1. /\ worker[w].pc = "next" /\ worker[w].pc \in Running
        /\ outbox[r].status = "claimed" /\ outbox[r].by = Name[w] /\ GoTo(w, "finalized")
    BY <1>6 DEF Finalize, At, Running, MaySettle, HoldsLease
  <2>2. r \in Runs
    BY <1>f, <2>1 DEF WorkersFit, CycleFits
  <2>3. worker'[w] # worker[w]
    <3>1. "finalized" \in Phases
      BY DEF Phases
    <3>2. worker'[w].pc = "finalized"
      BY <1>f, <2>1, <3>1, Goes
    <3> QED
      BY <2>1, <3>2
  <2>4. CASE outbox' = [outbox EXCEPT ![r].status = "delivered", ![r].by = None, ![r].live = FALSE]
    <3>1. outbox' = [outbox EXCEPT ![r] = b]
      BY <1>f, <2>2, <2>4 DEF OutboxFits
    <3>2. b \in Boxes /\ b.status = "delivered" /\ b.by = None /\ ~b.live
      BY <1>0, <2>2 DEF Boxes
    <3> HIDE DEF b
    <3>3. BoxFits(b)
      BY <3>2 DEF BoxFits
    <3>4. outbox'[r] = b => BoxMoves(r)
      BY <1>6, <2>1, <2>3, <3>2 DEF BoxMoves
    <3> QED
      BY <1>f, <2>2, <3>1, <3>3, <3>4, OneBoxMoves
  <2>5. CASE Release(r, outbox[r].attempts)
    <3>1. outbox[r].attempts \in Nat
      BY <1>0, <2>2, PublishAssumption DEF Boxes, PublishAssumption
    <3> QED
      BY <2>1, <2>3, <2>5, <3>1, Releases
  <2> QED
    BY <1>6, <2>4, <2>5 DEF Finalize
<1>7. ASSUME NEW w \in Workers, Caught(w), ~UNCHANGED outbox PROVE BoxesMove
  <2> DEFINE r == worker[w].run
  <2>1. /\ worker[w].pc = "failing" /\ worker[w].pc \in Running
        /\ outbox[r].status = "claimed" /\ outbox[r].by = Name[w] /\ Finish(w)
        /\ Release(r, worker[w].attempt)
    BY <1>7 DEF Caught, At, Running, MayRelease
  <2>2. worker'[w] # worker[w]
    <3>1. worker'[w].pc = "idle"
      BY <1>f, <2>1, BlankFits, PutWorker DEF Finish, Become
    <3> QED
      BY <2>1, <3>1
  <2>3. worker[w].attempt \in Nat
    BY <1>f, PublishAssumption DEF WorkersFit, CycleFits, Cycles, PublishAssumption
  <2> QED
    BY <2>1, <2>2, <2>3, Releases
<1>8. \/ UNCHANGED outbox
      \/ \E r \in Runs : Request(r) \/ Expire(r)
      \/ \E w \in Workers : ClaimTaken(w) \/ ClaimMissed(w) \/ Finalize(w) \/ Caught(w)
  BY DEF Next, Stage, Plan, Rollback, Cycle, Throw, Refuse, Crash, tables, Resolve, ClaimRefused,
     Begin,
     Read, Recover, Take, Guarded, Reconcile, Preflight, ExecuteBegin, ExecuteCommit,
     PersistReceipt, PersistPublished, PersistFailed, FinalizeRefused, CardMoved
<1> QED
  BY <1>1, <1>2, <1>3, <1>4, <1>5, <1>6, <1>7, <1>8

\* The order of the requested rows.
LEMMA BackFits ==
  ASSUME OrderFits, NEW r \in Runs, ToBack(r), Requested' = Requested \cup {r}
  PROVE  OrderFits'
<1>1. \A a, b : <<a, b>> \in before' <=>
        \/ <<a, b>> \in before /\ a # r /\ b # r
        \/ b = r /\ a \in Requested /\ a # r
  <2>1. before' = {p \in before : p[1] # r /\ p[2] # r} \cup {<<s, r>> : s \in Requested \ {r}}
    BY DEF ToBack
  <2> QED
    BY <2>1
<1>2. before' \subseteq Requested' \X Requested'
  <2>1. ASSUME NEW p \in before' PROVE p \in Requested' \X Requested'
    <3>1. CASE p \in before
      BY <3>1 DEF OrderFits
    <3>2. CASE p \in {<<s, r>> : s \in Requested \ {r}}
      BY <3>2
    <3> QED
      BY <2>1, <3>1, <3>2 DEF ToBack
  <2> QED
    BY <2>1
<1>3. ASSUME NEW a \in Requested', NEW b \in Requested', a # b
      PROVE  (<<a, b>> \in before') # (<<b, a>> \in before')
  <2>1. CASE a = r \/ b = r
    BY <1>1, <1>3, <2>1
  <2>2. CASE a # r /\ b # r
    <3>1. (<<a, b>> \in before' <=> <<a, b>> \in before)
          /\ (<<b, a>> \in before' <=> <<b, a>> \in before)
      BY <1>1, <2>2
    <3>2. a \in Requested /\ b \in Requested
      BY <2>2
    <3>3. (<<a, b>> \in before) # (<<b, a>> \in before)
      BY <1>3, <3>2 DEF OrderFits
    <3> QED
      BY <3>1, <3>3
  <2> QED
    BY <2>1, <2>2
<1>4. ASSUME NEW a \in Requested', NEW b \in Requested', NEW c \in Requested',
             <<a, b>> \in before', <<b, c>> \in before'
      PROVE  <<a, c>> \in before'
  <2>1. b # r /\ a # r /\ a \in Requested /\ b \in Requested /\ <<a, b>> \in before
    BY <1>1, <1>4
  <2>2. CASE c = r
    BY <1>1, <2>1, <2>2
  <2>3. CASE c # r
    <3>1. c \in Requested /\ <<b, c>> \in before
      BY <1>1, <1>4, <2>3
    <3>2. <<a, c>> \in before
      BY <2>1, <3>1 DEF OrderFits
    <3> QED
      BY <1>1, <2>1, <2>3, <3>2
  <2> QED
    BY <2>2, <2>3
<1>5. ASSUME NEW a \in Requested' PROVE <<a, a>> \notin before'
  BY <1>1, <1>5 DEF OrderFits
<1> QED
  BY <1>2, <1>3, <1>4, <1>5 DEF OrderFits

LEMMA OrderStep == ASSUME Fits, Next, BoxesMove PROVE OrderFits'
<1>f. OrderFits
  BY DEF Fits
<1>1. ASSUME UNCHANGED before, Requested' = Requested PROVE OrderFits'
  BY <1>f, <1>1 DEF OrderFits
<1>2. ASSUME \A r \in Runs : ~Request(r) PROVE Requested' = Requested
  <2>1. \A r \in Runs : outbox'[r].status = "none" <=> outbox[r].status = "none"
    BY <1>2 DEF BoxesMove, BoxMoves
  <2> QED
    BY <2>1 DEF Requested
<1>3. ASSUME NEW r \in Runs, Request(r) PROVE OrderFits'
  <2>1. CASE UNCHANGED <<outbox, before>>
    BY <1>1, <2>1 DEF Requested
  <2>2. CASE ToBack(r) /\ outbox' = [outbox EXCEPT ![r].status = "pending"]
    <3>1. outbox'[r].status = "pending" /\ \A s \in Runs : s # r => outbox'[s] = outbox[s]
      BY <2>2 DEF Fits, OutboxFits, BoxFits, Boxes
    <3>2. Requested' = Requested \cup {r}
      BY <3>1 DEF Requested
    <3> QED
      BY <1>f, <2>2, <3>2, BackFits
  <2> QED
    BY <1>3, <2>1, <2>2 DEF Request
<1>4. ASSUME \A r \in Runs : ~Request(r), NEW w \in Workers, Finalize(w) \/ Caught(w)
      PROVE  OrderFits'
  <2> DEFINE r == worker[w].run
  <2>1. UNCHANGED before \/ (ToBack(r) /\ outbox[r].status = "claimed")
    BY <1>4 DEF Finalize, Caught, Release, MaySettle, HoldsLease, MayRelease
  <2>2. r \in Runs
    BY <1>4 DEF Fits, WorkersFit, CycleFits, Finalize, Caught, At
  <2>3. Requested' = Requested
    BY <1>2, <1>4
  <2>4. outbox[r].status = "claimed" => Requested = Requested \cup {r}
    BY <2>2 DEF Requested
  <2> QED
    BY <1>1, <1>f, <2>1, <2>2, <2>3, <2>4, BackFits
<1>5. \/ \E r \in Runs : Request(r)
      \/ \E w \in Workers : Finalize(w) \/ Caught(w)
      \/ UNCHANGED before
  BY DEF Next, Stage, Plan, Rollback, Expire, Cycle, Throw, Refuse, Crash, tables, Resolve,
     ClaimTaken,
     ClaimMissed, ClaimRefused, Begin, Read, Recover, Take, Guarded, Reconcile, Preflight,
     ExecuteBegin, ExecuteCommit, PersistReceipt, PersistPublished, PersistFailed,
     FinalizeRefused, CardMoved
<1> QED
  BY <1>1, <1>2, <1>3, <1>4, <1>5

-----------------------------------------------------------------------------
(* What a step does to the runs, the cards, the owner and the document.     *)

\* A run is published together with its outbox row, whole, and on the hash it
\* was planned on.
Delivers(r) ==
  /\ AllDone(r) /\ run'[r].status = "published" /\ outbox'[r].status = "delivered"
  /\ run[r].expected = last /\ last' = Snapshot[r]
StatusMoves(r) ==
  \/ /\ run'[r].status = "published" <=> run[r].status = "published"
     /\ outbox'[r].status = "delivered" <=> outbox[r].status = "delivered"
  \/ Delivers(r)
RunsMove ==
  /\ RunsFit' /\ \A r \in Runs : StatusMoves(r)
  /\ \A r \in projected' : r \in projected \/ outbox[r].status = "delivered"

LEMMA RunsStep == ASSUME Inv, Next, BoxesMove PROVE RunsMove
<1>f. /\ RunsFit /\ OutboxFits /\ WorkersFit
      /\ owner \in {"workspace", "returned"} /\ last \in Hashes /\ faults \in 0..MaxFaults
      /\ run \in [Runs -> RunRows] /\ projected \subseteq Staged
  BY DEF Inv, Fits, RunsFit
<1>p. \A r \in Runs : run[r].status = "published" <=> outbox[r].status = "delivered"
  BY DEF Inv, DeliveredIsPublished
<1>1. owner' \in {"workspace", "returned"}
  <2>1. UNCHANGED owner \/ owner' = "returned"
    BY DEF Next, Stage, Plan, Request, Rollback, Expire, Cycle, Throw, Refuse, Crash, tables,
       Resolve,
       ClaimTaken, ClaimMissed, ClaimRefused, Begin, Read, Recover, Take, Guarded, Reconcile,
       Preflight, ExecuteBegin, ExecuteCommit, PersistReceipt, PersistPublished, PersistFailed,
       Finalize, FinalizeRefused, CardMoved, Caught
  <2> QED
    BY <1>f, <2>1
<1>2. faults' \in 0..MaxFaults
  <2>1. UNCHANGED faults \/ Fault
    BY DEF Next, Stage, Plan, Request, Rollback, Expire, Cycle, Throw, Refuse, Crash, Resolve,
       ClaimTaken, ClaimMissed, ClaimRefused, Begin, Read, Recover, Take, Guarded, Reconcile,
       Preflight, ExecuteBegin, ExecuteCommit, PersistReceipt, PersistPublished, PersistFailed,
       Finalize, FinalizeRefused, CardMoved, Caught
  <2> QED
    BY <1>f, <2>1, PublishAssumption DEF Fault, PublishAssumption
<1>3. /\ projected' \subseteq Staged
      /\ \A r \in projected' : r \in projected \/ outbox[r].status = "delivered"
  <2>1. UNCHANGED projected \/ \E r \in Runs \cup {None} : Project(r)
    <3>1. UNCHANGED projected \/ \E w \in Workers : Project(worker[w].run)
      BY DEF Next, Stage, Plan, Request, Rollback, Expire, Cycle, Throw, Refuse, Crash, tables,
         Resolve,
         ClaimTaken, ClaimMissed, ClaimRefused, Begin, Read, Recover, Take, Guarded, Reconcile,
         Preflight, ExecuteBegin, ExecuteCommit, PersistReceipt, PersistPublished,
         PersistFailed, Finalize, FinalizeRefused, CardMoved, Caught
    <3>2. \A w \in Workers : worker[w].run \in Runs \cup {None}
      BY <1>f DEF WorkersFit, CycleFits, Cycles
    <3> QED
      BY <3>1, <3>2
  <2> QED
    BY <1>f, <2>1 DEF Project
<1>4. ASSUME NEW w \in Workers, Finalize(w)
      PROVE  /\ run' \in [Runs -> RunRows] /\ last' \in Hashes
             /\ \A s \in Runs : StatusMoves(s)
  <2> DEFINE r == worker[w].run
  <2>1. r \in Runs
    BY <1>4, <1>f DEF Finalize, At, WorkersFit, CycleFits
  <2>2. outbox[r].status = "claimed" /\ run[r].expected = last
    BY <1>4 DEF Finalize, MaySettle, HoldsLease, Current
  <2>3. run' = [run EXCEPT ![r].status = Outcome(r)]
    BY <1>4 DEF Finalize
  <2>4. Outcome(r) \in {"published", "partially_failed", "failed", "publishing"}
    BY DEF Outcome
  <2>5. /\ run' \in [Runs -> RunRows] /\ run'[r].status = Outcome(r)
        /\ \A s \in Runs : s # r => run'[s] = run[s]
    BY <1>f, <2>1, <2>3, <2>4 DEF RunRows
  <2>6. \A s \in Runs : s # r => outbox'[s] = outbox[s]
    BY <1>4, <1>f, <2>1 DEF Finalize, Release, OutboxFits
  <2>7. \A s \in Runs : s # r => StatusMoves(s)
    BY <2>5, <2>6 DEF StatusMoves
  <2>8. CASE /\ Outcome(r) = "published" /\ last' = Snapshot[r]
             /\ outbox' = [outbox EXCEPT ![r].status = "delivered", ![r].by = None,
                                         ![r].live = FALSE]
    <3>1. outbox'[r].status = "delivered"
      BY <1>f, <2>1, <2>8 DEF OutboxFits, BoxFits, Boxes
    <3>2. AllDone(r)
      BY <2>8 DEF Outcome
    <3>3. StatusMoves(r)
      BY <2>2, <2>5, <2>8, <3>1, <3>2 DEF StatusMoves, Delivers
    <3>4. last' \in Hashes
      BY <2>1, <2>8, PublishAssumption DEF PublishAssumption
    <3> QED
      BY <2>5, <2>7, <3>3, <3>4
  <2>9. CASE Outcome(r) # "published" /\ Release(r, outbox[r].attempts) /\ UNCHANGED last
    <3>1. outbox'[r].status # "delivered"
      BY <1>f, <2>1, <2>9 DEF Release, OutboxFits, BoxFits, Boxes
    <3>2. run[r].status # "published"
      BY <1>p, <2>1, <2>2
    <3>3. StatusMoves(r)
      BY <2>2, <2>5, <2>9, <3>1, <3>2 DEF StatusMoves
    <3> QED
      BY <1>f, <2>5, <2>7, <2>9, <3>3
  <2> QED
    BY <1>4, <2>8, <2>9 DEF Finalize
<1>5. ASSUME \A w \in Workers : ~Finalize(w)
      PROVE  /\ run' \in [Runs -> RunRows] /\ last' \in Hashes
             /\ \A s \in Runs : StatusMoves(s)
  <2>1. UNCHANGED last
    BY <1>5 DEF Next, Stage, Plan, Request, Rollback, Expire, Cycle, Throw, Refuse, Crash,
       tables, Resolve,
       ClaimTaken, ClaimMissed, ClaimRefused, Begin, Read, Recover, Take, Guarded, Reconcile,
       Preflight, ExecuteBegin, ExecuteCommit, PersistReceipt, PersistPublished, PersistFailed,
       FinalizeRefused, CardMoved, Caught
  <2>2. UNCHANGED run \/ \E r \in Runs : Plan(r) \/ Request(r)
    BY <1>5 DEF Next, Stage, Rollback, Expire, Cycle, Throw, Refuse, Crash, tables, Resolve,
       ClaimTaken, ClaimMissed, ClaimRefused, Begin, Read, Recover, Take, Guarded, Reconcile,
       Preflight, ExecuteBegin, ExecuteCommit, PersistReceipt, PersistPublished, PersistFailed,
       FinalizeRefused, CardMoved, Caught
  <2>3. \A s \in Runs : outbox'[s].status = "delivered" <=> outbox[s].status = "delivered"
    BY <1>5 DEF BoxesMove, BoxMoves
  <2> DEFINE Kept ==
        /\ run' \in [Runs -> RunRows]
        /\ \A s \in Runs : run'[s].status = "published" <=> run[s].status = "published"
  <2>4. Kept
    <3>1. CASE UNCHANGED run
      BY <1>f, <3>1
    <3>2. ASSUME NEW r \in Runs, Plan(r) PROVE Kept
      <4>1. run' = [run EXCEPT ![r] = [status |-> "ready", expected |-> last]]
            /\ run[r].status = "none"
        BY <3>2 DEF Plan
      <4>2. [status |-> "ready", expected |-> last] \in RunRows
        BY <1>f DEF RunRows
      <4> QED
        BY <1>f, <4>1, <4>2
    <3>3. ASSUME NEW r \in Runs, Request(r) PROVE Kept
      <4>1. run' = [run EXCEPT ![r].status = "publishing"] /\ run[r].status # "published"
        BY <3>3 DEF Request
      <4> QED
        BY <1>f, <4>1 DEF RunRows
    <3> QED
      BY <2>2, <3>1, <3>2, <3>3
  <2>5. \A s \in Runs : StatusMoves(s)
    BY <2>3, <2>4 DEF StatusMoves
  <2> QED
    BY <1>f, <2>1, <2>4, <2>5
<1> QED
  BY <1>1, <1>2, <1>3, <1>4, <1>5 DEF RunsMove, RunsFit

-----------------------------------------------------------------------------
(* Every step preserves the invariant.                                      *)

LEMMA ReadsStep == ASSUME Inv, WorkersMove, ItemsMove PROVE ReadsFenced'
<1>1. SUFFICES ASSUME NEW w \in Workers, worker'[w].pc = "take"
               PROVE  LET seen == worker'[w].seen
                          row == item'[worker'[w].run][worker'[w].at] IN
                      /\ ~Done(seen) /\ seen.version <= row.version
                      /\ seen.version = row.version => row = seen
  BY DEF ReadsFenced, At, Row, Done
<1>2. SeenKept(w) /\ Fits
  BY DEF WorkersMove, Inv
<1>3. CASE worker'[w] = worker[w]
  <2> DEFINE seen == worker[w].seen
             r == worker[w].run
             i == worker[w].at
  <2>1. At(w, "take") /\ worker[w].pc \in InItem
    BY <1>1, <1>3 DEF At, InItem
  <2>2. /\ ~Done(seen) /\ seen.version <= Row(w).version
        /\ seen.version = Row(w).version => Row(w) = seen
    BY <2>1 DEF Inv, ReadsFenced
  <2>3. r \in Runs /\ i \in Positions(r) /\ Row(w).version \in Nat /\ seen.version \in Nat
    BY <1>2, <2>1, RowFits DEF Fits, WorkersFit, CycleFits, Cycles, Items
  <2>4. item'[r][i] = Row(w) \/ item'[r][i].version = Row(w).version + 1
    BY <2>3 DEF ItemsMove, Row
  <2> QED
    BY <1>3, <2>2, <2>3, <2>4
<1>4. CASE /\ UNCHANGED item /\ worker'[w].run = worker[w].run /\ worker'[w].at = worker[w].at
           /\ ~Over(w) /\ worker'[w].seen = Row(w) /\ ~Done(Row(w))
  <2>1. WorkersFit' /\ worker'[w].seen \in Items
    BY DEF WorkersMove, WorkersFit, CycleFits, Cycles
  <2>2. Row(w) = item'[worker'[w].run][worker'[w].at]
    BY <1>4 DEF Row
  <2> QED
    BY <1>4, <2>1, <2>2 DEF Items
<1> QED
  BY <1>1, <1>2, <1>3, <1>4 DEF SeenKept

LEMMA Grows ==
  ASSUME Fits, ProvidedMove, NEW r \in Runs, NEW i \in Positions(r)
  PROVE  /\ receipts[r][i] \in Nat /\ receipts'[r][i] \in Nat
         /\ receipts[r][i] > 0 => receipts'[r][i] > 0
<1>1. receipts[r][i] \in Nat
  BY DEF Fits, ProvidedFit, ReceiptsFit, Table
<1>2. receipts'[r][i] = receipts[r][i] \/ receipts'[r][i] = receipts[r][i] + 1
  BY DEF ProvidedMove, Stage, Publishes
<1> QED
  BY <1>1, <1>2

LEMMA AnswersStep == ASSUME Inv, WorkersMove, ProvidedMove PROVE AnswersBacked'
<1>1. SUFFICES ASSUME NEW w \in Workers,
                      \/ worker'[w].pc = "locking" /\ worker'[w].saw
                      \/ worker'[w].pc = "answered" /\ worker'[w].answer = "published"
               PROVE  receipts'[worker'[w].run][worker'[w].at] > 0
  BY DEF AnswersBacked, At, Receipts
<1>2. AnswerKept(w) /\ Fits
  BY DEF WorkersMove, Inv
<1>3. CASE worker'[w] = worker[w]
  <2>1. worker[w].pc \in InItem /\ Receipts(w) > 0
    BY <1>1, <1>3 DEF Inv, AnswersBacked, At, InItem
  <2>2. worker[w].run \in Runs /\ worker[w].at \in Positions(worker[w].run)
    BY <1>2, <2>1, RowFits
  <2> QED
    BY <1>2, <1>3, <2>1, <2>2, Grows DEF Receipts
<1> QED
  BY <1>1, <1>2, <1>3 DEF AnswerKept

LEMMA DeliveredStep ==
  ASSUME Inv, ItemsMove, ProvidedMove, RunsMove
  PROVE  DeliveredIsPublished'
<1>f. Fits /\ DeliveredIsPublished
  BY DEF Inv
<1>1. ASSUME NEW r \in Runs, NEW i \in Positions(r),
             item'[r][i].receipt \/ item'[r][i].status = "published"
      PROVE  receipts'[r][i] > 0
  <2>1. receipts[r][i] > 0
    BY <1>f, <1>1 DEF DeliveredIsPublished, ItemsMove
  <2> QED
    BY <1>f, <2>1, Grows
<1>2. ASSUME NEW r \in Runs PROVE run'[r].status = "published" <=> outbox'[r].status = "delivered"
  BY <1>f DEF DeliveredIsPublished, RunsMove, StatusMoves, Delivers
<1>3. ASSUME NEW r \in Runs, outbox'[r].status = "delivered" PROVE AllDone(r)'
  <2>1. AllDone(r)
    BY <1>f, <1>3 DEF DeliveredIsPublished, RunsMove, StatusMoves, Delivers
  <2>2. ASSUME NEW i \in Positions(r) PROVE Done(item'[r][i])
    BY <2>1, <2>2 DEF AllDone, ItemsMove
  <2> QED
    BY <2>2 DEF AllDone, Done, Positions
<1>4. ASSUME NEW r \in projected' PROVE outbox'[r].status = "delivered"
  <2>1. r \in Runs
    BY PublishAssumption DEF RunsMove, RunsFit, PublishAssumption
  <2>2. outbox[r].status = "delivered"
    BY <1>f, <1>4 DEF RunsMove, DeliveredIsPublished
  <2> QED
    BY <2>1, <2>2 DEF RunsMove, StatusMoves, Delivers
<1> QED
  BY <1>1, <1>2, <1>3, <1>4 DEF DeliveredIsPublished, Positions

\* A stage that has been published is not written again.
LEMMA StageStays ==
  ASSUME Inv, ProvidedMove, NEW r \in Staged, NEW i \in Positions(r), receipts[r][i] > 0
  PROVE  stage'[r][i] = stage[r][i]
<1>1. r \in Runs /\ StagesFit /\ stage[r][i] # None
  BY RowsKnown DEF Inv, Fits, ProvidedFit, Shows
<1>2. ASSUME NEW s \in Runs, Stage(s) PROVE stage'[r][i] = stage[r][i]
  <2>1. s # r
    BY <1>1, <1>2 DEF Stage, NoStage
  <2> QED
    BY <1>1, <1>2, <2>1 DEF Stage, StagesFit, Table
<1> QED
  BY <1>2 DEF ProvidedMove, Publishes

\* What was put back stays put back.
LEMMA PutBackStays ==
  ASSUME Inv, ProvidedMove, NEW e, NEW t, PutBack(e, t) PROVE PutBack(e, t)'
<1>q. PICK q \in Staged : \E k \in Positions(q) :
        Batch[q][k] = e /\ Text[q] = t /\ Replaces(q, k) /\ receipts[q][k] > 0
  BY DEF PutBack
<1>1. PICK k \in Positions(q) :
        Batch[q][k] = e /\ Text[q] = t /\ Replaces(q, k) /\ receipts[q][k] > 0
  BY <1>q
<1>2. q \in Runs /\ Fits
  BY RowsKnown DEF Inv
<1>3. receipts'[q][k] > 0
  BY <1>1, <1>2, Grows
<1>4. stage'[q][k] = stage[q][k]
  BY <1>1, <1>2, StageStays
<1> QED
  BY <1>1, <1>3, <1>4 DEF PutBack, Replaces, Positions

\* A published row stays published, and a stage leaves it as it is.
LEMMA RowStays ==
  ASSUME Inv, ProvidedMove, NEW e \in Episodes, episode[e].published
  PROVE  /\ episode'[e].published
         /\ \/ episode'[e] = episode[e]
            \/ \E r \in Runs : \E i \in Positions(r) :
                 Publishes(r, i) /\ Batch[r][i] = e /\ episode'[e] = Shown(r, e)
<1>f. EpisodesFit
  BY DEF Inv, Fits, ProvidedFit
<1>1. ASSUME NEW r \in Runs, Stage(r) PROVE episode'[e] = episode[e]
  BY <1>1 DEF Stage
<1>2. ASSUME NEW r \in Runs, NEW i \in Positions(r), Publishes(r, i)
      PROVE  /\ episode'[e].published
             /\ episode'[e] = episode[e] \/ (Batch[r][i] = e /\ episode'[e] = Shown(r, e))
  <2>1. episode' = [episode EXCEPT ![Batch[r][i]] = Shown(r, Batch[r][i])]
    BY <1>2 DEF Publishes
  <2> QED
    BY <1>f, <2>1 DEF EpisodesFit, Shown
<1> QED
  BY <1>1, <1>2 DEF ProvidedMove

LEMMA ShowsStep == ASSUME Inv, ProvidedMove PROVE Shows'
<1>f. Fits /\ EpisodesFit
  BY DEF Inv, Fits, ProvidedFit
<1>1. SUFFICES ASSUME NEW r \in Runs, NEW i \in Positions(r), receipts'[r][i] > 0
               PROVE  episode'[Batch[r][i]].published /\ (r \in Staged => stage'[r][i] # None)
  BY DEF Shows, Positions
<1>2. Batch[r][i] \in Episodes
  BY RowsKnown
<1>3. CASE receipts[r][i] > 0
  <2>1. episode[Batch[r][i]].published /\ (r \in Staged => stage[r][i] # None)
    BY <1>3 DEF Inv, Shows
  <2>2. episode'[Batch[r][i]].published
    BY <1>2, <2>1, RowStays
  <2>3. r \in Staged => stage'[r][i] = stage[r][i]
    BY <1>3, StageStays
  <2> QED
    BY <2>1, <2>2, <2>3
<1>4. CASE ~(receipts[r][i] > 0)
  <2>1. Publishes(r, i)
    BY <1>1, <1>4 DEF ProvidedMove, Stage, Publishes
  <2>2. episode'[Batch[r][i]] = Shown(r, Batch[r][i])
    BY <1>f, <1>2, <2>1 DEF Publishes, EpisodesFit
  <2>3. episode[Batch[r][i]] # None
    BY <1>f, <1>2, RowsKnown DEF EpisodesFit
  <2> QED
    BY <2>1, <2>2, <2>3 DEF Publishes, MayExecute, Shown
<1> QED
  BY <1>3, <1>4

LEMMA SpentStep == ASSUME Inv, ProvidedMove PROVE Spent'
<1>f. Fits /\ EpisodesFit /\ Shows /\ Spent
  BY DEF Inv, Fits, ProvidedFit
<1>1. SUFFICES ASSUME NEW r \in Staged, NEW i \in Positions(r), Replaces(r, i)',
                      receipts'[r][i] > 0
               PROVE  \/ episode'[Batch[r][i]] # stage'[r][i]
                      \/ PutBack(Batch[r][i], stage[r][i].text)'
  BY DEF Spent, Positions
<1> DEFINE e == Batch[r][i]
<1>2. r \in Runs /\ e \in Episodes
  BY RowsKnown
<1>3. PICK t : t = stage'[r][i].text
  OBVIOUS
<1>4. SUFFICES ASSUME episode'[e] = stage'[r][i] PROVE PutBack(e, t)'
  BY <1>3 DEF PutBack, Positions
<1>5. ASSUME NEW q \in Staged, NEW k \in Positions(q), Batch[q][k] = e, Text[q] = t,
             Replaces(q, k)', receipts'[q][k] > 0
      PROVE  PutBack(e, t)'
  BY <1>5 DEF PutBack, Replaces, Positions
<1>6. CASE receipts[r][i] > 0
  <2>1. stage'[r][i] = stage[r][i] /\ Replaces(r, i)
    BY <1>1, <1>6, StageStays DEF Replaces
  <2>2. CASE PutBack(e, t)
    BY <2>2, PutBackStays
  <2>3. CASE ~PutBack(e, t)
    <3>1. episode[e] # stage[r][i] /\ episode[e].published
      BY <1>2, <1>3, <1>6, <1>f, <2>1, <2>3 DEF Spent, Shows
    <3>q. PICK q \in Runs : \E k \in Positions(q) :
            Publishes(q, k) /\ Batch[q][k] = e /\ episode'[e] = Shown(q, e)
      BY <1>2, <1>4, <2>1, <3>1, RowStays
    <3>2. PICK k \in Positions(q) :
            Publishes(q, k) /\ Batch[q][k] = e /\ episode'[e] = Shown(q, e)
      BY <3>q
    <3>3. q \in Staged
      <4>1. SUFFICES ASSUME q \notin Staged PROVE Shown(q, e) = episode[e]
        BY <1>4, <2>1, <3>1, <3>2
      <4> QED
        BY <1>2, <1>f, <3>1, <4>1 DEF Shown, EpisodesFit, Rows
    <3>4. Text[q] = t
      BY <1>3, <1>4, <3>2, <3>3 DEF Shown
    <3>5. stage'[q][k] = episode[e]
      BY <3>2, <3>3 DEF Publishes, MayExecute
    <3>6. Replaces(q, k)'
      BY <1>2, <1>f, <3>1, <3>5, RowsKnown DEF Replaces, EpisodesFit
    <3>7. receipts'[q][k] > 0
      <4>1. receipts[q][k] \in Nat /\ receipts'[q][k] = receipts[q][k] + 1
        BY <1>f, <3>2, Grows DEF Publishes
      <4> QED
        BY <4>1
    <3> QED
      BY <1>5, <3>2, <3>3, <3>4, <3>6, <3>7
  <2> QED
    BY <2>2, <2>3
<1>7. CASE ~(receipts[r][i] > 0)
  <2>1. Publishes(r, i)
    BY <1>1, <1>2, <1>7 DEF ProvidedMove, Stage, Publishes
  <2>2. episode'[e] = Shown(r, e)
    BY <1>2, <1>f, <2>1 DEF Publishes, EpisodesFit
  <2>3. Text[r] = t
    BY <1>3, <1>4, <2>2 DEF Shown
  <2> QED
    BY <1>1, <1>5, <2>3
<1> QED
  BY <1>6, <1>7

\* Rivals are as they were, unless one of the two has just been staged.
LEMMA RivalsStay ==
  ASSUME Inv, ProvidedMove, NEW r \in Staged, NEW s \in Staged, NEW i \in Positions(r),
         NEW j \in Positions(s), Rivals(r, i, s, j)',
         stage'[r][i] = stage[r][i], stage'[s][j] = stage[s][j]
  PROVE  Rivals(r, i, s, j)
<1>1. PICK t : t = stage[r][i].text
  OBVIOUS
<1>2. PutBack(Batch[r][i], t) => PutBack(Batch[r][i], t)'
  BY PutBackStays
<1>3. PutBack(Batch[r][i], stage[r][i].text)' <=> PutBack(Batch[r][i], t)'
  BY <1>1 DEF PutBack, Positions
<1> QED
  BY <1>1, <1>2, <1>3 DEF Rivals, New, Replaces

LEMMA OnceStep == ASSUME Inv, ProvidedMove PROVE PublishedOnce'
<1>f. Fits /\ EpisodesFit /\ StagesFit /\ Shows /\ Spent /\ PublishedOnce
  BY DEF Inv, Fits, ProvidedFit
<1>1. SUFFICES ASSUME NEW r \in Staged, NEW s \in Staged, NEW i \in Positions(r),
                      NEW j \in Positions(s), Rivals(r, i, s, j)'
               PROVE  receipts'[r][i] + (IF r = s /\ i = j THEN 0 ELSE receipts'[s][j]) <= 1
  BY DEF PublishedOnce, Positions
<1>2. r \in Runs /\ s \in Runs /\ Batch[r][i] = Batch[s][j] /\ Batch[r][i] \in Episodes
  BY <1>1, RowsKnown DEF Rivals
<1>3. /\ receipts[r][i] \in Nat /\ receipts'[r][i] \in Nat
      /\ receipts[s][j] \in Nat /\ receipts'[s][j] \in Nat
  BY <1>2, <1>f, Grows
<1>4. CASE stage'[r][i] = stage[r][i] /\ stage'[s][j] = stage[s][j]
  <2>1. Rivals(r, i, s, j)
    BY <1>1, <1>4, RivalsStay
  <2>2. receipts[r][i] + (IF r = s /\ i = j THEN 0 ELSE receipts[s][j]) <= 1
    BY <1>f, <2>1 DEF PublishedOnce
  <2>3. CASE receipts'[r][i] = receipts[r][i] /\ receipts'[s][j] = receipts[s][j]
    BY <2>2, <2>3
  <2>4. ASSUME NEW q \in Runs, NEW k \in Positions(q), Publishes(q, k),
               (q = r /\ k = i) \/ (q = s /\ k = j)
        PROVE  receipts[r][i] = 0 /\ receipts[s][j] = 0
    <3> DEFINE e == Batch[r][i]
    <3>1. episode[e] = stage[q][k] /\ Batch[q][k] = e
      BY <1>2, <2>4 DEF Publishes, MayExecute
    <3>2. CASE New(r, i) /\ New(s, j)
      <4>1. ~episode[e].published
        BY <2>4, <3>1, <3>2 DEF New
      <4> QED
        BY <1>2, <1>3, <1>f, <4>1 DEF Shows
    <3>3. CASE Replaces(r, i) /\ stage[r][i] = stage[s][j] /\ ~PutBack(e, stage[r][i].text)
      <4>1. episode[e] = stage[r][i] /\ episode[e] = stage[s][j] /\ Replaces(s, j)
        BY <2>4, <3>1, <3>3 DEF Replaces
      <4>2. ~(receipts[r][i] > 0)
        BY <1>f, <3>3, <4>1 DEF Spent
      <4>3. ~(receipts[s][j] > 0)
        BY <1>2, <1>f, <3>3, <4>1 DEF Spent
      <4> QED
        BY <1>3, <4>2, <4>3
    <3> QED
      BY <2>1, <3>2, <3>3 DEF Rivals
  <2>5. ASSUME NEW q \in Runs, NEW k \in Positions(q), Publishes(q, k)
        PROVE  receipts'[r][i] + (IF r = s /\ i = j THEN 0 ELSE receipts'[s][j]) <= 1
    <3>1. \A a \in Runs : \A b \in Positions(a) :
            a # q \/ b # k => receipts'[a][b] = receipts[a][b]
      BY <2>5 DEF Publishes
    <3>2. receipts'[q][k] = receipts[q][k] + 1
      BY <2>5 DEF Publishes
    <3>3. CASE ~((q = r /\ k = i) \/ (q = s /\ k = j))
      <4>1. receipts'[r][i] = receipts[r][i] /\ receipts'[s][j] = receipts[s][j]
        BY <1>2, <3>1, <3>3
      <4> QED
        BY <2>3, <4>1
    <3>4. CASE (q = r /\ k = i) \/ (q = s /\ k = j)
      <4>1. receipts[r][i] = 0 /\ receipts[s][j] = 0
        BY <2>4, <2>5, <3>4
      <4>2. CASE r = s /\ i = j
        <5>1. receipts'[r][i] = 1
          BY <3>2, <3>4, <4>1, <4>2
        <5> QED
          BY <4>2, <5>1
      <4>3. CASE ~(r = s /\ i = j)
        <5>1. \/ receipts'[r][i] = 1 /\ receipts'[s][j] = 0
              \/ receipts'[r][i] = 0 /\ receipts'[s][j] = 1
          BY <1>2, <3>1, <3>2, <3>4, <4>1, <4>3
        <5> QED
          BY <4>3, <5>1
      <4> QED
        BY <4>2, <4>3
    <3> QED
      BY <3>3, <3>4
  <2>6. CASE UNCHANGED receipts
    BY <2>3, <2>6
  <2> QED
    BY <2>5, <2>6 DEF ProvidedMove, Stage
<1>5. CASE ~(stage'[r][i] = stage[r][i] /\ stage'[s][j] = stage[s][j])
  <2>1. UNCHANGED receipts
    BY <1>5 DEF ProvidedMove, Publishes, Stage
  <2>2. ASSUME NEW a \in Staged, NEW b \in Positions(a), stage'[a][b] # stage[a][b],
               receipts[a][b] \in Nat
        PROVE  receipts[a][b] = 0
    BY <2>2, StageStays
  <2>3. ASSUME NEW a \in Staged, NEW b \in Positions(a), stage'[a][b] = stage[a][b],
               Rivals(a, b, a, b)'
        PROVE  receipts[a][b] <= 1
    <3>1. Rivals(a, b, a, b)
      BY <2>3, RivalsStay
    <3>2. receipts[a][b] + 0 <= 1
      BY <1>f, <3>1 DEF PublishedOnce
    <3>3. receipts[a][b] \in Nat
      BY <1>f, RowsKnown DEF ProvidedFit, Fits, ReceiptsFit, Table
    <3> QED
      BY <3>2, <3>3
  <2>4. Rivals(r, i, r, i)'
    BY <1>1 DEF Rivals, New, Replaces
  <2>5. Rivals(s, j, s, j)'
    <3>1. CASE New(r, i)' /\ New(s, j)'
      BY <3>1 DEF Rivals, New
    <3>2. CASE Replaces(r, i)' /\ stage'[r][i] = stage'[s][j]
               /\ ~PutBack(Batch[r][i], stage[r][i].text)'
      <4>1. PICK t : t = stage'[r][i].text
        OBVIOUS
      <4>2. ~PutBack(Batch[r][i], t)' /\ t = stage'[s][j].text
        BY <3>2, <4>1 DEF PutBack, Positions
      <4>3. ~PutBack(Batch[s][j], stage[s][j].text)'
        BY <1>2, <4>2 DEF PutBack, Positions
      <4> QED
        BY <3>2, <4>3 DEF Rivals, Replaces
    <3> QED
      BY <1>1, <3>1, <3>2 DEF Rivals
  <2>6. receipts[r][i] <= 1 /\ receipts[s][j] <= 1
    BY <1>3, <2>2, <2>3, <2>4, <2>5
  <2>7. receipts[r][i] = 0 \/ receipts[s][j] = 0
    BY <1>3, <1>5, <2>2
  <2> QED
    BY <1>3, <2>1, <2>6, <2>7
<1> QED
  BY <1>4, <1>5

\* All that a step does.
Moves == WorkersMove /\ ItemsMove /\ ProvidedMove /\ BoxesMove /\ RunsMove

LEMMA Step == ASSUME Inv, Next PROVE Moves /\ Inv'
<1>1. Fits /\ AnswersBacked
  BY DEF Inv
<1>2. WorkersMove /\ ItemsMove /\ ProvidedMove
  BY <1>1, WorkersStep, ItemsStep, ProvidedStep
<1>3. BoxesMove
  BY <1>1, BoxesStep
<1>4. RunsMove /\ OrderFits'
  BY <1>1, <1>3, RunsStep, OrderStep
<1>5. Fits'
  BY <1>2, <1>3, <1>4 DEF Fits, WorkersMove, ItemsMove, ProvidedMove, BoxesMove, RunsMove
<1>6. ReadsFenced' /\ AnswersBacked' /\ DeliveredIsPublished'
  BY <1>2, <1>4, ReadsStep, AnswersStep, DeliveredStep
<1>7. Shows' /\ Spent' /\ PublishedOnce'
  BY <1>2, ShowsStep, SpentStep, OnceStep
<1> QED
  BY <1>2, <1>3, <1>4, <1>5, <1>6, <1>7 DEF Moves, Inv

LEMMA Start == Init => Inv
<1>1. SUFFICES ASSUME Init PROVE Inv
  OBVIOUS
<1>2. NewItem \in Items /\ NewItem.status = "pending" /\ NewItem.receipt = FALSE
  BY DEF NewItem, Items
<1>3. NoRow \in Boxes /\ NoRow.status = "none" /\ NoRow.by = None /\ NoRow.live = FALSE
  BY PublishAssumption DEF PublishAssumption, NoRow, Boxes
<1>4. RunsFit
  <2>1. FirstHash \in Hashes /\ 0 \in 0..MaxFaults
    BY PublishAssumption DEF PublishAssumption
  <2>2. [status |-> "none", expected |-> FirstHash] \in RunRows
    BY <2>1 DEF RunRows
  <2> QED
    BY <1>1, <2>1, <2>2 DEF Init, RunsFit
<1>5. ItemsFit /\ \A r \in Runs : \A i \in Positions(r) : item[r][i] = NewItem
  BY <1>1, <1>2 DEF Init, ItemsFit, Table
<1>6. ReceiptsFit /\ \A r \in Runs : \A i \in Positions(r) : receipts[r][i] = 0
  BY <1>1 DEF Init, ReceiptsFit, Table
<1>7. /\ outbox = [r \in Runs |-> outbox[r]] /\ \A r \in Runs : outbox[r] = NoRow
  BY <1>1 DEF Init
<1>8. OutboxFits
  BY <1>3, <1>7 DEF OutboxFits, BoxFits
<1>9. OrderFits
  <2>1. Requested = {} /\ before = {}
    BY <1>1, <1>3, <1>7 DEF Init, Requested
  <2> QED
    BY <2>1 DEF OrderFits
<1>10. WorkersFit /\ \A w \in Workers : worker[w].pc = "idle"
  BY <1>1, BlankFits DEF Init, WorkersFit
<1>11. ReadsFenced /\ AnswersBacked
  BY <1>10 DEF ReadsFenced, AnswersBacked, At
<1>12. DeliveredIsPublished
  <2>1. \A r \in Runs : run[r].status = "none" /\ outbox[r].status = "none"
    BY <1>1, <1>3, <1>7 DEF Init
  <2>2. projected = {}
    BY <1>1 DEF Init
  <2> QED
    BY <1>2, <1>5, <2>1, <2>2 DEF DeliveredIsPublished
<1>13. Shows /\ Spent /\ PublishedOnce
  BY <1>6, RowsKnown DEF Shows, Spent, PublishedOnce
<1>14. EpisodesFit
  BY <1>1, PublishAssumption DEF Init, PublishAssumption, EpisodesFit, Rows
<1>15. StagesFit
  BY <1>1 DEF Init, StagesFit, Table, NoStage
<1>16. ProvidedFit
  BY <1>6, <1>14, <1>15 DEF ProvidedFit
<1> QED
  BY <1>4, <1>5, <1>8, <1>9, <1>10, <1>11, <1>12, <1>13, <1>16 DEF Inv, Fits

LEMMA Stutter == ASSUME Inv, UNCHANGED vars PROVE Inv'
<1>1. /\ UNCHANGED <<owner, last, run, projected, faults>> /\ UNCHANGED item
      /\ UNCHANGED outbox /\ UNCHANGED before /\ UNCHANGED worker
  BY DEF vars
<1>p. UNCHANGED episode /\ UNCHANGED stage /\ UNCHANGED receipts
  BY DEF vars, provided
<1>f. Fits
  BY DEF Inv
<1>m. ProvidedMove /\ ProvidedFit'
  BY <1>f, <1>p, NothingProvided DEF ProvidedMove
<1>2. RunsFit' /\ ItemsFit'
  BY <1>1 DEF Inv, Fits, RunsFit, ItemsFit, Table, Positions
<1>3. OutboxFits' /\ OrderFits' /\ WorkersFit'
  BY <1>1 DEF Inv, Fits, OutboxFits, BoxFits, OrderFits, Requested, WorkersFit, CycleFits, Positions
<1>4. ReadsFenced' /\ AnswersBacked'
  BY <1>1, <1>p DEF Inv, ReadsFenced, AnswersBacked, At, Row, Receipts, Done
<1>5. DeliveredIsPublished'
  BY <1>1, <1>p DEF Inv, DeliveredIsPublished, AllDone, Done, Positions
<1>6. Shows' /\ Spent' /\ PublishedOnce'
  BY <1>m, ShowsStep, SpentStep, OnceStep
<1> QED
  BY <1>2, <1>3, <1>4, <1>5, <1>6, <1>m DEF Inv, Fits

(* The invariant holds throughout: types, the order of the outbox rows, what
   workers have read and heard, and the two safety properties of the tables. *)
THEOREM Invariant == Spec => []Inv
<1>1. Init => Inv
  BY Start
<1>2. Inv /\ [Next]_vars => Inv'
  BY Step, Stutter
<1> QED
  BY <1>1, <1>2, PTL DEF Spec

(* Every table and every worker's local data have their types throughout, the
   requested rows are in one order, and only a claimed row has a lease
   (publishExecution.service.ts, the publish tables of schema.ts). *)
THEOREM Typed == Spec => []TypeOK
<1>1. Inv => TypeOK
  <2>1. SUFFICES ASSUME Inv PROVE TypeOK
    OBVIOUS
  <2>2. /\ RunsFit /\ ItemsFit /\ ReceiptsFit /\ StagesFit /\ EpisodesFit /\ OrderFits
        /\ worker \in [Workers -> Cycles] /\ outbox \in [Runs -> Boxes]
        /\ \A r \in Runs : BoxFits(outbox[r])
    BY <2>1 DEF Inv, Fits, ProvidedFit, WorkersFit, CycleFits, OutboxFits, BoxFits
  <2>3. /\ owner \in {"workspace", "returned"} /\ last \in Hashes /\ faults \in 0..MaxFaults
        /\ run \in [Runs -> RunRows] /\ projected \subseteq Staged
    BY <2>2 DEF RunsFit
  <2>4. \A r \in Runs : /\ item[r] \in [Positions(r) -> Items]
                        /\ receipts[r] \in [Positions(r) -> Nat]
                        /\ stage[r] \in [Positions(r) -> Rows \cup {None}]
                        /\ outbox[r].live => outbox[r].by # None
                        /\ (outbox[r].by # None) = (outbox[r].status = "claimed")
    BY <2>2 DEF ItemsFit, ReceiptsFit, StagesFit, Table, BoxFits
  <2> QED
    BY <2>2, <2>3, <2>4 DEF TypeOK, EpisodesFit, RunRows, Boxes, Cycles, OrderFits
<1> QED
  BY <1>1, Invariant, PTL

(* For any number of workers, runs, drafts and faults: a new episode has one
   receipt at most, whatever stages were made of it, and of the replacements
   staged over one published row one at most is published, unless another
   replacement has put the text of that row back (ipenovelPublish.provider.ts:
   the locked episode against the state recorded at the stage). *)
THEOREM PublishedOnceAlways == Spec => []PublishedOnce
<1>1. Inv => PublishedOnce
  BY DEF Inv
<1> QED
  BY <1>1, Invariant, PTL

(* A receipt stored and a status "published" are the provider's, run and outbox
   row say the same, a delivered run is published whole, and a card moves only
   then (persistItemResult, finalizePublishExecution,
   reconcileEditorialPublishRun). *)
THEOREM DeliveredIsPublishedAlways == Spec => []DeliveredIsPublished
<1>1. Inv => DeliveredIsPublished
  BY DEF Inv
<1> QED
  BY <1>1, Invariant, PTL

-----------------------------------------------------------------------------
(* Claims, when every worker calls itself differently.                      *)

LEMMA AttemptsStart == Init => AttemptsKnown
BY DEF Init, AttemptsKnown, Blank, Running, InItem

LEMMA AttemptsStep == ASSUME OwnNames, Inv, AttemptsKnown, Next PROVE AttemptsKnown'
<1>1. Moves
  BY Step
<1>2. SUFFICES ASSUME NEW w \in Workers, worker'[w].pc \in Running,
                      outbox'[worker'[w].run].status = "claimed",
                      outbox'[worker'[w].run].by = Name[w]
               PROVE  worker'[w].attempt = outbox'[worker'[w].run].attempts
  BY DEF AttemptsKnown
<1> DEFINE r == worker[w].run
<1>3. AttemptKept(w)
  BY <1>1 DEF Moves, WorkersMove
<1>4. CASE At(w, "claimed") /\ UNCHANGED outbox /\ worker'[w].run = r
           /\ worker'[w].attempt = outbox[r].attempts
  BY <1>4
<1>5. CASE worker[w].pc \in Running /\ worker'[w].run = r /\ worker'[w].attempt = worker[w].attempt
  <2>1. r \in Runs
    BY <1>5 DEF Inv, Fits, WorkersFit, CycleFits, Running, InItem
  <2>2. outbox'[r].status = "claimed" /\ outbox'[r].by = Name[w]
    BY <1>2, <1>5
  <2>3. \A v \in Workers : outbox'[r].by = Name[v] => worker'[v].pc # "claimed"
    <3>1. worker'[w].pc # "claimed"
      BY <1>2 DEF Running, InItem
    <3> QED
      BY <2>2, <3>1 DEF OwnNames
  <2>4. /\ outbox[r].status = "claimed" /\ outbox[r].by = Name[w]
        /\ outbox'[r].attempts = outbox[r].attempts
    <3>1. BoxMoves(r)
      BY <1>1, <2>1 DEF Moves, BoxesMove
    <3> QED
      BY <2>2, <2>3, <3>1 DEF BoxMoves
  <2>5. worker[w].attempt = outbox[r].attempts
    BY <1>5, <2>4 DEF AttemptsKnown
  <2> QED
    BY <1>5, <2>4, <2>5
<1> QED
  BY <1>2, <1>3, <1>4, <1>5 DEF AttemptKept

LEMMA AttemptsAlways == ASSUME OwnNames PROVE Spec => []AttemptsKnown
<1>1. Inv /\ AttemptsKnown /\ [Next]_vars => AttemptsKnown'
  <2>1. AttemptsKnown /\ UNCHANGED vars => AttemptsKnown'
    BY DEF AttemptsKnown, vars
  <2> QED
    BY <2>1, AttemptsStep
<1> QED
  BY <1>1, AttemptsStart, Invariant, PTL DEF Spec

(* Where every worker has a lease owner's name of its own: whatever leases are
   lost and whatever base a run was planned on, a published item stays as it
   is, a live claim is ended only by the worker and the attempt it belongs to,
   and a run becomes published only on the hash it was planned on
   (publishExecution.service.ts: the guards of persistItemResult, of the catch
   block and of finalizePublishExecution). *)
THEOREM LateStepsHarmlessAlways == ASSUME OwnNames PROVE Spec => LateStepsHarmless
<1> DEFINE Harmless(r) ==
      /\ \A i \in Positions(r) : Done(item[r][i]) => item'[r][i] = item[r][i]
      /\ outbox[r].live /\ outbox'[r].status # "claimed"
           => \E w \in Workers : Claimer(w, r) /\ worker'[w] # worker[w]
      /\ run[r].status # "published" /\ run'[r].status = "published"
           => run[r].expected = last /\ last' = Snapshot[r]
<1>1. ASSUME Inv, AttemptsKnown, Next, NEW r \in Runs PROVE Harmless(r)
  <2>1. Moves
    BY <1>1, Step
  <2>2. \A i \in Positions(r) : Done(item[r][i]) => item'[r][i] = item[r][i]
    BY <2>1 DEF Moves, ItemsMove
  <2>3. ASSUME outbox[r].live, outbox'[r].status # "claimed"
        PROVE  \E w \in Workers : Claimer(w, r) /\ worker'[w] # worker[w]
    <3>1. outbox[r].status = "claimed"
      BY <1>1, <2>3 DEF Inv, Fits, OutboxFits, BoxFits
    <3>2. BoxMoves(r)
      BY <2>1 DEF Moves, BoxesMove
    <3>3. PICK w \in Workers : /\ worker[w].pc \in Running /\ worker[w].run = r
                               /\ outbox[r].by = Name[w] /\ worker'[w] # worker[w]
      BY <2>3, <3>1, <3>2 DEF BoxMoves
    <3>4. worker[w].attempt = outbox[r].attempts
      BY <1>1, <3>1, <3>3 DEF AttemptsKnown
    <3> QED
      BY <3>3, <3>4 DEF Claimer
  <2>4. run[r].status # "published" /\ run'[r].status = "published"
          => run[r].expected = last /\ last' = Snapshot[r]
    BY <2>1 DEF Moves, RunsMove, StatusMoves, Delivers
  <2> QED
    BY <2>2, <2>3, <2>4
<1>2. Inv /\ AttemptsKnown /\ Next => \A r \in Runs : Harmless(r)
  BY <1>1
<1>3. Inv /\ AttemptsKnown /\ [Next]_vars => [\A r \in Runs : Harmless(r)]_vars
  BY <1>2
<1>4. Spec => [][\A r \in Runs : Harmless(r)]_vars
  <2> HIDE DEF Harmless
  <2> QED
    BY <1>3, AttemptsAlways, Invariant, PTL DEF Spec
<1> QED
  BY <1>4 DEF LateStepsHarmless
=============================================================================
