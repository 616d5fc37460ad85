---------------------------- MODULE PluginTokens ----------------------------
(***************************************************************************)
(* The OAuth tokens of one plugin for one user (server/plugin/oauth/       *)
(* service.ts over server/plugin/store.ts): a consent mints a single-use   *)
(* code, the code buys a pair of an access and a refresh token, a refresh  *)
(* token is rotated into a new pair, a rotated one that comes back is      *)
(* taken for stolen and kills all pairs, and so does a revocation.         *)
(*                                                                         *)
(* All pairs belong to one authorization row, (user, client) being unique. *)
(* Rotation and reuse detection are transactions that start by locking the *)
(* refresh row presented; code exchange and revocation are statements that *)
(* each commit by themselves.  An UPDATE of all tokens waits for every row *)
(* another transaction wrote or locked, and misses rows inserted later;    *)
(* InnoDB makes those inserts wait for the transaction of the UPDATE       *)
(* (GapLocks), TiDB does not.                                              *)
(***************************************************************************)
EXTENDS Naturals

CONSTANTS
  Consents,   \* consent attempts, each with the code it may mint
  Pairs,      \* token pairs that may be issued
  Requests,   \* handlers that run at the same time
  None,       \* no consent
  GapLocks    \* whether an UPDATE also locks the gaps of the index it scans

ASSUME TokensAssumption ==
  /\ None \notin Consents \cup Pairs \cup Requests
  /\ Consents \cap Pairs = {} /\ GapLocks \in BOOLEAN

VARIABLES
  attempt,  \* consent attempts: open, or consumed
  code,     \* authorization codes: how many were minted, how many exchanged
  access,   \* pluginAccessGrants, by pair
  refresh,  \* pluginRefreshGrants, by pair
  origin,   \* ghost: the consent a pair descends from
  parent,   \* ghost: what the pair was issued for, a consent or a pair
  reused,   \* ghost: origins with a reuse detected and committed
  revoked,  \* ghost: origins with a revocation answered
  req       \* what every handler is doing

tokens == <<access, refresh>>
lineage == <<origin, parent>>
vars == <<attempt, code, tokens, lineage, reused, revoked, req>>

\* A handler's local data: its consent, the refresh token presented, the pair
\* it issues and the access rows its UPDATE changed.
Blank == [pc |-> "idle", consent |-> None, old |-> None, new |-> None, hit |-> {}]
Phases == {"idle", "decide", "claimed", "half", "locked", "inserted", "rotatedAgain",
           "accessKilled", "find", "accessDone"}

\* An access token is over when it is revoked, past its hour or swept.
AccessStates == {"none", "live", "over"}
RefreshStates == {"none", "live", "expired", "revoked", "swept"}

TypeOK ==
  /\ attempt \in [Consents -> {"open", "consumed"}]
  /\ code \in [Consents -> [minted: Nat, spent: Nat]]
  /\ access \in [Pairs -> AccessStates] /\ refresh \in [Pairs -> RefreshStates]
  /\ origin \in [Pairs -> Consents \cup {None}]
  /\ parent \in [Pairs -> Consents \cup Pairs \cup {None}]
  /\ reused \subseteq Consents /\ revoked \subseteq Consents
  /\ req \in [Requests -> [pc: Phases, consent: Consents \cup {None},
                           old: Pairs \cup {None}, new: Pairs \cup {None},
                           hit: SUBSET Pairs]]
  /\ \A p \in Pairs : refresh[p] # "none" => access[p] # "none"

Init ==
  /\ attempt = [c \in Consents |-> "open"]
  /\ code = [c \in Consents |-> [minted |-> 0, spent |-> 0]]
  /\ access = [p \in Pairs |-> "none"] /\ refresh = [p \in Pairs |-> "none"]
  /\ origin = [p \in Pairs |-> None] /\ parent = [p \in Pairs |-> None]
  /\ reused = {} /\ revoked = {}
  /\ req = [r \in Requests |-> Blank]

At(r, phase) == req[r].pc = phase
Become(r, c) == req' = [req EXCEPT ![r] = c]
Finish(r) == Become(r, Blank)
GoTo(r, phase) == Become(r, [req[r] EXCEPT !.pc = phase])

-----------------------------------------------------------------------------
(* Locks.  Only the two transactions hold any beyond a statement.           *)

Rotating(q) == req[q].pc \in {"locked", "inserted"}
Detecting(q) == req[q].pc \in {"rotatedAgain", "accessKilled"}
RowFree(r, p) == \A q \in Requests \ {r} : Rotating(q) \/ Detecting(q) => req[q].old # p
\* All access rows can be written: none is inserted or changed but uncommitted.
AccessFree(r) == \A q \in Requests \ {r} : ~At(q, "inserted") /\ ~At(q, "accessKilled")
RefreshFree(r) == \A q \in Requests \ {r} : ~Rotating(q) /\ ~Detecting(q)
\* assertAccountMergeClassifiedMutationAllowed, before every insert, locks the
\* users row, which a rotation then holds to its commit.
UserFree(r) == \A q \in Requests \ {r} : ~At(q, "inserted")
\* A row can be inserted among the access rows.
MayInsertAccess(r) ==
  /\ UserFree(r)
  /\ GapLocks => \A q \in Requests \ {r} : ~At(q, "accessKilled")

LiveAccess == {p \in Pairs : access[p] = "live"}
\* The UPDATEs of the rows not revoked yet, expired refresh rows included.
KillAccess(S) == [p \in Pairs |-> IF p \in S \cap LiveAccess THEN "over" ELSE access[p]]
KillRefresh == [p \in Pairs |-> IF refresh[p] \in {"live", "expired"} THEN "revoked" ELSE refresh[p]]

\* A pair no row and no transaction uses yet.
Unused(p) == access[p] = "none" /\ \A q \in Requests : req[q].new # p

-----------------------------------------------------------------------------
(* Consent: the attempt is consumed first, then checked, then a code minted. *)

\* consumePluginConsentAttempt: one conditional UPDATE decides the winner.
ConsentClaim(r, c) ==
  /\ At(r, "idle") /\ attempt[c] = "open"
  /\ attempt' = [attempt EXCEPT ![c] = "consumed"]
  /\ Become(r, [Blank EXCEPT !.pc = "decide", !.consent = c])
  /\ UNCHANGED <<code, tokens, lineage, reused, revoked>>

\* Approved by its own user in time: upsertPluginAuthorizationScope and
\* createPluginAuthorizationCode.  Anything else burns the attempt (Fail).
ConsentApprove(r) ==
  /\ At(r, "decide") /\ UserFree(r)
  /\ code' = [code EXCEPT ![req[r].consent].minted = @ + 1]
  /\ Finish(r)
  /\ UNCHANGED <<attempt, tokens, lineage, reused, revoked>>

-----------------------------------------------------------------------------
(* Code exchange: three statements without a transaction.                   *)

\* mutant: a code already exchanged is taken again.
ExchangeClaimReplayed(r, c) ==
  /\ At(r, "idle") /\ code[c].minted > 0 /\ code[c].spent < 2
  /\ code' = [code EXCEPT ![c].spent = @ + 1]
  /\ Become(r, [Blank EXCEPT !.pc = "claimed", !.consent = c])
  /\ UNCHANGED <<attempt, tokens, lineage, reused, revoked>>

\* consumePluginAuthorizationCode.
ExchangeClaim(r, c) ==
  /\ At(r, "idle") /\ code[c].spent < code[c].minted
  /\ code' = [code EXCEPT ![c].spent = @ + 1]
  /\ Become(r, [Blank EXCEPT !.pc = "claimed", !.consent = c])
  /\ UNCHANGED <<attempt, tokens, lineage, reused, revoked>>

\* mutant: the refresh token is inserted first.
ExchangeRefreshFirst(r, p) ==
  /\ At(r, "claimed") /\ Unused(p)
  /\ refresh' = [refresh EXCEPT ![p] = "live"]
  /\ origin' = [origin EXCEPT ![p] = req[r].consent]
  /\ parent' = [parent EXCEPT ![p] = req[r].consent]
  /\ Become(r, [req[r] EXCEPT !.pc = "half", !.new = p])
  /\ UNCHANGED <<attempt, code, access, reused, revoked>>

\* Client, redirect and PKCE are right; issueGrant's first insert.
ExchangeAccess(r, p) ==
  /\ At(r, "claimed") /\ Unused(p) /\ MayInsertAccess(r)
  /\ access' = [access EXCEPT ![p] = "live"]
  /\ origin' = [origin EXCEPT ![p] = req[r].consent]
  /\ parent' = [parent EXCEPT ![p] = req[r].consent]
  /\ Become(r, [req[r] EXCEPT !.pc = "half", !.new = p])
  /\ UNCHANGED <<attempt, code, refresh, reused, revoked>>

\* issueGrant's second insert.
ExchangeRefresh(r) ==
  /\ At(r, "half") /\ UserFree(r)
  /\ refresh' = [refresh EXCEPT ![req[r].new] = "live"]
  /\ Finish(r)
  /\ UNCHANGED <<attempt, code, access, lineage, reused, revoked>>

-----------------------------------------------------------------------------
(* Refresh: one transaction, which rotates or detects a reuse.              *)

\* findPluginRefreshTokenByIdForUpdate on a row found by its hash.
RefreshLock(r, p) ==
  /\ At(r, "idle") /\ refresh[p] \in {"live", "revoked"} /\ RowFree(r, p)
  /\ Become(r, [Blank EXCEPT !.old = p,
       !.pc = IF refresh[p] = "live" THEN "locked" ELSE "rotatedAgain"])
  /\ UNCHANGED <<attempt, code, tokens, lineage, reused, revoked>>

\* revokePluginRefreshToken and issueGrant's first insert, not yet committed.
RotateInsert(r, p) ==
  /\ At(r, "locked") /\ Unused(p) /\ MayInsertAccess(r)
  /\ Become(r, [req[r] EXCEPT !.pc = "inserted", !.new = p])
  /\ UNCHANGED <<attempt, code, tokens, lineage, reused, revoked>>

\* mutant: the token that was rotated stays usable.
RotateCommitKeepsOld(r) ==
  LET p == req[r].old  q == req[r].new IN
  /\ At(r, "inserted")
  /\ access' = [access EXCEPT ![q] = "live"] /\ refresh' = [refresh EXCEPT ![q] = "live"]
  /\ origin' = [origin EXCEPT ![q] = origin[p]] /\ parent' = [parent EXCEPT ![q] = p]
  /\ Finish(r)
  /\ UNCHANGED <<attempt, code, reused, revoked>>

\* The second insert, and the commit.
RotateCommit(r) ==
  LET p == req[r].old  q == req[r].new IN
  /\ At(r, "inserted")
  /\ access' = [access EXCEPT ![q] = "live"]
  /\ refresh' = [refresh EXCEPT ![p] = "revoked", ![q] = "live"]
  /\ origin' = [origin EXCEPT ![q] = origin[p]] /\ parent' = [parent EXCEPT ![q] = p]
  /\ Finish(r)
  /\ UNCHANGED <<attempt, code, reused, revoked>>

\* mutant: the rows are collected from a snapshot, without waiting for a rotation.
ReuseAccessFromSnapshot(r) ==
  /\ At(r, "rotatedAgain")
  /\ Become(r, [req[r] EXCEPT !.pc = "accessKilled", !.hit = LiveAccess])
  /\ UNCHANGED <<attempt, code, tokens, lineage, reused, revoked>>

\* Reuse: revokeAllTokensForAuthorization inside the transaction, first the
\* access rows, then the refresh rows and the commit.
ReuseAccess(r) ==
  /\ At(r, "rotatedAgain") /\ AccessFree(r)
  /\ Become(r, [req[r] EXCEPT !.pc = "accessKilled", !.hit = LiveAccess])
  /\ UNCHANGED <<attempt, code, tokens, lineage, reused, revoked>>

ReuseCommit(r) ==
  /\ At(r, "accessKilled") /\ RefreshFree(r)
  /\ access' = KillAccess(req[r].hit) /\ refresh' = KillRefresh
  /\ reused' = reused \cup {origin[req[r].old]}
  /\ Finish(r)
  /\ UNCHANGED <<attempt, code, lineage, revoked>>

-----------------------------------------------------------------------------
(* Revocation, the sweeper, and everything that goes wrong.                 *)

\* revokePluginToken finds a refresh token without a lock.
RevokeFind(r, p) ==
  /\ At(r, "idle") /\ refresh[p] \in {"live", "revoked", "expired"}
  /\ Become(r, [Blank EXCEPT !.pc = "find", !.old = p])
  /\ UNCHANGED <<attempt, code, tokens, lineage, reused, revoked>>

\* revokeAllTokensForAuthorization outside a transaction: two commits.
RevokeAccess(r) ==
  /\ At(r, "find") /\ AccessFree(r)
  /\ access' = KillAccess(Pairs) /\ GoTo(r, "accessDone")
  /\ UNCHANGED <<attempt, code, refresh, lineage, reused, revoked>>

\* mutant: only the token presented is revoked.
RevokeRefreshAlone(r) ==
  /\ At(r, "accessDone") /\ RowFree(r, req[r].old)
  /\ refresh' = [refresh EXCEPT ![req[r].old] = "revoked"]
  /\ revoked' = revoked \cup {origin[req[r].old]} /\ Finish(r)
  /\ UNCHANGED <<attempt, code, access, lineage, reused>>

RevokeRefresh(r) ==
  /\ At(r, "accessDone") /\ RefreshFree(r)
  /\ refresh' = KillRefresh /\ revoked' = revoked \cup {origin[req[r].old]}
  /\ Finish(r)
  /\ UNCHANGED <<attempt, code, access, lineage, reused>>

\* An access token is revoked alone (revokePluginAccessToken), or its hour ends.
AccessOver(p) ==
  /\ access[p] = "live" /\ access' = KillAccess({p})
  /\ UNCHANGED <<attempt, code, refresh, lineage, reused, revoked, req>>

\* 30 days pass.  A rotation already under way keeps the time it began with.
Expire(p) ==
  /\ refresh[p] = "live" /\ refresh' = [refresh EXCEPT ![p] = "expired"]
  /\ UNCHANGED <<attempt, code, access, lineage, reused, revoked, req>>

\* deleteExpiredPluginAuthArtifacts: a row whose 30 days are over, revoked or
\* not.  Its access row has gone before it.
Sweep(p) ==
  /\ refresh[p] \in {"expired", "revoked"} /\ access[p] = "over" /\ RowFree(None, p)
  /\ refresh' = [refresh EXCEPT ![p] = "swept"]
  /\ UNCHANGED <<attempt, code, access, lineage, reused, revoked, req>>

\* A refusal, a failed statement, a deadlock's victim, a crash: what the open
\* transaction wrote is gone, what was committed stays.
Fail(r) ==
  /\ ~At(r, "idle") /\ Finish(r)
  /\ UNCHANGED <<attempt, code, tokens, lineage, reused, revoked>>

Next ==
  \/ \E r \in Requests :
       \/ ConsentApprove(r) \/ ExchangeRefresh(r) \/ RotateCommit(r) \/ ReuseAccess(r)
       \/ ReuseCommit(r) \/ RevokeAccess(r) \/ RevokeRefresh(r) \/ Fail(r)
       \/ \E c \in Consents : ConsentClaim(r, c) \/ ExchangeClaim(r, c)
       \/ \E p \in Pairs :
            \/ ExchangeAccess(r, p) \/ RefreshLock(r, p) \/ RotateInsert(r, p)
            \/ RevokeFind(r, p)
  \/ \E p \in Pairs : AccessOver(p) \/ Expire(p) \/ Sweep(p)

Spec == Init /\ [][Next]_vars

-----------------------------------------------------------------------------
Members(c) == {p \in Pairs : origin[p] = c}
NoneLive(c) == \A p \in Members(c) : refresh[p] # "live"

\* A consent decided twice, or a code exchanged twice, at whatever points the
\* handlers overlap, fail or lose their answer, never yields two token pairs.
OneGrantPerConsent ==
  \A p, q \in Pairs : parent[p] \in Consents /\ parent[p] = parent[q] => p = q

\* Rotations of one refresh token never fork: at any time at most one refresh
\* token descended from a consent can still be used.
RotationNeverForks ==
  \A p, q \in Pairs :
    refresh[p] = "live" /\ refresh[q] = "live" /\ origin[p] = origin[q] => p = q

\* Once a reuse is detected, no token of that consent works, not even one that
\* a rotation under way at the time was about to issue.
ReuseKillsFamily ==
  \A c \in reused : NoneLive(c) /\ Members(c) \cap LiveAccess = {}

\* A revoked consent cannot be renewed: whatever rotation raced the revocation,
\* no refresh token of it is left.
RevokedCannotRenew == \A c \in revoked : NoneLive(c)

\* Revoking a refresh token ends the access tokens too.  A rotation between the
\* two UPDATEs breaks it, so no run takes it for an invariant.
RevocationKillsFamily ==
  \A c \in revoked : NoneLive(c) /\ Members(c) \cap LiveAccess = {}

=============================================================================
