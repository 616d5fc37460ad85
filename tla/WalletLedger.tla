---------------------------- MODULE WalletLedger ----------------------------
(***************************************************************************)
(* What the wallet promises, without transactions, locks or snapshots:     *)
(* every account is moved by whole movements, one at a time, each top-up   *)
(* is credited at most once, an item is paid for at most once by its       *)
(* owner, an administrator's gift key moves money at most once, and an     *)
(* account never goes below zero.  Wallet.tla is shown to implement this   *)
(* specification when every writer keeps the lock discipline.              *)
(***************************************************************************)
EXTENDS Integers

CONSTANTS
  Users, Topups, Items, GiftKeys,
  Owner,        \* the user a top-up belongs to
  Credit,       \* the amount a top-up credits, bonus included
  Cost,         \* Cost[S]: what the set of items S costs in one purchase
  GiftUser,     \* the user a gift or clawback key addresses
  GiftAmount    \* its signed amount

VARIABLES
  account,      \* the money of every user
  credited,     \* the top-ups already credited
  entitled,     \* the items every user has paid for
  given         \* the gift keys already applied

ledgerVars == <<account, credited, entitled, given>>

Init ==
  /\ account \in [Users -> Nat]
  /\ credited \in SUBSET Topups
  /\ entitled = [u \in Users |-> {}]
  /\ given = {}

\* One top-up, credited once.
CreditTopup(t) ==
  /\ t \notin credited
  /\ account' = [account EXCEPT ![Owner[t]] = @ + Credit[t]]
  /\ credited' = credited \cup {t}
  /\ UNCHANGED <<entitled, given>>

\* One purchase of items the user does not have yet, for their full cost.
Spend(u, S) ==
  /\ S # {} /\ S \cap entitled[u] = {}
  /\ account[u] >= Cost[S]
  /\ account' = [account EXCEPT ![u] = @ - Cost[S]]
  /\ entitled' = [entitled EXCEPT ![u] = @ \cup S]
  /\ UNCHANGED <<credited, given>>

\* One gift or clawback, applied once.
Give(k) ==
  /\ k \notin given
  /\ account[GiftUser[k]] + GiftAmount[k] >= 0
  /\ account' = [account EXCEPT ![GiftUser[k]] = @ + GiftAmount[k]]
  /\ given' = given \cup {k}
  /\ UNCHANGED <<credited, entitled>>

Next ==
  \/ \E t \in Topups : CreditTopup(t)
  \/ \E u \in Users, S \in SUBSET Items : Spend(u, S)
  \/ \E k \in GiftKeys : Give(k)

Spec == Init /\ [][Next]_ledgerVars
=============================================================================
