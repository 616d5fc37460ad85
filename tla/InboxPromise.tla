---------------------------- MODULE InboxPromise ----------------------------
(***************************************************************************)
(* What the in-app notifications promise, without workers, leases, pages   *)
(* or retries: an event happens with a set of readers who want it; each of *)
(* them gets it at most once and never while its source is hidden; the set *)
(* of those who want it only shrinks (an opt-out, an unfollow, a deleted   *)
(* account); and the event is closed only when everybody who still wants   *)
(* it has it, unless its source was hidden since it happened.  An event    *)
(* the delivery gives up on is abandoned, in sight of the operator.        *)
(***************************************************************************)
CONSTANTS Readers, Events

VARIABLES status, wanted, got, shown, waived

vars == <<status, wanted, got, shown, waived>>

Init ==
  /\ status = [e \in Events |-> "unheard"]
  /\ wanted = [e \in Events |-> {}]
  /\ got = [e \in Events |-> {}]
  /\ shown = Events
  /\ waived = {}

(* The event happens, to the readers who want it at that moment.           *)
Happen(e) ==
  /\ status[e] = "unheard" /\ e \in shown
  /\ status' = [status EXCEPT ![e] = "open"]
  /\ \E W \in SUBSET Readers : wanted' = [wanted EXCEPT ![e] = W]
  /\ UNCHANGED <<got, shown, waived>>

Deliver(e, u) ==
  /\ status[e] = "open" /\ e \in shown
  /\ u \in wanted[e] \ got[e]
  /\ got' = [got EXCEPT ![e] = @ \cup {u}]
  /\ UNCHANGED <<status, wanted, shown, waived>>

(* Readers lose interest; nobody gains it in an event of the past.         *)
Lapse ==
  /\ \A e \in Events : wanted'[e] \subseteq wanted[e]
  /\ wanted' = [e \in Events |-> wanted'[e]]
  /\ UNCHANGED <<status, got, shown, waived>>

(* The sources of some events are hidden or shown again.                   *)
Source ==
  /\ shown' \in SUBSET Events
  /\ waived' = waived \cup {e \in Events \ shown' : status[e] # "unheard"}
  /\ UNCHANGED <<status, wanted, got>>

Close(e) ==
  /\ status[e] = "open"
  /\ e \in waived \/ wanted[e] \subseteq got[e]
  /\ status' = [status EXCEPT ![e] = "closed"]
  /\ UNCHANGED <<wanted, got, shown, waived>>

Abandon(e) ==
  /\ status[e] = "open"
  /\ status' = [status EXCEPT ![e] = "abandoned"]
  /\ UNCHANGED <<wanted, got, shown, waived>>

Next ==
  \/ Lapse
  \/ Source
  \/ \E e \in Events :
       \/ Happen(e) \/ Close(e) \/ Abandon(e)
       \/ \E u \in Readers : Deliver(e, u)

Spec == Init /\ [][Next]_vars
=============================================================================
