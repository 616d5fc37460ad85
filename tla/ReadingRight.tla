---------------------------- MODULE ReadingRight ----------------------------
(***************************************************************************)
(* What the session registry and the reading lease promise one account     *)
(* while the reader controls are on.  At most one of its sessions has the  *)
(* right to paid pages.  It gets the right under an epoch nobody had       *)
(* before, and loses it by running out, to another session, or at once     *)
(* when it is ended.  A session that merely expired may use up the time it *)
(* has left, never more.  Ended and expired are for good.                  *)
(***************************************************************************)
EXTENDS Naturals

CONSTANTS
  Sessions,  \* the account's sessions
  None,      \* nobody
  Span       \* how long the right lasts

VARIABLES
  reader,    \* the session that may read, or None
  left,      \* the time it has left
  epoch,     \* how often the right was handed out or withdrawn
  ended,     \* sessions logged out, revoked, displaced or rotated away
  expired    \* sessions found past their deadline

right == <<reader, left, epoch>>
vars == <<right, ended, expired>>

Init == reader = None /\ left = 0 /\ epoch = 0 /\ ended = {} /\ expired = {}

Standing(s) == s \notin ended \cup expired

\* A session takes the right, whoever had it.
Take(s) ==
  /\ Standing(s)
  /\ reader' = s /\ left' = Span /\ epoch' = epoch + 1
  /\ UNCHANGED <<ended, expired>>

Renew(s) ==
  /\ Standing(s) /\ reader = s
  /\ left' = Span /\ UNCHANGED <<reader, epoch, ended, expired>>

RunDown ==
  /\ left > 0 /\ left' = left - 1
  /\ reader' = IF left' = 0 THEN None ELSE reader
  /\ UNCHANGED <<epoch, ended, expired>>

Expire(s) ==
  /\ Standing(s) /\ expired' = expired \cup {s}
  /\ UNCHANGED <<right, ended>>

\* A session ends, and its right with it.
End(s) ==
  /\ Standing(s) /\ ended' = ended \cup {s}
  /\ IF reader = s THEN reader' = None /\ left' = 0 /\ epoch' = epoch + 1
     ELSE UNCHANGED <<reader, left>> /\ epoch' \in {epoch, epoch + 1}
  /\ UNCHANGED expired

Next ==
  \/ RunDown
  \/ \E s \in Sessions : Take(s) \/ Renew(s) \/ Expire(s) \/ End(s)

Spec == Init /\ [][Next]_vars

=============================================================================
