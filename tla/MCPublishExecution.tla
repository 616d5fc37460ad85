------------------------- MODULE MCPublishExecution -------------------------
(* Small instances of PublishExecution for TLC. *)
EXTENDS PublishExecution, TLC

CONSTANTS r1, r2, e1, e2, h1, h2, t0, t1, t2, w1, w2

\* Two runs over one episode, a batch of two and a run over one of them, or one each.
SameOne == r1 :> <<e2>> @@ r2 :> <<e2>>
TwoRuns == r1 :> <<e1, e2>> @@ r2 :> <<e2>>
OneEach == r1 :> <<e1>> @@ r2 :> <<e2>>
\* Two drafts, or one and the same; they cost the same, or a new text costs more.
TwoDrafts == [r \in Staged |-> IF r = r1 THEN t1 ELSE t2]
OneDraft == [r \in Staged |-> t1]
OnePrice == [t \in Texts |-> 1]
NewPrice == [t \in Texts |-> IF t = t2 THEN 2 ELSE 1]

\* Episodes that do not exist yet, are there unpublished, or are read already.
Absent == [e \in Episodes |-> [published |-> FALSE, text |-> None]]
Hidden == [e \in Episodes |-> [published |-> FALSE, text |-> t0]]
Live == [e \in Episodes |-> [published |-> TRUE, text |-> t0]]
NothingYet == {Absent}
Unpublished == {Hidden}
AbsentOrLive == {Absent, Live}

LiveAlike == {[Live EXCEPT ![e2].text = t1]}

\* Only the second run changes the document.
SecondChanges == r1 :> h1 @@ r2 :> h2

OwnName == [w \in Workers |-> w]
SameName == [w \in Workers |-> w1]

Symmetry == Permutations(Workers)
=============================================================================
