-------------------------- MODULE MCPromptRegistry --------------------------
(***************************************************************************)
(* Small instances of PromptRegistry for TLC.                              *)
(***************************************************************************)
EXTENDS PromptRegistry, TLC

CONSTANTS o1, o2, textA, textB

DeclaresPublished == [x \in Texts |-> "published"]
OneDeclaresDraft == [x \in Texts |-> IF x = textA THEN "published" ELSE "draft"]

V(status, text, eval) == [status |-> status, text |-> text, eval |-> eval]
Fresh == [versions |-> <<>>, deployment |-> NoDeployment]
\* Two published versions, the newer one active, and an approved one.
InUse == [versions |-> <<V("published", textA, "none"), V("published", textB, "pass"),
                         V("approved", textA, "none")>>,
          deployment |-> [active |-> 2, canary |-> 0, percent |-> 0]]
\* Version 2 is tried on a share of the traces.
Ramping == [InUse EXCEPT !.deployment = [active |-> 1, canary |-> 2, percent |-> 30]]
AnyDatabase == {Fresh, InUse, Ramping}
OnlyFresh == {Fresh}

OperatorSymmetry == Permutations(Operators)
=============================================================================
