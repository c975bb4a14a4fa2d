------------------------- MODULE MCChildValidation -------------------------
(***************************************************************************)
(* Every split of up to MaxRequest shots into up to three slices.  Answers *)
(* of one and two children vary in every field; answers of three vary in   *)
(* the shots and slice numbers, which is where the running total matters.  *)
(***************************************************************************)
EXTENDS ChildValidation

CONSTANTS p, a1, a2, a3, old

MCTaskId == {p, a1, a2, a3, old}

MCConfigs ==
    [max_shots : {0, 2}, shot_threshold : {0, 1, 4}, max_children : {0, 2}]

MaxRequest == 5

MCRequests == 0..MaxRequest

AnyChild(n) ==
    [id : {a1, a2, p, old, NoTask}, parent : {p, old},
     slice_index : 0..n, slice_count : {n, n + 1}, shots : 0..3]

ShotVariants ==
    { <<[id |-> a1, parent |-> p, slice_index |-> k[1], slice_count |-> 3, shots |-> s[1]],
        [id |-> a2, parent |-> p, slice_index |-> k[2], slice_count |-> 3, shots |-> s[2]],
        [id |-> a3, parent |-> p, slice_index |-> k[3], slice_count |-> 3, shots |-> s[3]]>> :
      s \in [1..3 -> 0..2], k \in {<<0, 1, 2>>, <<2, 0, 1>>, <<0, 1, 1>>} }

MCAnswers(n) ==
    CASE n = 1 -> { <<x>> : x \in AnyChild(1) }
      [] n = 2 -> { <<x, y>> : x \in AnyChild(2),
                               y \in { z \in AnyChild(2) : z.parent = p /\ z.slice_count = 2 } }
      [] n = 3 -> ShotVariants
      [] OTHER -> {}
=============================================================================
