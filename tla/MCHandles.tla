----------------------------- MODULE MCHandles -----------------------------
(***************************************************************************)
(* Two libraries that register the same policy name, one of them only for  *)
(* callers that serialise, and a third one with a name of its own.         *)
(***************************************************************************)
EXTENDS Handles

CONSTANTS l1, l2, l3

ThreeLibs == {l1, l2, l3}
MCNameOf  == [l \in ThreeLibs |-> IF l = l3 THEN "ordered" ELSE "fifo"]
MCThreadFlags ==
    [l \in ThreeLibs |-> IF l = l1 THEN {"safe", "user"} ELSE IF l = l2 THEN {"user"} ELSE {"safe"}]
=============================================================================
