---------------------------- MODULE MCSharedQpu ----------------------------
(***************************************************************************)
(* Two schedulers that use t2 both, and one other identifier each.         *)
(***************************************************************************)
EXTENDS MCScheduler, SharedQpu

TwoTasks   == {t1, t2}
OtherTasks == {t2, t3}
=============================================================================
