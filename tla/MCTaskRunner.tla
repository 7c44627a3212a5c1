---------------------------- MODULE MCTaskRunner ----------------------------
(***************************************************************************)
(* Small instances of TaskRunner for TLC.                                  *)
(***************************************************************************)
EXTENDS TaskRunner

CONSTANTS p1, p2, t1, t2, t3

OnePoster  == {p1}
TwoPosters == {p1, p2}
TwoTasks   == {t1, t2}
ThreeTasks == {t1, t2, t3}
NowOrLater == {0, 1, 2}
NowOrSoon  == {0, 1}

Interchangeable == Permutations(TwoPosters) \union Permutations(ThreeTasks)
=============================================================================
