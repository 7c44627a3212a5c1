------------------------- MODULE MCRuntimeLifecycle -------------------------
(* RuntimeLifecycle with two threads and four runtimes: two that share the  *)
(* isolate of one thread beside two of the other thread, or some after the  *)
(* last of their thread is gone; and two host objects of one or two of them.*)
EXTENDS RuntimeLifecycle, TLC

LifecycleSymmetry ==
    Permutations(Threads) \union Permutations(Runtimes) \union Permutations(HostObjects)
=============================================================================
