-------------------------- MODULE TaskRunnerProofs --------------------------
(***************************************************************************)
(* Theorems about TaskRunner for every set of tasks, posters and delays.   *)
(* The facts come in layers, each inductive relative to the ones before:   *)
(* types, wakeups, the handshake with the destructor, and the places of a  *)
(* task, which make TaskRunner an implementation of TaskPool.              *)
(***************************************************************************)
EXTENDS TaskRunner, TLAPS, FiniteSetTheorems, SequenceTheorems

\* What the types rest on: the worker pops a non-empty queue, a poster that is
\* about to push has a task to push, and the heap is finite.
TypeInv ==
    /\ TypeOK
    /\ wpc = "pop" => queue # <<>>
    /\ \A p \in Threads : ppc[p] \in {"push", "pushDelayed"} => hand[p] \in Tasks
    /\ IsFiniteSet(delayed)

\* What the tasks the timer collects look like as a sequence.
LEMMA DeadlineOrdersType ==
    ASSUME NEW S, IsFiniteSet(S), NEW s \in DeadlineOrders(S)
    PROVE  s \in Seq(S)
<1>1. Cardinality(S) \in Nat
    BY FS_CardinalityType
<1>2. s \in [1..Cardinality(S) -> S]
    BY DEF DeadlineOrders, SetToSeqs
<1> QED
    BY <1>1, <1>2, SeqDef

LEMMA SeqOfSubset ==
    ASSUME NEW S, NEW T, S \subseteq T, NEW s \in Seq(S)
    PROVE  s \in Seq(T)
<1>1. s \in [1..Len(s) -> S] /\ Len(s) \in Nat
    OBVIOUS
<1>2. s \in [1..Len(s) -> T]
    BY <1>1
<1> QED
    BY <1>1, <1>2, SeqDef

LEMMA TypeInvInit == Init => TypeInv
<1> SUFFICES ASSUME Init PROVE TypeInv
    OBVIOUS
<1>1. TypeOK
    <2>1. queue \in Seq(Tasks) /\ batch \in Seq(Tasks) /\ started \in Seq(Tasks)
        BY DEF Init
    <2>2. /\ delayed \subseteq Tasks /\ asleep \subseteq Conditions /\ fresh \subseteq Tasks
          /\ now \in Nat /\ startedAtStop \in Nat
        BY DEF Init
    <2>3. /\ due \in [Tasks -> Nat] /\ filedAt \in [Tasks -> Nat]
          /\ ppc \in [Threads -> PostPC] /\ hand \in [Threads -> Tasks \union {NoTask}]
        BY DEF Init, PostPC
    <2>4. /\ stop \in BOOLEAN /\ workerStopped \in BOOLEAN /\ timerStopped \in BOOLEAN
          /\ wpc \in WorkerPC /\ tpc \in TimerPC /\ dpc \in DtorPC
        BY DEF Init, WorkerPC, TimerPC, DtorPC
    <2> QED
        BY <2>1, <2>2, <2>3, <2>4 DEF TypeOK
<1>2. wpc = "pop" => queue # <<>>
    BY DEF Init
<1>3. \A p \in Threads : ppc[p] \in {"push", "pushDelayed"} => hand[p] \in Tasks
    BY DEF Init
<1>4. IsFiniteSet(delayed)
    BY FS_EmptySet DEF Init
<1> QED
    BY <1>1, <1>2, <1>3, <1>4 DEF TypeInv

LEMMA TypeInvStep == TypeInv /\ [Next]_vars => TypeInv'
<1> SUFFICES ASSUME TypeInv, [Next]_vars PROVE TypeInv'
    OBVIOUS
<1> USE TaskRunnerAssumption DEF TypeInv, TypeOK, posting, history, flags
<1>1. ASSUME NEW p \in Threads, NEW t \in Tasks, NEW d \in Delays, Post(p, t, d) PROVE TypeInv'
    BY <1>1 DEF Post, PostPC
<1>2. ASSUME NEW p \in Threads, PushTask(p) PROVE TypeInv'
    <2>1. hand[p] \in Tasks /\ queue \in Seq(Tasks)
        BY <1>2 DEF PushTask
    <2>2. queue' \in Seq(Tasks)
        BY <1>2, <2>1 DEF PushTask
    <2>3. wpc' # "pop"
        BY <1>2 DEF PushTask, QueueFree
    <2>4. \A q \in Threads : ppc'[q] \in {"push", "pushDelayed"} => hand'[q] \in Tasks
        BY <1>2 DEF PushTask
    <2> QED
        BY <1>2, <2>2, <2>3, <2>4 DEF PushTask, PostPC
<1>3. ASSUME NEW p \in Threads, NotifyWorker(p) PROVE TypeInv'
    BY <1>3 DEF NotifyWorker, PostPC
<1>4. ASSUME NEW p \in Threads, PushDelayed(p) PROVE TypeInv'
    <2>1. hand[p] \in Tasks
        BY <1>4 DEF PushDelayed
    <2>2. IsFiniteSet(delayed') /\ delayed' \subseteq Tasks
        BY <1>4, <2>1, FS_AddElement DEF PushDelayed
    <2>3. \A q \in Threads : ppc'[q] \in {"push", "pushDelayed"} => hand'[q] \in Tasks
        BY <1>4 DEF PushDelayed
    <2> QED
        BY <1>4, <2>1, <2>2, <2>3 DEF PushDelayed, PostPC
<1>5. ASSUME WorkerTest PROVE TypeInv'
    BY <1>5 DEF WorkerTest, WorkerFrame, WorkerPC
<1>6. ASSUME WorkerSleep PROVE TypeInv'
    BY <1>6 DEF WorkerSleep, WorkerFrame, WorkerPC, Conditions
<1>7. ASSUME WorkerWake PROVE TypeInv'
    BY <1>7 DEF WorkerWake, WorkerFrame, WorkerPC
<1>8. ASSUME WorkerCheckStop PROVE TypeInv'
    BY <1>8 DEF WorkerCheckStop, WorkerFrame, WorkerPC
<1>9. ASSUME WorkerPop PROVE TypeInv'
    BY <1>9 DEF WorkerPop, WorkerFrame, WorkerPC
<1>10. ASSUME WorkerRunEnds PROVE TypeInv'
    BY <1>10 DEF WorkerRunEnds, WorkerFrame, WorkerPC
<1>11. ASSUME WorkerFlag PROVE TypeInv'
    BY <1>11 DEF WorkerFlag, WorkerFrame, WorkerPC
<1>12. ASSUME WorkerAnnounce PROVE TypeInv'
    BY <1>12 DEF WorkerAnnounce, WorkerFrame, WorkerPC
<1>13. ASSUME TimerTest PROVE TypeInv'
    BY <1>13 DEF TimerTest, TimerFrame, TimerPC
<1>14. ASSUME TimerSleep PROVE TypeInv'
    BY <1>14 DEF TimerSleep, TimerFrame, TimerPC, Conditions
<1>15. ASSUME TimerWake PROVE TypeInv'
    BY <1>15 DEF TimerWake, TimerFrame, TimerPC
<1>16. ASSUME TimerCheckStop PROVE TypeInv'
    BY <1>16 DEF TimerCheckStop, TimerFrame, TimerPC
<1>17. ASSUME TimerCollect PROVE TypeInv'
    <2>1. IsFiniteSet(Expired) /\ Expired \subseteq Tasks
        BY FS_Subset DEF Expired
    <2>2. batch' \in Seq(Expired)
        BY <1>17, <2>1, DeadlineOrdersType DEF TimerCollect
    <2>3. batch' \in Seq(Tasks)
        BY <2>1, <2>2, SeqOfSubset
    <2>4. IsFiniteSet(delayed') /\ delayed' \subseteq Tasks
        BY <1>17, FS_Subset DEF TimerCollect
    <2> QED
        BY <1>17, <2>3, <2>4 DEF TimerCollect, TimerFrame, TimerPC
<1>18. ASSUME TimerFlush PROVE TypeInv'
    <2>1. queue' \in Seq(Tasks) /\ batch' \in Seq(Tasks) /\ wpc # "pop"
        BY <1>18 DEF TimerFlush, QueueFree
    <2> QED BY <1>18, <2>1 DEF TimerFlush, TimerFrame, TimerPC
<1>19. ASSUME TimerRecheck PROVE TypeInv'
    BY <1>19 DEF TimerRecheck, TimerFrame, TimerPC
<1>20. ASSUME TimerNapEnds PROVE TypeInv'
    BY <1>20 DEF TimerNapEnds, TimerFrame, TimerPC
<1>21. ASSUME TimerFlag PROVE TypeInv'
    BY <1>21 DEF TimerFlag, TimerFrame, TimerPC
<1>22. ASSUME TimerAnnounce PROVE TypeInv'
    BY <1>22 DEF TimerAnnounce, TimerFrame, TimerPC
<1>23. ASSUME DtorStop PROVE TypeInv'
    BY <1>23 DEF DtorStop, DtorFrame, DtorPC
<1>24. ASSUME DtorNotifyWorker PROVE TypeInv'
    BY <1>24 DEF DtorNotifyWorker, DtorNotify, DtorFrame, DtorPC
<1>25. ASSUME DtorNotifyTimer PROVE TypeInv'
    BY <1>25 DEF DtorNotifyTimer, DtorNotify, DtorFrame, DtorPC
<1>26. ASSUME DtorAwaitWorker PROVE TypeInv'
    <2>1. CASE DtorTest("checkWorker", workerStopped, "sleepWorker", "checkTimer")
        BY <2>1 DEF DtorTest, DtorFrame, DtorPC
    <2>2. CASE DtorSleep("sleepWorker", "worker_stopped", "waitWorker")
        BY <2>2 DEF DtorSleep, DtorFrame, DtorPC, Conditions
    <2>3. CASE DtorWake("waitWorker", "worker_stopped", "checkWorker")
        BY <2>3 DEF DtorWake, DtorFrame, DtorPC
    <2> QED
        BY <1>26, <2>1, <2>2, <2>3 DEF DtorAwaitWorker
<1>27. ASSUME DtorAwaitTimer PROVE TypeInv'
    <2>1. CASE DtorTest("checkTimer", timerStopped, "sleepTimer", "returned")
        BY <2>1 DEF DtorTest, DtorFrame, DtorPC
    <2>2. CASE DtorSleep("sleepTimer", "timer_stopped", "waitTimer")
        BY <2>2 DEF DtorSleep, DtorFrame, DtorPC, Conditions
    <2>3. CASE DtorWake("waitTimer", "timer_stopped", "checkTimer")
        BY <2>3 DEF DtorWake, DtorFrame, DtorPC
    <2> QED
        BY <1>27, <2>1, <2>2, <2>3 DEF DtorAwaitTimer
<1>28. ASSUME Tick PROVE TypeInv'
    BY <1>28 DEF Tick
<1>29. ASSUME SpuriousWakeup PROVE TypeInv'
    BY <1>29 DEF SpuriousWakeup
<1>30. ASSUME UNCHANGED vars PROVE TypeInv'
    BY <1>30 DEF vars
<1> QED
    BY <1>1, <1>2, <1>3, <1>4, <1>5, <1>6, <1>7, <1>8, <1>9, <1>10, <1>11, <1>12, <1>13,
       <1>14, <1>15, <1>16, <1>17, <1>18, <1>19, <1>20, <1>21, <1>22, <1>23, <1>24, <1>25,
       <1>26, <1>27, <1>28, <1>29, <1>30
    DEF Next, PostStep, WorkerStep, TimerStep, DtorRest

\* Every variable keeps its type, whatever the threads do: in particular the
\* worker only ever pops a non-empty tasks_queue_.
THEOREM TypeCorrect == Spec => []TypeOK
<1>1. Spec => []TypeInv
    BY TypeInvInit, TypeInvStep, PTL DEF Spec
<1>2. TypeInv => TypeOK
    BY DEF TypeInv
<1> QED
    BY <1>1, <1>2, PTL

----------------------------------------------------------------------------
(* No post is slept through. The predicate was false when the sleep began, *)
(* and nobody changes the queue between that test and the sleep.           *)

WakeInv ==
    /\ wpc = "sleep" => queue = <<>>
    /\ WorkerNeverMissesAPost
    /\ TimerNeverMissesAPost

LEMMA WakeInvInit == Init => WakeInv
BY DEF Init, WakeInv, WorkerNeverMissesAPost, TimerNeverMissesAPost

LEMMA WakeInvStep == TypeInv /\ WakeInv /\ [Next]_vars => WakeInv'
<1> SUFFICES ASSUME TypeInv, WakeInv, [Next]_vars PROVE WakeInv'
    OBVIOUS
<1> USE DEF TypeInv, TypeOK, WakeInv, WorkerNeverMissesAPost, TimerNeverMissesAPost,
            posting, history, flags
<1>1. ASSUME NEW p \in Threads, NEW t \in Tasks, NEW d \in Delays, Post(p, t, d) PROVE WakeInv'
    BY <1>1 DEF Post, MayPost, PostPC
<1>2. ASSUME NEW p \in Threads, PushTask(p) PROVE WakeInv'
    <2>1. wpc' # "sleep" /\ UNCHANGED <<tpc, delayed, asleep>>
        BY <1>2 DEF PushTask, QueueFree
    <2>2. p \in Threads /\ ppc'[p] = "notify"
        BY <1>2 DEF PushTask
    <2>3. TimerNeverMissesAPost'
        BY <2>1 DEF TimerNeverMissesAPost
    <2>4. WorkerNeverMissesAPost'
        BY <2>2 DEF WorkerNeverMissesAPost
    <2> QED
        BY <2>1, <2>3, <2>4
<1>3. ASSUME NEW p \in Threads, NotifyWorker(p) PROVE WakeInv'
    BY <1>3 DEF NotifyWorker, PostPC
<1>4. ASSUME NEW p \in Threads, PushDelayed(p) PROVE WakeInv'
    BY <1>4 DEF PushDelayed, PostPC, DelayedFree
<1>5. ASSUME WorkerTest PROVE WakeInv'
    BY <1>5 DEF WorkerTest, WorkerFrame, WorkerPC
<1>6. ASSUME WorkerSleep PROVE WakeInv'
    BY <1>6 DEF WorkerSleep, WorkerFrame, WorkerPC, Conditions
<1>7. ASSUME WorkerWake PROVE WakeInv'
    BY <1>7 DEF WorkerWake, WorkerFrame, WorkerPC
<1>8. ASSUME WorkerCheckStop PROVE WakeInv'
    BY <1>8 DEF WorkerCheckStop, WorkerFrame, WorkerPC
<1>9. ASSUME WorkerPop PROVE WakeInv'
    BY <1>9 DEF WorkerPop, WorkerFrame, WorkerPC
<1>10. ASSUME WorkerRunEnds PROVE WakeInv'
    BY <1>10 DEF WorkerRunEnds, WorkerFrame, WorkerPC
<1>11. ASSUME WorkerFlag PROVE WakeInv'
    BY <1>11 DEF WorkerFlag, WorkerFrame, WorkerPC
<1>12. ASSUME WorkerAnnounce PROVE WakeInv'
    BY <1>12 DEF WorkerAnnounce, WorkerFrame, WorkerPC
<1>13. ASSUME TimerTest PROVE WakeInv'
    BY <1>13 DEF TimerTest, TimerFrame, TimerPC
<1>14. ASSUME TimerSleep PROVE WakeInv'
    BY <1>14 DEF TimerSleep, TimerFrame, TimerPC, Conditions
<1>15. ASSUME TimerWake PROVE WakeInv'
    BY <1>15 DEF TimerWake, TimerFrame, TimerPC
<1>16. ASSUME TimerCheckStop PROVE WakeInv'
    BY <1>16 DEF TimerCheckStop, TimerFrame, TimerPC
<1>17. ASSUME TimerCollect PROVE WakeInv'
    BY <1>17 DEF TimerCollect, TimerFrame, TimerPC
<1>18. ASSUME TimerFlush PROVE WakeInv'
    BY <1>18 DEF TimerFlush, QueueFree, TimerFrame, TimerPC
<1>19. ASSUME TimerRecheck PROVE WakeInv'
    BY <1>19 DEF TimerRecheck, TimerFrame, TimerPC
<1>20. ASSUME TimerNapEnds PROVE WakeInv'
    BY <1>20 DEF TimerNapEnds, TimerFrame, TimerPC
<1>21. ASSUME TimerFlag PROVE WakeInv'
    BY <1>21 DEF TimerFlag, TimerFrame, TimerPC
<1>22. ASSUME TimerAnnounce PROVE WakeInv'
    BY <1>22 DEF TimerAnnounce, TimerFrame, TimerPC
<1>23. ASSUME DtorStop PROVE WakeInv'
    BY <1>23 DEF DtorStop, DtorFrame, DtorPC
<1>24. ASSUME DtorNotifyWorker PROVE WakeInv'
    BY <1>24 DEF DtorNotifyWorker, DtorNotify, DtorFrame, DtorPC
<1>25. ASSUME DtorNotifyTimer PROVE WakeInv'
    BY <1>25 DEF DtorNotifyTimer, DtorNotify, DtorFrame, DtorPC
<1>26. ASSUME DtorAwaitWorker PROVE WakeInv'
    <2>1. CASE DtorTest("checkWorker", workerStopped, "sleepWorker", "checkTimer")
        BY <2>1 DEF DtorTest, DtorFrame, DtorPC
    <2>2. CASE DtorSleep("sleepWorker", "worker_stopped", "waitWorker")
        BY <2>2 DEF DtorSleep, DtorFrame, DtorPC, Conditions
    <2>3. CASE DtorWake("waitWorker", "worker_stopped", "checkWorker")
        BY <2>3 DEF DtorWake, DtorFrame, DtorPC
    <2> QED
        BY <1>26, <2>1, <2>2, <2>3 DEF DtorAwaitWorker
<1>27. ASSUME DtorAwaitTimer PROVE WakeInv'
    <2>1. CASE DtorTest("checkTimer", timerStopped, "sleepTimer", "returned")
        BY <2>1 DEF DtorTest, DtorFrame, DtorPC
    <2>2. CASE DtorSleep("sleepTimer", "timer_stopped", "waitTimer")
        BY <2>2 DEF DtorSleep, DtorFrame, DtorPC, Conditions
    <2>3. CASE DtorWake("waitTimer", "timer_stopped", "checkTimer")
        BY <2>3 DEF DtorWake, DtorFrame, DtorPC
    <2> QED
        BY <1>27, <2>1, <2>2, <2>3 DEF DtorAwaitTimer
<1>28. ASSUME Tick PROVE WakeInv'
    BY <1>28 DEF Tick
<1>29. ASSUME SpuriousWakeup PROVE WakeInv'
    BY <1>29 DEF SpuriousWakeup
<1>30. ASSUME UNCHANGED vars PROVE WakeInv'
    BY <1>30 DEF vars
<1> QED
    BY <1>1, <1>2, <1>3, <1>4, <1>5, <1>6, <1>7, <1>8, <1>9, <1>10, <1>11, <1>12, <1>13,
       <1>14, <1>15, <1>16, <1>17, <1>18, <1>19, <1>20, <1>21, <1>22, <1>23, <1>24, <1>25,
       <1>26, <1>27, <1>28, <1>29, <1>30
    DEF Next, PostStep, WorkerStep, TimerStep, DtorRest

LEMMA WakeInvAlways == Spec => []WakeInv
BY TypeInvInit, TypeInvStep, WakeInvInit, WakeInvStep, PTL DEF Spec

\* The worker is never asleep on tasks_available_cond_ with work queued unless a
\* poster is about to notify it.
THEOREM WakeupsNotLost == Spec => []WorkerNeverMissesAPost
<1>1. WakeInv => WorkerNeverMissesAPost
    BY DEF WakeInv
<1> QED
    BY <1>1, WakeInvAlways, PTL

\* The timer never sleeps beside an entry of delayed_task_queue_.
THEOREM TimerWakeupsNotLost == Spec => []TimerNeverMissesAPost
<1>1. WakeInv => TimerNeverMissesAPost
    BY DEF WakeInv
<1> QED
    BY <1>1, WakeInvAlways, PTL

----------------------------------------------------------------------------
(* The handshake. Each flag is raised by its own thread on its way out and *)
(* the destructor passes a wait only with that flag up; the stop flag is   *)
(* seen before the next task is taken.                                     *)

StopInv ==
    /\ stop <=> dpc # "alive"
    /\ workerStopped <=> wpc \in {"notify", "done"}
    /\ timerStopped <=> tpc \in {"notify", "done"}
    /\ dpc \in {"checkTimer", "sleepTimer", "waitTimer", "returned"} => workerStopped
    /\ dpc = "returned" => timerStopped
    /\ stop => \/ Len(started) <= startedAtStop
               \/ wpc # "pop" /\ Len(started) = startedAtStop + 1

LEMMA StopInvInit == Init => StopInv
BY DEF Init, StopInv

LEMMA StopInvStep == TypeInv /\ StopInv /\ [Next]_vars => StopInv'
<1> SUFFICES ASSUME TypeInv, StopInv, [Next]_vars PROVE StopInv'
    OBVIOUS
<1> USE DEF TypeInv, TypeOK, StopInv, posting, history, flags
<1>1. ASSUME NEW p \in Threads, NEW t \in Tasks, NEW d \in Delays, Post(p, t, d) PROVE StopInv'
    BY <1>1 DEF Post, PostPC
<1>2. ASSUME NEW p \in Threads, PushTask(p) PROVE StopInv'
    BY <1>2 DEF PushTask, PostPC, QueueFree
<1>3. ASSUME NEW p \in Threads, NotifyWorker(p) PROVE StopInv'
    BY <1>3 DEF NotifyWorker, PostPC
<1>4. ASSUME NEW p \in Threads, PushDelayed(p) PROVE StopInv'
    BY <1>4 DEF PushDelayed, PostPC, DelayedFree
<1>5. ASSUME WorkerTest PROVE StopInv'
    BY <1>5 DEF WorkerTest, WorkerFrame, WorkerPC
<1>6. ASSUME WorkerSleep PROVE StopInv'
    BY <1>6 DEF WorkerSleep, WorkerFrame, WorkerPC, Conditions
<1>7. ASSUME WorkerWake PROVE StopInv'
    BY <1>7 DEF WorkerWake, WorkerFrame, WorkerPC
<1>8. ASSUME WorkerCheckStop PROVE StopInv'
    BY <1>8 DEF WorkerCheckStop, WorkerFrame, WorkerPC
<1>9. ASSUME WorkerPop PROVE StopInv'
    BY <1>9 DEF WorkerPop, WorkerFrame, WorkerPC
<1>10. ASSUME WorkerRunEnds PROVE StopInv'
    BY <1>10 DEF WorkerRunEnds, WorkerFrame, WorkerPC
<1>11. ASSUME WorkerFlag PROVE StopInv'
    BY <1>11 DEF WorkerFlag, WorkerFrame, WorkerPC
<1>12. ASSUME WorkerAnnounce PROVE StopInv'
    BY <1>12 DEF WorkerAnnounce, WorkerFrame, WorkerPC
<1>13. ASSUME TimerTest PROVE StopInv'
    BY <1>13 DEF TimerTest, TimerFrame, TimerPC
<1>14. ASSUME TimerSleep PROVE StopInv'
    BY <1>14 DEF TimerSleep, TimerFrame, TimerPC, Conditions
<1>15. ASSUME TimerWake PROVE StopInv'
    BY <1>15 DEF TimerWake, TimerFrame, TimerPC
<1>16. ASSUME TimerCheckStop PROVE StopInv'
    BY <1>16 DEF TimerCheckStop, TimerFrame, TimerPC
<1>17. ASSUME TimerCollect PROVE StopInv'
    BY <1>17 DEF TimerCollect, TimerFrame, TimerPC
<1>18. ASSUME TimerFlush PROVE StopInv'
    BY <1>18 DEF TimerFlush, TimerFrame, TimerPC
<1>19. ASSUME TimerRecheck PROVE StopInv'
    BY <1>19 DEF TimerRecheck, TimerFrame, TimerPC
<1>20. ASSUME TimerNapEnds PROVE StopInv'
    BY <1>20 DEF TimerNapEnds, TimerFrame, TimerPC
<1>21. ASSUME TimerFlag PROVE StopInv'
    BY <1>21 DEF TimerFlag, TimerFrame, TimerPC
<1>22. ASSUME TimerAnnounce PROVE StopInv'
    BY <1>22 DEF TimerAnnounce, TimerFrame, TimerPC
<1>23. ASSUME DtorStop PROVE StopInv'
    BY <1>23 DEF DtorStop, DtorFrame, DtorPC
<1>24. ASSUME DtorNotifyWorker PROVE StopInv'
    BY <1>24 DEF DtorNotifyWorker, DtorNotify, DtorFrame, DtorPC
<1>25. ASSUME DtorNotifyTimer PROVE StopInv'
    BY <1>25 DEF DtorNotifyTimer, DtorNotify, DtorFrame, DtorPC
<1>26. ASSUME DtorAwaitWorker PROVE StopInv'
    <2>1. CASE DtorTest("checkWorker", workerStopped, "sleepWorker", "checkTimer")
        BY <2>1 DEF DtorTest, DtorFrame, DtorPC
    <2>2. CASE DtorSleep("sleepWorker", "worker_stopped", "waitWorker")
        BY <2>2 DEF DtorSleep, DtorFrame, DtorPC, Conditions
    <2>3. CASE DtorWake("waitWorker", "worker_stopped", "checkWorker")
        BY <2>3 DEF DtorWake, DtorFrame, DtorPC
    <2> QED
        BY <1>26, <2>1, <2>2, <2>3 DEF DtorAwaitWorker
<1>27. ASSUME DtorAwaitTimer PROVE StopInv'
    <2>1. CASE DtorTest("checkTimer", timerStopped, "sleepTimer", "returned")
        BY <2>1 DEF DtorTest, DtorFrame, DtorPC
    <2>2. CASE DtorSleep("sleepTimer", "timer_stopped", "waitTimer")
        BY <2>2 DEF DtorSleep, DtorFrame, DtorPC, Conditions
    <2>3. CASE DtorWake("waitTimer", "timer_stopped", "checkTimer")
        BY <2>3 DEF DtorWake, DtorFrame, DtorPC
    <2> QED
        BY <1>27, <2>1, <2>2, <2>3 DEF DtorAwaitTimer
<1>28. ASSUME Tick PROVE StopInv'
    BY <1>28 DEF Tick
<1>29. ASSUME SpuriousWakeup PROVE StopInv'
    BY <1>29 DEF SpuriousWakeup
<1>30. ASSUME UNCHANGED vars PROVE StopInv'
    BY <1>30 DEF vars
<1> QED
    BY <1>1, <1>2, <1>3, <1>4, <1>5, <1>6, <1>7, <1>8, <1>9, <1>10, <1>11, <1>12, <1>13,
       <1>14, <1>15, <1>16, <1>17, <1>18, <1>19, <1>20, <1>21, <1>22, <1>23, <1>24, <1>25,
       <1>26, <1>27, <1>28, <1>29, <1>30
    DEF Next, PostStep, WorkerStep, TimerStep, DtorRest

LEMMA StopInvAlways == Spec => [](TypeInv /\ StopInv)
BY TypeInvInit, TypeInvStep, StopInvInit, StopInvStep, PTL DEF Spec

\* Once the destructor has returned neither thread runs a task or touches a queue.
THEOREM DestructorQuiet == Spec => []QuietOnceDestroyed
<1>1. TypeInv /\ StopInv => QuietOnceDestroyed
    BY DEF TypeInv, TypeOK, StopInv, QuietOnceDestroyed
<1> QED
    BY <1>1, StopInvAlways, PTL

\* At most one task still starts after the destructor has requested the stop.
THEOREM StopWithinOneTask == Spec => []StopHonoured
<1>1. TypeInv /\ StopInv => StopHonoured
    BY DEF TypeInv, TypeOK, StopInv, StopHonoured
<1> QED
    BY <1>1, StopInvAlways, PTL

-----------------------------------------------------------------------------
(***************************************************************************)
(* Where a task of TaskRunner is: in one place at a time, and every move   *)
(* from place to place is a step of TaskPool or none. The sequences a task *)
(* passes through are reasoned about by their sets: four lemmas say what   *)
(* appending, concatenating and taking the head do to them.                *)
(***************************************************************************)

LEMMA ConcatElements ==
    ASSUME NEW T, NEW s \in Seq(T), NEW r \in Seq(T)
    PROVE  /\ ToSet(s \o r) = ToSet(s) \union ToSet(r)
           /\ IsInjective(s \o r) <=>
                 IsInjective(s) /\ IsInjective(r) /\ ToSet(s) \intersect ToSet(r) = {}
<1> DEFINE c == s \o r
<1>1. /\ c \in Seq(T) /\ Len(c) = Len(s) + Len(r)
      /\ Len(s) \in Nat /\ Len(r) \in Nat
      /\ \A i \in 1..Len(s) : c[i] = s[i]
      /\ \A i \in 1..Len(r) : c[Len(s) + i] = r[i]
    OBVIOUS
<1>2. DOMAIN s = 1..Len(s) /\ DOMAIN r = 1..Len(r) /\ DOMAIN c = 1..Len(c)
    BY <1>1
<1>3. \A i \in 1..Len(c) : i \in 1..Len(s) \/ \E j \in 1..Len(r) : i = Len(s) + j
    <2> SUFFICES ASSUME NEW i \in 1..Len(c), i \notin 1..Len(s)
                 PROVE  \E j \in 1..Len(r) : i = Len(s) + j
        OBVIOUS
    <2>1. i - Len(s) \in 1..Len(r) /\ i = Len(s) + (i - Len(s))
        BY <1>1
    <2> QED BY <2>1
<1>4. /\ \A i \in 1..Len(s) : i \in 1..Len(c)
      /\ \A i \in 1..Len(r) : Len(s) + i \in 1..Len(c)
    BY <1>1
<1> HIDE DEF c
<1>5. ToSet(c) = ToSet(s) \union ToSet(r)
    <2>1. ASSUME NEW v \in ToSet(c) PROVE v \in ToSet(s) \union ToSet(r)
        <3>1. PICK i \in 1..Len(c) : v = c[i] BY <1>2, <2>1 DEF ToSet
        <3> QED BY <1>1, <1>2, <1>3, <3>1 DEF ToSet
    <2>2. ASSUME NEW v \in ToSet(s) PROVE v \in ToSet(c)
        <3>1. PICK i \in 1..Len(s) : v = s[i] BY <1>2, <2>2 DEF ToSet
        <3> QED BY <1>1, <1>2, <1>4, <3>1 DEF ToSet
    <2>3. ASSUME NEW v \in ToSet(r) PROVE v \in ToSet(c)
        <3>1. PICK i \in 1..Len(r) : v = r[i] BY <1>2, <2>3 DEF ToSet
        <3> QED BY <1>1, <1>2, <1>4, <3>1 DEF ToSet
    <2> QED BY <2>1, <2>2, <2>3
<1>6. ASSUME IsInjective(c)
      PROVE  IsInjective(s) /\ IsInjective(r) /\ ToSet(s) \intersect ToSet(r) = {}
    <2>1. IsInjective(s)
        BY <1>1, <1>2, <1>4, <1>6 DEF IsInjective
    <2>2. IsInjective(r)
        <3> SUFFICES ASSUME NEW i \in 1..Len(r), NEW j \in 1..Len(r), r[i] = r[j] PROVE i = j
            BY <1>2 DEF IsInjective
        <3>1. c[Len(s) + i] = c[Len(s) + j] BY <1>1
        <3>2. Len(s) + i = Len(s) + j BY <1>2, <1>4, <1>6, <3>1 DEF IsInjective
        <3> QED BY <1>1, <3>2
    <2>3. ASSUME NEW v \in ToSet(s), v \in ToSet(r) PROVE FALSE
        <3>1. PICK i \in 1..Len(s) : v = s[i] BY <1>2, <2>3 DEF ToSet
        <3>2. PICK j \in 1..Len(r) : v = r[j] BY <1>2, <2>3 DEF ToSet
        <3>3. c[i] = c[Len(s) + j] BY <1>1, <3>1, <3>2
        <3>4. i = Len(s) + j BY <1>2, <1>4, <1>6, <3>3 DEF IsInjective
        <3> QED BY <1>1, <3>4
    <2> QED BY <2>1, <2>2, <2>3
<1>7. ASSUME IsInjective(s), IsInjective(r), ToSet(s) \intersect ToSet(r) = {}
      PROVE  IsInjective(c)
    <2> SUFFICES ASSUME NEW i \in 1..Len(c), NEW j \in 1..Len(c), c[i] = c[j] PROVE i = j
        BY <1>2 DEF IsInjective
    <2>1. CASE i \in 1..Len(s) /\ j \in 1..Len(s)
        BY <1>1, <1>2, <1>7, <2>1 DEF IsInjective
    <2>2. ASSUME NEW k \in 1..Len(r), NEW m \in 1..Len(r), i = Len(s) + k, j = Len(s) + m
          PROVE  i = j
        <3>1. r[k] = r[m] BY <1>1, <2>2
        <3> QED BY <1>2, <1>7, <2>2, <3>1 DEF IsInjective
    <2>3. ASSUME NEW a \in 1..Len(s), NEW k \in 1..Len(r), c[a] = c[Len(s) + k] PROVE FALSE
        <3>1. s[a] = r[k] BY <1>1, <2>3
        <3>2. s[a] \in ToSet(s) /\ r[k] \in ToSet(r) BY <1>2 DEF ToSet
        <3> QED BY <1>7, <3>1, <3>2
    <2> QED BY <1>3, <2>1, <2>2, <2>3
<1> QED BY <1>5, <1>6, <1>7 DEF c

LEMMA EmptyElements == ToSet(<<>>) = {} /\ IsInjective(<<>>)
BY DEF ToSet, IsInjective

LEMMA SingleElement == ASSUME NEW v PROVE ToSet(<<v>>) = {v} /\ IsInjective(<<v>>)
BY DEF ToSet, IsInjective

LEMMA AppendElements ==
    ASSUME NEW T, NEW s \in Seq(T), NEW v \in T
    PROVE  /\ ToSet(Append(s, v)) = ToSet(s) \union {v}
           /\ IsInjective(Append(s, v)) <=> IsInjective(s) /\ v \notin ToSet(s)
<1>1. Append(s, v) = s \o <<v>> /\ <<v>> \in Seq(T)
    OBVIOUS
<1>2. /\ ToSet(s \o <<v>>) = ToSet(s) \union ToSet(<<v>>)
      /\ IsInjective(s \o <<v>>) <=>
            IsInjective(s) /\ IsInjective(<<v>>) /\ ToSet(s) \intersect ToSet(<<v>>) = {}
    BY <1>1, ConcatElements
<1>3. ToSet(<<v>>) = {v} /\ IsInjective(<<v>>)
    BY SingleElement
<1> QED BY <1>1, <1>2, <1>3

LEMMA HeadElements ==
    ASSUME NEW T, NEW s \in Seq(T), s # <<>>
    PROVE  /\ Head(s) \in T /\ Tail(s) \in Seq(T)
           /\ ToSet(s) = {Head(s)} \union ToSet(Tail(s))
           /\ IsInjective(s) <=> IsInjective(Tail(s)) /\ Head(s) \notin ToSet(Tail(s))
<1> DEFINE h == Head(s)
           t == Tail(s)
<1>1. h \in T /\ t \in Seq(T) /\ <<h>> \in Seq(T)
    BY HeadTailProperties
<1>2. s = <<h>> \o t
    <2>1. <<h>> \o t \in Seq(T)
        BY <1>1, ConcatProperties
    <2>2. Len(<<h>> \o t) = Len(s)
        BY <1>1, HeadTailProperties
    <2>3. ASSUME NEW i \in 1..Len(s) PROVE s[i] = (<<h>> \o t)[i]
        BY <1>1, HeadTailProperties
    <2> QED BY <2>1, <2>2, <2>3, SeqEqual
<1> HIDE DEF h, t
<1>3. /\ ToSet(<<h>> \o t) = ToSet(<<h>>) \union ToSet(t)
      /\ IsInjective(<<h>> \o t) <=>
            IsInjective(<<h>>) /\ IsInjective(t) /\ ToSet(<<h>>) \intersect ToSet(t) = {}
    BY <1>1, ConcatElements
<1>4. ToSet(<<h>>) = {h} /\ IsInjective(<<h>>)
    BY SingleElement
<1>5. ToSet(s) = {h} \union ToSet(t) /\ (IsInjective(s) <=> IsInjective(t) /\ h \notin ToSet(t))
    BY <1>2, <1>3, <1>4
<1> QED BY <1>1, <1>5 DEF h, t

\* A sequence of SetToSeqs holds every element of the set, and each once.
LEMMA SetToSeqsElements ==
    ASSUME NEW S, IsFiniteSet(S), NEW s \in SetToSeqs(S)
    PROVE  ToSet(s) = S /\ IsInjective(s)
<1>1. s \in [1..Cardinality(S) -> S] /\ Cardinality(S) \in Nat
    BY FS_CardinalityType DEF SetToSeqs
<1>2. IsInjective(s)
    BY <1>1 DEF SetToSeqs, IsInjective
<1>3. s \in Injection(1..Cardinality(S), S)
    BY <1>1, <1>2 DEF Injection
<1>4. IsFiniteSet(1..Cardinality(S)) /\ Cardinality(1..Cardinality(S)) = Cardinality(S)
    BY <1>1, FS_Interval
<1>5. s \in Surjection(1..Cardinality(S), S)
    BY <1>3, <1>4, FS_Injection
<1>6. ToSet(s) = S
    BY <1>1, <1>5 DEF Surjection, ToSet
<1> QED BY <1>2, <1>6

LEMMA ElementsType == ASSUME NEW T, NEW s \in Seq(T) PROVE ToSet(s) \subseteq T
<1>1. \A i \in DOMAIN s : s[i] \in T
    BY ElementOfSeq, LenProperties
<1> QED BY <1>1 DEF ToSet

LEMMA ExpiredInOrder ==
    ASSUME TypeInv, NEW s \in DeadlineOrders(Expired)
    PROVE  ToSet(s) = Expired /\ IsInjective(s) /\ s \in Seq(Tasks)
<1>1. IsFiniteSet(Expired) /\ Expired \subseteq Tasks
    BY FS_Subset DEF Expired, TypeInv, TypeOK
<1>2. s \in SetToSeqs(Expired)
    BY DEF DeadlineOrders
<1>3. s \in Seq(Tasks)
    BY <1>1, DeadlineOrdersType, SeqOfSubset
<1> QED BY <1>1, <1>2, <1>3, SetToSeqsElements

----------------------------------------------------------------------------
(* The steps that move a task or change what is said of one; in all others *)
(* the tasks stand still.                                                  *)

Still ==
    /\ UNCHANGED <<started, queue, batch, delayed, fresh, hand, due, now, filedAt>>
    /\ \A p \in Threads : ppc'[p] \in {"push", "pushDelayed"} => ppc'[p] = ppc[p]
    /\ tpc' = "flush" <=> tpc = "flush"

LEMMA StepKinds ==
    ASSUME TypeInv, [Next]_vars
    PROVE  \/ \E p \in Threads, t \in Tasks, d \in Delays : Post(p, t, d)
           \/ \E p \in Threads : PushTask(p) \/ PushDelayed(p)
           \/ WorkerPop \/ TimerCollect \/ TimerFlush \/ Tick
           \/ Still
<1> USE DEF posting, history, flags
<1>1. ASSUME NEW p \in Threads, NotifyWorker(p) PROVE Still
    BY <1>1 DEF NotifyWorker, Still, TypeInv, TypeOK
<1>2. ASSUME WorkerTest \/ WorkerSleep \/ WorkerWake \/ WorkerCheckStop \/ WorkerRunEnds PROVE Still
    BY <1>2 DEF WorkerTest, WorkerSleep, WorkerWake, WorkerCheckStop, WorkerRunEnds, WorkerFrame, Still
<1>3. ASSUME WorkerFlag \/ WorkerAnnounce PROVE Still
    BY <1>3 DEF WorkerFlag, WorkerAnnounce, WorkerFrame, Still
<1>4. ASSUME TimerTest \/ TimerSleep \/ TimerWake \/ TimerCheckStop PROVE Still
    BY <1>4 DEF TimerTest, TimerSleep, TimerWake, TimerCheckStop, TimerFrame, Still
<1>5. ASSUME TimerRecheck \/ TimerNapEnds \/ TimerFlag \/ TimerAnnounce PROVE Still
    BY <1>5 DEF TimerRecheck, TimerNapEnds, TimerFlag, TimerAnnounce, TimerFrame, Still
<1>6. ASSUME DtorStop \/ DtorNotifyWorker \/ DtorNotifyTimer PROVE Still
    BY <1>6 DEF DtorStop, DtorNotifyWorker, DtorNotifyTimer, DtorNotify, DtorFrame, Still
<1>7. ASSUME DtorAwaitWorker \/ DtorAwaitTimer PROVE Still
    BY <1>7 DEF DtorAwaitWorker, DtorAwaitTimer, DtorTest, DtorSleep, DtorWake, DtorFrame, Still
<1>8. ASSUME SpuriousWakeup \/ UNCHANGED vars PROVE Still
    BY <1>8 DEF SpuriousWakeup, vars, Still
<1> QED
    BY <1>1, <1>2, <1>3, <1>4, <1>5, <1>6, <1>7, <1>8
    DEF Next, PostStep, WorkerStep, TimerStep, DtorRest

----------------------------------------------------------------------------
(* A task is in one place at a time.                                       *)

Settled == ToSet(started) \union ToSet(queue) \union ToSet(batch)

PlaceInv ==
    /\ IsInjective(started) /\ IsInjective(queue) /\ IsInjective(batch)
    /\ ToSet(started) \intersect ToSet(queue) = {}
    /\ ToSet(started) \intersect ToSet(batch) = {}
    /\ ToSet(queue) \intersect ToSet(batch) = {}
    /\ Settled \intersect (delayed \union fresh) = {}
    /\ delayed \intersect fresh = {}
    /\ \A p \in Threads : hand[p] # NoTask => hand[p] \notin Settled \union delayed \union fresh
    /\ \A p, q \in Threads : hand[p] # NoTask /\ hand[p] = hand[q] => p = q

LEMMA PlaceInvInit == Init => PlaceInv
BY EmptyElements DEF Init, PlaceInv, Settled

LEMMA PlaceInvStep == TypeInv /\ PlaceInv /\ [Next]_vars => PlaceInv'
<1> SUFFICES ASSUME TypeInv, PlaceInv, [Next]_vars PROVE PlaceInv'
    OBVIOUS
<1> USE TaskRunnerAssumption DEF PlaceInv, Settled
<1>0. /\ queue \in Seq(Tasks) /\ started \in Seq(Tasks) /\ batch \in Seq(Tasks)
      /\ delayed \subseteq Tasks /\ fresh \subseteq Tasks
      /\ \A p \in Threads : ppc[p] \in {"push", "pushDelayed"} => hand[p] \in Tasks
      /\ hand \in [Threads -> Tasks \union {NoTask}]
      /\ wpc = "pop" => queue # <<>>
    BY DEF TypeInv, TypeOK
<1>1. ASSUME NEW p \in Threads, NEW t \in Tasks, NEW d \in Delays, Post(p, t, d) PROVE PlaceInv'
    <2>1. /\ UNCHANGED <<started, queue, batch, delayed>>
          /\ t \in fresh /\ fresh' = fresh \ {t}
          /\ \A q \in Threads : hand'[q] = IF q = p THEN t ELSE hand[q]
        BY <1>0, <1>1 DEF Post, history
    <2> QED BY <2>1
<1>2. ASSUME NEW p \in Threads, PushTask(p) PROVE PlaceInv'
    <2>1. /\ UNCHANGED <<started, batch, delayed, fresh>>
          /\ hand[p] \in Tasks /\ queue' = Append(queue, hand[p])
          /\ \A q \in Threads : hand'[q] = IF q = p THEN NoTask ELSE hand[q]
        BY <1>0, <1>2 DEF PushTask, history
    <2>2. /\ ToSet(queue') = ToSet(queue) \union {hand[p]}
          /\ IsInjective(queue') <=> IsInjective(queue) /\ hand[p] \notin ToSet(queue)
        BY <1>0, <2>1, AppendElements
    <2> QED BY <2>1, <2>2
<1>3. ASSUME NEW p \in Threads, PushDelayed(p) PROVE PlaceInv'
    <2>1. /\ UNCHANGED <<started, batch, queue, fresh>>
          /\ hand[p] \in Tasks /\ delayed' = delayed \union {hand[p]}
          /\ \A q \in Threads : hand'[q] = IF q = p THEN NoTask ELSE hand[q]
        BY <1>0, <1>3 DEF PushDelayed
    <2> QED BY <2>1
<1>4. ASSUME WorkerPop PROVE PlaceInv'
    <2>1. /\ UNCHANGED <<batch, delayed, fresh, hand>> /\ queue # <<>>
          /\ started' = Append(started, Head(queue)) /\ queue' = Tail(queue)
        BY <1>0, <1>4 DEF WorkerPop, WorkerFrame, posting
    <2>2. /\ Head(queue) \in Tasks
          /\ ToSet(queue) = {Head(queue)} \union ToSet(queue')
          /\ IsInjective(queue) <=> IsInjective(queue') /\ Head(queue) \notin ToSet(queue')
        BY <1>0, <2>1, HeadElements
    <2>3. /\ ToSet(started') = ToSet(started) \union {Head(queue)}
          /\ IsInjective(started') <=> IsInjective(started) /\ Head(queue) \notin ToSet(started)
        BY <1>0, <2>1, <2>2, AppendElements
    <2> HIDE DEF PlaceInv
    <2>4. IsInjective(started') /\ IsInjective(queue') /\ IsInjective(batch')
        BY <2>1, <2>2, <2>3 DEF PlaceInv
    <2>5. Settled' = Settled
        BY <2>1, <2>2, <2>3
    <2>6. /\ ToSet(started') \intersect ToSet(queue') = {}
          /\ ToSet(started') \intersect ToSet(batch') = {}
          /\ ToSet(queue') \intersect ToSet(batch') = {}
        BY <2>1, <2>2, <2>3 DEF PlaceInv
    <2> QED BY <2>1, <2>4, <2>5, <2>6 DEF PlaceInv
<1>5. ASSUME TimerCollect PROVE PlaceInv'
    <2>1. /\ UNCHANGED <<queue, started, fresh, hand>>
          /\ delayed' = delayed \ Expired /\ batch' \in DeadlineOrders(Expired)
        BY <1>5 DEF TimerCollect, TimerFrame, posting, history
    <2>2. ToSet(batch') = Expired /\ IsInjective(batch')
        BY <2>1, ExpiredInOrder
    <2>3. Expired \subseteq delayed
        BY DEF Expired
    <2> QED BY <2>1, <2>2, <2>3
<1>6. ASSUME TimerFlush PROVE PlaceInv'
    <2>1. UNCHANGED <<started, delayed, fresh, hand>> /\ queue' = queue \o batch /\ batch' = <<>>
        BY <1>6 DEF TimerFlush, TimerFrame, posting, history
    <2>2. /\ ToSet(queue') = ToSet(queue) \union ToSet(batch)
          /\ IsInjective(queue') <=>
                IsInjective(queue) /\ IsInjective(batch) /\ ToSet(queue) \intersect ToSet(batch) = {}
        BY <1>0, <2>1, ConcatElements
    <2>3. ToSet(batch') = {} /\ IsInjective(batch')
        BY <2>1, EmptyElements
    <2> QED BY <2>1, <2>2, <2>3
<1>7. ASSUME Tick \/ Still PROVE PlaceInv'
    BY <1>7 DEF Tick, Still, posting, history
<1> QED BY <1>1, <1>2, <1>3, <1>4, <1>5, <1>6, <1>7, StepKinds

LEMMA PlaceInvAlways == Spec => [](TypeInv /\ PlaceInv)
BY TypeInvInit, TypeInvStep, PlaceInvInit, PlaceInvStep, PTL DEF Spec

\* No task is lost by being in two places or run twice: each is in one poster's
\* hand, in the heap, in the timer's batch, in the queue or started, once.
THEOREM TasksInOnePlace == Spec => []NoTaskInTwoPlaces
<1>1. TypeInv /\ PlaceInv => NoTaskInTwoPlaces
    <2> SUFFICES ASSUME TypeInv, PlaceInv PROVE NoTaskInTwoPlaces
        OBVIOUS
    <2>1. queue \in Seq(Tasks) /\ started \in Seq(Tasks) /\ batch \in Seq(Tasks)
        BY DEF TypeInv, TypeOK
    <2>2. started \o queue \in Seq(Tasks)
        BY <2>1
    <2>3. /\ ToSet(started \o queue) = ToSet(started) \union ToSet(queue)
          /\ IsInjective(started \o queue)
        BY <2>1, ConcatElements DEF PlaceInv
    <2>4. /\ ToSet(started \o queue \o batch) = Settled
          /\ IsInjective(started \o queue \o batch)
        <3> DEFINE line == started \o queue
        <3>1. line \in Seq(Tasks) /\ IsInjective(line)
              /\ ToSet(line) = ToSet(started) \union ToSet(queue)
            BY <2>2, <2>3
        <3> HIDE DEF line
        <3>2. /\ ToSet(line \o batch) = ToSet(line) \union ToSet(batch)
              /\ IsInjective(line \o batch) <=>
                    IsInjective(line) /\ IsInjective(batch) /\ ToSet(line) \intersect ToSet(batch) = {}
            BY <2>1, <3>1, ConcatElements
        <3>3. IsInjective(batch) /\ ToSet(line) \intersect ToSet(batch) = {}
            BY <3>1 DEF PlaceInv
        <3>4. ToSet(line \o batch) = Settled
            BY <3>1, <3>2 DEF Settled
        <3> QED BY <3>1, <3>2, <3>3, <3>4 DEF line
    <2> QED BY <2>4 DEF NoTaskInTwoPlaces, PlaceInv
<1> QED BY <1>1, PlaceInvAlways, PTL

----------------------------------------------------------------------------
(* What the tasks on the move are: an immediate one has no deadline, a     *)
(* delayed one has, and those of the timer's batch have expired and are in *)
(* deadline order. The batch is empty except between the two loops of the  *)
(* timer.                                                                  *)

DueInv ==
    /\ \A p \in Threads : /\ ppc[p] = "push" => due[hand[p]] = 0
                          /\ ppc[p] = "pushDelayed" => due[hand[p]] # 0
    /\ tpc # "flush" => batch = <<>>
    /\ tpc = "flush" => batch # <<>>
    /\ batch \in SetToSeqs(ToSet(batch))
    /\ \A i, j \in DOMAIN batch : i < j => due[batch[i]] <= due[batch[j]]
    /\ \A t \in ToSet(batch) : due[t] < now

RunnerInv == TypeInv /\ PlaceInv /\ DueInv

LEMMA EmptyInOrder == <<>> \in SetToSeqs({})
<1>1. Cardinality({}) = 0
    BY FS_EmptySet
<1>2. 1..0 = {}
    OBVIOUS
<1>3. <<>> \in [{} -> {}]
    OBVIOUS
<1> QED BY <1>1, <1>2, <1>3 DEF SetToSeqs

LEMMA DueInvInit == Init => DueInv
<1> SUFFICES ASSUME Init PROVE DueInv
    OBVIOUS
<1>1. batch = <<>> /\ ToSet(batch) = {} /\ DOMAIN batch = {}
    BY EmptyElements DEF Init
<1>2. \A p \in Threads : ppc[p] = "idle"
    BY DEF Init
<1> QED BY <1>1, <1>2, EmptyInOrder DEF DueInv, Init

LEMMA DueInvStep == TypeInv /\ PlaceInv /\ DueInv /\ [Next]_vars => DueInv'
<1> SUFFICES ASSUME TypeInv, PlaceInv, DueInv, [Next]_vars PROVE DueInv'
    OBVIOUS
<1> USE TaskRunnerAssumption
<1>0. /\ batch \in Seq(Tasks) /\ now \in Nat /\ due \in [Tasks -> Nat]
      /\ ppc \in [Threads -> PostPC] /\ hand \in [Threads -> Tasks \union {NoTask}]
      /\ \A p \in Threads : ppc[p] \in {"push", "pushDelayed"} => hand[p] \in Tasks
    BY DEF TypeInv, TypeOK
<1>a. \A i \in DOMAIN batch : batch[i] \in ToSet(batch)
    BY DEF ToSet
<1>b. ToSet(batch) \subseteq Tasks
    BY <1>0, ElementsType
<1>1. ASSUME NEW p \in Threads, NEW t \in Tasks, NEW d \in Delays, Post(p, t, d) PROVE DueInv'
    <2>1. /\ UNCHANGED <<batch, tpc, now>> /\ t \in fresh
          /\ \A q \in Threads : /\ hand'[q] = IF q = p THEN t ELSE hand[q]
                                /\ ppc'[q] = IF q = p THEN IF d = 0 THEN "push" ELSE "pushDelayed"
                                             ELSE ppc[q]
          /\ \A u \in Tasks : due'[u] = IF u = t THEN IF d = 0 THEN 0 ELSE now + d ELSE due[u]
        BY <1>0, <1>1 DEF Post
    <2>2. t \notin ToSet(batch) /\ \A q \in Threads : hand[q] \in Tasks => hand[q] # t
        BY <2>1 DEF PlaceInv, Settled
    <2>3. \A u \in ToSet(batch) : due'[u] = due[u]
        BY <1>b, <2>1, <2>2
    <2>4. d # 0 => now + d # 0
        BY <1>0
    <2>5. \A q \in Threads : /\ ppc'[q] = "push" => due'[hand'[q]] = 0
                             /\ ppc'[q] = "pushDelayed" => due'[hand'[q]] # 0
        BY <1>0, <2>1, <2>2, <2>4 DEF DueInv
    <2>6. \A i, j \in DOMAIN batch : i < j => due'[batch[i]] <= due'[batch[j]]
        BY <1>a, <2>3 DEF DueInv
    <2> QED BY <2>1, <2>3, <2>5, <2>6 DEF DueInv
<1>2. ASSUME NEW p \in Threads, PushTask(p) \/ PushDelayed(p) PROVE DueInv'
    <2>1. /\ UNCHANGED <<batch, tpc, now, due>>
          /\ \A q \in Threads : /\ q # p => hand'[q] = hand[q] /\ ppc'[q] = ppc[q]
                                /\ ppc'[p] \in {"idle", "notify"}
        BY <1>0, <1>2 DEF PushTask, PushDelayed
    <2> QED BY <2>1 DEF DueInv
<1>3. ASSUME WorkerPop PROVE DueInv'
    BY <1>3 DEF WorkerPop, WorkerFrame, posting, DueInv
<1>4. ASSUME TimerCollect PROVE DueInv'
    <2>1. /\ UNCHANGED <<ppc, hand, now, due>>
          /\ batch' \in DeadlineOrders(Expired)
          /\ tpc' = IF Expired = {} THEN "recheck" ELSE "flush"
        BY <1>4 DEF TimerCollect, TimerFrame, posting
    <2>2. ToSet(batch') = Expired /\ batch' \in Seq(Tasks)
        BY <2>1, ExpiredInOrder
    <2>3. /\ batch' \in SetToSeqs(ToSet(batch'))
          /\ \A i, j \in DOMAIN batch' : i < j => due'[batch'[i]] <= due'[batch'[j]]
        BY <2>1, <2>2 DEF DeadlineOrders
    <2>4. batch' = <<>> <=> Expired = {}
        <3>1. ASSUME batch' = <<>> PROVE Expired = {}
            <4>1. ToSet(batch') = {} BY <3>1, EmptyElements
            <4> QED BY <2>2, <4>1
        <3>2. ASSUME batch' # <<>> PROVE Expired # {}
            BY <2>2, <3>2, HeadElements
        <3> QED BY <3>1, <3>2
    <2>5. \A t \in ToSet(batch') : due'[t] < now'
        BY <2>1, <2>2 DEF Expired
    <2> QED BY <2>1, <2>3, <2>4, <2>5 DEF DueInv
<1>5. ASSUME TimerFlush PROVE DueInv'
    <2>1. UNCHANGED <<ppc, hand, now, due>> /\ batch' = <<>> /\ tpc' = "recheck"
        BY <1>5 DEF TimerFlush, TimerFrame, posting
    <2>2. ToSet(batch') = {} /\ DOMAIN batch' = {}
        BY <2>1, EmptyElements
    <2> QED BY <2>1, <2>2, EmptyInOrder DEF DueInv
<1>6. ASSUME Tick PROVE DueInv'
    <2>1. UNCHANGED <<batch, tpc, due, ppc, hand>> /\ now' = now + 1
        BY <1>6 DEF Tick, posting
    <2>2. \A t \in ToSet(batch) : due[t] < now + 1
        BY <1>0, <1>b DEF DueInv
    <2> QED BY <2>1, <2>2 DEF DueInv
<1>7. ASSUME Still PROVE DueInv'
    BY <1>7 DEF Still, DueInv
<1> QED BY <1>1, <1>2, <1>3, <1>4, <1>5, <1>6, <1>7, StepKinds

LEMMA RunnerInvAlways == Spec => []RunnerInv
<1>1. Init => RunnerInv
    BY TypeInvInit, PlaceInvInit, DueInvInit DEF RunnerInv
<1>2. RunnerInv /\ [Next]_vars => RunnerInv'
    BY TypeInvStep, PlaceInvStep, DueInvStep DEF RunnerInv
<1> QED BY <1>1, <1>2, PTL DEF Spec

----------------------------------------------------------------------------
(* TaskRunner implements TaskPool.                                         *)

LEMMA PoolElements == ASSUME NEW s PROVE Pool!ToSet(s) = ToSet(s)
BY DEF Pool!ToSet, ToSet

LEMMA PoolOrders ==
    ASSUME NEW S, NEW s \in SetToSeqs(S),
           \A i, j \in DOMAIN s : i < j => due[s[i]] <= due[s[j]]
    PROVE  s \in Pool!ByDeadline(S)
<1>1. Pool!SetToSeqs(S) = SetToSeqs(S)
    BY DEF Pool!SetToSeqs, SetToSeqs, Pool!Cardinality, Cardinality
<1>2. s \in Pool!SetToSeqs(S)
    BY <1>1
<1> QED BY <1>2 DEF Pool!ByDeadline

LEMMA PoolStep == RunnerInv /\ [Next]_vars => [Pool!PoolNext]_(Pool!poolVars)
<1> SUFFICES ASSUME RunnerInv, [Next]_vars PROVE Pool!PoolNext \/ UNCHANGED Pool!poolVars
    OBVIOUS
<1> USE TaskRunnerAssumption
<1>0. /\ queue \in Seq(Tasks) /\ started \in Seq(Tasks) /\ batch \in Seq(Tasks)
      /\ delayed \subseteq Tasks /\ fresh \subseteq Tasks
      /\ \A p \in Threads : ppc[p] \in {"push", "pushDelayed"} => hand[p] \in Tasks
      /\ wpc = "pop" => queue # <<>>
      /\ TypeInv /\ PlaceInv /\ DueInv
    BY DEF RunnerInv, TypeInv, TypeOK
<1>a. ASSUME NEW p \in Threads, hand[p] \in Tasks PROVE hand[p] \in Pool!InTransit
    BY <1>0, <1>a, PoolElements DEF Pool!InTransit, PlaceInv, Settled
<1>1. ASSUME NEW p \in Threads, NEW t \in Tasks, NEW d \in Delays, Post(p, t, d)
      PROVE Pool!Accept(t, d)
    BY <1>1 DEF Post, Pool!Accept, history
<1>2. ASSUME NEW p \in Threads, PushTask(p) PROVE Pool!FileNow(hand[p]) /\ hand[p] \in Tasks
    BY <1>0, <1>2, <1>a DEF PushTask, Pool!FileNow, DueInv, history
<1>3. ASSUME NEW p \in Threads, PushDelayed(p) PROVE Pool!FileLater(hand[p]) /\ hand[p] \in Tasks
    <2>1. hand[p] \in Pool!InTransit /\ due[hand[p]] # 0 /\ hand[p] \in Tasks
        BY <1>0, <1>3, <1>a DEF PushDelayed, DueInv
    <2>2. /\ UNCHANGED <<fresh, due, queue, started, now, batch>>
          /\ delayed' = delayed \union {hand[p]}
        BY <1>3 DEF PushDelayed
    <2> QED BY <2>1, <2>2 DEF Pool!FileLater
<1>4. ASSUME WorkerPop PROVE Pool!StartNext
    BY <1>0, <1>4 DEF WorkerPop, WorkerFrame, posting, Pool!StartNext
<1>5. ASSUME TimerCollect PROVE UNCHANGED Pool!poolVars
    <2>1. /\ UNCHANGED <<fresh, due, queue, started, now>>
          /\ delayed' = delayed \ Expired /\ batch' \in DeadlineOrders(Expired) /\ tpc # "flush"
        BY <1>5 DEF TimerCollect, TimerFrame, posting, history
    <2>2. ToSet(batch) = {} /\ ToSet(batch') = Expired
        BY <1>0, <2>1, EmptyElements, ExpiredInOrder DEF DueInv
    <2>3. Expired \subseteq delayed
        BY DEF Expired
    <2>4. delayed' \union ToSet(batch') = delayed \union ToSet(batch)
        BY <2>1, <2>2, <2>3
    <2> QED BY <2>1, <2>4 DEF Pool!poolVars
<1>6. ASSUME TimerFlush PROVE Pool!Release
    <2> DEFINE S == ToSet(batch)
    <2>1. /\ UNCHANGED <<fresh, due, started, now, delayed>>
          /\ queue' = queue \o batch /\ batch' = <<>> /\ tpc = "flush"
        BY <1>6 DEF TimerFlush, TimerFrame, posting, history
    <2>2. ToSet(batch') = {}
        BY <2>1, EmptyElements
    <2>3. batch \in Pool!ByDeadline(S) /\ batch # <<>> /\ \A t \in S : due[t] < now
        BY <1>0, <2>1, PoolOrders DEF DueInv
    <2>4. S # {}
        BY <1>0, <2>3, HeadElements
    <2>5. S \in SUBSET {t \in delayed \union ToSet(batch) : due[t] < now}
        BY <2>3
    <2>6. delayed' \union ToSet(batch') = (delayed \union ToSet(batch)) \ S
        <3>1. delayed \intersect S = {} BY <1>0 DEF PlaceInv, Settled
        <3> QED BY <2>1, <2>2, <3>1
    <2> HIDE DEF S
    <2> QED BY <2>1, <2>3, <2>4, <2>5, <2>6 DEF Pool!Release
<1>7. ASSUME Tick PROVE Pool!PoolTick
    BY <1>7 DEF Tick, posting, history, Pool!PoolTick
<1>8. ASSUME Still PROVE UNCHANGED Pool!poolVars
    BY <1>8 DEF Still, Pool!poolVars
<1> QED BY <1>1, <1>2, <1>3, <1>4, <1>5, <1>6, <1>7, <1>8, StepKinds, <1>0 DEF Pool!PoolNext

\* Posters, worker, timer and their locks give the engine what TaskPool promises:
\* every run of the model is a run of the FIFO with deadlines.
THEOREM RunnerImplementsPool == Spec => ImplementsTaskPool
<1>1. Init => Pool!PoolInit
    BY EmptyElements DEF Init, Pool!PoolInit
<1> QED
    BY <1>1, RunnerInvAlways, PoolStep, PTL DEF Spec, ImplementsTaskPool, Pool!PoolSpec

----------------------------------------------------------------------------
(* Deadline order. d and f stand for due and filedAt, so that the same     *)
(* words serve before and after a step.                                    *)

\* a may precede b: not with the later deadline, unless b was filed too late.
MayPrecede(a, b, d, f) == d[a] # 0 /\ d[b] # 0 /\ d[b] < d[a] => f[b] > d[a]

InOrder(s, d, f)   == \A i, j \in DOMAIN s : i < j => MayPrecede(s[i], s[j], d, f)
Before(S, R, d, f) == \A a \in S, b \in R : MayPrecede(a, b, d, f)

\* The places in the order a task passes through them.
OrderInv ==
    /\ InOrder(started, due, filedAt)
    /\ InOrder(queue, due, filedAt)
    /\ InOrder(batch, due, filedAt)
    /\ Before(ToSet(started), ToSet(queue), due, filedAt)
    /\ Before(ToSet(started), ToSet(batch), due, filedAt)
    /\ Before(ToSet(queue), ToSet(batch), due, filedAt)
    /\ Before(Settled, delayed, due, filedAt)
    /\ \A t \in Settled : due[t] # 0 => due[t] < now

LEMMA ConcatInOrder ==
    ASSUME NEW T, NEW s \in Seq(T), NEW r \in Seq(T), NEW d, NEW f,
           InOrder(s, d, f), InOrder(r, d, f), Before(ToSet(s), ToSet(r), d, f)
    PROVE  InOrder(s \o r, d, f)
<1> DEFINE c == s \o r
<1>1. /\ Len(s) \in Nat /\ Len(r) \in Nat /\ Len(c) = Len(s) + Len(r)
      /\ \A i \in 1..Len(s) : c[i] = s[i]
      /\ \A i \in 1..Len(r) : c[Len(s) + i] = r[i]
      /\ DOMAIN s = 1..Len(s) /\ DOMAIN r = 1..Len(r) /\ DOMAIN c = 1..Len(c)
    OBVIOUS
<1> HIDE DEF c
<1> SUFFICES ASSUME NEW i \in DOMAIN c, NEW j \in DOMAIN c, i < j
             PROVE  MayPrecede(c[i], c[j], d, f)
    BY DEF c, InOrder
<1>2. CASE j <= Len(s)
    <2>1. i \in DOMAIN s /\ j \in DOMAIN s /\ c[i] = s[i] /\ c[j] = s[j]
        BY <1>1, <1>2
    <2> QED BY <2>1 DEF InOrder
<1>3. CASE i > Len(s)
    <2> DEFINE k == i - Len(s)
               l == j - Len(s)
    <2>0. /\ i \in Nat /\ j \in Nat /\ i <= Len(s) + Len(r) /\ j <= Len(s) + Len(r)
          /\ Len(s) \in Nat /\ Len(r) \in Nat /\ i > Len(s) /\ i < j
        BY <1>1, <1>3
    <2>a. k \in 1..Len(r) /\ l \in 1..Len(r) /\ k < l /\ i = Len(s) + k /\ j = Len(s) + l
        BY ONLY <2>0
    <2>1. k \in DOMAIN r /\ l \in DOMAIN r /\ k < l /\ i = Len(s) + k /\ j = Len(s) + l
        BY <1>1, <2>a
    <2> HIDE DEF k, l
    <2>2. c[i] = r[k] /\ c[j] = r[l]
        BY <1>1, <2>1
    <2> QED BY <2>1, <2>2 DEF InOrder
<1>4. CASE i <= Len(s) /\ j > Len(s)
    <2> DEFINE l == j - Len(s)
    <2>1. i \in DOMAIN s /\ l \in DOMAIN r /\ j = Len(s) + l
        BY <1>1, <1>4
    <2> HIDE DEF l
    <2>2. c[i] = s[i] /\ c[j] = r[l]
        BY <1>1, <2>1
    <2>3. c[i] \in ToSet(s) /\ c[j] \in ToSet(r)
        BY <2>1, <2>2 DEF ToSet
    <2> QED BY <2>3 DEF Before
<1> QED BY <1>1, <1>2, <1>3, <1>4

LEMMA AppendInOrder ==
    ASSUME NEW T, NEW s \in Seq(T), NEW v \in T, NEW d, NEW f,
           InOrder(s, d, f), Before(ToSet(s), {v}, d, f)
    PROVE  InOrder(Append(s, v), d, f)
<1>1. Append(s, v) = s \o <<v>> /\ <<v>> \in Seq(T)
    OBVIOUS
<1>2. DOMAIN <<v>> = 1..1
    OBVIOUS
<1>3. InOrder(<<v>>, d, f)
    BY <1>2 DEF InOrder
<1>4. Before(ToSet(s), ToSet(<<v>>), d, f)
    BY SingleElement
<1>5. InOrder(s \o <<v>>, d, f)
    BY <1>1, <1>3, <1>4, ConcatInOrder
<1> QED BY <1>1, <1>5

LEMMA TailInOrder ==
    ASSUME NEW T, NEW s \in Seq(T), s # <<>>, NEW d, NEW f, InOrder(s, d, f)
    PROVE  InOrder(Tail(s), d, f) /\ Before({Head(s)}, ToSet(Tail(s)), d, f)
<1> DEFINE t == Tail(s)
           h == Head(s)
<1>1. /\ Len(s) \in Nat /\ Len(s) > 0 /\ DOMAIN s = 1..Len(s)
      /\ t \in Seq(T) /\ DOMAIN t = 1..Len(t) /\ Len(t) = Len(s) - 1
      /\ \A i \in 1..Len(t) : t[i] = s[i + 1]
      /\ h = s[1]
    BY HeadTailProperties, LenProperties
<1> HIDE DEF t, h
<1>2. \A i \in DOMAIN t : i + 1 \in DOMAIN s /\ t[i] = s[i + 1] /\ 1 \in DOMAIN s /\ 1 < i + 1
    BY <1>1
<1>3. InOrder(t, d, f)
    <2> SUFFICES ASSUME NEW i \in DOMAIN t, NEW j \in DOMAIN t, i < j
                 PROVE  MayPrecede(t[i], t[j], d, f)
        BY DEF InOrder
    <2>1. i + 1 < j + 1
        BY <1>1
    <2> QED BY <1>2, <2>1 DEF InOrder
<1>4. Before({h}, ToSet(t), d, f)
    <2> SUFFICES ASSUME NEW b \in ToSet(t) PROVE MayPrecede(h, b, d, f)
        BY DEF Before
    <2>1. PICK i \in DOMAIN t : b = t[i]
        BY DEF ToSet
    <2>2. MayPrecede(s[1], s[i + 1], d, f)
        BY <1>2 DEF InOrder
    <2> QED BY <1>1, <1>2, <2>1, <2>2
<1> QED BY <1>3, <1>4 DEF t, h

\* What is said of a task depends on its own deadline and filing time only.
LEMMA OrderKept ==
    ASSUME NEW s, NEW d, NEW f, NEW e, NEW g, InOrder(s, d, f),
           \A t \in ToSet(s) : e[t] = d[t] /\ g[t] = f[t]
    PROVE  InOrder(s, e, g)
<1>1. \A i \in DOMAIN s : s[i] \in ToSet(s)
    BY DEF ToSet
<1> QED BY <1>1 DEF InOrder, MayPrecede

LEMMA OrderInvInit == Init => OrderInv
<1> SUFFICES ASSUME Init PROVE OrderInv
    OBVIOUS
<1>1. started = <<>> /\ queue = <<>> /\ batch = <<>> /\ delayed = {}
    BY DEF Init
<1>2. ToSet(<<>>) = {} /\ DOMAIN <<>> = {}
    BY EmptyElements
<1> QED BY <1>1, <1>2 DEF OrderInv, InOrder, Before, Settled

LEMMA OrderInvStep == RunnerInv /\ OrderInv /\ [Next]_vars => OrderInv'
<1> SUFFICES ASSUME RunnerInv, OrderInv, [Next]_vars PROVE OrderInv'
    OBVIOUS
<1> USE TaskRunnerAssumption
<1>0. /\ queue \in Seq(Tasks) /\ started \in Seq(Tasks) /\ batch \in Seq(Tasks)
      /\ delayed \subseteq Tasks /\ fresh \subseteq Tasks
      /\ now \in Nat /\ due \in [Tasks -> Nat] /\ filedAt \in [Tasks -> Nat]
      /\ \A p \in Threads : ppc[p] \in {"push", "pushDelayed"} => hand[p] \in Tasks
      /\ wpc = "pop" => queue # <<>>
      /\ TypeInv /\ PlaceInv /\ DueInv
    BY DEF RunnerInv, TypeInv, TypeOK
<1>t. Settled \subseteq Tasks
    BY <1>0, ElementsType DEF Settled
<1>1. ASSUME UNCHANGED <<started, queue, batch, delayed>>, now' = now \/ now' = now + 1,
             \A t \in Settled \union delayed : due'[t] = due[t] /\ filedAt'[t] = filedAt[t]
      PROVE  OrderInv'
    <2>1. /\ InOrder(started, due', filedAt') /\ InOrder(queue, due', filedAt')
          /\ InOrder(batch, due', filedAt')
        <3>1. ASSUME NEW s, ToSet(s) \subseteq Settled, InOrder(s, due, filedAt)
              PROVE  InOrder(s, due', filedAt')
            <4>1. \A t \in ToSet(s) : due'[t] = due[t] /\ filedAt'[t] = filedAt[t]
                BY <1>1, <3>1
            <4> QED BY <3>1, <4>1, OrderKept
        <3>2. ToSet(started) \subseteq Settled /\ ToSet(queue) \subseteq Settled
              /\ ToSet(batch) \subseteq Settled
            BY DEF Settled
        <3> QED BY <3>1, <3>2 DEF OrderInv
    <2>2. /\ Before(ToSet(started), ToSet(queue), due', filedAt')
          /\ Before(ToSet(started), ToSet(batch), due', filedAt')
          /\ Before(ToSet(queue), ToSet(batch), due', filedAt')
        BY <1>1 DEF OrderInv, Settled, Before, MayPrecede
    <2>3. Before(Settled, delayed, due', filedAt')
        BY <1>1 DEF OrderInv, Before, MayPrecede
    <2>4. \A t \in Settled : due'[t] # 0 => due'[t] < now'
        BY <1>0, <1>1, <1>t DEF OrderInv
    <2>5. Settled' = Settled
        BY <1>1 DEF Settled
    <2> QED BY <1>1, <2>1, <2>2, <2>3, <2>4, <2>5 DEF OrderInv
<1>2. ASSUME NEW p \in Threads, NEW t \in Tasks, NEW d \in Delays, Post(p, t, d) PROVE OrderInv'
    <2>1. /\ UNCHANGED <<started, queue, batch, delayed, now, filedAt>> /\ t \in fresh
          /\ \A u \in Tasks : u # t => due'[u] = due[u]
        BY <1>0, <1>2 DEF Post, history
    <2>2. t \notin Settled \union delayed
        BY <1>0, <2>1 DEF PlaceInv
    <2>3. \A u \in Settled \union delayed : due'[u] = due[u] /\ filedAt'[u] = filedAt[u]
        BY <1>0, <1>t, <2>1, <2>2
    <2> QED BY <1>1, <2>1, <2>3
<1>3. ASSUME NEW p \in Threads, PushTask(p) PROVE OrderInv'
    <2> DEFINE v == hand[p]
    <2>1. /\ UNCHANGED <<started, batch, delayed, now, due, filedAt>>
          /\ v \in Tasks /\ due[v] = 0 /\ queue' = Append(queue, v)
        BY <1>0, <1>3 DEF PushTask, history, DueInv
    <2> HIDE DEF v
    <2>2. ToSet(queue') = ToSet(queue) \union {v} /\ Settled' = Settled \union {v}
        BY <1>0, <2>1, AppendElements DEF Settled
    <2>3. \A a, f : MayPrecede(a, v, due, f) /\ MayPrecede(v, a, due, f)
        BY <2>1 DEF MayPrecede
    <2>4. InOrder(queue', due, filedAt)
        BY <1>0, <2>1, <2>3, AppendInOrder DEF OrderInv, Before
    <2>5. /\ Before(ToSet(started), ToSet(queue'), due, filedAt)
          /\ Before(ToSet(queue'), ToSet(batch), due, filedAt)
          /\ Before(Settled', delayed, due, filedAt)
        BY <2>2, <2>3 DEF OrderInv, Before
    <2>6. \A t \in Settled' : due[t] # 0 => due[t] < now
        BY <2>1, <2>2 DEF OrderInv
    <2> QED BY <2>1, <2>4, <2>5, <2>6 DEF OrderInv
<1>4. ASSUME NEW p \in Threads, PushDelayed(p) PROVE OrderInv'
    <2> DEFINE v == hand[p]
    <2>1. /\ UNCHANGED <<started, queue, batch, now, due>>
          /\ v \in Tasks /\ v # NoTask /\ delayed' = delayed \union {v}
          /\ filedAt' = [filedAt EXCEPT ![v] = now]
        BY <1>0, <1>4 DEF PushDelayed
    <2>2. v \notin Settled \union delayed
        BY <1>0, <2>1 DEF PlaceInv
    <2> HIDE DEF v
    <2>3. filedAt'[v] = now /\ \A t \in Settled \union delayed : filedAt'[t] = filedAt[t]
        BY <1>0, <1>t, <2>1, <2>2
    <2>4. /\ InOrder(started, due, filedAt') /\ InOrder(queue, due, filedAt')
          /\ InOrder(batch, due, filedAt')
        <3>1. ASSUME NEW s, ToSet(s) \subseteq Settled, InOrder(s, due, filedAt)
              PROVE  InOrder(s, due, filedAt')
            <4>1. \A t \in ToSet(s) : due[t] = due[t] /\ filedAt'[t] = filedAt[t]
                BY <2>3, <3>1
            <4> QED BY <3>1, <4>1, OrderKept
        <3>2. ToSet(started) \subseteq Settled /\ ToSet(queue) \subseteq Settled
              /\ ToSet(batch) \subseteq Settled
            BY DEF Settled
        <3> QED BY <3>1, <3>2 DEF OrderInv
    <2>5. /\ Before(ToSet(started), ToSet(queue), due, filedAt')
          /\ Before(ToSet(started), ToSet(batch), due, filedAt')
          /\ Before(ToSet(queue), ToSet(batch), due, filedAt')
        BY <2>3 DEF OrderInv, Settled, Before, MayPrecede
    <2>6. Before(Settled, delayed', due, filedAt')
        BY <2>1, <2>3 DEF OrderInv, Before, MayPrecede
    <2>7. Settled' = Settled
        BY <2>1 DEF Settled
    <2> QED BY <2>1, <2>4, <2>5, <2>6, <2>7 DEF OrderInv
<1>5. ASSUME WorkerPop PROVE OrderInv'
    <2>1. /\ UNCHANGED <<batch, delayed, now, due, filedAt>> /\ queue # <<>>
          /\ started' = Append(started, Head(queue)) /\ queue' = Tail(queue)
        BY <1>0, <1>5 DEF WorkerPop, WorkerFrame
    <2> DEFINE v == Head(queue)
    <2>2. /\ v \in Tasks /\ ToSet(queue) = {v} \union ToSet(queue')
          /\ ToSet(started') = ToSet(started) \union {v}
        BY <1>0, <2>1, HeadElements, AppendElements
    <2>3. InOrder(queue', due, filedAt) /\ Before({v}, ToSet(queue'), due, filedAt)
        BY <1>0, <2>1, TailInOrder DEF OrderInv
    <2>4. started' = Append(started, v)
        BY <2>1
    <2> HIDE DEF v
    <2>5. Before(ToSet(started), {v}, due, filedAt)
        BY <2>2 DEF OrderInv, Before
    <2>6. InOrder(started', due, filedAt)
        BY <1>0, <2>2, <2>4, <2>5, AppendInOrder DEF OrderInv
    <2>7. Settled' = Settled
        BY <2>1, <2>2 DEF Settled
    <2>8. /\ Before(ToSet(started'), ToSet(queue'), due, filedAt)
          /\ Before(ToSet(started'), ToSet(batch), due, filedAt)
          /\ Before(ToSet(queue'), ToSet(batch), due, filedAt)
        BY <2>2, <2>3 DEF OrderInv, Before
    <2> QED BY <2>1, <2>3, <2>6, <2>7, <2>8 DEF OrderInv
<1>6. ASSUME TimerCollect PROVE OrderInv'
    <2>1. /\ UNCHANGED <<started, queue, now, due, filedAt>> /\ tpc = "collect"
          /\ delayed' = delayed \ Expired /\ batch' \in DeadlineOrders(Expired)
        BY <1>6 DEF TimerCollect, TimerFrame, history
    <2>2. ToSet(batch) = {} /\ ToSet(batch') = Expired /\ batch' \in Seq(Tasks)
        BY <1>0, <2>1, EmptyElements, ExpiredInOrder DEF DueInv
    <2>3. /\ Expired \subseteq delayed /\ Expired \subseteq Tasks
          /\ \A t \in Expired : due[t] < now
          /\ \A t \in delayed' : t \in Tasks /\ t \in delayed /\ ~(due[t] < now)
        BY <1>0, <2>1 DEF Expired
    <2>4. InOrder(batch', due, filedAt)
        <3> SUFFICES ASSUME NEW i \in DOMAIN batch', NEW j \in DOMAIN batch', i < j
                     PROVE  MayPrecede(batch'[i], batch'[j], due, filedAt)
            BY DEF InOrder
        <3>1. due[batch'[i]] <= due[batch'[j]]
            BY <2>1 DEF DeadlineOrders
        <3>2. batch'[i] \in Tasks /\ batch'[j] \in Tasks
            BY <2>2, ElementsType DEF ToSet
        <3>3. due[batch'[i]] \in Nat /\ due[batch'[j]] \in Nat
            BY <1>0, <3>2
        <3> QED BY <3>1, <3>3 DEF MayPrecede
    <2>5. Settled' = Settled \union Expired
        BY <2>1, <2>2 DEF Settled
    <2>6. /\ Before(ToSet(started), ToSet(batch'), due, filedAt)
          /\ Before(ToSet(queue), ToSet(batch'), due, filedAt)
        BY <2>2, <2>3 DEF OrderInv, Settled, Before
    <2>7. Before(Expired, delayed', due, filedAt)
        BY <1>0, <2>3 DEF Before, MayPrecede
    <2>8. Before(Settled', delayed', due, filedAt)
        BY <2>3, <2>5, <2>7 DEF OrderInv, Before
    <2>9. \A t \in Settled' : due[t] # 0 => due[t] < now
        BY <2>3, <2>5 DEF OrderInv
    <2> QED BY <2>1, <2>4, <2>6, <2>8, <2>9 DEF OrderInv
<1>7. ASSUME TimerFlush PROVE OrderInv'
    <2>1. /\ UNCHANGED <<started, delayed, now, due, filedAt>>
          /\ queue' = queue \o batch /\ batch' = <<>>
        BY <1>7 DEF TimerFlush, TimerFrame, history
    <2>2. ToSet(queue') = ToSet(queue) \union ToSet(batch) /\ ToSet(batch') = {} /\ DOMAIN batch' = {}
        BY <1>0, <2>1, ConcatElements, EmptyElements
    <2>3. InOrder(queue', due, filedAt)
        BY <1>0, <2>1, ConcatInOrder DEF OrderInv
    <2>4. Settled' = Settled
        BY <2>1, <2>2 DEF Settled
    <2>5. Before(ToSet(started), ToSet(queue'), due, filedAt)
        BY <2>2 DEF OrderInv, Before
    <2>6. /\ InOrder(batch', due, filedAt)
          /\ Before(ToSet(started), ToSet(batch'), due, filedAt)
          /\ Before(ToSet(queue'), ToSet(batch'), due, filedAt)
        BY <2>2 DEF InOrder, Before
    <2> QED BY <2>1, <2>3, <2>4, <2>5, <2>6 DEF OrderInv
<1>8. ASSUME Tick \/ Still PROVE OrderInv'
    <2>1. /\ UNCHANGED <<started, queue, batch, delayed, due, filedAt>>
          /\ now' = now \/ now' = now + 1
        BY <1>8 DEF Tick, Still, history
    <2> QED BY <1>1, <2>1
<1> QED BY <1>2, <1>3, <1>4, <1>5, <1>6, <1>7, <1>8, <1>0, StepKinds

\* Delayed tasks run in deadline order, but for the one whose poster was held up
\* between reading the clock and the mutex until the other's deadline had passed.
THEOREM DeadlineOrderKept == Spec => []OutOfOrderOnlyIfFiledLate
<1>1. Init => OrderInv
    BY OrderInvInit
<1>2. RunnerInv /\ OrderInv /\ [Next]_vars => OrderInv'
    BY OrderInvStep
<1>3. OrderInv => OutOfOrderOnlyIfFiledLate
    BY DEF OrderInv, InOrder, MayPrecede, OutOfOrderOnlyIfFiledLate
<1> QED BY <1>1, <1>2, <1>3, RunnerInvAlways, PTL DEF Spec
=============================================================================
