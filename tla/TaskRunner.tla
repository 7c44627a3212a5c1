----------------------------- MODULE TaskRunner -----------------------------
(***************************************************************************)
(* WorkerThreadsTaskRunner of platform/V8Platform.cpp: the queue of        *)
(* immediate tasks and the heap of delayed ones, the worker thread that    *)
(* runs the former, the timer thread that moves expired delayed tasks to   *)
(* the former, the threads that post (a task running on the worker may     *)
(* post too) and the destructor that asks both threads to stop and waits   *)
(* for them.                                                               *)
(*                                                                         *)
(* A condition variable has at most one sleeper here, so the set asleep of *)
(* the condition variables somebody sleeps on stands for all wait sets:    *)
(* notify_all takes the condition out of it, and a spurious wakeup may.    *)
(* Mutexes are read off the program counters: QueueFree and DelayedFree.   *)
(***************************************************************************)
EXTENDS Naturals, Sequences, FiniteSets, SequencesExt

CONSTANTS Tasks,    \* the v8::Task objects posted, each at most once
          Posters,  \* the threads outside the pool that post
          Worker,   \* the worker thread
          Delays,   \* the delays asked for; 0 is not a delay at all
          MaxTime,  \* bound on the clock
          NoTask    \* the empty unique_ptr

ASSUME TaskRunnerAssumption ==
    /\ Worker \notin Posters
    /\ Delays \subseteq Nat
    /\ MaxTime \in Nat
    /\ NoTask \notin Tasks

VARIABLES
    queue,          \* tasks_queue_
    delayed,        \* the tasks of delayed_task_queue_
    due,            \* due[t]: the deadline paired with t in delayed_task_queue_
    now,            \* the clock
    asleep,         \* the condition variables with a sleeping thread
    stop,           \* stop_requested_
    workerStopped,  \* worker_stopped_
    timerStopped,   \* timer_stopped_
    wpc,            \* where WorkerFunc is
    tpc,            \* where TimerFunc is
    batch,          \* new_ready_tasks, local to TimerFunc
    dpc,            \* where the destructor is
    ppc,            \* ppc[p]: where p is inside PostTask or PostDelayedTask
    hand,           \* hand[p]: the task p is posting
    fresh,          \* tasks not posted yet
    started,        \* history: tasks in the order the worker ran them
    filedAt,        \* history: when a delayed task entered delayed_task_queue_
    startedAtStop   \* history: how many had started when stop was requested

posting == <<ppc, hand, fresh>>
history == <<started, filedAt, startedAtStop>>
flags   == <<stop, workerStopped, timerStopped>>
vars == <<queue, delayed, due, now, asleep, flags, wpc, tpc, batch, dpc,
          posting, history>>

Threads    == Posters \union {Worker}
Conditions == {"tasks_available", "delayed_available", "worker_stopped", "timer_stopped"}

WorkerPC == {"loop", "sleep", "waiting", "checkStop", "pop", "running",
             "exit", "notify", "done"}
TimerPC  == {"loop", "sleep", "waiting", "checkStop", "collect", "flush",
             "recheck", "napping", "exit", "notify", "done"}
DtorPC   == {"alive", "notifyWorker", "notifyTimer", "checkWorker", "sleepWorker",
             "waitWorker", "checkTimer", "sleepTimer", "waitTimer", "returned"}
PostPC   == {"idle", "push", "notify", "pushDelayed"}

\* Mutants of the two below: the wait tests its predicate before it locks.
QueueFreeEarlyTest   == wpc \notin {"checkStop", "pop"}
DelayedFreeEarlyTest == tpc \notin {"checkStop", "collect"}

\* queue_access_mutex_ and delayed_queue_access_mutex_ are held across steps by
\* the worker and the timer only: the posters' critical sections are one step.
QueueFree   == wpc \notin {"sleep", "checkStop", "pop"}
DelayedFree == tpc \notin {"sleep", "checkStop", "collect"}

Init ==
    /\ queue = <<>>
    /\ delayed = {}
    /\ due = [t \in Tasks |-> 0]
    /\ now = 0
    /\ asleep = {}
    /\ stop = FALSE
    /\ workerStopped = FALSE
    /\ timerStopped = FALSE
    /\ wpc = "loop"
    /\ tpc = "loop"
    /\ batch = <<>>
    /\ dpc = "alive"
    /\ ppc = [p \in Threads |-> "idle"]
    /\ hand = [p \in Threads |-> NoTask]
    /\ fresh = Tasks
    /\ started = <<>>
    /\ filedAt = [t \in Tasks |-> 0]
    /\ startedAtStop = 0

----------------------------------------------------------------------------
(* Posting. The owner of the runner posts only while it is alive; the      *)
(* worker posts from inside the task it is running.                        *)

MayPost(p) ==
    /\ ppc[p] = "idle"
    /\ IF p = Worker THEN wpc = "running" ELSE dpc = "alive"

\* PostDelayedTask reads the clock before it takes the mutex; a zero delay is
\* an immediate task. The bound keeps every deadline below MaxTime.
Post(p, t, d) ==
    /\ MayPost(p)
    /\ t \in fresh
    /\ d > 0 => now + d < MaxTime
    /\ fresh' = fresh \ {t}
    /\ hand' = [hand EXCEPT ![p] = t]
    /\ ppc' = [ppc EXCEPT ![p] = IF d = 0 THEN "push" ELSE "pushDelayed"]
    /\ due' = [due EXCEPT ![t] = IF d = 0 THEN 0 ELSE now + d]
    /\ UNCHANGED <<queue, delayed, now, asleep, flags, wpc, tpc, batch, dpc, history>>

\* Mutant: the task is pushed after it was moved from.
PushTaskMovedFrom(p) ==
    /\ ppc[p] = "push"
    /\ QueueFree
    /\ hand' = [hand EXCEPT ![p] = NoTask]
    /\ queue' = Append(queue, hand'[p])
    /\ ppc' = [ppc EXCEPT ![p] = "notify"]
    /\ UNCHANGED <<delayed, due, now, asleep, flags, wpc, tpc, batch, dpc, fresh, history>>

PushTask(p) ==
    /\ ppc[p] = "push"
    /\ QueueFree
    /\ queue' = Append(queue, hand[p])
    /\ hand' = [hand EXCEPT ![p] = NoTask]
    /\ ppc' = [ppc EXCEPT ![p] = "notify"]
    /\ UNCHANGED <<delayed, due, now, asleep, flags, wpc, tpc, batch, dpc, fresh, history>>

NotifyWorker(p) ==
    /\ ppc[p] = "notify"
    /\ asleep' = asleep \ {"tasks_available"}
    /\ ppc' = [ppc EXCEPT ![p] = "idle"]
    /\ UNCHANGED <<queue, delayed, due, now, flags, wpc, tpc, batch, dpc, hand, fresh, history>>

\* Mutant: nobody is notified of a delayed task.
PushDelayedSilent(p) ==
    /\ ppc[p] = "pushDelayed"
    /\ DelayedFree
    /\ delayed' = delayed \union {hand[p]}
    /\ filedAt' = [filedAt EXCEPT ![hand[p]] = now]
    /\ hand' = [hand EXCEPT ![p] = NoTask]
    /\ ppc' = [ppc EXCEPT ![p] = "idle"]
    /\ UNCHANGED <<queue, due, now, asleep, flags, wpc, tpc, batch, dpc, fresh, started,
                   startedAtStop>>

\* The delayed queue is pushed to and notified under its mutex.
PushDelayed(p) ==
    /\ ppc[p] = "pushDelayed"
    /\ DelayedFree
    /\ delayed' = delayed \union {hand[p]}
    /\ filedAt' = [filedAt EXCEPT ![hand[p]] = now]
    /\ asleep' = asleep \ {"delayed_available"}
    /\ hand' = [hand EXCEPT ![p] = NoTask]
    /\ ppc' = [ppc EXCEPT ![p] = "idle"]
    /\ UNCHANGED <<queue, due, now, flags, wpc, tpc, batch, dpc, fresh, started, startedAtStop>>

----------------------------------------------------------------------------
(* WorkerFunc. The wait evaluates its predicate under queue_access_mutex_  *)
(* and then sleeps: a post cannot come between, a stop request can.        *)

WorkerFrame == <<delayed, due, now, flags, tpc, batch, dpc, posting, filedAt, startedAtStop>>

WorkerTest ==
    /\ wpc = "loop"
    /\ wpc' = IF queue # <<>> \/ stop THEN "checkStop" ELSE "sleep"
    /\ UNCHANGED <<WorkerFrame, queue, asleep, started>>

WorkerSleep ==
    /\ wpc = "sleep"
    /\ wpc' = "waiting"
    /\ asleep' = asleep \union {"tasks_available"}
    /\ UNCHANGED <<WorkerFrame, queue, started>>

WorkerWake ==
    /\ wpc = "waiting"
    /\ "tasks_available" \notin asleep
    /\ wpc' = "loop"
    /\ UNCHANGED <<WorkerFrame, queue, asleep, started>>

\* Mutant: the queue is drained before a stop request counts.
WorkerCheckStopDrains ==
    /\ wpc = "checkStop"
    /\ wpc' = IF queue # <<>> THEN "pop" ELSE IF stop THEN "exit" ELSE "loop"
    /\ UNCHANGED <<WorkerFrame, queue, asleep, started>>

WorkerCheckStop ==
    /\ wpc = "checkStop"
    /\ wpc' = IF stop THEN "exit" ELSE IF queue = <<>> THEN "loop" ELSE "pop"
    /\ UNCHANGED <<WorkerFrame, queue, asleep, started>>

WorkerPop ==
    /\ wpc = "pop"
    /\ started' = Append(started, Head(queue))
    /\ queue' = Tail(queue)
    /\ wpc' = "running"
    /\ UNCHANGED <<WorkerFrame, asleep>>

WorkerRunEnds ==
    /\ wpc = "running"
    /\ ppc[Worker] = "idle"
    /\ wpc' = "loop"
    /\ UNCHANGED <<WorkerFrame, queue, asleep, started>>

\* worker_stopped_ is written and announced without worker_stopped_mutex_.
WorkerFlag ==
    /\ wpc = "exit"
    /\ workerStopped' = TRUE
    /\ wpc' = "notify"
    /\ UNCHANGED <<queue, delayed, due, now, asleep, stop, timerStopped, tpc,
                   batch, dpc, posting, history>>

WorkerAnnounce ==
    /\ wpc = "notify"
    /\ asleep' = asleep \ {"worker_stopped"}
    /\ wpc' = "done"
    /\ UNCHANGED <<WorkerFrame, queue, started>>

WorkerStep ==
    \/ WorkerTest \/ WorkerSleep \/ WorkerWake \/ WorkerCheckStop
    \/ WorkerPop \/ WorkerRunEnds \/ WorkerFlag \/ WorkerAnnounce

----------------------------------------------------------------------------
(* TimerFunc.                                                              *)

TimerFrame == <<due, now, stop, workerStopped, wpc, dpc, posting, history>>

TimerTest ==
    /\ tpc = "loop"
    /\ tpc' = IF delayed # {} \/ stop THEN "checkStop" ELSE "sleep"
    /\ UNCHANGED <<TimerFrame, timerStopped, queue, delayed, asleep, batch>>

TimerSleep ==
    /\ tpc = "sleep"
    /\ tpc' = "waiting"
    /\ asleep' = asleep \union {"delayed_available"}
    /\ UNCHANGED <<TimerFrame, timerStopped, queue, delayed, batch>>

TimerWake ==
    /\ tpc = "waiting"
    /\ "delayed_available" \notin asleep
    /\ tpc' = "loop"
    /\ UNCHANGED <<TimerFrame, timerStopped, queue, delayed, asleep, batch>>

TimerCheckStop ==
    /\ tpc = "checkStop"
    /\ tpc' = IF stop THEN "exit" ELSE IF delayed = {} THEN "loop" ELSE "collect"
    /\ UNCHANGED <<TimerFrame, timerStopped, queue, delayed, asleep, batch>>

\* Mutant: a task is due at its deadline, not after it.
ExpiredInclusive == {t \in delayed : due[t] <= now}

Expired == {t \in delayed : due[t] < now}

\* Mutant: the heap compares the wrong way round.
DeadlineOrdersReversed(S) ==
    {s \in SetToSeqs(S) : \A i, j \in DOMAIN s : i < j => due[s[i]] >= due[s[j]]}

\* The heap yields the earliest deadline first and ties in any order.
DeadlineOrders(S) ==
    {s \in SetToSeqs(S) : \A i, j \in DOMAIN s : i < j => due[s[i]] <= due[s[j]]}

\* Mutant: a collected task is not popped off the heap.
TimerCollectNoPop ==
    /\ tpc = "collect"
    /\ batch' \in DeadlineOrders(Expired)
    /\ tpc' = IF Expired = {} THEN "recheck" ELSE "flush"
    /\ UNCHANGED <<TimerFrame, timerStopped, queue, delayed, asleep>>

\* The loop re-reads the clock for every entry; what it pops is what has expired
\* when it stops, so one step at that instant stands for the loop.
TimerCollect ==
    /\ tpc = "collect"
    /\ delayed' = delayed \ Expired
    /\ batch' \in DeadlineOrders(Expired)
    /\ tpc' = IF Expired = {} THEN "recheck" ELSE "flush"
    /\ UNCHANGED <<TimerFrame, timerStopped, queue, asleep>>

TimerFlush ==
    /\ tpc = "flush"
    /\ QueueFree
    /\ queue' = queue \o batch
    /\ batch' = <<>>
    /\ asleep' = asleep \ {"tasks_available"}
    /\ tpc' = "recheck"
    /\ UNCHANGED <<TimerFrame, timerStopped, delayed>>

\* delayed_task_queue_.empty() is read without the mutex: with a push under way
\* the read sees the heap before or after it, which the interleavings cover.
TimerRecheck ==
    /\ tpc = "recheck"
    /\ tpc' = IF delayed = {} THEN "loop" ELSE "napping"
    /\ UNCHANGED <<TimerFrame, timerStopped, queue, delayed, asleep, batch>>

\* sleep_for returns: stop requests and new tasks do not cut it short.
TimerNapEnds ==
    /\ tpc = "napping"
    /\ tpc' = "loop"
    /\ UNCHANGED <<TimerFrame, timerStopped, queue, delayed, asleep, batch>>

TimerFlag ==
    /\ tpc = "exit"
    /\ timerStopped' = TRUE
    /\ tpc' = "notify"
    /\ UNCHANGED <<TimerFrame, queue, delayed, asleep, batch>>

TimerAnnounce ==
    /\ tpc = "notify"
    /\ asleep' = asleep \ {"timer_stopped"}
    /\ tpc' = "done"
    /\ UNCHANGED <<TimerFrame, timerStopped, queue, delayed, batch>>

TimerStep ==
    \/ TimerTest \/ TimerSleep \/ TimerWake \/ TimerCheckStop \/ TimerCollect
    \/ TimerFlush \/ TimerRecheck \/ TimerNapEnds \/ TimerFlag \/ TimerAnnounce

----------------------------------------------------------------------------
(* ~WorkerThreadsTaskRunner. The owner destroys the runner once its own    *)
(* posts have returned.                                                    *)

DtorFrame == <<queue, delayed, due, now, workerStopped, timerStopped, wpc, tpc,
               batch, posting, started, filedAt>>

DtorStop ==
    /\ dpc = "alive"
    /\ \A p \in Posters : ppc[p] = "idle"
    /\ stop' = TRUE
    /\ startedAtStop' = Len(started)
    /\ dpc' = "notifyWorker"
    /\ UNCHANGED <<DtorFrame, asleep>>

DtorNotify(from, cond, to) ==
    /\ dpc = from
    /\ asleep' = asleep \ {cond}
    /\ dpc' = to
    /\ UNCHANGED <<DtorFrame, stop, startedAtStop>>

DtorNotifyWorker == DtorNotify("notifyWorker", "tasks_available", "notifyTimer")
DtorNotifyTimer  == DtorNotify("notifyTimer", "delayed_available", "checkWorker")

\* One wait of the destructor: test the flag, go to sleep, wake up and test again.
DtorTest(from, flag, sleep, to) ==
    /\ dpc = from
    /\ dpc' = IF flag THEN to ELSE sleep
    /\ UNCHANGED <<DtorFrame, asleep, stop, startedAtStop>>

DtorSleep(from, cond, to) ==
    /\ dpc = from
    /\ asleep' = asleep \union {cond}
    /\ dpc' = to
    /\ UNCHANGED <<DtorFrame, stop, startedAtStop>>

DtorWake(from, cond, to) ==
    /\ dpc = from
    /\ cond \notin asleep
    /\ dpc' = to
    /\ UNCHANGED <<DtorFrame, asleep, stop, startedAtStop>>

DtorAwaitWorker ==
    \/ DtorTest("checkWorker", workerStopped, "sleepWorker", "checkTimer")
    \/ DtorSleep("sleepWorker", "worker_stopped", "waitWorker")
    \/ DtorWake("waitWorker", "worker_stopped", "checkWorker")

\* Mutant: the second wait tests the worker's flag again.
DtorAwaitTimerWrongFlag ==
    \/ DtorTest("checkTimer", workerStopped, "sleepTimer", "returned")
    \/ DtorSleep("sleepTimer", "timer_stopped", "waitTimer")
    \/ DtorWake("waitTimer", "timer_stopped", "checkTimer")

DtorAwaitTimer ==
    \/ DtorTest("checkTimer", timerStopped, "sleepTimer", "returned")
    \/ DtorSleep("sleepTimer", "timer_stopped", "waitTimer")
    \/ DtorWake("waitTimer", "timer_stopped", "checkTimer")

DtorRest == DtorNotifyWorker \/ DtorNotifyTimer \/ DtorAwaitWorker \/ DtorAwaitTimer

----------------------------------------------------------------------------
(* The environment: time passes and a sleeper may wake for no reason.      *)

Tick ==
    /\ now < MaxTime
    /\ now' = now + 1
    /\ UNCHANGED <<queue, delayed, due, asleep, flags, wpc, tpc, batch, dpc, posting, history>>

SpuriousWakeup ==
    /\ \E c \in asleep : asleep' = asleep \ {c}
    /\ UNCHANGED <<queue, delayed, due, now, flags, wpc, tpc, batch, dpc, posting, history>>

PostStep(p) == PushTask(p) \/ NotifyWorker(p) \/ PushDelayed(p)

Next ==
    \/ \E p \in Threads : \/ \E t \in Tasks, d \in Delays : Post(p, t, d)
                          \/ PostStep(p)
    \/ WorkerStep
    \/ TimerStep
    \/ DtorStop
    \/ DtorRest
    \/ Tick
    \/ SpuriousWakeup

Spec == Init /\ [][Next]_vars

(* Threads are scheduled, time passes, and a thread that waits for a mutex *)
(* that is released again and again obtains it. Nobody must post, nobody   *)
(* must destroy the runner, and no spurious wakeup is owed to anyone.      *)
Fairness ==
    /\ \A p \in Threads :
          SF_vars(PushTask(p)) /\ WF_vars(NotifyWorker(p)) /\ SF_vars(PushDelayed(p))
    /\ WF_vars(WorkerStep)
    /\ WF_vars(TimerStep) /\ SF_vars(TimerFlush)
    /\ WF_vars(DtorRest)
    /\ WF_vars(Tick)

FairSpec == Spec /\ Fairness

----------------------------------------------------------------------------
(* Properties.                                                             *)

TypeOK ==
    /\ queue \in Seq(Tasks)
    /\ delayed \subseteq Tasks
    /\ due \in [Tasks -> Nat]
    /\ now \in Nat
    /\ asleep \subseteq Conditions
    /\ stop \in BOOLEAN
    /\ workerStopped \in BOOLEAN
    /\ timerStopped \in BOOLEAN
    /\ wpc \in WorkerPC
    /\ tpc \in TimerPC
    /\ batch \in Seq(Tasks)
    /\ dpc \in DtorPC
    /\ ppc \in [Threads -> PostPC]
    /\ hand \in [Threads -> Tasks \union {NoTask}]
    /\ fresh \subseteq Tasks
    /\ started \in Seq(Tasks)
    /\ filedAt \in [Tasks -> Nat]
    /\ startedAtStop \in Nat

\* The worker never sleeps through a post: while it is on the condition variable
\* and tasks_queue_ holds something, a thread that pushed is still to notify it
\* (PostTask notifies after it has released the mutex, TimerFunc while holding it).
WorkerNeverMissesAPost ==
    wpc = "waiting" /\ "tasks_available" \in asleep /\ queue # <<>>
        => \E p \in Threads : ppc[p] = "notify"

\* Nor does the timer: it never sleeps on its condition variable while
\* delayed_task_queue_ holds an entry, nor about to sleep there.
TimerNeverMissesAPost ==
    tpc = "sleep" \/ (tpc = "waiting" /\ "delayed_available" \in asleep)
        => delayed = {}

\* After ~WorkerThreadsTaskRunner has returned, no thread is in a task, takes a
\* task or touches the queues any more: both have left their loops.
QuietOnceDestroyed ==
    dpc = "returned" => /\ wpc \in {"notify", "done"}
                        /\ tpc \in {"notify", "done"}

\* A stop request is honoured within one task: WorkerFunc tests the flag before
\* each task, so at most the one it was about to take still starts.
StopHonoured ==
    stop => Len(started) <= startedAtStop + 1

\* No task is run twice or sits in two of the places it passes through: in a
\* poster's hand, in the heap, in the timer's batch, in the queue, started.
NoTaskInTwoPlaces ==
    LET line == started \o queue \o batch
        held == {p \in Threads : hand[p] # NoTask}
    IN  /\ IsInjective(line)
        /\ ToSet(line) \intersect (delayed \union fresh) = {}
        /\ delayed \intersect fresh = {}
        /\ \A p \in held : hand[p] \notin ToSet(line) \union delayed \union fresh
        /\ \A p, q \in held : hand[p] = hand[q] => p = q

\* Two delayed tasks run out of deadline order only if the one that runs late
\* entered the heap after the other's deadline had passed (its poster read the
\* clock, and was then held up before it got the mutex).
OutOfOrderOnlyIfFiledLate ==
    \A i, j \in DOMAIN started :
        /\ i < j
        /\ due[started[i]] # 0 /\ due[started[j]] # 0
        /\ due[started[j]] < due[started[i]]
        => filedAt[started[j]] > due[started[i]]

\* Threads, mutexes and condition variables together keep the promise of
\* TaskPool: FIFO for immediate tasks, no delayed task before its deadline.
\* A task the timer has collected but not yet flushed is still deferred there.
Pool == INSTANCE TaskPool WITH deferred <- delayed \union ToSet(batch), ready <- queue
ImplementsTaskPool == Pool!PoolSpec

\* A task posted to a runner nobody destroys is eventually run.
PostedTasksRun ==
    \A t \in Tasks : t \notin fresh ~> (t \in ToSet(started) \/ stop)

\* "Wait until both worker and timer threads are dranined", read as a promise
\* of progress: the destructor that waits for the two does not wait for ever,
\* neither because a thread slept through the stop nor because the destructor
\* slept through the flag of a thread that has ended.
DestructorReturns == stop ~> dpc = "returned"
=============================================================================
