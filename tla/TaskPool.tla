------------------------------ MODULE TaskPool ------------------------------
(***************************************************************************)
(* What the platform's task runner promises the V8 engine, with no thread, *)
(* lock or condition variable in sight: an immediate task joins a FIFO, a  *)
(* delayed task joins it some time after its deadline, and the single      *)
(* worker starts the tasks of the FIFO one by one, each at most once.      *)
(***************************************************************************)
EXTENDS Naturals, Sequences, FiniteSets, SequencesExt

CONSTANTS Tasks,    \* the v8::Task objects handed to the platform
          Delays,   \* the delays a caller asks for; 0 means at once
          MaxTime   \* bound on the clock

VARIABLES fresh,    \* tasks nobody has posted
          deferred, \* delayed tasks waiting for their deadline
          due,      \* due[t]: the deadline of a delayed task
          ready,    \* the FIFO
          started,  \* the tasks started so far, in order
          now       \* the clock

poolVars == <<fresh, deferred, due, ready, started, now>>

PoolInit ==
    /\ fresh = Tasks
    /\ deferred = {}
    /\ due = [t \in Tasks |-> 0]
    /\ ready = <<>>
    /\ started = <<>>
    /\ now = 0

\* A caller hands over a task: the call reads the clock before the task is
\* visible to anyone, so accepting a task and filing it are two steps.
Accept(t, d) ==
    /\ t \in fresh
    /\ fresh' = fresh \ {t}
    /\ due' = [due EXCEPT ![t] = IF d = 0 THEN 0 ELSE now + d]
    /\ UNCHANGED <<deferred, ready, started, now>>

\* The accepted tasks that are neither filed nor started yet.
InTransit == Tasks \ (fresh \union deferred \union ToSet(ready) \union ToSet(started))

FileNow(t) ==
    /\ t \in InTransit
    /\ due[t] = 0
    /\ ready' = Append(ready, t)
    /\ UNCHANGED <<fresh, deferred, due, started, now>>

FileLater(t) ==
    /\ t \in InTransit
    /\ due[t] # 0
    /\ deferred' = deferred \union {t}
    /\ UNCHANGED <<fresh, due, ready, started, now>>

\* The orders in which the tasks of S may be released: by deadline.
ByDeadline(S) ==
    {s \in SetToSeqs(S) : \A i, j \in DOMAIN s : i < j => due[s[i]] <= due[s[j]]}

\* Expired tasks leave together, in deadline order.
Release ==
    \E S \in SUBSET {t \in deferred : due[t] < now} : \E s \in ByDeadline(S) :
        /\ S # {}
        /\ deferred' = deferred \ S
        /\ ready' = ready \o s
        /\ UNCHANGED <<fresh, due, started, now>>

StartNext ==
    /\ ready # <<>>
    /\ started' = Append(started, Head(ready))
    /\ ready' = Tail(ready)
    /\ UNCHANGED <<fresh, deferred, due, now>>

PoolTick ==
    /\ now < MaxTime
    /\ now' = now + 1
    /\ UNCHANGED <<fresh, deferred, due, ready, started>>

PoolNext ==
    \/ \E t \in Tasks : (\E d \in Delays : Accept(t, d)) \/ FileNow(t) \/ FileLater(t)
    \/ Release
    \/ StartNext
    \/ PoolTick

PoolSpec == PoolInit /\ [][PoolNext]_poolVars
=============================================================================
