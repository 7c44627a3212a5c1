-------------------------- MODULE RuntimeLifecycle --------------------------
(***************************************************************************)
(* The construction and destruction of V8Runtimes (jsiruntime/             *)
(* V8JsiRuntime.cpp and V8JsiRuntime_impl.h): V8PlatformHolder and its     *)
(* process-wide use count, the isolate that the runtimes of a thread share *)
(* and its thread-local use count, the isolate's data slot and allocator,  *)
(* and the HostObjectLifetimeTrackers between V8's garbage collector and   *)
(* the host objects a runtime was given.                                   *)
(*                                                                         *)
(* A runtime is destroyed on the thread that created it: the counter is    *)
(* that thread's, and so is the isolate that is entered. An isolate is     *)
(* known by the runtime that created it.                                   *)
(***************************************************************************)
EXTENDS Integers, Sequences, FiniteSets, SequencesExt

CONSTANTS Threads, Runtimes, HostObjects,
          NoThread, NoRuntime,
          CounterMod            \* 2^16: the counter of a thread is a uint16_t

ASSUME LifecycleAssumption ==
    /\ NoThread \notin Threads /\ NoRuntime \notin Runtimes
    /\ IsFiniteSet(Runtimes)
    /\ CounterMod \in Nat /\ CounterMod > Cardinality(Runtimes)

VARIABLES
    useCount,   \* use_count_s_
    platform,   \* platform_s_ is there
    stage,      \* stage[r]: how far construction and destruction are
    thread,     \* thread[r]: the thread that created r
    counter,    \* counter[t]: tls_isolate_usage_counter_
    entered,    \* entered[t]: the isolates the thread has entered, the current one last
    isolateOf,  \* isolateOf[r]: isolate_
    isolate,    \* isolate[r]: the isolate that r created
    slot,       \* slot[i]: whose IsolateData the isolate's ISOLATE_DATA_SLOT holds
    allocator,  \* allocator[r]: create_params_.array_buffer_allocator
    owner,      \* owner[o]: the runtime whose tracker list has o's tracker
    weak,       \* weak[o]: objectTracker_ is set and weak
    isReset,    \* isReset[o]: isReset_
    released    \* released[o]: how often IHostProxy::destroy was called

isolateVars == <<counter, entered, isolateOf, isolate, slot, allocator>>
objectVars  == <<owner, weak, isReset, released>>
vars == <<useCount, platform, stage, thread, isolateVars, objectVars>>

Init ==
    /\ useCount = 0 /\ platform = FALSE
    /\ stage = [r \in Runtimes |-> "none"]
    /\ thread = [r \in Runtimes |-> NoThread]
    /\ counter = [t \in Threads |-> 0]
    /\ entered = [t \in Threads |-> <<>>]
    /\ isolateOf = [r \in Runtimes |-> NoRuntime]
    /\ isolate = [r \in Runtimes |-> "none"]
    /\ slot = [r \in Runtimes |-> NoRuntime]
    /\ allocator = [r \in Runtimes |-> "none"]
    /\ owner = [o \in HostObjects |-> NoRuntime]
    /\ weak = [o \in HostObjects |-> FALSE]
    /\ isReset = [o \in HostObjects |-> FALSE]
    /\ released = [o \in HostObjects |-> 0]

\* The runtimes a thread is in the middle of constructing or destroying.
UnderWay(t) ==
    {r \in Runtimes : thread[r] = t /\ stage[r] \in {"held", "reset", "exited", "unheld"}}

----------------------------------------------------------------------------
(* Construction: the member platform_holder_ under mutex_s_, then the body.*)

\* Mutant: only the runtime that makes the platform counts.
HolderCtorUncounted(t, r) ==
    /\ stage[r] = "none" /\ UnderWay(t) = {}
    /\ useCount' = IF useCount = 0 THEN 1 ELSE useCount
    /\ platform' = (platform \/ useCount = 0)
    /\ stage' = [stage EXCEPT ![r] = "held"]
    /\ thread' = [thread EXCEPT ![r] = t]
    /\ UNCHANGED <<isolateVars, objectVars>>

HolderCtor(t, r) ==
    /\ stage[r] = "none" /\ UnderWay(t) = {}
    /\ useCount' = useCount + 1
    /\ platform' = (platform \/ useCount = 0)
    /\ stage' = [stage EXCEPT ![r] = "held"]
    /\ thread' = [thread EXCEPT ![r] = t]
    /\ UNCHANGED <<isolateVars, objectVars>>

\* ++ and -- on a uint16_t.
Up(n)   == IF n = CounterMod - 1 THEN 0 ELSE n + 1
Down(n) == IF n = 0 THEN CounterMod - 1 ELSE n - 1

\* The isolate of the thread is used again.
Reuse(t, r) ==
    /\ counter[t] > 0
    /\ isolateOf' = [isolateOf EXCEPT ![r] = Last(entered[t])]
    /\ UNCHANGED <<entered, isolate, slot, allocator>>

CreateNewIsolate(t, r) ==
    /\ counter[t] = 0
    /\ isolateOf' = [isolateOf EXCEPT ![r] = r]
    /\ isolate' = [isolate EXCEPT ![r] = "alive"]
    /\ slot' = [slot EXCEPT ![r] = r]
    /\ allocator' = [allocator EXCEPT ![r] = "alive"]
    /\ entered' = [entered EXCEPT ![t] = Append(@, r)]

CtorBody(t, r) ==
    /\ stage[r] = "held" /\ thread[r] = t
    /\ counter' = [counter EXCEPT ![t] = Up(@)]
    /\ Reuse(t, r) \/ CreateNewIsolate(t, r)
    /\ stage' = [stage EXCEPT ![r] = "live"]
    /\ UNCHANGED <<useCount, platform, thread, objectVars>>

----------------------------------------------------------------------------
(* Host objects and host functions.                                        *)

CreateHostObject(r, o) ==
    /\ stage[r] = "live" /\ UnderWay(thread[r]) = {} /\ owner[o] = NoRuntime
    /\ owner' = [owner EXCEPT ![o] = r]
    /\ weak' = [weak EXCEPT ![o] = TRUE]
    /\ UNCHANGED <<useCount, platform, stage, thread, isolateVars, isReset, released>>

\* Mutant: the weak handle is left as it is.
ResetHostObjectsKeepHandle(os) ==
    LET toReset == {o \in os : ~isReset[o]}
    IN  /\ isReset' = [o \in HostObjects |-> isReset[o] \/ o \in toReset]
        /\ released' = [o \in HostObjects |-> released[o] + IF o \in toReset THEN 1 ELSE 0]
        /\ UNCHANGED weak

\* Mutant: the flag is not set.
ResetHostObjectsUnflagged(os) ==
    LET toReset == {o \in os : ~isReset[o]}
    IN  /\ weak' = [o \in HostObjects |-> weak[o] /\ o \notin toReset]
        /\ released' = [o \in HostObjects |-> released[o] + IF o \in toReset THEN 1 ELSE 0]
        /\ UNCHANGED isReset

\* ResetHostObject on the trackers of os, from the destructor or from the GC.
ResetHostObjects(os) ==
    LET toReset == {o \in os : ~isReset[o]}
    IN  /\ isReset' = [o \in HostObjects |-> isReset[o] \/ o \in toReset]
        /\ released' = [o \in HostObjects |-> released[o] + IF o \in toReset THEN 1 ELSE 0]
        /\ weak' = [o \in HostObjects |-> weak[o] /\ o \notin toReset]

\* V8 finds the object dead and calls HostObjectLifetimeTracker::Destroyed,
\* at any time at which the isolate is alive and the handle is weak.
Destroyed(o) ==
    /\ weak[o] /\ isolate[isolateOf[owner[o]]] = "alive"
    /\ ResetHostObjects({o})
    /\ UNCHANGED <<useCount, platform, stage, thread, isolateVars, owner>>

----------------------------------------------------------------------------
(* Destruction: the trackers and the isolate in the body, then the members *)
(* in reverse order, platform_holder_ before the list of the trackers.     *)

DtorReset(t, r) ==
    /\ stage[r] = "live" /\ thread[r] = t /\ UnderWay(t) = {}
    /\ ResetHostObjects({o \in HostObjects : owner[o] = r})
    /\ stage' = [stage EXCEPT ![r] = "reset"]
    /\ UNCHANGED <<useCount, platform, thread, isolateVars, owner>>

\* Mutant: the isolate goes with the runtime that created it.
DtorIsolateOfCreator(t, r) ==
    /\ stage[r] = "reset" /\ thread[r] = t
    /\ counter' = [counter EXCEPT ![t] = Down(@)]
    /\ IF isolateOf[r] = r
       THEN /\ slot' = [slot EXCEPT ![isolateOf[r]] = NoRuntime]
            /\ entered' = [entered EXCEPT ![t] = Front(@)]
            /\ isolate' = [isolate EXCEPT ![isolateOf[r]] = "disposed"]
            /\ allocator' = [allocator EXCEPT ![r] = IF @ = "alive" THEN "deleted" ELSE @]
       ELSE UNCHANGED <<slot, entered, isolate, allocator>>
    /\ stage' = [stage EXCEPT ![r] = "exited"]
    /\ UNCHANGED <<useCount, platform, thread, isolateOf, objectVars>>

\* Mutant: the test of the counter made before the decrement.
DtorIsolateLateTest(t, r) ==
    /\ stage[r] = "reset" /\ thread[r] = t
    /\ counter' = [counter EXCEPT ![t] = Down(@)]
    /\ IF counter[t] = 0
       THEN /\ slot' = [slot EXCEPT ![isolateOf[r]] = NoRuntime]
            /\ entered' = [entered EXCEPT ![t] = Front(@)]
            /\ isolate' = [isolate EXCEPT ![isolateOf[r]] = "disposed"]
            /\ allocator' = [allocator EXCEPT ![r] = IF @ = "alive" THEN "deleted" ELSE @]
       ELSE UNCHANGED <<slot, entered, isolate, allocator>>
    /\ stage' = [stage EXCEPT ![r] = "exited"]
    /\ UNCHANGED <<useCount, platform, thread, isolateOf, objectVars>>

\* The last runtime of the thread disposes the isolate, and deletes its own
\* allocator, which is null when it did not create the isolate.
DtorIsolate(t, r) ==
    /\ stage[r] = "reset" /\ thread[r] = t
    /\ counter' = [counter EXCEPT ![t] = Down(@)]
    /\ IF counter'[t] = 0
       THEN /\ slot' = [slot EXCEPT ![isolateOf[r]] = NoRuntime]
            /\ entered' = [entered EXCEPT ![t] = Front(@)]
            /\ isolate' = [isolate EXCEPT ![isolateOf[r]] = "disposed"]
            /\ allocator' = [allocator EXCEPT ![r] = IF @ = "alive" THEN "deleted" ELSE @]
       ELSE UNCHANGED <<slot, entered, isolate, allocator>>
    /\ stage' = [stage EXCEPT ![r] = "exited"]
    /\ UNCHANGED <<useCount, platform, thread, isolateOf, objectVars>>

\* Mutant: platform_holder_ is released by the body, before the isolate.
HolderDtorFirst(t, r) ==
    /\ stage[r] = "reset" /\ thread[r] = t
    /\ useCount' = useCount - 1
    /\ platform' = (platform /\ useCount' # 0)
    /\ stage' = [stage EXCEPT ![r] = "unheld"]
    /\ UNCHANGED <<thread, isolateVars, objectVars>>

HolderDtor(t, r) ==
    /\ stage[r] = "exited" /\ thread[r] = t
    /\ useCount' = useCount - 1
    /\ platform' = (platform /\ useCount' # 0)
    /\ stage' = [stage EXCEPT ![r] = "unheld"]
    /\ UNCHANGED <<thread, isolateVars, objectVars>>

\* The list of the trackers, and the rest of the members.
DtorMembers(t, r) ==
    /\ stage[r] = "unheld" /\ thread[r] = t
    /\ stage' = [stage EXCEPT ![r] = "gone"]
    /\ UNCHANGED <<useCount, platform, thread, isolateVars, objectVars>>

Step(t, r) ==
    \/ HolderCtor(t, r) \/ CtorBody(t, r)
    \/ DtorReset(t, r) \/ DtorIsolate(t, r) \/ HolderDtor(t, r) \/ DtorMembers(t, r)

Next ==
    \/ \E t \in Threads, r \in Runtimes : Step(t, r)
    \/ \E r \in Runtimes, o \in HostObjects : CreateHostObject(r, o)
    \/ \E o \in HostObjects : Destroyed(o)

Spec == Init /\ [][Next]_vars

----------------------------------------------------------------------------
(* Properties.                                                             *)

\* Every field has its type; in particular the use count never goes below
\* zero, where the unsigned use_count_s_ would wrap and the platform stay up.
TypeOK ==
    /\ useCount \in Nat /\ platform \in BOOLEAN
    /\ stage \in [Runtimes -> {"none", "held", "live", "reset", "exited", "unheld", "gone"}]
    /\ thread \in [Runtimes -> Threads \union {NoThread}]
    /\ counter \in [Threads -> 0..(CounterMod - 1)]
    /\ entered \in [Threads -> Seq(Runtimes)]
    /\ isolateOf \in [Runtimes -> Runtimes \union {NoRuntime}]
    /\ isolate \in [Runtimes -> {"none", "alive", "disposed"}]
    /\ slot \in [Runtimes -> Runtimes \union {NoRuntime}]
    /\ allocator \in [Runtimes -> {"none", "alive", "deleted"}]
    /\ owner \in [HostObjects -> Runtimes \union {NoRuntime}]
    /\ weak \in [HostObjects -> BOOLEAN] /\ isReset \in [HostObjects -> BOOLEAN]
    /\ released \in [HostObjects -> Nat]

\* While any thread has a runtime past its platform_holder_, or an isolate that
\* is not disposed, the process has its platform, whatever the other threads
\* construct and destroy meanwhile.
PlatformStaysUp ==
    \A r \in Runtimes :
        isolate[r] = "alive" \/ stage[r] \in {"held", "live", "reset", "exited"} => platform

\* A runtime that can be used has an isolate that no other runtime of its
\* thread has disposed, which is the one and only isolate its thread has
\* entered, with the array buffer allocator the isolate was made with.
IsolateIntact ==
    \A r \in Runtimes : stage[r] \in {"live", "reset"} =>
        /\ isolate[isolateOf[r]] = "alive"
        /\ entered[thread[r]] = <<isolateOf[r]>>
        /\ allocator[isolateOf[r]] = "alive"

\* When a thread has destroyed its runtimes, in whatever order, the isolates
\* they made are disposed and left, and its counter is back at zero; when no
\* thread has one, the platform is gone as well.
NothingLeftBehind ==
    /\ \A t \in Threads :
          (\A r \in Runtimes : thread[r] = t => stage[r] = "gone") =>
              /\ entered[t] = <<>> /\ counter[t] = 0
              /\ \A r \in Runtimes : thread[r] = t => isolate[r] # "alive"
    /\ (\A r \in Runtimes : stage[r] \in {"none", "gone"}) => ~platform

\* While V8 may call back the tracker of a host object, the tracker has not
\* been freed with the list of its runtime, although the isolate may outlive
\* that runtime; and V8 has not disposed the isolate of the handle.
TrackersOutliveHandles ==
    \A o \in HostObjects : weak[o] =>
        stage[owner[o]] # "gone" /\ isolate[isolateOf[owner[o]]] = "alive"

\* A host object is released once: by the collection of its JavaScript object
\* or by the destruction of its runtime, whichever is first, and never twice.
ReleasedOnce ==
    \A o \in HostObjects :
        /\ released[o] <= 1
        /\ owner[o] # NoRuntime /\ stage[owner[o]] # "live" => released[o] = 1
=============================================================================
