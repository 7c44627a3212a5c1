----------------------- MODULE RuntimeLifecycleProofs -----------------------
(***************************************************************************)
(* Theorems about RuntimeLifecycle for any threads, runtimes and host      *)
(* objects. The two use counts are what everything hangs on: each equals   *)
(* the number of runtimes at the stages it stands for, so that it is zero  *)
(* when and only when the last of them is gone.                            *)
(***************************************************************************)
EXTENDS RuntimeLifecycle, TLAPS, FiniteSetTheorems

\* The runtimes that count for the platform, and for the isolate of a thread.
Holders  == {r \in Runtimes : stage[r] \in {"held", "live", "reset", "exited"}}
Users(t) == {r \in Runtimes : thread[r] = t /\ stage[r] \in {"live", "reset"}}

\* The counts are right and the platform is there exactly when one holds it.
CountInv ==
    /\ useCount = Cardinality(Holders)
    /\ platform <=> useCount > 0
    /\ \A t \in Threads : counter[t] = Cardinality(Users(t))

\* The isolate of a thread is the one all of its runtimes use, made on it.
IsolateInv ==
    /\ \A r \in Runtimes : stage[r] # "none" => thread[r] \in Threads
    /\ \A t \in Threads : Users(t) = {} => entered[t] = <<>>
    /\ \A t \in Threads, r \in Runtimes : r \in Users(t) =>
          /\ isolateOf[r] \in Runtimes
          /\ stage[isolateOf[r]] # "none" /\ thread[isolateOf[r]] = t
          /\ entered[t] = <<isolateOf[r]>>
          /\ isolate[isolateOf[r]] = "alive" /\ allocator[isolateOf[r]] = "alive"
    /\ \A i \in Runtimes : isolate[i] = "alive" =>
          stage[i] # "none" /\ Users(thread[i]) # {} /\ entered[thread[i]] = <<i>>

\* A tracker's handle, flag and count of releases say the same thing.
ObjectInv ==
    \A o \in HostObjects :
        /\ released[o] = IF isReset[o] THEN 1 ELSE 0
        /\ weak[o] => owner[o] # NoRuntime /\ ~isReset[o]
        /\ owner[o] # NoRuntime => stage[owner[o]] # "none" /\ (weak[o] \/ isReset[o])
        /\ owner[o] # NoRuntime /\ stage[owner[o]] # "live" => isReset[o]
        /\ owner[o] = NoRuntime => ~isReset[o]

IInv == TypeOK /\ CountInv /\ IsolateInv /\ ObjectInv

----------------------------------------------------------------------------
(* Counting.                                                               *)

LEMMA CountsFinite ==
    /\ IsFiniteSet(Holders) /\ Cardinality(Holders) \in Nat
    /\ \A t \in Threads :
             /\ IsFiniteSet(Users(t)) /\ Cardinality(Users(t)) \in Nat
             /\ Cardinality(Users(t)) <= Cardinality(Runtimes)
             /\ Cardinality(Users(t)) = 0 <=> Users(t) = {}
    /\ Cardinality(Runtimes) \in Nat
    /\ Cardinality(Holders) = 0 <=> Holders = {}
<1>1. IsFiniteSet(Runtimes) BY LifecycleAssumption
<1>2. Holders \in SUBSET Runtimes BY DEF Holders
<1>3. \A t : Users(t) \in SUBSET Runtimes BY DEF Users
<1>4. IsFiniteSet(Holders) BY <1>1, <1>2, FS_Subset
<1>5. \A t : IsFiniteSet(Users(t)) /\ Cardinality(Users(t)) <= Cardinality(Runtimes)
    BY <1>1, <1>3, FS_Subset
<1>6. Cardinality(Holders) \in Nat /\ Cardinality(Runtimes) \in Nat
    BY <1>1, <1>4, FS_CardinalityType
<1>7. \A t : Cardinality(Users(t)) \in Nat BY <1>5, FS_CardinalityType
<1>8. \A t : Cardinality(Users(t)) = 0 <=> Users(t) = {} BY <1>5, FS_EmptySet
<1>9. Cardinality(Holders) = 0 <=> Holders = {} BY <1>4, FS_EmptySet
<1> QED BY <1>4, <1>5, <1>6, <1>7, <1>8, <1>9

\* Up counts one more and Down one less as long as the count is right.
LEMMA NoWrap ==
    ASSUME NEW n \in Nat
    PROVE  /\ n < CounterMod - 1 => Up(n) = n + 1
           /\ n # 0 => Down(n) = n - 1
           /\ n \in 0..(CounterMod - 1) => Up(n) \in 0..(CounterMod - 1)
           /\ n \in 0..(CounterMod - 1) => Down(n) \in 0..(CounterMod - 1)
BY LifecycleAssumption, CountsFinite DEF Up, Down

----------------------------------------------------------------------------
(* Types. Only the use count, of the unsigned counters, needs the counts.  *)

LEMMA TypeStep ==
    ASSUME TypeOK, CountInv, IsolateInv, [Next]_vars
    PROVE  TypeOK'
<1> USE LifecycleAssumption
<1>0. CASE UNCHANGED vars
    BY <1>0 DEF TypeOK, vars, isolateVars, objectVars
<1>1. ASSUME NEW t \in Threads, NEW r \in Runtimes, HolderCtor(t, r) PROVE TypeOK'
    BY <1>1 DEF TypeOK, HolderCtor, isolateVars, objectVars
<1>2. ASSUME NEW t \in Threads, NEW r \in Runtimes, CtorBody(t, r) PROVE TypeOK'
    <2>1. /\ counter' \in [Threads -> 0..(CounterMod - 1)]
          /\ stage' \in [Runtimes -> {"none", "held", "live", "reset", "exited", "unheld", "gone"}]
          /\ UNCHANGED <<useCount, platform, thread, objectVars>>
        BY <1>2, NoWrap DEF CtorBody, TypeOK
    <2>2. CASE Reuse(t, r)
        <3>1. Last(entered[t]) \in Runtimes
            <4>1. counter[t] # 0 /\ counter[t] = Cardinality(Users(t))
                BY <2>2 DEF Reuse, TypeOK, CountInv
            <4>2. PICK u \in Runtimes : u \in Users(t)
                BY <4>1, CountsFinite DEF Users
            <4> QED BY <4>2 DEF IsolateInv, Last
        <3> QED BY <2>1, <2>2, <3>1 DEF Reuse, TypeOK, objectVars
    <2>3. CASE CreateNewIsolate(t, r)
        BY <2>1, <2>3 DEF CreateNewIsolate, TypeOK, objectVars
    <2> QED BY <1>2, <2>2, <2>3 DEF CtorBody
<1>3. ASSUME NEW r \in Runtimes, NEW o \in HostObjects, CreateHostObject(r, o) PROVE TypeOK'
    BY <1>3 DEF TypeOK, CreateHostObject, isolateVars
<1>4. ASSUME NEW o \in HostObjects, Destroyed(o) PROVE TypeOK'
    BY <1>4 DEF TypeOK, Destroyed, ResetHostObjects, isolateVars
<1>5. ASSUME NEW t \in Threads, NEW r \in Runtimes, DtorReset(t, r) PROVE TypeOK'
    BY <1>5 DEF TypeOK, DtorReset, ResetHostObjects, isolateVars
<1>6. ASSUME NEW t \in Threads, NEW r \in Runtimes, DtorIsolate(t, r) PROVE TypeOK'
    <2>1. /\ counter' \in [Threads -> 0..(CounterMod - 1)]
          /\ stage' \in [Runtimes -> {"none", "held", "live", "reset", "exited", "unheld", "gone"}]
          /\ UNCHANGED <<useCount, platform, thread, isolateOf, objectVars>>
        BY <1>6, NoWrap DEF DtorIsolate, TypeOK
    <2>2. r \in Users(t)
        BY <1>6 DEF DtorIsolate, Users
    <2>3. isolateOf[r] \in Runtimes /\ entered[t] = <<isolateOf[r]>>
        BY <2>2 DEF IsolateInv
    <2>4. Front(entered[t]) = <<>> BY <2>3 DEF Front
    <2>5. /\ slot' \in [Runtimes -> Runtimes \union {NoRuntime}]
          /\ entered' \in [Threads -> Seq(Runtimes)]
          /\ isolate' \in [Runtimes -> {"none", "alive", "disposed"}]
          /\ allocator' \in [Runtimes -> {"none", "alive", "deleted"}]
        <3>1. CASE counter'[t] = 0
            <4>1. /\ slot' = [slot EXCEPT ![isolateOf[r]] = NoRuntime]
                  /\ entered' = [entered EXCEPT ![t] = <<>>]
                  /\ isolate' = [isolate EXCEPT ![isolateOf[r]] = "disposed"]
                  /\ allocator' = [allocator EXCEPT ![r] = IF @ = "alive" THEN "deleted" ELSE @]
                BY <1>6, <2>4, <3>1 DEF DtorIsolate
            <4>2. <<>> \in Seq(Runtimes) OBVIOUS
            <4> QED BY <4>1, <4>2 DEF TypeOK
        <3>2. CASE counter'[t] # 0
            BY <1>6, <3>2 DEF DtorIsolate, TypeOK
        <3> QED BY <3>1, <3>2
    <2> QED BY <2>1, <2>5 DEF TypeOK, objectVars
<1>7. ASSUME NEW t \in Threads, NEW r \in Runtimes, HolderDtor(t, r) PROVE TypeOK'
    <2>1. useCount > 0
        BY <1>7, CountsFinite DEF HolderDtor, CountInv, Holders
    <2> QED BY <1>7, <2>1 DEF TypeOK, HolderDtor, isolateVars, objectVars
<1>8. ASSUME NEW t \in Threads, NEW r \in Runtimes, DtorMembers(t, r) PROVE TypeOK'
    BY <1>8 DEF TypeOK, DtorMembers, isolateVars, objectVars
<1> QED BY <1>0, <1>1, <1>2, <1>3, <1>4, <1>5, <1>6, <1>7, <1>8 DEF Next, Step

----------------------------------------------------------------------------
(* The counts. *)

LEMMA HoldersStep ==
    ASSUME TypeOK, CountInv, [Next]_vars
    PROVE  useCount' = Cardinality(Holders') /\ (platform' <=> useCount' > 0)
<1> USE CountsFinite DEF CountInv
<1>1. ASSUME NEW t \in Threads, NEW r \in Runtimes, HolderCtor(t, r)
      PROVE  useCount' = Cardinality(Holders') /\ (platform' <=> useCount' > 0)
    <2>1. Holders' = Holders \union {r} /\ r \notin Holders
        BY <1>1 DEF HolderCtor, Holders, TypeOK
    <2>2. Cardinality(Holders') = Cardinality(Holders) + 1 BY <2>1, FS_AddElement
    <2>3. useCount \in Nat /\ useCount' = useCount + 1 BY <1>1 DEF HolderCtor, TypeOK
    <2>4. useCount = 0 \/ useCount > 0 BY <2>3
    <2>5. platform' BY <1>1, <2>4, Zenon DEF HolderCtor
    <2>6. useCount' > 0 /\ useCount' = Cardinality(Holders') BY <2>2, <2>3
    <2> QED BY <2>5, <2>6
<1>2. ASSUME NEW t \in Threads, NEW r \in Runtimes, HolderDtor(t, r)
      PROVE  useCount' = Cardinality(Holders') /\ (platform' <=> useCount' > 0)
    <2>1. Holders' = Holders \ {r} /\ r \in Holders
        BY <1>2 DEF HolderDtor, Holders, TypeOK
    <2>2. Cardinality(Holders') = Cardinality(Holders) - 1 BY <2>1, FS_RemoveElement
    <2>3. Cardinality(Holders) > 0 BY <2>1
    <2>4. useCount' = Cardinality(Holders') /\ useCount > 0 /\ (useCount' > 0 <=> useCount' # 0)
        BY <1>2, <2>2, <2>3 DEF HolderDtor
    <2>5. platform' <=> useCount' # 0 BY <1>2, <2>4, Zenon DEF HolderDtor
    <2> QED BY <2>4, <2>5
<1>3. ASSUME Holders' = Holders, UNCHANGED <<useCount, platform>>
      PROVE  useCount' = Cardinality(Holders') /\ (platform' <=> useCount' > 0)
    BY <1>3
<1>4. ASSUME NEW t \in Threads, NEW r \in Runtimes,
             CtorBody(t, r) \/ DtorReset(t, r) \/ DtorIsolate(t, r) \/ DtorMembers(t, r)
      PROVE  Holders' = Holders /\ UNCHANGED <<useCount, platform>>
    BY <1>4 DEF CtorBody, DtorReset, DtorIsolate, DtorMembers, Holders, TypeOK
<1>5. ASSUME UNCHANGED vars \/ (\E r \in Runtimes, o \in HostObjects : CreateHostObject(r, o))
                 \/ (\E o \in HostObjects : Destroyed(o))
      PROVE  Holders' = Holders /\ UNCHANGED <<useCount, platform>>
    BY <1>5 DEF vars, CreateHostObject, Destroyed, Holders
<1> QED BY <1>1, <1>2, <1>3, <1>4, <1>5 DEF Next, Step

\* Steps that leave a thread's runtimes and the isolates as they are: all but
\* the bodies of the constructor and the destructor.
Elsewhere ==
    /\ UNCHANGED isolateVars
    /\ \A t : Users(t)' = Users(t)
    /\ \A r \in Runtimes : stage[r] # "none" => stage'[r] # "none" /\ thread'[r] = thread[r]
    /\ \A r \in Runtimes : stage'[r] # "none" => thread'[r] \in Threads

LEMMA ElsewhereSteps ==
    ASSUME TypeOK, IsolateInv, [Next]_vars
    PROVE  \/ Elsewhere
           \/ \E t \in Threads, r \in Runtimes : CtorBody(t, r) \/ DtorIsolate(t, r)
<1>1. ASSUME NEW t \in Threads, NEW r \in Runtimes, HolderCtor(t, r) PROVE Elsewhere
    BY <1>1 DEF HolderCtor, Elsewhere, Users, TypeOK, IsolateInv
<1>2. ASSUME NEW t \in Threads, NEW r \in Runtimes,
             DtorReset(t, r) \/ HolderDtor(t, r) \/ DtorMembers(t, r)
      PROVE  Elsewhere
    BY <1>2 DEF DtorReset, HolderDtor, DtorMembers, Elsewhere, Users, TypeOK, IsolateInv
<1>3. ASSUME UNCHANGED vars \/ (\E r \in Runtimes, o \in HostObjects : CreateHostObject(r, o))
                 \/ (\E o \in HostObjects : Destroyed(o))
      PROVE  Elsewhere
    BY <1>3 DEF vars, CreateHostObject, Destroyed, Elsewhere, Users, IsolateInv
<1> QED BY <1>1, <1>2, <1>3 DEF Next, Step

\* What the bodies do to the runtimes of the threads.
LEMMA CtorUsers ==
    ASSUME TypeOK, NEW t \in Threads, NEW r \in Runtimes, CtorBody(t, r)
    PROVE  /\ r \notin Users(t) /\ Users(t)' = Users(t) \union {r}
           /\ \A u : u # t => Users(u)' = Users(u)
BY DEF CtorBody, Users, TypeOK

LEMMA DtorUsers ==
    ASSUME TypeOK, NEW t \in Threads, NEW r \in Runtimes, DtorIsolate(t, r)
    PROVE  /\ r \in Users(t) /\ Users(t)' = Users(t) \ {r}
           /\ \A u : u # t => Users(u)' = Users(u)
BY DEF DtorIsolate, Users, TypeOK

LEMMA CountStep ==
    ASSUME TypeOK, CountInv, IsolateInv, [Next]_vars
    PROVE  CountInv'
<1> SUFFICES \A u \in Threads : counter'[u] = Cardinality(Users(u)')
    BY HoldersStep DEF CountInv
<1>1. CASE Elsewhere
    BY <1>1 DEF Elsewhere, CountInv, isolateVars
<1>2. ASSUME NEW t \in Threads, NEW r \in Runtimes, CtorBody(t, r)
      PROVE  \A u \in Threads : counter'[u] = Cardinality(Users(u)')
    <2>1. Cardinality(Users(t)') = Cardinality(Users(t)) + 1
        <3>1. IsFiniteSet(Users(t)) BY CountsFinite
        <3> QED BY <1>2, <3>1, CtorUsers, FS_AddElement
    <2>2. Users(t)' \in SUBSET Runtimes
        BY <1>2, CtorUsers DEF Users
    <2>3. Cardinality(Users(t)') <= Cardinality(Runtimes)
        BY <2>2, FS_Subset, LifecycleAssumption
    <2>4. Up(counter[t]) = counter[t] + 1
        <3>1. counter[t] = Cardinality(Users(t)) /\ counter[t] \in Nat
            BY CountsFinite DEF CountInv
        <3>2. counter[t] < CounterMod - 1
            BY <2>1, <2>3, <3>1, CountsFinite, LifecycleAssumption
        <3> QED BY <3>1, <3>2, NoWrap
    <2>5. counter' = [counter EXCEPT ![t] = Up(@)] BY <1>2 DEF CtorBody
    <2> QED BY <1>2, <2>1, <2>4, <2>5, CtorUsers DEF CountInv, TypeOK
<1>3. ASSUME NEW t \in Threads, NEW r \in Runtimes, DtorIsolate(t, r)
      PROVE  \A u \in Threads : counter'[u] = Cardinality(Users(u)')
    <2>1. Cardinality(Users(t)') = Cardinality(Users(t)) - 1
        <3>1. IsFiniteSet(Users(t)) BY CountsFinite
        <3> QED BY <1>3, <3>1, DtorUsers, FS_RemoveElement
    <2>2. counter[t] = Cardinality(Users(t)) /\ counter[t] \in Nat /\ counter[t] # 0
        <3>1. Users(t) # {} BY <1>3, DtorUsers
        <3> QED BY <3>1, CountsFinite DEF CountInv
    <2>3. Down(counter[t]) = counter[t] - 1
        BY <2>2, NoWrap
    <2>4. counter' = [counter EXCEPT ![t] = Down(@)] BY <1>3 DEF DtorIsolate
    <2> QED BY <1>3, <2>1, <2>2, <2>3, <2>4, DtorUsers DEF CountInv, TypeOK
<1> QED BY <1>1, <1>2, <1>3, ElsewhereSteps

----------------------------------------------------------------------------
(* The isolates. *)

LEMMA IsolateStep ==
    ASSUME TypeOK, CountInv, IsolateInv, [Next]_vars
    PROVE  IsolateInv'
<1>1. CASE Elsewhere
    <2>1. \A r \in Runtimes, t \in Threads : r \in Users(t) => stage[r] # "none" /\ thread[r] = t
        BY DEF Users
    <2> QED BY <1>1, <2>1 DEF Elsewhere, IsolateInv, isolateVars, TypeOK
<1>2. ASSUME NEW t \in Threads, NEW r \in Runtimes, CtorBody(t, r) PROVE IsolateInv'
    <2> DEFINE i == isolateOf'[r]
    <2>1. /\ stage' = [stage EXCEPT ![r] = "live"] /\ thread' = thread
          /\ stage[r] = "held" /\ thread[r] = t
          /\ Reuse(t, r) \/ CreateNewIsolate(t, r)
        BY <1>2 DEF CtorBody
    <2>2. /\ Users(t)' = Users(t) \union {r} /\ r \notin Users(t)
          /\ \A u : u # t => Users(u)' = Users(u)
        BY <1>2, CtorUsers
    <2>3. /\ \A q \in Runtimes : stage[q] # "none" => stage'[q] # "none"
          /\ \A q \in Runtimes : stage'[q] # "none" => thread'[q] \in Threads
        BY <2>1 DEF TypeOK, IsolateInv
    <2>6. \A v \in Threads, q \in Runtimes : q # r /\ q \in Users(v)' => q \in Users(v)
        <3> SUFFICES ASSUME NEW v \in Threads, NEW q \in Runtimes, q # r, q \in Users(v)'
                     PROVE  q \in Users(v)
            OBVIOUS
        <3>1. CASE v = t BY <2>2, <3>1
        <3>2. CASE v # t BY <2>2, <3>2
        <3> QED BY <3>1, <3>2
    <2>7. \A v : Users(v) # {} => Users(v)' # {}
        BY <2>2
    <2>4. CASE Reuse(t, r)
        <3>1. PICK u \in Runtimes : u \in Users(t)
            <4>1. counter[t] # 0 /\ counter[t] = Cardinality(Users(t))
                BY <2>4 DEF Reuse, TypeOK, CountInv
            <4> QED BY <4>1, CountsFinite DEF Users
        <3>2. /\ isolateOf' = [isolateOf EXCEPT ![r] = isolateOf[u]]
              /\ UNCHANGED <<entered, isolate, slot, allocator>>
            <4>1. Last(entered[t]) = isolateOf[u] BY <3>1 DEF IsolateInv, Last
            <4> QED BY <2>4, <4>1 DEF Reuse
        <3>3. \A v \in Threads, q \in Runtimes : q \in Users(v)' =>
                 /\ isolateOf'[q] \in Runtimes
                 /\ stage'[isolateOf'[q]] # "none" /\ thread'[isolateOf'[q]] = v
                 /\ entered'[v] = <<isolateOf'[q]>>
                 /\ isolate'[isolateOf'[q]] = "alive" /\ allocator'[isolateOf'[q]] = "alive"
            <4> SUFFICES ASSUME NEW v \in Threads, NEW q \in Runtimes, q \in Users(v)'
                         PROVE  /\ isolateOf'[q] \in Runtimes
                                /\ stage'[isolateOf'[q]] # "none" /\ thread'[isolateOf'[q]] = v
                                /\ entered'[v] = <<isolateOf'[q]>>
                                /\ isolate'[isolateOf'[q]] = "alive"
                                /\ allocator'[isolateOf'[q]] = "alive"
                OBVIOUS
            <4>1. CASE q = r
                <5>1. v = t BY <2>1, <4>1 DEF Users, TypeOK
                <5> QED BY <2>1, <2>3, <3>1, <3>2, <4>1, <5>1 DEF IsolateInv, TypeOK
            <4>2. CASE q # r
                <5>1. q \in Users(v) /\ isolateOf'[q] = isolateOf[q]
                    BY <2>6, <3>2, <4>2 DEF TypeOK
                <5> QED BY <2>1, <2>3, <3>2, <5>1 DEF IsolateInv
            <4> QED BY <4>1, <4>2
        <3>4. \A v \in Threads : Users(v)' = {} => entered'[v] = <<>>
            BY <2>2, <3>2 DEF IsolateInv
        <3>5. \A j \in Runtimes : isolate'[j] = "alive" =>
                 stage'[j] # "none" /\ Users(thread[j])' # {} /\ entered'[thread'[j]] = <<j>>
            BY <2>1, <2>3, <2>7, <3>2 DEF IsolateInv
        <3> QED BY <2>1, <2>3, <3>3, <3>4, <3>5 DEF IsolateInv
    <2>5. CASE CreateNewIsolate(t, r)
        <3>1. Users(t) = {}
            <4>1. counter[t] = 0 BY <2>5 DEF CreateNewIsolate
            <4> QED BY <4>1, CountsFinite DEF CountInv
        <3>2. /\ isolateOf' = [isolateOf EXCEPT ![r] = r]
              /\ isolate' = [isolate EXCEPT ![r] = "alive"]
              /\ allocator' = [allocator EXCEPT ![r] = "alive"]
              /\ entered' = [entered EXCEPT ![t] = <<r>>]
            <4>1. entered[t] = <<>> BY <3>1 DEF IsolateInv
            <4>2. Append(entered[t], r) = <<r>> BY <4>1
            <4> QED BY <2>5, <4>2 DEF CreateNewIsolate
        <3>3. \A v \in Threads, q \in Runtimes : q \in Users(v)' =>
                 /\ isolateOf'[q] \in Runtimes
                 /\ stage'[isolateOf'[q]] # "none" /\ thread'[isolateOf'[q]] = v
                 /\ entered'[v] = <<isolateOf'[q]>>
                 /\ isolate'[isolateOf'[q]] = "alive" /\ allocator'[isolateOf'[q]] = "alive"
            <4> SUFFICES ASSUME NEW v \in Threads, NEW q \in Runtimes, q \in Users(v)'
                         PROVE  /\ isolateOf'[q] \in Runtimes
                                /\ stage'[isolateOf'[q]] # "none" /\ thread'[isolateOf'[q]] = v
                                /\ entered'[v] = <<isolateOf'[q]>>
                                /\ isolate'[isolateOf'[q]] = "alive"
                                /\ allocator'[isolateOf'[q]] = "alive"
                OBVIOUS
            <4>1. CASE q = r
                <5>1. v = t BY <2>1, <4>1 DEF Users, TypeOK
                <5> QED BY <2>1, <3>2, <4>1, <5>1 DEF TypeOK
            <4>2. CASE q # r
                <5>1. v # t /\ q \in Users(v) /\ isolateOf'[q] = isolateOf[q]
                    BY <2>2, <3>1, <3>2, <4>2 DEF TypeOK
                <5>2. entered'[v] = entered[v] BY <3>2, <5>1 DEF TypeOK
                <5> QED BY <2>1, <2>3, <3>2, <5>1, <5>2 DEF IsolateInv, TypeOK
            <4> QED BY <4>1, <4>2
        <3>4. \A v \in Threads : Users(v)' = {} => entered'[v] = <<>>
            BY <2>2, <3>2 DEF IsolateInv, TypeOK
        <3>5. \A j \in Runtimes : isolate'[j] = "alive" =>
                 stage'[j] # "none" /\ Users(thread[j])' # {} /\ entered'[thread'[j]] = <<j>>
            <4> SUFFICES ASSUME NEW j \in Runtimes, isolate'[j] = "alive"
                         PROVE  /\ stage'[j] # "none" /\ Users(thread[j])' # {}
                                /\ entered'[thread'[j]] = <<j>>
                OBVIOUS
            <4>1. CASE j = r
                BY <2>1, <2>2, <3>2, <4>1 DEF TypeOK
            <4>2. CASE j # r
                <5>1. isolate[j] = "alive" BY <3>2, <4>2 DEF TypeOK
                <5>2. /\ stage[j] # "none" /\ Users(thread[j]) # {}
                      /\ entered[thread[j]] = <<j>> /\ thread[j] \in Threads
                    BY <5>1 DEF IsolateInv
                <5>3. thread[j] # t BY <3>1, <5>2
                <5> QED BY <2>1, <2>2, <2>3, <3>2, <5>2, <5>3 DEF TypeOK
            <4> QED BY <4>1, <4>2
        <3> QED BY <2>1, <2>3, <3>3, <3>4, <3>5 DEF IsolateInv
    <2> QED BY <2>1, <2>4, <2>5
<1>3. ASSUME NEW t \in Threads, NEW r \in Runtimes, DtorIsolate(t, r) PROVE IsolateInv'
    <2>1. /\ stage' = [stage EXCEPT ![r] = "exited"] /\ thread' = thread /\ isolateOf' = isolateOf
        BY <1>3 DEF DtorIsolate
    <2>2. /\ Users(t)' = Users(t) \ {r} /\ r \in Users(t)
          /\ \A u : u # t => Users(u)' = Users(u)
        BY <1>3, DtorUsers
    <2>3. /\ \A q \in Runtimes : stage[q] # "none" => stage'[q] # "none"
          /\ \A q \in Runtimes : stage'[q] # "none" => thread'[q] \in Threads
        <3>1. stage[r] = "reset" BY <1>3 DEF DtorIsolate
        <3> QED BY <2>1, <3>1 DEF TypeOK, IsolateInv
    <2>4. counter'[t] = Cardinality(Users(t)')
        BY CountStep DEF CountInv
    <2>5. Users(t)' = {} <=> counter'[t] = 0
        <3>1. Users(t)' \in SUBSET Runtimes BY <2>2 DEF Users
        <3>2. IsFiniteSet(Users(t)') BY <3>1, FS_Subset, LifecycleAssumption
        <3> QED BY <2>4, <3>2, FS_EmptySet
    <2>6. /\ isolateOf[r] \in Runtimes /\ thread[isolateOf[r]] = t
          /\ entered[t] = <<isolateOf[r]>>
        BY <2>2 DEF IsolateInv
    <2>7. CASE counter'[t] = 0
        <3>1. /\ isolate' = [isolate EXCEPT ![isolateOf[r]] = "disposed"]
              /\ allocator' = [allocator EXCEPT ![r] = IF @ = "alive" THEN "deleted" ELSE @]
              /\ entered' = [entered EXCEPT ![t] = <<>>]
            <4>1. Front(entered[t]) = <<>> BY <2>6 DEF Front
            <4> QED BY <1>3, <2>7, <4>1 DEF DtorIsolate
        <3>2. Users(t)' = {} BY <2>5, <2>7
        <3>3. \A v \in Threads, q \in Runtimes : q \in Users(v)' =>
                 /\ isolateOf'[q] \in Runtimes
                 /\ stage'[isolateOf'[q]] # "none" /\ thread'[isolateOf'[q]] = v
                 /\ entered'[v] = <<isolateOf'[q]>>
                 /\ isolate'[isolateOf'[q]] = "alive" /\ allocator'[isolateOf'[q]] = "alive"
            <4> SUFFICES ASSUME NEW v \in Threads, NEW q \in Runtimes, q \in Users(v)'
                         PROVE  /\ isolateOf'[q] \in Runtimes
                                /\ stage'[isolateOf'[q]] # "none" /\ thread'[isolateOf'[q]] = v
                                /\ entered'[v] = <<isolateOf'[q]>>
                                /\ isolate'[isolateOf'[q]] = "alive"
                                /\ allocator'[isolateOf'[q]] = "alive"
                OBVIOUS
            <4>1. v # t /\ q \in Users(v) BY <2>2, <3>2
            <4>2. /\ isolateOf[q] \in Runtimes /\ thread[isolateOf[q]] = v
                  /\ stage[isolateOf[q]] # "none" /\ entered[v] = <<isolateOf[q]>>
                  /\ isolate[isolateOf[q]] = "alive" /\ allocator[isolateOf[q]] = "alive"
                BY <4>1 DEF IsolateInv
            <4>3. isolateOf[q] # isolateOf[r] /\ isolateOf[q] # r
                BY <1>3, <2>6, <4>1, <4>2 DEF DtorIsolate
            <4> QED BY <2>1, <2>3, <3>1, <4>1, <4>2, <4>3 DEF TypeOK
        <3>4. \A v \in Threads : Users(v)' = {} => entered'[v] = <<>>
            BY <2>2, <3>1 DEF IsolateInv, TypeOK
        <3>5. \A j \in Runtimes : isolate'[j] = "alive" =>
                 stage'[j] # "none" /\ Users(thread[j])' # {} /\ entered'[thread'[j]] = <<j>>
            <4> SUFFICES ASSUME NEW j \in Runtimes, isolate'[j] = "alive"
                         PROVE  /\ stage'[j] # "none" /\ Users(thread[j])' # {}
                                /\ entered'[thread'[j]] = <<j>>
                OBVIOUS
            <4>1. isolate[j] = "alive" /\ j # isolateOf[r] BY <2>6, <3>1 DEF TypeOK
            <4>2. /\ stage[j] # "none" /\ Users(thread[j]) # {}
                  /\ entered[thread[j]] = <<j>> /\ thread[j] \in Threads
                BY <4>1 DEF IsolateInv
            <4>3. thread[j] # t BY <2>6, <4>1, <4>2
            <4> QED BY <2>1, <2>2, <2>3, <3>1, <4>2, <4>3 DEF TypeOK
        <3> QED BY <2>1, <2>3, <3>3, <3>4, <3>5 DEF IsolateInv
    <2>8. CASE counter'[t] # 0
        <3>1. UNCHANGED <<isolate, allocator, entered>>
            BY <1>3, <2>8 DEF DtorIsolate
        <3>2. Users(t)' # {} BY <2>5, <2>8
        <3>3. \A v \in Threads, q \in Runtimes : q \in Users(v)' => q \in Users(v)
            BY <2>2
        <3>4. \A v \in Threads : Users(v)' = {} => Users(v) = {}
            BY <2>2, <3>2
        <3>5. \A v : Users(v) # {} => Users(v)' # {}
            BY <2>2, <3>2
        <3> QED BY <2>1, <2>3, <3>1, <3>3, <3>4, <3>5 DEF IsolateInv
    <2> QED BY <2>7, <2>8
<1> QED BY <1>1, <1>2, <1>3, ElsewhereSteps

----------------------------------------------------------------------------
(* The host objects: a tracker is reset at most once, and before its owner *)
(* is past DtorReset.                                                      *)

LEMMA ObjectStep ==
    ASSUME TypeOK, ObjectInv, [Next]_vars
    PROVE  ObjectInv'
<1> USE LifecycleAssumption DEF ObjectInv
<1>0. CASE UNCHANGED vars
    BY <1>0 DEF vars, objectVars
<1>1. ASSUME NEW t \in Threads, NEW r \in Runtimes, HolderCtor(t, r) PROVE ObjectInv'
    BY <1>1 DEF HolderCtor, objectVars, TypeOK
<1>2. ASSUME NEW t \in Threads, NEW r \in Runtimes, CtorBody(t, r) PROVE ObjectInv'
    BY <1>2 DEF CtorBody, objectVars, TypeOK
<1>3. ASSUME NEW r \in Runtimes, NEW o \in HostObjects, CreateHostObject(r, o) PROVE ObjectInv'
    BY <1>3 DEF CreateHostObject, TypeOK
<1>4. ASSUME NEW o \in HostObjects, Destroyed(o) PROVE ObjectInv'
    BY <1>4 DEF Destroyed, ResetHostObjects, TypeOK
<1>5. ASSUME NEW t \in Threads, NEW r \in Runtimes, DtorReset(t, r) PROVE ObjectInv'
    <2>1. /\ stage' = [stage EXCEPT ![r] = "reset"] /\ UNCHANGED owner
          /\ stage[r] = "live"
          /\ \A o \in HostObjects : 
                /\ isReset'[o] <=> isReset[o] \/ owner[o] = r
                /\ released'[o] = released[o] + IF owner[o] = r /\ ~isReset[o] THEN 1 ELSE 0
                /\ weak'[o] <=> weak[o] /\ ~(owner[o] = r /\ ~isReset[o])
        BY <1>5 DEF DtorReset, ResetHostObjects, TypeOK
    <2> SUFFICES ASSUME NEW o \in HostObjects
                 PROVE  /\ released'[o] = IF isReset'[o] THEN 1 ELSE 0
                        /\ weak'[o] => owner'[o] # NoRuntime /\ ~isReset'[o]
                        /\ owner'[o] # NoRuntime => stage'[owner'[o]] # "none" /\ (weak'[o] \/ isReset'[o])
                        /\ owner'[o] # NoRuntime /\ stage'[owner'[o]] # "live" => isReset'[o]
                        /\ owner'[o] = NoRuntime => ~isReset'[o]
        OBVIOUS
    <2>2. CASE owner[o] = r
        BY <2>1, <2>2 DEF TypeOK
    <2>3. CASE owner[o] # r
        BY <2>1, <2>3 DEF TypeOK
    <2> QED BY <2>2, <2>3
<1>6. ASSUME NEW t \in Threads, NEW r \in Runtimes, DtorIsolate(t, r) PROVE ObjectInv'
    BY <1>6 DEF DtorIsolate, objectVars, TypeOK
<1>7. ASSUME NEW t \in Threads, NEW r \in Runtimes, HolderDtor(t, r) PROVE ObjectInv'
    BY <1>7 DEF HolderDtor, objectVars, TypeOK
<1>8. ASSUME NEW t \in Threads, NEW r \in Runtimes, DtorMembers(t, r) PROVE ObjectInv'
    BY <1>8 DEF DtorMembers, objectVars, TypeOK
<1> QED BY <1>0, <1>1, <1>2, <1>3, <1>4, <1>5, <1>6, <1>7, <1>8 DEF Next, Step

----------------------------------------------------------------------------
(* The theorems. *)

LEMMA InvInit == Init => IInv
<1> SUFFICES ASSUME Init PROVE IInv
    OBVIOUS
<1> USE LifecycleAssumption
<1>1. Holders = {} /\ \A t \in Threads : Users(t) = {}
    BY DEF Init, Holders, Users
<1>2. Cardinality({}) = 0 BY FS_EmptySet
<1>3. TypeOK
    <2>1. CounterMod > 0 BY CountsFinite
    <2>2. /\ counter \in [Threads -> 0..(CounterMod - 1)]
          /\ entered \in [Threads -> Seq(Runtimes)]
        <3>1. 0 \in 0..(CounterMod - 1) BY <2>1
        <3>2. <<>> \in Seq(Runtimes) OBVIOUS
        <3> QED BY <3>1, <3>2 DEF Init
    <2> QED BY <2>2 DEF Init, TypeOK
<1>4. CountInv
    <2>1. ~platform /\ useCount = 0 BY DEF Init
    <2>2. \A t \in Threads : counter[t] = 0 BY DEF Init
    <2>3. platform <=> useCount > 0 BY <2>1
    <2> QED BY <1>1, <1>2, <2>1, <2>2, <2>3 DEF CountInv
<1>5. IsolateInv BY <1>1 DEF Init, IsolateInv, Users
<1>6. ObjectInv BY DEF Init, ObjectInv
<1> QED BY <1>3, <1>4, <1>5, <1>6 DEF IInv

LEMMA Invariance == Spec => []IInv
<1>1. IInv /\ [Next]_vars => IInv'
    BY TypeStep, CountStep, IsolateStep, ObjectStep DEF IInv
<1> QED BY InvInit, <1>1, PTL DEF Spec

\* For any threads, runtimes and host objects every field has its type: the
\* use count of the platform, in particular, never goes below zero.
THEOREM TypeCorrect == Spec => []TypeOK
<1>1. IInv => TypeOK BY DEF IInv
<1> QED BY <1>1, Invariance, PTL

\* No order in which any number of threads construct and destroy runtimes
\* shuts the platform down while one of them holds it or has an isolate.
THEOREM PlatformOutlivesIsolates == Spec => []PlatformStaysUp
<1>1. IInv => PlatformStaysUp
    <2> SUFFICES ASSUME IInv, NEW r \in Runtimes,
                        isolate[r] = "alive" \/ stage[r] \in {"held", "live", "reset", "exited"}
                 PROVE  platform
        BY DEF PlatformStaysUp
    <2>1. Holders # {}
        <3>1. CASE isolate[r] = "alive"
            BY <3>1 DEF IInv, IsolateInv, Users, Holders
        <3>2. CASE stage[r] \in {"held", "live", "reset", "exited"}
            BY <3>2 DEF Holders
        <3> QED BY <3>1, <3>2
    <2>2. useCount > 0 BY <2>1, CountsFinite DEF IInv, CountInv
    <2> QED BY <2>2 DEF IInv, CountInv
<1> QED BY <1>1, Invariance, PTL

\* The isolate of a runtime is intact, whichever runtimes of its thread came
\* before it, and in whatever order they go.
THEOREM SharedIsolate == Spec => []IsolateIntact
<1>1. IInv => IsolateIntact
    <2> SUFFICES ASSUME IInv, NEW r \in Runtimes, stage[r] \in {"live", "reset"}
                 PROVE  /\ isolate[isolateOf[r]] = "alive"
                        /\ entered[thread[r]] = <<isolateOf[r]>>
                        /\ allocator[isolateOf[r]] = "alive"
        BY DEF IsolateIntact
    <2>1. thread[r] \in Threads /\ r \in Users(thread[r])
        BY DEF IInv, IsolateInv, Users
    <2> QED BY <2>1 DEF IInv, IsolateInv
<1> QED BY <1>1, Invariance, PTL

\* The last runtime of a thread to go leaves no isolate behind, and the last of
\* all leaves no platform.
THEOREM CleanDeparture == Spec => []NothingLeftBehind
<1>1. IInv => NothingLeftBehind
    <2> SUFFICES ASSUME IInv PROVE NothingLeftBehind
        OBVIOUS
    <2>1. ASSUME NEW t \in Threads, \A r \in Runtimes : thread[r] = t => stage[r] = "gone"
          PROVE  /\ entered[t] = <<>> /\ counter[t] = 0
                 /\ \A r \in Runtimes : thread[r] = t => isolate[r] # "alive"
        <3>1. Users(t) = {} BY <2>1 DEF Users
        <3>2. counter[t] = 0 BY <3>1, CountsFinite DEF IInv, CountInv
        <3> QED BY <3>1, <3>2 DEF IInv, IsolateInv
    <2>2. ASSUME \A r \in Runtimes : stage[r] \in {"none", "gone"} PROVE ~platform
        <3>1. Holders = {} BY <2>2 DEF Holders
        <3>2. useCount = 0 BY <3>1, CountsFinite DEF IInv, CountInv
        <3>3. ~(useCount > 0) BY <3>2
        <3> QED BY <3>3 DEF IInv, CountInv
    <2> QED BY <2>1, <2>2 DEF NothingLeftBehind
<1> QED BY <1>1, Invariance, PTL

\* V8 never calls back a tracker that is freed.
THEOREM HandlesTracked == Spec => []TrackersOutliveHandles
<1>1. IInv => TrackersOutliveHandles
    <2> SUFFICES ASSUME IInv, NEW o \in HostObjects, weak[o]
                 PROVE  stage[owner[o]] # "gone" /\ isolate[isolateOf[owner[o]]] = "alive"
        BY DEF TrackersOutliveHandles
    <2>1. owner[o] \in Runtimes /\ stage[owner[o]] = "live"
        BY DEF IInv, ObjectInv, TypeOK
    <2>2. thread[owner[o]] \in Threads /\ owner[o] \in Users(thread[owner[o]])
        BY <2>1 DEF IInv, IsolateInv, Users
    <2> QED BY <2>1, <2>2 DEF IInv, IsolateInv
<1> QED BY <1>1, Invariance, PTL

\* A host object is released exactly once, by the collector or by its runtime.
THEOREM HostObjectsReleased == Spec => []ReleasedOnce
<1>1. IInv => ReleasedOnce
    BY DEF IInv, ObjectInv, ReleasedOnce
<1> QED BY <1>1, Invariance, PTL
=============================================================================
