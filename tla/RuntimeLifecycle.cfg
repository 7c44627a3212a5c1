SPECIFICATION Spec
CONSTANTS
    Threads = {t1, t2}
    Runtimes = {r1, r2, r3, r4}
    HostObjects = {o1, o2}
    NoThread = noThread
    NoRuntime = noRuntime
    CounterMod = 65536
SYMMETRY LifecycleSymmetry
INVARIANTS
    TypeOK
    PlatformStaysUp
    IsolateIntact
    NothingLeftBehind
    TrackersOutliveHandles
    ReleasedOnce
\* every runtime is destroyed once and for all
CHECK_DEADLOCK FALSE
