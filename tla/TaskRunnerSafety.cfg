\* Two outside posters, the worker posting from inside a task, three tasks.
CONSTANTS
    p1 = p1
    p2 = p2
    t1 = t1
    t2 = t2
    t3 = t3
    Posters <- TwoPosters
    Tasks <- ThreeTasks
    Delays <- NowOrSoon
    MaxTime = 3
    Worker = Worker
    NoTask = NoTask
SPECIFICATION Spec
SYMMETRY Interchangeable
INVARIANTS
    TypeOK
    WorkerNeverMissesAPost
    TimerNeverMissesAPost
    QuietOnceDestroyed
    StopHonoured
    NoTaskInTwoPlaces
    OutOfOrderOnlyIfFiledLate
PROPERTY ImplementsTaskPool
\* A runner with nothing to do is at rest.
CHECK_DEADLOCK FALSE
