\* The destructor of an idle runner, two tasks.
CONSTANTS
    p1 = p1
    p2 = p2
    t1 = t1
    t2 = t2
    t3 = t3
    Posters <- OnePoster
    Tasks <- TwoTasks
    Delays <- NowOrSoon
    MaxTime = 2
    Worker = Worker
    NoTask = NoTask
SPECIFICATION FairSpec
PROPERTY DestructorReturns
CHECK_DEADLOCK FALSE
