CONSTANTS
    Worker = {w1, w2, w3}
    Caller = {c1, c2}
    Task = {t1, t2, t3}
    NoTask = NoTask
    Free = Free
SPECIFICATION Spec
INVARIANTS TypeOK EnoughAwake CleanShutdown ExactlyOnce
PROPERTIES EveryTaskRuns WorkersLeave ImplementsTaskService
