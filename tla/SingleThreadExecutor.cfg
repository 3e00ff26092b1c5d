SPECIFICATION FairSpec
CONSTANTS
    Workers = {w1, w2}
    Loop = loop
    NoThread = NoThread
    NoTask = NoTask
    MaxPosts = 3
    TasksThrow = TRUE
INVARIANTS
    SleepsOnlyWhileNotified
PROPERTIES
    ImplementsSerialExecutor
    PostedTasksRun
