SPECIFICATION FairSpec
CONSTANTS
    Workers = {w1}
    Loop = loop
    NoThread = NoThread
    NoTask = NoTask
    MaxPosts = 1
    TasksThrow = FALSE
PROPERTIES
    StopEndsRun
