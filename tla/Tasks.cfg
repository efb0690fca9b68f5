SPECIFICATION Spec
CONSTANTS
    MaxTasks = 3
    Limits <- SomeLimits
    MaxLines = 1
INVARIANTS TasksOnce ErrorsSurface AllPrinted
PROPERTIES DoTasksReturns
