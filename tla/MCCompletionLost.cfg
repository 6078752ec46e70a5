CONSTANTS
    StartSize = 1
    NTasks = 4
    TaskParents <- MCParents
SPECIFICATION Spec
PROPERTY AllTasksComplete
