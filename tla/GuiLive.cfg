SPECIFICATION Spec
CONSTANTS
    UserJobs <- LoopJobs
    MaxStarts = 2
    MaxEdits = 2
    MaxThrows = 1
PROPERTIES StopHonoured StopIsNear ShutdownTerminates LiveEditsTaken
CHECK_DEADLOCK FALSE
