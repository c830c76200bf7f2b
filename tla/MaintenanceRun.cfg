SPECIFICATION Spec
CONSTANTS
    Words <- SomeWords
    Calls <- AllCalls
    Percents <- SomePercents
    MaxCalls = 2
    MaxEvents = 2
    MaxResets = 1
INVARIANTS TypeOK OutcomeIsTheBoards NetworkReadsBack
PROPERTIES ProgressMonotone EveryMaintenanceCallReturns
    ImplementsMaintenanceAPI
CHECK_DEADLOCK FALSE
