\* One component at a time. The programs end.
CONSTANTS
    o1 = o1 o2 = o2 o3 = o3 t1 = t1 t2 = t2
    Obj = {o1, o2, o3}
    NoObj = NoObj
    Thread = {t1, t2}
    Nobody = Nobody
    Chain <- OneChain
    NTasks = 2
    MaxTime = 3
    Span = 450
    MaxClock = 7 DstFrom = 3 DstTo = 6
    Byte = {0, 107, 255}
    MaxText = 4
    LineLength = 4
    MaxAttrs = 3
    Kinds = {"string", "error", "u32", "u64", "address", "flag", "integrity"}
    Width = {1, 2, 3} BufLimit = 9 MaxItems = 4 MaxLine = 4
    NoThread = NoThread MaxConfCalls = 4 MaxCrashes = 1 MaxTyped = 5 MaxNumber = 20
    Party = {"x", "y"} Null = Null Datum = {"d"} MaxEdits = 2 MaxSends = 2
    FieldId = {"", "a", "id"} MaxElements = 4 MaxFormCalls = 4
SPECIFICATION UnitsSpec
CHECK_DEADLOCK FALSE
INVARIANT DeletedOnce TasksOutliveTheirRun ScheduledRunsSound WrittenReadsBack
PROPERTY UnitsEnd
