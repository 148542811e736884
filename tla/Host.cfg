SPECIFICATION FairSpec
CONSTANTS
    p1 = p1
    p2 = p2
    Procs = {p1, p2}
    Nobody = nobody
    Jobs <- SchedulerAndOperator
    Retention = 2
    Days = unset
    MonitorDays = 1
    Unset = unset
    Newest = 2
    Volume = 1
    LastDay = 4
    MaxFaults = 1
INVARIANTS TypeOK OneAtATime WatermarkIsTrue SchemaIsApplied
PROPERTY GapsAreNoticed
