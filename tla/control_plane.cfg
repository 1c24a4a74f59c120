SPECIFICATION Spec
CONSTANTS
    o1 = o1
    o2 = o2
    c = c
    Op = {o1, o2}
    Cycle = c
    OldRows <-  SomeRows
    OldLive = {"waiting"}
    MaxOps = 2
    MaxSwings = 1
    MaxRestarts = 1
INVARIANTS
    TypeOK
    FlagFollowsHalt
    RowRestoresPlane
    StoppedRobotStays
    ReturnedHaltRefusesOrders
PROPERTIES
    IdleDeskResumes
