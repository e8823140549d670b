CONSTANTS
    Nil = Nil
    NoAdv = NoAdv
    NoRsv = NoRsv
    Requests = {r1, r2}
    Clusters <- MCClusters
    Allocatable <- MCAllocatable
    Allocated <- MCAllocated
    Active <- MCClusters
    ReqChoices <- MCReqChoices1
    LockSteps = 2
    MaxPostRetries = 1
    MaxPublish = 2
SPECIFICATION Spec
PROPERTY
    ReservedEventuallyInstructed
