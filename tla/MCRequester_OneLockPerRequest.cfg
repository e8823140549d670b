CONSTANTS
    Nil = Nil
    NoAdv = NoAdv
    NoRsv = NoRsv
    NoCall = NoCall
    NoRR = NoRR
    Requests = {r1, r2, r3}
    RRs = {k1}
    Home = 1
    Clusters <- MCClusters
    Allocatable <- MCAllocatable
    Allocated <- MCAllocated
    Active <- MCClusters
    ReqChoices <- MCReqChoices
    RRReq <- MCRRReq
    LockSteps = 2
    MaxPostRetries = 1
    MaxPublish = 1
SPECIFICATION RSpec
INVARIANT
    OneLockPerRequest
