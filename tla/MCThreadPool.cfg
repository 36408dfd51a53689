CONSTANTS
    ok = ok
    boom = boom
    Size = 1
    Jobs <- MCJobs
    Program <- LostProgram
    Panicking = {boom}
SPECIFICATION FairSpec
CHECK_DEADLOCK FALSE
PROPERTY JoinReturns
