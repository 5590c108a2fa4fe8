SPECIFICATION FairPageSpec
CONSTANTS
    client = client
    j1 = j1
    j2 = j2
    Job = {j1, j2}
    Mine = j1
    MaxDeletes = 2
    ClientOf <- MCClientOf
    QueueCap = 1
    JobPermits = 1
    ColdPermits = 1
INVARIANTS TypeOK PageTypeOK CancelSticks CompleteHasRows PermitsConserved ShownIsTrue
PROPERTIES EveryJobSettles ImplementsService PageSettles LoadingEnds
CHECK_DEADLOCK FALSE
