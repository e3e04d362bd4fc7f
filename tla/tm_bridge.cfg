SPECIFICATION FairSpec
CONSTANTS
    good = good
    poison = poison
    garbage = garbage
    w1 = w1
    w2 = w2
    Worker = {w1, w2}
    Message = {good, poison, garbage}
    SortOf <- Sorts
    At <- Instants
    Bound = {0, 1, 2, 3, 4, 5}
    FirstDelay = 5
    MaxDelay = 15
    None = None
INVARIANTS
    TypeOK
    OncePerWorker
    RangeInUTC
PROPERTIES
    Resumes
