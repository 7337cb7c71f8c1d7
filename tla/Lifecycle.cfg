SPECIFICATION Spec
CONSTANTS
    t1 = t1
    t2 = t2
    Threads = {t1, t2}
    DaxSize <- Devs
    Mmap_align = 2
    VMEMCACHE_MIN_POOL = 4
    VMEMCACHE_MIN_EXTENT = 1
    NSHARDS = 2
    MaxAdds <- AddLimits
    MaxFaults = 2
    Config <- Roles
INVARIANTS
    NothingLeaks
    MappingReleased
    PoolInsideMapping
    MasksRestored
    ErrorTold
    NoUseOfFreed

CONSTRAINT Alone
