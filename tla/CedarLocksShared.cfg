SPECIFICATION Spec
CONSTANTS
    t1 = t1
    t2 = t2
    t3 = t3
    f1 = f1
    f2 = f2
    Threads = {t1, t2, t3}
    Files = {f1, f2}
    FileOf <- SharedFile
    Locks = {"vdec", "venc"}
    Rank <- LockOrder
    Channels = {0, 1, 2}
    ChannelOf <- OwnChannel3
    NoOne = NoOne

INVARIANTS  ClosedOwnsNothing CopyGoesToOwnChannel FlagsMatchMutexes
CHECK_DEADLOCK FALSE
