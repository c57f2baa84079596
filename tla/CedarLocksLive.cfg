SPECIFICATION FairSpec
CONSTANTS
    t1 = t1
    t2 = t2
    t3 = t3
    f1 = f1
    f2 = f2
    Threads = {t1, t2}
    Files = {f1, f2}
    FileOf <- OwnFiles
    Locks = {"vdec"}
    Rank <- OneLock
    Channels = {0, 1}
    ChannelOf <- OwnChannel2
    NoOne = NoOne

PROPERTIES CallsReturn KilledFileCloses
