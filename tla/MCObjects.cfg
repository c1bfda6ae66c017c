CONSTANTS
    HashTypes = {md5, crc32}
    HmacTypes = {md5}
    OtherTypes = {t99}
    Keys = {k1, k2}
    Data = {d1, d2}
    MaxFed = 2
    Patterns = {pat1, pat2}
    MaxThrown = 3
    MaxTables = 2
    Documents = {doc}
    XsMaxCalls = 4
    XsMaxThrown = 2
    XsMaxResults = 2
    SpThreads = {th1, th2}
    SpWanted = {1, 3, 7, 12, 20}
    SpadInitSize = 2
    SpadMaxSize = 16
    Paths = {p1}
    Readers = {r1, r2}
    Ttls = {0, 1}
    MaxVersion = 1
    MaxTime = 3
    FileSize = 6
    MaxRead = 3
SYMMETRY ReaderSymmetry
SPECIFICATION MCSpec
INVARIANTS NoStaleAnswer LossesKnown PointerIsValid  PiecesCover
CHECK_DEADLOCK FALSE
