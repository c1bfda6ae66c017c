CONSTANTS
    Streams <- MCStreams
    Sizes = {5, 22}
    BufsizeMin = 10
    BufsizeMax = 100
    Scopes <- MCScopes
    EntMaxEntsize = 4
    EntMaxRetbufsize = 60
    WordLength <- MCWordLength
SPECIFICATION MCSpec
INVARIANTS EndSeenInPieces HeadersAreTheLines BuffersHold QueryByParameterOK TextComesBack
CHECK_DEADLOCK FALSE
