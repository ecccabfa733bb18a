CONSTANTS
    Writer = {w1, w2}
    Worker = {w1}
    LogWords = 6
    Lens = {0, 1}
    WlbWords = 5
    MaxSeq = 3
    MaxCrashes = 1
SPECIFICATION Spec
INVARIANTS MarkersInPlace
PROPERTIES ReaderSeesWhole NoRecordTwice ReaderMoves
