SPECIFICATION FairSpec
CONSTANTS
    w1 = w1
    w2 = w2
    w3 = w3
    Writers = {w1, w2, w3}
    Lengths = {0, 305201}
    EnvelopeSizes = {153600, 1000, 999}
    Modes = {TRUE, FALSE}
INVARIANTS
    TypeOK
    WritesWhole
    EndIsLast
    CountHonest
    EndArrives
PROPERTIES
    CallsReturn
