SPECIFICATION Spec
CONSTANTS
    w1 = w1
    Writers = {w1}
    Lengths = {1}
    EnvelopeSizes = {153600}
    Modes = {TRUE}
INVARIANTS
    WriteCloseWrites
