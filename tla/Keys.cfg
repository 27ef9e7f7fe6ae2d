SPECIFICATION Spec
CONSTANTS
    p1 = p1
    p2 = p2
    Absent = Absent
    Process = {p1, p2}
    Program = {"cli", "machine", "ephemeral"}
    Modes <- NoneOrBoth
    MaxKeys = 3
SYMMETRY Symmetry
INVARIANTS
    TypeOK
    OneKey
