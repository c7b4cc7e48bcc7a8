\* Three modules, one of them with a digit in its namespace.
SPECIFICATION Spec
CONSTANTS
    p1 = p1
    p2 = p2
    p3 = p3
    abs = abs
    in = in
    out = out
    Absent = Absent
    Garbled = Garbled
    NotLoaded = NotLoaded
    Paths <- MCPaths
    AbsolutePaths <- MCAbsolute
    Disks <- DigitDisks
    Saves <- NoSaves
    Inputs <- MCInputs
    ExplicitInputs <- MCExplicit
    CedarNames <- LettersAndDigits
    FormatVersion = 2
    ThisGenerator <- MCGenerator
    MaxEdits = 0
INVARIANT NamespacesDisjoint
