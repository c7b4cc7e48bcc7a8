\* Loads of two and of three selections over letters-only namespaces, with edits.
SPECIFICATION Spec
CONSTANTS
    p1 = p1
    p2 = p2
    p3 = p3
    abs = abs
    in = in
    out = out
    Absent = Absent
    Garbled = Garbled
    NotLoaded = NotLoaded
    Paths <- MCPaths
    AbsolutePaths <- MCAbsolute
    Disks <- MCDisks
    Saves <- MCSaves
    Inputs <- MCInputs
    ExplicitInputs <- MCExplicit
    CedarNames <- Letters
    FormatVersion = 2
    ThisGenerator <- MCGenerator
    MaxEdits = 2
INVARIANTS
    VerdictExact
    NothingDropped
    LoadedSetAccepted
    FailureIsTheFile
