\* A builder over one- and two-module bundles: up to two runs, one save between any steps.
SPECIFICATION Spec
CONSTANTS
    pa = pa
    pb = pb
    sa = sa
    sc = sc
    la = la
    lc = lc
    Missing = Missing
    NotUtf8 = NotUtf8
    Unparsable = Unparsable
    NoParts = NoParts
    CedarNames <- MCNames
    FormatVersion = 2
    ThisGenerator <- MCGenerator
    Strict <- MCStrict
    SchemaLoads <- MCSchemaLoads
    LabelFits <- MCLabelFits
    HasIdPrefix <- MCHasIdPrefix
    MaxRules = 2
    Bundles <- MCBundles
    Solo <- MCSolo
    Disks <- MCDisks
    Documents <- MCDocuments
    MaxEdits = 1
    MaxRuns = 2
INVARIANTS
    BuildValidates
    WarningsAnnounced
    ShipsWhatItRead
    OneOwner
    CheckPredictsBuild
    UnreadableIsIo
    JudgedAsAWhole
PROPERTY RunEnds
