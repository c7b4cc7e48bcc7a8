\* check policy with labels and a schema that does not parse or load.
SPECIFICATION ChecksSpec
CONSTANTS
    pa = pa
    pb = pb
    sa = sa
    sc = sc
    la = la
    lc = lc
    Missing = Missing
    NotUtf8 = NotUtf8
    Unparsable = Unparsable
    NoParts = NoParts
    CedarNames <- MCNames
    FormatVersion = 2
    ThisGenerator <- MCGenerator
    Strict <- MCStrict
    SchemaLoads <- MCSchemaLoads
    LabelFits <- MCLabelFits
    HasIdPrefix <- MCHasIdPrefix
    MaxRules = 2
    Bundles <- MCChecksBundles
    Solo <- MCChecksSolo
    Disks <- MCChecksDisks
    Documents <- MCChecksDocuments
    MaxEdits = 1
    MaxRuns = 1
    NotGiven = NotGiven
    Arguments <- MCArguments
INVARIANT SkippedMeansNotGiven
