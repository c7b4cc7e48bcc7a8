\* Two label documents of two modules, combined, read and applied; two changes
\* of the application between applications.
SPECIFICATION Spec
CONSTANTS
    v = v
    w = w
    Values = {v, w}
    Fields <- MCFields
    Blank <- MCBlank
    Documents <- MCDocuments
    Schemas <- MCSchemas
    Resources <- MCResources
    TargetValid <- MCTargetValid
    RuntimeAccepts <- MCRuntimeAccepts
    NoSchema = NoSchema
    NoNamespace = NoNamespace
    NoShape <- NoRecord
    NoAttributes = NoAttributes
    NoValue = NoValue
    NoResource = NoResource
    MaxRules = 3
    MaxPatternsPerRule = 3
    MaxTotalPatterns = 4
    MaxRegexBytes = 2
    MaxTotalRegexBytes = 5
    RegexSetSize = 4
    IndividualThreshold = 2
    MaxDocuments = 2
    MaxChanges = 2
CHECK_DEADLOCK FALSE
INVARIANTS
    WorkBounded
    ReaderAccepts
    LabelsTrue
    LabelledConforms
PROPERTIES
    OthersUntouched
