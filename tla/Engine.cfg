\* Two clients of one engine that is reloaded once, prepared in either layout.
SPECIFICATION Spec
CONSTANTS
    NoLayout = NoLayout
    NoSession = NoSession
    NoVersion = NoVersion
    NoAnswer = NoAnswer
    CedarNames <- MCNames
    FormatVersion = 2
    ThisGenerator <- MCGenerator
    Strict <- MCStrict
    SchemaLoads <- MCSchemaLoads
    LabelFits <- MCLabelFits
    HasIdPrefix <- MCHasIdPrefix
    MaxRules = 2
    Contents <- MCContents
    Reloads <- MCReloads
    Requests <- MCRequests
    Matches <- MCMatches
    Conforms <- MCConforms
    Memberships <- MCMemberships
    LabelDigest <- MCLabelDigest
    Clients = {c1, c2}
    MaxReloads = 1
SYMMETRY ClientSymmetry
INVARIANTS
    PartitionAgrees
    RefusedOnlyWhenDependent
    SchemaKept
