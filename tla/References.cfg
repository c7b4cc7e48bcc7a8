\* validate_policy_ownership on policies of up to three expressions. It ends, so
\* that deadlock is not checked.
SPECIFICATION Spec
CONSTANTS
    CedarNames <- MCNames
    FormatVersion = 2
    ThisGenerator <- MCGenerator
    Strict <- MCStrict
    SchemaLoads <- MCSchemaLoads
    LabelFits <- MCLabelFits
    HasIdPrefix <- MCHasIdPrefix
    MaxRules = 2
    Expressions <- MCExpressions
    Policies <- MCPolicies
    Records <- MCRecords
CHECK_DEADLOCK FALSE
INVARIANT Confined
