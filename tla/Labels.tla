-------------------------------- MODULE Labels --------------------------------
(***************************************************************************)
(* Label rules from the documents of the modules to the resources they     *)
(* label (labels.rs): each document is parsed, all are combined, the       *)
(* archive reader parses what was combined again, and treetop-core applies *)
(* the rules to resources that carry attributes of the application's       *)
(* choice.  Sums of the code saturate at usize::MAX, which is above every  *)
(* limit, so that they are sums of naturals here.                          *)
(***************************************************************************)
EXTENDS Integers, Sequences, FiniteSets

CONSTANTS
    Documents,              \* sequences of raw rules [type, attribute, field, patterns]
    Schemas,                \* [entityTypes, commonTypes], NoSchema; a record of
                            \* theirs has attributes [name -> [type, required]]
    Resources,              \* [type, attributes]: what the application submits
    Fields, Values,         \* attribute names, string values
    Blank,                  \* names that trim to nothing
    TargetValid(_, _),      \* treetop-core: LabelTarget::new
    RuntimeAccepts(_),      \* treetop-core: RegexLabeler::new
    NoSchema, NoNamespace, NoShape, NoAttributes, NoValue, NoResource,
    MaxRules, MaxPatternsPerRule, MaxTotalPatterns, MaxRegexBytes, MaxTotalRegexBytes,
    RegexSetSize,           \* REGEX_SET_SIZE_LIMIT
    IndividualThreshold,    \* INDIVIDUAL_REGEX_THRESHOLD
    MaxDocuments, MaxChanges  \* bounds

RawRules == UNION {{raw[i] : i \in 1..Len(raw)} : raw \in Documents}
RawPatterns == UNION {{rule.patterns[i] : i \in 1..Len(rule.patterns)} : rule \in RawRules}

(* Documents are lists of rules with lists of patterns, whose lengths are  *)
(* natural numbers; every name that a rule may use is one that a resource  *)
(* may have, or blank.                                                     *)
ASSUME DocumentsAssumption ==
    /\ Documents \subseteq Seq(RawRules)
    /\ \A rule \in RawRules :
          /\ rule.patterns \in Seq(RawPatterns)
          /\ rule.field \in Fields \cup Blank
          /\ TargetValid(rule.type, rule.attribute) => rule.attribute \in Fields
    /\ \A p \in RawPatterns : p.bytes \in Nat /\ p.program \in Nat

(* The limits are constants of the code.                                   *)
ASSUME LimitsAssumption ==
    /\ {MaxPatternsPerRule, MaxRegexBytes, MaxTotalPatterns, MaxTotalRegexBytes, RegexSetSize} \subseteq Nat
    /\ IndividualThreshold \in Nat \ {0}

ASSUME ResourcesAssumption ==
    \A r \in Resources : r = [type |-> r.type, attributes |-> [a \in Fields |-> r.attributes[a]]]

ASSUME ValuesAssumption ==
    NoValue \notin [kind : {"set"}, value : SUBSET {p.name : p \in RawPatterns}]

(* A schema is a finite text.                                              *)
ASSUME SchemasAssumption ==
    /\ \A s \in Schemas \ {NoSchema} : IsFiniteSet(DOMAIN s.commonTypes)
    /\ NoShape.kind \notin {"Record", "EntityOrCommon"}

VARIABLES
    schema,    \* the schema of the bundle
    phase,     \* "documents", "parsing", "ready", "serving" or "failed"
    reading,   \* the archive reader is at work, not the compiler
    document,  \* the raw rules being parsed
    at,        \* the next of them
    rules,     \* LabelRules built so far
    found,     \* diagnostics
    work,      \* history: patterns compiled of this document, and their bytes
    opened,    \* label documents opened by the compiler
    sets,      \* the rules of the compiler's LabelSets, one after the other
    labels,    \* the reader's LabelSet
    resource,  \* the resource in hand
    cleared,   \* the same without the attributes that rules own
    stage,     \* the rule to derive next; 0: not labelling
    labelled,  \* history: nobody has changed the resource since it was labelled
    changes

vars == <<schema, phase, reading, document, at, rules, found, work, opened, sets, labels,
          resource, cleared, stage, labelled, changes>>
parser == <<document, at, rules, work>>
runtime == <<resource, cleared, stage, labelled, changes>>

NoWork == [patterns |-> 0, bytes |-> 0]

Init ==
    /\ schema \in Schemas
    /\ phase = "documents" /\ reading = FALSE
    /\ document = <<>> /\ at = 1 /\ rules = <<>> /\ found = {} /\ work = NoWork
    /\ opened = 0 /\ sets = <<>> /\ labels = <<>>
    /\ resource = NoResource /\ cleared = NoResource
    /\ stage = 0 /\ labelled = FALSE /\ changes = 0

When(condition, code) == IF condition THEN {code} ELSE {}

(***************************************************************************)
(* Budgets.                                                                *)
(***************************************************************************)
Sums(sizes) ==
    LET sum[n \in 0..Len(sizes)] == IF n = 0 THEN 0 ELSE sum[n - 1] + sizes[n] IN sum

Total(sizes) == Sums(sizes)[Len(sizes)]

RegexBytes(patterns) == Total([i \in 1..Len(patterns) |-> patterns[i].bytes])

PatternSizes(raw) == [i \in 1..Len(raw) |-> Len(raw[i].patterns)]
ByteSizes(raw) == [i \in 1..Len(raw) |-> RegexBytes(raw[i].patterns)]

(* Fault: documents are held to the limits each by itself only.            *)
CombinedLimitsOfRules(raw) == When(Len(raw) > MaxRules, "labels.too_many_rules")

(* validate_document_limits: the first limit that is exceeded.             *)
DocumentLimits(raw) ==
    IF Len(raw) > MaxRules THEN {"labels.too_many_rules"}
    ELSE IF Total(PatternSizes(raw)) > MaxTotalPatterns THEN {"labels.too_many_patterns"}
    ELSE When(Total(ByteSizes(raw)) > MaxTotalRegexBytes, "labels.regex_budget_exceeded")

(* Fault: the document is measured after it was compiled.                  *)
NoLimitsYet(raw) == {}

LimitsOnOpening(raw) == DocumentLimits(raw)

(* validate_combined_limits *)
CombinedLimits(raw) == DocumentLimits(raw)

(***************************************************************************)
(* Parsing, a rule a step.                                                 *)
(***************************************************************************)
PatternDiagnostics(patterns) ==
    When(\E i \in 1..Len(patterns) : patterns[i].name \in Blank, "labels.empty_pattern_name")
    \cup When(\E i, j \in 1..Len(patterns) : i < j /\ patterns[i].name = patterns[j].name,
              "labels.duplicate_pattern_name")
    \cup When(\E i \in 1..Len(patterns) : patterns[i].bytes = 0, "labels.empty_regex")
    \cup When(\E i \in 1..Len(patterns) : patterns[i].bytes > MaxRegexBytes, "labels.regex_too_large")

Compilable(patterns) ==
    /\ Len(patterns) \in 1..MaxPatternsPerRule
    /\ \A i \in 1..Len(patterns) : patterns[i].bytes \in 1..MaxRegexBytes

Individual(patterns) == Len(patterns) <= IndividualThreshold

ProgramSize(patterns) == Total([i \in 1..Len(patterns) |-> patterns[i].program])

(* Fault: every single regex may be as large as a whole set.               *)
IndividualLimitOfSet == RegexSetSize

IndividualLimit == RegexSetSize \div IndividualThreshold

(* compile_patterns; an invalid regex counts as one of no admissible size. *)
Compiles(patterns) ==
    IF Individual(patterns)
    THEN \A i \in 1..Len(patterns) : patterns[i].program <= IndividualLimit
    ELSE ProgramSize(patterns) <= RegexSetSize

Target(rule) == <<rule.type, rule.attribute>>

(* Destinations of this document that were seen before.                    *)
Destinations ==
    {Target(document[i]) : i \in {j \in 1..(at - 1) : TargetValid(document[j].type, document[j].attribute)}}

RuleDiagnostics(rule) ==
    IF ~TargetValid(rule.type, rule.attribute) THEN {"labels.invalid_target"}
    ELSE When(rule.field \in Blank, "labels.empty_field")
         \cup When(rule.field = rule.attribute, "labels.input_is_output")
         \cup When(Target(rule) \in Destinations, "labels.duplicate_destination")
         \cup When(rule.patterns = <<>>, "labels.empty_patterns")
         \cup When(Len(rule.patterns) > MaxPatternsPerRule, "labels.too_many_patterns")
         \cup PatternDiagnostics(rule.patterns)
         \cup When(Compilable(rule.patterns) /\ ~Compiles(rule.patterns), "labels.invalid_regex")
         \cup When(Compilable(rule.patterns) /\ Compiles(rule.patterns)
                     /\ Individual(rule.patterns) /\ ~RuntimeAccepts(rule),
                   "labels.invalid_configuration")

Attempted(rule) == TargetValid(rule.type, rule.attribute) /\ Compilable(rule.patterns)
Built(rule) ==
    /\ Attempted(rule) /\ Compiles(rule.patterns)
    /\ Individual(rule.patterns) => RuntimeAccepts(rule)

(* What from_raw does first with a document.                               *)
Begin(raw) ==
    /\ document' = raw /\ at' = 1 /\ rules' = <<>> /\ work' = NoWork
    /\ found' = LimitsOnOpening(raw)
    /\ phase' = IF LimitsOnOpening(raw) = {} THEN "parsing" ELSE "failed"

(* from_json_str on the label document of a module.                        *)
Open(raw) ==
    /\ phase = "documents" /\ ~reading
    /\ opened < MaxDocuments
    /\ opened' = opened + 1
    /\ Begin(raw)
    /\ UNCHANGED <<schema, reading, sets, labels, runtime>>

ParseRule ==
    /\ phase = "parsing" /\ at <= Len(document)
    /\ LET rule == document[at] IN
       /\ found' = found \cup RuleDiagnostics(rule)
       /\ rules' = IF Built(rule) THEN Append(rules, rule) ELSE rules
       /\ work' = IF ~Attempted(rule) THEN work
                  ELSE [patterns |-> work.patterns + Len(rule.patterns),
                        bytes    |-> work.bytes + RegexBytes(rule.patterns)]
    /\ at' = at + 1
    /\ UNCHANGED <<schema, phase, reading, document, opened, sets, labels, runtime>>

(* The end of from_raw, for the compiler and for the reader, who goes on   *)
(* to the schema.                                                          *)
Parsed == phase = "parsing" /\ at > Len(document)

CloseDocument ==
    /\ Parsed /\ ~reading
    /\ phase' = IF found = {} THEN "documents" ELSE "failed"
    /\ sets' = IF found = {} THEN sets \o rules ELSE sets
    /\ UNCHANGED <<schema, reading, parser, found, opened, labels, runtime>>

Repeated(all) == \E i, j \in 1..Len(all) : i < j /\ Target(all[i]) = Target(all[j])

CombineDiagnostics(all) ==
    IF CombinedLimits(all) # {} THEN CombinedLimits(all)
    ELSE When(Repeated(all), "labels.duplicate_destination")

(* LabelSet::combine; labels.json is written and the reader parses it.     *)
Combine ==
    /\ phase = "documents" /\ ~reading /\ opened > 0
    /\ \/ /\ CombineDiagnostics(sets) = {}
          /\ reading' = TRUE
          /\ Begin(sets)
       \/ /\ CombineDiagnostics(sets) # {}
          /\ phase' = "failed"
          /\ found' = CombineDiagnostics(sets)
          /\ UNCHANGED <<reading, parser>>
    /\ UNCHANGED <<schema, opened, sets, labels, runtime>>

(***************************************************************************)
(* Rules against the schema.                                               *)
(***************************************************************************)
(* One reference of record_attributes to a common type, looked up in the   *)
(* namespace it names, or else in the one it stands in.                    *)
Follow(where) ==
    LET shape == where.shape
        key == <<IF shape.namespace = NoNamespace THEN where.namespace ELSE shape.namespace, shape.base>>
    IN  IF shape.kind # "EntityOrCommon" THEN where
        ELSE IF key \in where.visited \/ key \notin DOMAIN schema.commonTypes
        THEN [where EXCEPT !.shape = NoShape]
        ELSE [namespace |-> key[1], shape |-> schema.commonTypes[key],
              visited |-> where.visited \cup {key}]

(* entity_attributes: every step visits another common type.               *)
MaxSteps == Cardinality(DOMAIN schema.commonTypes)

Walk(type) ==
    LET walk[n \in 0..MaxSteps] ==
            IF n = 0 THEN [namespace |-> type[1], shape |-> schema.entityTypes[type], visited |-> {}]
            ELSE Follow(walk[n - 1])
    IN  walk

EntityAttributes(type) ==
    LET end == Walk(type)[MaxSteps].shape
    IN  IF end.kind = "Record" THEN end.attributes ELSE NoAttributes

IsStringType(t) == t \in {"String", "EntityOrCommon String"}

(* Fault: the element type of the set is not looked at.                    *)
IsAnySetType(t) == t \in {"Set<String>", "Set<EntityOrCommon String>", "Set<Long>"}

IsStringSetType(t) == t \in {"Set<String>", "Set<EntityOrCommon String>"}

(* validate_schema, of one rule; it does not ask which attributes are      *)
(* required.                                                               *)
SchemaDiagnostics(rule) ==
    IF rule.type \notin DOMAIN schema.entityTypes THEN {"labels.unknown_kind"}
    ELSE LET attributes == EntityAttributes(rule.type) IN
         IF attributes = NoAttributes THEN {"labels.missing_shape"}
         ELSE When(rule.field \notin DOMAIN attributes, "labels.field_missing")
              \cup When(rule.field \in DOMAIN attributes /\ ~IsStringType(attributes[rule.field].type),
                        "labels.field_not_string")
              \cup When(rule.attribute \notin DOMAIN attributes, "labels.output_missing")
              \cup When(rule.attribute \in DOMAIN attributes
                          /\ ~IsStringSetType(attributes[rule.attribute].type),
                        "labels.output_not_string_set")

Misfits == UNION {SchemaDiagnostics(rules[i]) : i \in 1..Len(rules)}

Accept ==
    /\ Parsed /\ reading
    /\ found' = IF found = {} /\ schema # NoSchema THEN Misfits ELSE found
    /\ phase' = IF found' = {} THEN "ready" ELSE "failed"
    /\ labels' = IF found' = {} THEN rules ELSE labels
    /\ UNCHANGED <<schema, reading, parser, opened, sets, runtime>>

(***************************************************************************)
(* Runtime: treetop-core clears every attribute that a rule owns on the    *)
(* type of the resource, then asks the labelers in order.                  *)
(***************************************************************************)
Owned(type, attribute) ==
    \E i \in 1..Len(labels) : Target(labels[i]) = <<type, attribute>>

IsString(value) == value # NoValue /\ value.kind = "string"
Matching(rule, text) ==
    {rule.patterns[i].name : i \in {j \in 1..Len(rule.patterns) : text \in rule.patterns[j].hits}}

(* Fault: a resource without the field gets the empty set.                 *)
DeriveAlways(rule, value) ==
    [kind |-> "set", value |-> IF IsString(value) THEN Matching(rule, value.value) ELSE {}]

(* Labeler::derive *)
Derived(rule, value) ==
    IF IsString(value) THEN [kind |-> "set", value |-> Matching(rule, value.value)] ELSE NoValue

Submit(r) ==
    /\ phase = "ready"
    /\ phase' = "serving"
    /\ resource' = r
    /\ UNCHANGED <<schema, reading, parser, found, opened, sets, labels, cleared, stage, labelled, changes>>

(* Fault: a labeler replaces its own attribute and nothing is cleared.     *)
ClearNothing(r) == r

Cleared(r) ==
    [r EXCEPT !.attributes = [a \in Fields |-> IF Owned(r.type, a) THEN NoValue ELSE r.attributes[a]]]

Clear ==
    /\ phase = "serving" /\ stage = 0
    /\ resource' = Cleared(resource)
    /\ cleared' = Cleared(resource)
    /\ stage' = 1
    /\ labelled' = FALSE
    /\ UNCHANGED <<schema, phase, reading, parser, found, opened, sets, labels, changes>>

(* Fault: labelers are not scoped to their type.                           *)
ConcernsAny(rule) == TRUE

Concerns(rule) == rule.type = resource.type

(* Derivation reads the resource as it was cleared, or as it stands: the   *)
(* code relies on neither.                                                 *)
Derive ==
    /\ stage \in 1..Len(labels)
    /\ LET rule == labels[stage] IN
       \/ ~Concerns(rule) /\ UNCHANGED resource
       \/ /\ Concerns(rule)
          /\ \E view \in {cleared, resource} :
               LET value == Derived(rule, view.attributes[rule.field]) IN
               resource' = IF value = NoValue THEN resource
                           ELSE [resource EXCEPT !.attributes[rule.attribute] = value]
    /\ stage' = stage + 1
    /\ UNCHANGED <<schema, phase, reading, parser, found, opened, sets, labels, cleared, labelled, changes>>

Finish ==
    /\ stage > Len(labels)
    /\ stage' = 0
    /\ labelled' = TRUE
    /\ UNCHANGED <<schema, phase, reading, parser, found, opened, sets, labels, resource, cleared, changes>>

(* The application changes an attribute, one that rules own or another.    *)
Change(attribute, value) ==
    /\ labelled /\ stage = 0
    /\ changes < MaxChanges
    /\ resource' = [resource EXCEPT !.attributes[attribute] = value]
    /\ changes' = changes + 1
    /\ labelled' = FALSE
    /\ UNCHANGED <<schema, phase, reading, parser, found, opened, sets, labels, cleared, stage>>

AttributeValues ==
    {NoValue} \cup [kind : {"string", "other"}, value : Values]
              \cup [kind : {"set"}, value : {{}, {"forged"}}]

Next ==
    \/ \E raw \in Documents : Open(raw)
    \/ ParseRule \/ CloseDocument \/ Combine \/ Accept
    \/ \E r \in Resources : Submit(r)
    \/ Clear \/ Derive \/ Finish
    \/ \E a \in Fields, v \in AttributeValues : Change(a, v)

Spec == Init /\ [][Next]_vars

(***************************************************************************)
(* Properties.                                                             *)
(***************************************************************************)
(* Parsing costs at most the budgets of one document, at every moment and  *)
(* also for rules that are refused later, and the programs of a rule fit   *)
(* into one set, whichever way it was compiled.                            *)
WorkBounded ==
    /\ work.patterns <= MaxTotalPatterns /\ work.bytes <= MaxTotalRegexBytes
    /\ \A i \in 1..Len(rules) : ProgramSize(rules[i].patterns) <= RegexSetSize

(* The reader parses whatever the compiler has combined: labels.json can   *)
(* be refused for the schema only, and the rules are those of the modules. *)
ReaderAccepts ==
    /\ reading /\ phase = "failed" =>
         found \subseteq {"labels.unknown_kind", "labels.missing_shape", "labels.field_missing",
                          "labels.field_not_string", "labels.output_missing",
                          "labels.output_not_string_set"}
    /\ phase \in {"ready", "serving"} => labels = sets

(* The labels on a labelled resource are those that its other attributes   *)
(* justify: nothing submitted under their names is left, or has been read. *)
LabelsTrue ==
    labelled =>
        \A i \in 1..Len(labels) :
            LET rule == labels[i]
                source == resource.attributes[rule.field]
            IN  rule.type = resource.type =>
                    resource.attributes[rule.attribute] =
                        IF Owned(rule.type, rule.field) THEN NoValue ELSE Derived(rule, source)

(* Labelling leaves the attributes that no rule owns to the application.   *)
OthersUntouched ==
    [][stage' # stage =>
          \A a \in Fields :
              Owned(resource.type, a) \/ resource'.attributes[a] = resource.attributes[a]]_vars

(* Cedar's reading of a schema: chains of common types, a name without a   *)
(* namespace meaning its own namespace before the empty one.               *)
Referents(namespace, shape) ==
    IF shape.kind # "EntityOrCommon" THEN {}
    ELSE IF shape.namespace # NoNamespace THEN {<<shape.namespace, shape.base>>}
    ELSE IF <<namespace, shape.base>> \in DOMAIN schema.commonTypes THEN {<<namespace, shape.base>>}
    ELSE {<<"", shape.base>>}

Chains ==
    UNION {[1..n -> DOMAIN schema.commonTypes] : n \in 1..MaxSteps}

Records(type) ==
    LET shape == schema.entityTypes[type] IN
    IF shape.kind = "Record" THEN {shape.attributes}
    ELSE {schema.commonTypes[chain[Len(chain)]].attributes : chain \in
            {c \in Chains :
                /\ c[1] \in Referents(type[1], shape)
                /\ \A i \in 1..(Len(c) - 1) : c[i + 1] \in Referents(c[i][1], schema.commonTypes[c[i]])
                /\ schema.commonTypes[c[Len(c)]].kind = "Record"}}

HasType(value, t) ==
    \/ value.kind = "string" /\ IsStringType(t)
    \/ value.kind = "set" /\ t \in {"Set<String>", "Set<EntityOrCommon String>"}
    \/ value.kind = "other" /\ t = "Long"

(* An attribute that is absent may be undeclared or optional.              *)
Fits(attribute) ==
    LET value == resource.attributes[attribute] IN
    \A declared \in Records(resource.type) :
        IF value = NoValue THEN attribute \in DOMAIN declared => ~declared[attribute].required
        ELSE attribute \in DOMAIN declared /\ HasType(value, declared[attribute].type)

(* The field of the label may be missing: it is optional, or is itself a   *)
(* label and was cleared.                                                  *)
MayLackField(attribute) ==
    \E i \in 1..Len(labels) :
        /\ Target(labels[i]) = <<resource.type, attribute>>
        /\ \/ Owned(resource.type, labels[i].field)
           \/ \E declared \in Records(resource.type) :
                  labels[i].field \in DOMAIN declared /\ ~declared[labels[i].field].required

(* When the application's own attributes fit the schema, labelling leaves  *)
(* the resource in conformity with it, but for one thing: a label is       *)
(* absent, though it may be required, when its field may be.               *)
LabelledConforms ==
    labelled /\ schema # NoSchema /\ resource.type \in DOMAIN schema.entityTypes =>
        ((\A a \in Fields : ~Owned(resource.type, a) => Fits(a)) =>
            \A a \in Fields :
                Fits(a) \/ (resource.attributes[a] = NoValue /\ MayLackField(a)))
=============================================================================
