------------------------------- MODULE Compile -------------------------------
(***************************************************************************)
(* compile_manifest of validation.rs and the BundleBuilder of builder.rs:  *)
(* the inputs of a loaded bundle are read one after the other and judged   *)
(* as they are read, the aggregate at the end, while the files may change. *)
(* A builder is used more than once: check, then build.                    *)
(***************************************************************************)
EXTENDS Validation, SequencesExt

CONSTANTS
    Bundles,      \* module lists that BundleManifest::from_path accepts
    Solo,         \* single modules that check_module takes as a bundle of one
    Disks,        \* what the input files hold when the builder is created
    Documents,    \* [input -> what somebody may save in it]
    Missing,      \* fs::read fails
    NotUtf8,      \* the bytes are not UTF-8
    Unparsable,   \* Cedar, or serde, does not accept the text
    NoParts,      \* no archive content produced by this run
    MaxEdits,     \* bound: files saved while the builder exists
    MaxRuns       \* bound: check and build calls on one builder

(* A file is at most one of unreadable, not UTF-8 and not parsable.        *)
ASSUME MarkersAssumption ==
    Missing # NotUtf8 /\ Missing # Unparsable /\ NotUtf8 # Unparsable

(* A bundle is a list of modules, which list input files; one from a root  *)
(* manifest satisfies the checks of the reader as well                     *)
(* (LoadedSetAcceptedHolds of ManifestProofs).  Their namespaces may       *)
(* overlap where a third sorts in between (A, A0, A::B).                   *)
ASSUME BundlesAssumption ==
    /\ \A b \in Bundles : ModulesValid(b)
    /\ \A b \in Solo : Len(b) = 1
    /\ \A b \in Bundles \cup Solo :
          /\ Len(b) \in Nat \ {0}
          /\ \A m \in 1..Len(b) :
                /\ {b[m].policies, b[m].schemas, b[m].labels} \subseteq Seq(DOMAIN Documents)
                /\ b[m].namespace \in CedarNames

PolicyFiles ==
    UNION {UNION {ElementsOf(b[m].policies) : m \in 1..Len(b)} : b \in Bundles \cup Solo}
LabelFiles ==
    UNION {UNION {ElementsOf(b[m].labels) : m \in 1..Len(b)} : b \in Bundles \cup Solo}

(* What a file may hold that parses.                                       *)
Parsed(path) == Documents[path] \ {Missing, NotUtf8, Unparsable}

(* A policy document is a list of policies that act on named types, their  *)
(* ids are ordered; a label document is a list of rules.                   *)
ASSUME DocumentsAssumption ==
    /\ \A d \in Disks : DOMAIN d = DOMAIN Documents /\ \A path \in DOMAIN d : d[path] \in Documents[path]
    /\ \A path \in PolicyFiles : \A c \in Parsed(path) :
          /\ c \in Seq(ElementsOf(c))
          /\ \A policy \in ElementsOf(c) : policy.id \in Nat /\ policy.actions \subseteq Seq(Nat)
    /\ \A path \in LabelFiles : \A c \in Parsed(path) : c \in Seq(ElementsOf(c))

VARIABLES
    bundle,       \* the manifest's modules, fixed when the builder is created
    queue,        \* the inputs compile_manifest reads, in its order: fixed with the bundle
    disk,         \* the content of every input file
    mode,         \* "idle", "check", "build" or "module" (check_module)
    deny,         \* deny_warnings
    position,     \* next input of the queue
    text,         \* policy_text, as the policies it parses to
    aggregate,    \* aggregate_policy_set
    ids,          \* policy_ids
    assigned,     \* each module's policy_ids
    hasSchema,
    schema,       \* schema_json as merged so far
    labels,       \* label_sets, concatenated
    diagnostics,
    outcome,      \* "none", "running", "ok", "io" or "invalid"
    parts,        \* the BundleParts a build hands to the archive
    seen,         \* history: the content of each input when it was read
    previous,     \* history: the run before, and the edits by its start
    startedAt,    \* history: edits when this run started
    edits, runs

accumulators == <<position, text, aggregate, ids, assigned, hasSchema, schema, labels>>
vars == <<bundle, queue, disk, mode, deny, accumulators, diagnostics, outcome, parts, seen,
          previous, startedAt, edits, runs>>

(***************************************************************************)
(* The order compile_manifest reads in: module by module, the policies,    *)
(* then the schemas, then the labels of each.                              *)
(***************************************************************************)
Tagged(m, kind, paths) ==
    [k \in 1..Len(paths) |-> [module |-> m, kind |-> kind, path |-> paths[k]]]

Queue(modules) == FlattenSeq([m \in 1..Len(modules) |->
    Tagged(m, "policy", modules[m].policies)
        \o Tagged(m, "schema", modules[m].schemas)
        \o Tagged(m, "label", modules[m].labels)])

Input == queue[position]
Module == bundle[Input.module]
File == disk[Input.path]

Running == outcome = "running"
Reading(kind) == Running /\ position <= Len(queue) /\ Input.kind = kind

Init ==
    /\ bundle \in Bundles \cup Solo
    /\ queue = Queue(bundle)
    /\ disk \in Disks
    /\ mode = "idle" /\ deny = FALSE
    /\ position = 1
    /\ text = <<>> /\ aggregate = <<>>
    /\ ids = {} /\ assigned = [m \in 1..Len(bundle) |-> <<>>]
    /\ hasSchema = FALSE /\ schema = EmptySchema
    /\ labels = <<>>
    /\ diagnostics = {}
    /\ outcome = "none"
    /\ parts = NoParts
    /\ seen = <<>>
    /\ previous = [outcome |-> "none", diagnostics |-> {}, deny |-> FALSE, startedAt |-> 0]
    /\ startedAt = 0
    /\ edits = 0 /\ runs = 0

(* Every accumulator is a local of compile_manifest and starts empty.      *)
StaleText == UNCHANGED <<text, aggregate>>     \* fault: fields of the builder instead
StaleIds == UNCHANGED <<ids, assigned>>        \* fault

FreshText == text' = <<>> /\ aggregate' = <<>>
FreshIds == ids' = {} /\ assigned' = [k \in 1..Len(bundle) |-> <<>>]
FreshPosition == position' = 1

(* check, build or check_module is called.                                 *)
Start(m, d) ==
    /\ outcome # "running"
    /\ runs < MaxRuns
    /\ (m = "module") <=> (bundle \in Solo)
    /\ mode' = m /\ deny' = d
    /\ FreshPosition /\ FreshText /\ FreshIds
    /\ hasSchema' = FALSE /\ schema' = EmptySchema
    /\ labels' = <<>>
    /\ diagnostics' = {}
    /\ outcome' = "running"
    /\ parts' = NoParts
    /\ seen' = <<>>
    /\ previous' = [outcome |-> outcome, diagnostics |-> diagnostics, deny |-> deny,
                     startedAt |-> startedAt]
    /\ startedAt' = edits
    /\ runs' = runs + 1
    /\ UNCHANGED <<bundle, queue, disk, edits>>

(***************************************************************************)
(* Reading one input.                                                      *)
(***************************************************************************)
Read ==
    /\ seen' = Append(seen, File)
    /\ position' = position + 1

(* Fault: content failures reported as filesystem failures.                *)
AnyReadFailureIsIo ==
    /\ File \in {Missing, NotUtf8}
    /\ outcome' = "io"
    /\ diagnostics' = {}
    /\ UNCHANGED <<text, aggregate, ids, assigned, hasSchema, schema, labels>>

(* read_utf8 fails: the run ends at once with that one error, and what it  *)
(* had diagnosed before is dropped.                                        *)
ReadFails ==
    /\ File \in {Missing, NotUtf8}
    /\ outcome' = IF File = Missing THEN "io" ELSE "invalid"
    /\ diagnostics' = When(File = NotUtf8, "input.invalid_utf8")
    /\ UNCHANGED <<text, aggregate, ids, assigned, hasSchema, schema, labels>>

(* The document does not parse: a diagnostic, and on to the next input.    *)
ReadRejected(code) ==
    /\ File = Unparsable
    /\ diagnostics' = diagnostics \cup {code}
    /\ UNCHANGED <<outcome, text, aggregate, ids, assigned, schema, labels>>

Sound == File \notin {Missing, NotUtf8, Unparsable}

IdsInOrder(policies) == FlattenSeq([i \in 1..Len(policies) |->
    IF i \in Identified(policies) THEN <<policies[i].id>> ELSE <<>>])

StaticsInOrder(policies) == FlattenSeq([i \in 1..Len(policies) |->
    IF i \in Statics(policies) THEN <<policies[i]>> ELSE <<>>])

(* validate_module_policies for every policy document of the module.       *)
ReadPolicies ==
    /\ Reading("policy")
    /\ Read
    /\ \/ ReadFails
       \/ ReadRejected("policy.syntax") /\ UNCHANGED hasSchema
       \/ /\ Sound
          /\ diagnostics' = diagnostics \cup DocumentDiagnostics(File, Module, ids)
          /\ ids' = ids \cup IdsOf(File)
          /\ assigned' = [assigned EXCEPT ![Input.module] =
                @ \o IdsInOrder(File)]
          /\ aggregate' = aggregate \o StaticsInOrder(File)
          /\ text' = text \o File
          /\ UNCHANGED <<outcome, hasSchema, schema, labels>>
    /\ UNCHANGED <<bundle, queue, disk, mode, deny, parts, previous, startedAt, edits, runs>>

ReadSchema ==
    /\ Reading("schema")
    /\ Read
    /\ \/ ReadFails
       \/ ReadRejected("schema.syntax") /\ hasSchema' = TRUE
       \/ /\ Sound
          /\ hasSchema' = TRUE
          /\ diagnostics' = diagnostics
                \cup When(File.warns, "schema.warning")
                \cup When(\E ns \in File.namespaces : ~NamespaceOwns(Module.namespace, ns),
                          "schema.namespace_violation")
                \cup MergeDiagnostics(schema, File)
          /\ schema' = MergeSchema(schema, File)
          /\ UNCHANGED <<outcome, text, aggregate, ids, assigned, labels>>
    /\ UNCHANGED <<bundle, queue, disk, mode, deny, parts, previous, startedAt, edits, runs>>

ReadLabels ==
    /\ Reading("label")
    /\ Read
    /\ \/ ReadFails
       \/ ReadRejected("labels.invalid_json") /\ UNCHANGED hasSchema
       \/ /\ Sound
          /\ LET invalid == LabelSetDiagnostics(File) IN
             \/ /\ invalid # {}
                /\ diagnostics' = diagnostics \cup invalid
                /\ UNCHANGED labels
             \/ /\ invalid = {}
                /\ diagnostics' = diagnostics \cup
                     When(\E i \in 1..Len(File) :
                             ~NamespaceOwns(Module.namespace, File[i].target[1]),
                          "labels.namespace_violation")
                /\ labels' = labels \o File
          /\ UNCHANGED <<outcome, text, aggregate, ids, assigned, hasSchema, schema>>
    /\ UNCHANGED <<bundle, queue, disk, mode, deny, parts, previous, startedAt, edits, runs>>

(***************************************************************************)
(* The aggregate checks and the verdict.                                   *)
(***************************************************************************)
Combined == IF LabelSetDiagnostics(labels) = {} THEN labels ELSE <<>>

(* Fault: nothing is said of the checks that are skipped.                  *)
SilentAggregateDiagnostics ==
    LabelSetDiagnostics(labels) \cup
    IF ~hasSchema THEN {}
    ELSE IF SchemaLoads(schema)
         THEN StrictDiagnostics(aggregate, schema) \cup LabelSchemaDiagnostics(Combined, schema)
         ELSE {"schema.aggregate_invalid"}

AggregateDiagnostics ==
    LabelSetDiagnostics(labels) \cup
    IF ~hasSchema THEN {"schema.compatibility_skipped"}
    ELSE IF SchemaLoads(schema)
         THEN StrictDiagnostics(aggregate, schema) \cup LabelSchemaDiagnostics(Combined, schema)
         ELSE {"schema.aggregate_invalid"}

Records == [m \in 1..Len(bundle) |->
    [name |-> bundle[m].name, namespace |-> bundle[m].namespace, imports |-> bundle[m].imports,
     role |-> bundle[m].role, policyIds |-> assigned[m]]]

(* How a BTreeSet is iterated.                                             *)
Ascending(S) == CHOOSE s \in [1..Cardinality(S) -> S] : StrictlyIncreasing(s)

Compiled ==
    [modules |-> Records, policies |-> text,
     schema |-> IF hasSchema THEN schema ELSE NoSchema,
     labels |-> Combined, policyIds |-> Ascending(ids)]

(* Fault: no verdict when there is something to report.                    *)
FinishWhenClean ==
    /\ Running
    /\ position > Len(queue)
    /\ Errors(diagnostics \cup AggregateDiagnostics) = {}
    /\ diagnostics' = diagnostics \cup AggregateDiagnostics
    /\ outcome' = "ok"
    /\ UNCHANGED <<bundle, queue, disk, mode, deny, accumulators, parts, seen, previous, startedAt,
                   edits, runs>>

(* The Err at the end of compile_manifest, then deny_warnings of the       *)
(* builder, which check_module does not have.                              *)
Finish ==
    /\ Running
    /\ position > Len(queue)
    /\ diagnostics' = diagnostics \cup AggregateDiagnostics
    /\ LET refused == \/ Errors(diagnostics') # {}
                      \/ deny /\ mode # "module" /\ Warnings(diagnostics') # {}
       IN \/ /\ refused
             /\ outcome' = "invalid"
             /\ UNCHANGED parts
          \/ /\ ~refused
             /\ outcome' = "ok"
             /\ parts' = IF mode = "build" THEN Compiled ELSE NoParts
    /\ UNCHANGED <<bundle, queue, disk, mode, deny, accumulators, seen, previous, startedAt, edits, runs>>

(* Somebody saves, breaks or removes an input file.                        *)
Save(path, content) ==
    /\ edits < MaxEdits
    /\ disk[path] # content
    /\ disk' = [disk EXCEPT ![path] = content]
    /\ edits' = edits + 1
    /\ UNCHANGED <<bundle, queue, mode, deny, accumulators, diagnostics, outcome, parts, seen,
                   previous, startedAt, runs>>

Step == ReadPolicies \/ ReadSchema \/ ReadLabels \/ Finish

(* Between runs the builder may simply be left alone.                      *)
Idle == ~Running /\ UNCHANGED vars

Next ==
    \/ \E m \in {"check", "build", "module"}, d \in BOOLEAN : Start(m, d)
    \/ Step
    \/ \E path \in DOMAIN disk : \E content \in Documents[path] : Save(path, content)
    \/ Idle

Spec == Init /\ [][Next]_vars /\ WF_vars(Step)

(***************************************************************************)
(* Properties.                                                             *)
(***************************************************************************)
Built == parts # NoParts

ManifestBuilt ==
    [version |-> FormatVersion, name |-> bundle[1].name, generator |-> ThisGenerator,
     modules |-> parts.modules, policyIds |-> parts.policyIds]

(* The compiler checks documents one by one against the module they belong *)
(* to, the archive reader checks the aggregate against the recorded        *)
(* assignment: whatever a build emits, the reader accepts.                 *)
BuildValidates == Built => ContentValid(ManifestBuilt, parts)

(* The reader finds no warning in an archive that its build did not report;*)
(* so an archive built under deny_warnings validates without warnings.     *)
WarningsAnnounced == Built => Warnings(ArchiveDiagnostics(parts)) \subseteq diagnostics

(* What was read of one kind, in its order, with nothing for other inputs. *)
DocumentsOf(kind) ==
    [k \in 1..Len(seen) |-> IF queue[k].kind = kind THEN seen[k] ELSE <<>>]
Fragments == {seen[k] : k \in {k \in 1..Len(seen) : queue[k].kind = "schema"}}

(* A schema declares what its fragments declare, and as they declare it.   *)
Merges(merged, fragments) ==
    /\ DOMAIN merged.declarations = UNION {DOMAIN f.declarations : f \in fragments}
    /\ DOMAIN merged.fields = UNION {DOMAIN f.fields : f \in fragments}
    /\ \A f \in fragments :
         /\ \A d \in DOMAIN f.declarations : merged.declarations[d] = f.declarations[d]
         /\ \A d \in DOMAIN f.fields : merged.fields[d] = f.fields[d]

(* Everything the manifests name is in the archive, once, in their order,  *)
(* as it was when it was read: nothing that failed to parse or to check    *)
(* was skipped, and no later save has crept in.                            *)
ShipsWhatItRead ==
    Built =>
        /\ Len(seen) = Len(queue)
        /\ \A k \in 1..Len(seen) : seen[k] \notin {Missing, NotUtf8, Unparsable}
        /\ parts.policies = FlattenSeq(DocumentsOf("policy"))
        /\ parts.labels = FlattenSeq(DocumentsOf("label"))
        /\ IF Fragments = {} THEN parts.schema = NoSchema ELSE Merges(parts.schema, Fragments)

(* A type's only owner, but for modules that the loader could not see to   *)
(* overlap: between their namespaces and this one's there sorts a third.   *)
Neighbours(left, right) ==
    LET names == SortedNames(NamespacesOf(bundle)) IN
    \E i \in 1..(Len(names) - 1) : {names[i], names[i + 1]} = {left, right}

OwnsAlone(owner, type) ==
    /\ NamespaceOwns(bundle[owner].namespace, type)
    /\ \A m \in 1..Len(bundle) \ {owner} :
          NamespaceOwns(bundle[m].namespace, type) =>
            ~Neighbours(bundle[m].namespace, bundle[owner].namespace)

(* Every shipped policy is recorded under the module whose document it     *)
(* came from and under no other; an ordinary one acts on types that this   *)
(* module owns, and with it at most modules that the loader's scan of      *)
(* neighbouring namespaces has let through (A, A0, A::B).                  *)
OneOwner ==
    Built =>
        \A k \in 1..Len(queue) : queue[k].kind = "policy" =>
            \A p \in 1..Len(seen[k]) :
                LET policy == seen[k][p]
                    owner == queue[k].module
                IN /\ Assigning(parts.modules, policy.id) = {owner}
                   /\ bundle[owner].role = "ordinary" =>
                        \A t \in policy.actions : OwnsAlone(owner, t)

(* Runs of one builder are independent: with no save since the previous    *)
(* run began, a run repeats its diagnostics, and its verdict under the     *)
(* same deny_warnings.  So a check announces what the build will do.       *)
CheckPredictsBuild ==
    /\ outcome \in {"ok", "io", "invalid"}
    /\ previous.outcome # "none"
    /\ edits = previous.startedAt
    => /\ diagnostics = previous.diagnostics
       /\ deny = previous.deny => outcome = previous.outcome

(* An input that cannot be read ends the run as a filesystem failure, and  *)
(* only that does: content that is merely wrong never hides behind it.     *)
UnreadableIsIo ==
    outcome \in {"ok", "io", "invalid"} =>
        (outcome = "io" <=> \E k \in 1..Len(seen) : seen[k] = Missing)

(* The inputs of one kind, among those read.                               *)
ReadOf(kind) == {k \in 1..Len(seen) : queue[k].kind = kind}

(* The schema that fragments make which do not contradict each other.      *)
WholeSchema ==
    LET Declaring(d) == CHOOSE f \in Fragments : d \in DOMAIN f.declarations
        Having(d) == CHOOSE f \in Fragments : d \in DOMAIN f.fields
    IN [namespaces   |-> UNION {f.namespaces : f \in Fragments},
        declarations |-> [d \in UNION {DOMAIN f.declarations : f \in Fragments} |->
                            Declaring(d).declarations[d]],
        fields       |-> [d \in UNION {DOMAIN f.fields : f \in Fragments} |-> Having(d).fields[d]]]

(* The documents, whatever the order they are read in: all parse, keep to  *)
(* the namespace of their module, and give nothing twice.                  *)
DocumentsSound ==
    /\ \A k \in 1..Len(seen) : seen[k] \notin {Missing, NotUtf8, Unparsable}
    /\ \A k \in ReadOf("policy") : \A p \in 1..Len(seen[k]) :
          /\ seen[k][p].static /\ seen[k][p].id # MissingId
          /\ OwnershipDiagnostics(seen[k][p], bundle[queue[k].module]) = {}
          /\ \A l \in ReadOf("policy") : \A q \in 1..Len(seen[l]) :
                seen[k][p].id = seen[l][q].id => k = l /\ p = q
    /\ \A k \in ReadOf("schema") :
          /\ \A ns \in seen[k].namespaces : NamespaceOwns(bundle[queue[k].module].namespace, ns)
          /\ \A l \in ReadOf("schema") \ {k} :
                /\ DOMAIN seen[k].declarations \cap DOMAIN seen[l].declarations = {}
                /\ \A key \in DOMAIN seen[k].fields \cap DOMAIN seen[l].fields :
                      seen[k].fields[key] = seen[l].fields[key]
    /\ \A k \in ReadOf("label") :
          /\ LabelSetDiagnostics(seen[k]) = {}
          /\ \A i \in 1..Len(seen[k]) :
                NamespaceOwns(bundle[queue[k].module].namespace, seen[k][i].target[1])

(* The documents together: one set of rules, and with a schema one that    *)
(* loads and that every policy and every rule agrees with.                 *)
CombinationSound ==
    /\ LabelSetDiagnostics(FlattenSeq(DocumentsOf("label"))) = {}
    /\ Fragments # {} =>
          /\ SchemaLoads(WholeSchema)
          /\ \A k \in ReadOf("policy") : \A p \in 1..Len(seen[k]) :
                Strict(seen[k][p], WholeSchema) \cap {"error", "misapplied"} = {}
          /\ \A k \in ReadOf("label") : \A i \in 1..Len(seen[k]) :
                LabelFits(seen[k][i], WholeSchema)

(* The compiler judges a document against what the documents before it     *)
(* have left behind, passes over those it rejects and checks the aggregate *)
(* of the others: still it finds an error if and only if what it read is   *)
(* unsound as a whole, so sound sources are never refused for one.         *)
JudgedAsAWhole ==
    outcome \in {"ok", "invalid"} =>
        (Errors(diagnostics) = {} <=> DocumentsSound /\ CombinationSound)

(* Every run ends. *)
RunEnds == Running ~> ~Running
=============================================================================
