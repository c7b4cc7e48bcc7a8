----------------------------- MODULE Validation -----------------------------
(***************************************************************************)
(* The checks of validation.rs on policies, schema and labels, as both the *)
(* compiler (Compile.tla) and the archive reader apply them.  Diagnostics  *)
(* are the set of their codes; which file and which line they carry is     *)
(* left out.                                                               *)
(***************************************************************************)
EXTENDS ArchiveManifest

CONSTANTS
    Strict(_, _),       \* cedar: what Validator::validate says of a policy under a schema,
                        \*   a subset of {"error", "misapplied", "warning"}
    SchemaLoads(_),     \* cedar: Schema::from_json_value succeeds
    LabelFits(_, _),    \* labels.rs validate_schema: a rule agrees with a schema
    HasIdPrefix(_, _),  \* the policy id starts with "<module name>."
    MaxRules            \* MAX_LABEL_RULES

NoSchema == <<>>   \* schema_json = None, which has no fields at all

WarningCodes ==
    {"policy.id_prefix", "policy.schema_warning", "schema.warning",
     "schema.compatibility_skipped", "labels.schema_check_skipped"}

Errors(diagnostics) == diagnostics \ WarningCodes
Warnings(diagnostics) == diagnostics \cap WarningCodes

When(condition, code) == IF condition THEN {code} ELSE {}

MissingId == 0   \* no @id annotation, or an empty one

(***************************************************************************)
(* Policies.                                                               *)
(***************************************************************************)
OwnedOrImported(module, type) ==
    \E root \in {module.namespace} \cup ElementsOf(module.imports) : NamespaceOwns(root, type)

(* Fault: an imported namespace may be acted on.                           *)
ImportedActionsAllowed(policy, module) ==
    IF ~policy.structured THEN {"policy.structured_representation"}
    ELSE IF module.role = "global" THEN {}
    ELSE When(~policy.constrained, "policy.action_unconstrained")
         \cup When(\E t \in policy.actions \cup policy.references : ~OwnedOrImported(module, t),
                   "policy.namespace_violation")

(* validate_policy_ownership: a global module is held only to having a     *)
(* structured form; an ordinary one must constrain its actions to its own  *)
(* namespace and mention nothing but that namespace and its imports.       *)
OwnershipDiagnostics(policy, module) ==
    IF ~policy.structured THEN {"policy.structured_representation"}
    ELSE IF module.role = "global" THEN {}
    ELSE When(~policy.constrained, "policy.action_unconstrained")
         \cup When(\E t \in policy.actions : ~NamespaceOwns(module.namespace, t),
                   "policy.action_namespace_violation")
         \cup When(\E t \in policy.actions \cup policy.references : ~OwnedOrImported(module, t),
                   "policy.namespace_violation")

PrefixDiagnostics(policy, module) ==
    When(~HasIdPrefix(policy.id, module.name), "policy.id_prefix")

TemplateDiagnostics(policies) ==
    When(\E i \in 1..Len(policies) : ~policies[i].static, "policy.templates_unsupported")

(* PolicySet::policies() passes over templates. *)
Statics(policies) == {i \in 1..Len(policies) : policies[i].static}
Identified(policies) == {i \in Statics(policies) : policies[i].id # MissingId}
IdsOf(policies) == {policies[i].id : i \in Identified(policies)}

(* Ids of policies in a document, against those seen before it. *)
IdDiagnostics(policies, known) ==
    When(Identified(policies) # Statics(policies), "policy.missing_id")
    \cup When(\/ \E i, j \in Identified(policies) : i # j /\ policies[i].id = policies[j].id
              \/ IdsOf(policies) \cap known # {}, "policy.duplicate_id")

(* Fault: ids are compared within their own document only.                 *)
DocumentDiagnosticsAlone(policies, module, known) ==
    TemplateDiagnostics(policies)
    \cup IdDiagnostics(policies, {})
    \cup UNION {PrefixDiagnostics(policies[i], module)
                \cup OwnershipDiagnostics(policies[i], module) : i \in Identified(policies)}

(* validate_module_policies: one policy document of one module. *)
DocumentDiagnostics(policies, module, known) ==
    TemplateDiagnostics(policies)
    \cup IdDiagnostics(policies, known)
    \cup UNION {PrefixDiagnostics(policies[i], module)
                \cup OwnershipDiagnostics(policies[i], module) : i \in Identified(policies)}

(* validate_policy_set: InvalidActionApplication stays an error. *)
StrictDiagnostics(policies, schema) ==
    LET said == UNION {Strict(policies[i], schema) : i \in 1..Len(policies)} IN
    When(said \cap {"error", "misapplied"} # {}, "policy.schema_validation")
    \cup When("warning" \in said, "policy.schema_warning")

(***************************************************************************)
(* Labels.                                                                 *)
(***************************************************************************)
(* LabelSet::from_raw and LabelSet::combine, on a whole document or on the *)
(* concatenation of several: the rule budget, and one rule a destination.  *)
LabelSetDiagnostics(rules) ==
    IF Len(rules) > MaxRules THEN {"labels.too_many_rules"}
    ELSE When(\E i, j \in 1..Len(rules) : i # j /\ rules[i].target = rules[j].target,
              "labels.duplicate_destination")

LabelSchemaDiagnostics(rules, schema) ==
    When(\E i \in 1..Len(rules) : ~LabelFits(rules[i], schema), "labels.schema_mismatch")

(***************************************************************************)
(* Schema fragments: the namespaces a fragment opens, its declarations and *)
(* its other fields, keyed by <<namespace, name>>.                         *)
(***************************************************************************)
EmptySchema == [namespaces |-> {}, declarations |-> <<>>, fields |-> <<>>]

(* merge_schema_fragment: a later declaration replaces, an earlier field stays. *)
MergeSchema(target, fragment) ==
    [namespaces   |-> target.namespaces \cup fragment.namespaces,
     declarations |-> [key \in DOMAIN target.declarations \cup DOMAIN fragment.declarations |->
                         IF key \in DOMAIN fragment.declarations
                         THEN fragment.declarations[key] ELSE target.declarations[key]],
     fields       |-> [key \in DOMAIN target.fields \cup DOMAIN fragment.fields |->
                         IF key \in DOMAIN target.fields
                         THEN target.fields[key] ELSE fragment.fields[key]]]

(* Fault: a field is refused where it is given again, even unchanged.      *)
MergeDiagnosticsOnceOnly(target, fragment) ==
    When(DOMAIN target.declarations \cap DOMAIN fragment.declarations # {},
         "schema.duplicate_declaration")
    \cup When(DOMAIN target.fields \cap DOMAIN fragment.fields # {}, "schema.duplicate_metadata")

MergeDiagnostics(target, fragment) ==
    When(DOMAIN target.declarations \cap DOMAIN fragment.declarations # {},
         "schema.duplicate_declaration")
    \cup When(\E key \in DOMAIN target.fields \cap DOMAIN fragment.fields :
                 target.fields[key] # fragment.fields[key], "schema.duplicate_metadata")

OwnedBySome(modules, name) ==
    \E i \in 1..Len(modules) : NamespaceOwns(modules[i].namespace, name)

(***************************************************************************)
(* validate_archive_parts: the reader's judgement of the content of an     *)
(* archive whose manifest and hashes it has already accepted.              *)
(***************************************************************************)
Assigning(modules, id) ==
    {i \in 1..Len(modules) : id \in ElementsOf(modules[i].policyIds)}

ArchivedPolicyDiagnostics(policy, modules) ==
    LET owners == Assigning(modules, policy.id)
        last == CHOOSE i \in owners : \A j \in owners : j <= i
    IN IF owners = {} THEN {"archive.policy_module_missing"}
       ELSE PrefixDiagnostics(policy, modules[last])
            \cup OwnershipDiagnostics(policy, modules[last])

ArchiveDiagnostics(parts) ==
    LET policies == parts.policies
        modules == parts.modules
    IN  TemplateDiagnostics(policies)
        \cup IdDiagnostics(policies, {})
        \cup (UNION {ArchivedPolicyDiagnostics(policies[i], modules) : i \in Identified(policies)})
        \cup When(IdsOf(policies) # ElementsOf(parts.policyIds), "archive.policy_ids_mismatch")
        \cup (IF parts.schema = NoSchema THEN {"schema.compatibility_skipped"}
              ELSE When(\E ns \in parts.schema.namespaces : ~OwnedBySome(modules, ns),
                        "schema.namespace_violation")
                   \cup (IF SchemaLoads(parts.schema)
                         THEN StrictDiagnostics(policies, parts.schema)
                              \cup LabelSchemaDiagnostics(parts.labels, parts.schema)
                         ELSE {"schema.aggregate_invalid"}))
        \cup When(\E i \in 1..Len(parts.labels) :
                     ~OwnedBySome(modules, parts.labels[i].target[1]),
                  "labels.namespace_violation")

(* What validate_decoded demands of the content: the manifest, the label   *)
(* document parsed again, and the checks above.                            *)
ContentValid(manifest, parts) ==
    /\ ManifestValid(manifest)
    /\ LabelSetDiagnostics(parts.labels) = {}
    /\ Errors(ArchiveDiagnostics(parts)) = {}
=============================================================================
