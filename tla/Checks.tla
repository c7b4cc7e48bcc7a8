-------------------------------- MODULE Checks --------------------------------
(***************************************************************************)
(* The commands of main.rs that judge sources: check policy on one policy  *)
(* document with the schema and the labels given beside it, and check      *)
(* module, check bundle and build on manifests (Compile.tla), by the same  *)
(* author on the same files, with exit statuses.                           *)
(***************************************************************************)
EXTENDS Compile

CONSTANTS
    Arguments,   \* [policy, schema, labels, deny] of check policy
    NotGiven     \* --schema or --labels is absent

(* What stands for the absence of a file names none, and none holds it.    *)
ASSUME NotGivenAssumption ==
    /\ NotGiven # Unparsable /\ NotGiven \notin DOMAIN Documents
    /\ \A path \in DOMAIN Documents : NotGiven \notin Documents[path]

VARIABLES
    arguments,   \* of the check in hand
    pc,          \* "idle", "policy", "schema", "labels", "judge" or "exited"
    contents,    \* argument -> text, as read so far
    report,      \* diagnostics of check_policy
    status,      \* exit status of check policy
    began        \* history: edits when it was called

check == <<arguments, pc, contents, report, status, began>>
allVars == <<vars, check>>

NoStatus == 3
Unread == [policy |-> NotGiven, schema |-> NotGiven, labels |-> NotGiven]

ChecksInit ==
    /\ Init
    /\ arguments \in Arguments
    /\ pc = "idle" /\ contents = Unread /\ report = {} /\ status = NoStatus /\ began = 0

(***************************************************************************)
(* Exit statuses.                                                          *)
(***************************************************************************)
(* Fault: --deny-warnings is left to the builder.                          *)
InvalidForErrors(found, denied) == Errors(found) # {}

(* render_check *)
Invalid(found, denied) ==
    Errors(found) # {} \/ (denied /\ Warnings(found) # {})

(* render_content_error, render_policy_check, main: of the run of the      *)
(* compiler that has ended.                                                *)
ManifestStatus ==
    IF outcome = "io" THEN 2
    ELSE IF outcome = "ok" /\ mode = "build" THEN 0
    ELSE IF Invalid(diagnostics, deny) THEN 1 ELSE 0

(***************************************************************************)
(* check policy.                                                           *)
(***************************************************************************)
Call ==
    /\ pc = "idle"
    /\ pc' = "policy"
    /\ began' = edits
    /\ UNCHANGED <<vars, arguments, contents, report, status>>

After == [policy |-> "schema", schema |-> "labels", labels |-> "judge"]

(* read_string: whatever fails, bytes that are not UTF-8 included, is an   *)
(* error of the filesystem.                                                *)
ReadArgument(kind) ==
    /\ pc = kind
    /\ \/ /\ arguments[kind] = NotGiven
          /\ pc' = After[kind]
          /\ UNCHANGED <<contents, status>>
       \/ /\ arguments[kind] # NotGiven
          /\ disk[arguments[kind]] \in {Missing, NotUtf8}
          /\ pc' = "exited" /\ status' = 2
          /\ UNCHANGED contents
       \/ /\ arguments[kind] # NotGiven
          /\ disk[arguments[kind]] \notin {Missing, NotUtf8}
          /\ contents' = [contents EXCEPT ![kind] = disk[arguments[kind]]]
          /\ pc' = After[kind]
          /\ UNCHANGED status
    /\ UNCHANGED <<vars, arguments, report, began>>

Parses(kind) == contents[kind] \notin {NotGiven, Unparsable}
LabelsSound == Parses("labels") /\ LabelSetDiagnostics(contents.labels) = {}
TheSchema == MergeSchema(EmptySchema, contents.schema)
SchemaSound == Parses("schema") /\ SchemaLoads(TheSchema)

(* check_policy; templates are judged as well.                             *)
PolicyDiagnostics ==
    When(contents.policy = Unparsable, "policy.syntax")
    \cup When(contents.labels = Unparsable, "labels.invalid_json")
    \cup (IF Parses("labels") THEN LabelSetDiagnostics(contents.labels) ELSE {})
    \cup When(contents.schema = Unparsable, "schema.syntax")
    \cup When(Parses("schema") /\ contents.schema.warns, "schema.warning")
    \cup When(Parses("schema") /\ ~SchemaLoads(TheSchema), "schema.invalid")
    \cup (IF Parses("policy") /\ SchemaSound THEN StrictDiagnostics(contents.policy, TheSchema) ELSE {})
    \cup (IF ~LabelsSound THEN {}
          ELSE IF SchemaSound THEN LabelSchemaDiagnostics(contents.labels, TheSchema)
          ELSE {"labels.schema_check_skipped"})

Judge ==
    /\ pc = "judge"
    /\ report' = PolicyDiagnostics
    /\ status' = IF Invalid(report', arguments.deny) THEN 1 ELSE 0
    /\ pc' = "exited"
    /\ UNCHANGED <<vars, arguments, contents, began>>

ChecksNext ==
    \/ Next /\ UNCHANGED check
    \/ Call
    \/ \E kind \in {"policy", "schema", "labels"} : ReadArgument(kind)
    \/ Judge

ChecksSpec == ChecksInit /\ [][ChecksNext]_allVars

(***************************************************************************)
(* Properties.                                                             *)
(***************************************************************************)
Ended == outcome \in {"ok", "io", "invalid"}

(* What the builder or the compiler has refused is never rendered as valid *)
(* and never exits with 0: the second judgement, over the diagnostics that *)
(* came with the refusal, finds a reason among them.                       *)
RefusalReported == outcome = "invalid" => ManifestStatus = 1

FilesOf(kind) ==
    IF kind = "policy" THEN bundle[1].policies
    ELSE IF kind = "schema" THEN bundle[1].schemas ELSE bundle[1].labels

(* The check is about the policies of the module under its own schema.     *)
SameFiles ==
    /\ FilesOf("policy") = <<arguments.policy>>
    /\ FilesOf("schema") = IF arguments.schema = NotGiven THEN <<>> ELSE <<arguments.schema>>
    /\ arguments.labels # NotGiven => FilesOf("labels") = <<arguments.labels>>

(* With no save since either was called, a module that check module passes *)
(* has documents that check policy passes, as strictly, although the two   *)
(* commands combine the checks each in their own way.                      *)
ModuleCoversPolicy ==
    /\ mode = "module" /\ Ended /\ startedAt = edits
    /\ pc = "exited" /\ began = edits
    /\ SameFiles
    /\ arguments.deny => deny
    /\ ManifestStatus = 0
    => status = 0

(* README.md:106: status 1 is for invalid content, 2 for the filesystem    *)
(* and what does not concern content.                                      *)
ContentIsOne ==
    pc = "exited" /\ began = edits /\ status = 2 =>
        \E kind \in {"policy", "schema", "labels"} :
            arguments[kind] # NotGiven /\ disk[arguments[kind]] = Missing

(* validation.rs:118: "label/schema compatibility was not checked because  *)
(* no schema was provided".                                                *)
SkippedMeansNotGiven == "labels.schema_check_skipped" \in report => arguments.schema = NotGiven
=============================================================================
