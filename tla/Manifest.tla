------------------------------ MODULE Manifest ------------------------------
(***************************************************************************)
(* BundleManifest::from_path of manifest.rs: one load of a root manifest   *)
(* and of every module manifest it selects, against a file system that     *)
(* somebody may be editing meanwhile.  Each file is read once; its content *)
(* is judged as it was when read, and the module set is judged at the end. *)
(***************************************************************************)
EXTENDS ArchiveManifest

CONSTANTS
    Paths,          \* the relative module manifest paths a root manifest can select
    AbsolutePaths,  \* the selections that Path::is_absolute() refuses
    Disks,          \* [root, files]: how a load may find the manifests, decoded
    Saves,          \* [path -> what somebody may save there]
    Absent,         \* a file that fs::read cannot read
    Garbled,        \* a file that is not UTF-8 or not TOML of the expected form
    NotLoaded,      \* no root manifest decoded yet
    Inputs,         \* the policy, schema and label files a module can name
    ExplicitInputs, \* those that are plain relative paths (no "..", root or glob)
    MaxEdits        \* bound: changes to the disk during the load

Locations == {"inside", "outside", "missing"}  \* where an input path leads
ManifestFiles ==
    (UNION {{d.files[p] : p \in Paths} : d \in Disks}) \cup UNION {Saves[p] : p \in Paths}

(* What is on disk decodes to lists and strings, or is Absent or Garbled.  *)
ASSUME ManifestsAssumption ==
    /\ Absent # Garbled
    /\ \A d \in Disks :
          /\ d.root # NotLoaded /\ d.files = [p \in Paths |-> d.files[p]]
          /\ d.root \notin {Absent, Garbled} =>
                d.root.modules \in Seq([manifest : Paths \cup AbsolutePaths, role : {"ordinary", "global"}])
    /\ \A m \in ManifestFiles \ {Absent, Garbled} :
          {m.name, m.namespace} \subseteq Seq(Nat) /\ m.imports \in Seq(Seq(Nat))
    /\ ExplicitInputs \subseteq Inputs

VARIABLES
    root,      \* the root manifest on disk
    files,     \* the module manifests on disk
    location,  \* where each input path leads: a file under the module, elsewhere, nowhere
    raw,       \* the decoded root manifest (RawBundleManifest)
    position,  \* the selection to load next
    modules,   \* the modules loaded so far
    diagnostics,
    outcome,   \* "loading", "ok", "io", "manifest" or "invalid"
    seen,      \* history: each selected file, and the input locations, when it was read
    edits      \* changes made to the disk so far

vars == <<root, files, location, raw, position, modules, diagnostics, outcome, seen, edits>>
disk == <<root, files, location>>

(***************************************************************************)
(* The checks.                                                             *)
(***************************************************************************)
NamespaceDiagnostics(n) ==
    IF Blank(n) THEN {"empty_namespace"}
    ELSE IF n \notin CedarNames THEN {"invalid_namespace"} ELSE {}

InputDiagnostics(input, where) ==
    IF input \notin ExplicitInputs THEN {"invalid_input_path"}
    ELSE CASE where[input] = "inside"  -> {}
           [] where[input] = "outside" -> {"input_escape"}
           [] where[input] = "missing" -> {"input_unreadable"}

InputsOf(m) == ElementsOf(m.policies) \cup ElementsOf(m.schemas) \cup ElementsOf(m.labels)

(* ModuleManifest::from_path, once the file is read and decoded. *)
ModuleDiagnostics(m, where) ==
    (IF m.version # FormatVersion THEN {"unsupported_version"} ELSE {})
    \cup (IF Blank(m.name) THEN {"empty_name"} ELSE {})
    \cup NamespaceDiagnostics(m.namespace)
    \cup (UNION {NamespaceDiagnostics(n) : n \in ElementsOf(m.imports)})
    \cup (IF HasRepeats(m.imports) THEN {"duplicate_import"} ELSE {})
    \cup (IF m.namespace \in ElementsOf(m.imports) THEN {"self_import"} ELSE {})
    \cup UNION {InputDiagnostics(input, where) : input \in InputsOf(m)}

RootDiagnostics(r) ==
    (IF r.version # FormatVersion THEN {"unsupported_version"} ELSE {})
    \cup (IF Blank(r.name) THEN {"empty_name"} ELSE {})
    \cup (IF r.modules = <<>> THEN {"empty_modules"} ELSE {})

NamesOf(ms) == [i \in 1..Len(ms) |-> ms[i].name]

(* Fault: neighbours in the order of the root manifest are compared.       *)
UnsortedSetDiagnostics(ms) ==
    (IF HasRepeats(NamesOf(ms)) THEN {"duplicate_module_name"} ELSE {})
    \cup (IF AdjacentOverlap(NamespacesOf(ms)) THEN {"overlapping_namespaces"} ELSE {})
    \cup (IF \E i \in 1..Len(ms) :
               ~(ElementsOf(ms[i].imports) \subseteq ElementsOf(NamespacesOf(ms)))
          THEN {"unresolved_import"} ELSE {})

(* validate_module_set, over the modules that loaded. *)
ModuleSetDiagnostics(ms) ==
    (IF HasRepeats(NamesOf(ms)) THEN {"duplicate_module_name"} ELSE {})
    \cup (IF AdjacentOverlap(SortedNames(NamespacesOf(ms)))
          THEN {"overlapping_namespaces"} ELSE {})
    \cup (IF \E i \in 1..Len(ms) :
               ~(ElementsOf(ms[i].imports) \subseteq ElementsOf(NamespacesOf(ms)))
          THEN {"unresolved_import"} ELSE {})

Selected(m, role) ==
    [name |-> m.name, namespace |-> m.namespace, imports |-> m.imports, role |-> role,
     policies |-> m.policies, schemas |-> m.schemas, labels |-> m.labels]

SortedByName(ms) == LET p == Sorting(NamesOf(ms)) IN [i \in 1..Len(ms) |-> ms[p[i]]]

(***************************************************************************)
(* The load, one file at a time.                                           *)
(***************************************************************************)
Init ==
    /\ \E found \in Disks : root = found.root /\ files = found.files
    /\ location \in [Inputs -> Locations]
    /\ raw = NotLoaded
    /\ position = 1
    /\ modules = <<>>
    /\ diagnostics = {}
    /\ outcome = "loading"
    /\ seen = <<>>
    /\ edits = 0

(* The root manifest: read, UTF-8 and TOML, canonicalize, its own checks.   *)
ReadRoot ==
    /\ outcome = "loading"
    /\ raw = NotLoaded
    /\ \/ /\ root = Absent
          /\ outcome' = "io"
          /\ UNCHANGED <<raw, diagnostics>>
       \/ /\ root = Garbled
          /\ outcome' = "manifest"
          /\ UNCHANGED <<raw, diagnostics>>
       \/ /\ root \notin {Absent, Garbled}
          /\ raw' = root
          /\ diagnostics' = RootDiagnostics(root)
          /\ UNCHANGED outcome
    /\ UNCHANGED <<disk, position, modules, seen, edits>>

Selecting == outcome = "loading" /\ raw # NotLoaded /\ position <= Len(raw.modules)

(* Fault: an absolute selection is passed over in silence.                 *)
SkipAbsolute ==
    /\ Selecting
    /\ raw.modules[position].manifest \in AbsolutePaths
    /\ seen' = Append(seen, [file |-> Absent, where |-> location])
    /\ position' = position + 1
    /\ UNCHANGED <<disk, raw, modules, diagnostics, outcome, edits>>

(* An absolute selection is a diagnostic; the file is not opened. *)
RefuseAbsolute ==
    /\ Selecting
    /\ raw.modules[position].manifest \in AbsolutePaths
    /\ diagnostics' = diagnostics \cup {"absolute_module_path"}
    /\ seen' = Append(seen, [file |-> Absent, where |-> location])
    /\ position' = position + 1
    /\ UNCHANGED <<disk, raw, modules, outcome, edits>>

(* Fault: a module that cannot be read is one more diagnostic.             *)
LoadModuleTolerantly ==
    /\ Selecting
    /\ raw.modules[position].manifest \notin AbsolutePaths
    /\ files[raw.modules[position].manifest] \in {Absent, Garbled}
    /\ seen' = Append(seen, [file |-> files[raw.modules[position].manifest], where |-> location])
    /\ position' = position + 1
    /\ diagnostics' = diagnostics \cup {"unreadable_module"}
    /\ UNCHANGED <<disk, raw, modules, outcome, edits>>

(* ModuleManifest::from_path for one selection.  A module that cannot be   *)
(* read or decoded ends the load at once; its diagnostics do not.          *)
LoadModule ==
    /\ Selecting
    /\ LET selection == raw.modules[position]
           file == files[selection.manifest]
       IN /\ selection.manifest \notin AbsolutePaths
          /\ seen' = Append(seen, [file |-> file, where |-> location])
          /\ position' = position + 1
          /\ \/ /\ file = Absent
                /\ outcome' = "io"
                /\ UNCHANGED <<modules, diagnostics>>
             \/ /\ file = Garbled
                /\ outcome' = "manifest"
                /\ UNCHANGED <<modules, diagnostics>>
             \/ /\ file \notin {Absent, Garbled}
                /\ LET nested == ModuleDiagnostics(file, location) IN
                   \/ /\ nested = {}
                      /\ modules' = Append(modules, Selected(file, selection.role))
                      /\ UNCHANGED diagnostics
                   \/ /\ nested # {}
                      /\ diagnostics' = diagnostics \cup nested
                      /\ UNCHANGED modules
                /\ UNCHANGED outcome
    /\ UNCHANGED <<disk, raw, edits>>

(* Fault: the modules stay in the order of the root manifest.              *)
FinishLoadUnsorted ==
    /\ outcome = "loading"
    /\ raw # NotLoaded
    /\ position > Len(raw.modules)
    /\ diagnostics' = diagnostics \cup ModuleSetDiagnostics(modules)
    /\ outcome' = IF diagnostics' = {} THEN "ok" ELSE "invalid"
    /\ UNCHANGED <<disk, raw, position, modules, seen, edits>>

(* The module set is judged, and sorted by name when all is well.          *)
FinishLoad ==
    /\ outcome = "loading"
    /\ raw # NotLoaded
    /\ position > Len(raw.modules)
    /\ diagnostics' = diagnostics \cup ModuleSetDiagnostics(modules)
    /\ \/ /\ diagnostics' = {}
          /\ outcome' = "ok"
          /\ modules' = SortedByName(modules)
       \/ /\ diagnostics' # {}
          /\ outcome' = "invalid"
          /\ UNCHANGED modules
    /\ UNCHANGED <<disk, raw, position, seen, edits>>

(* Somebody saves a module manifest, or moves an input, during the load.   *)
EditModule(path, content) ==
    /\ outcome = "loading"
    /\ edits < MaxEdits
    /\ files[path] # content
    /\ files' = [files EXCEPT ![path] = content]
    /\ edits' = edits + 1
    /\ UNCHANGED <<root, location, raw, position, modules, diagnostics, outcome, seen>>

MoveInput(input, where) ==
    /\ outcome = "loading"
    /\ edits < MaxEdits
    /\ location[input] # where
    /\ location' = [location EXCEPT ![input] = where]
    /\ edits' = edits + 1
    /\ UNCHANGED <<root, files, raw, position, modules, diagnostics, outcome, seen>>

Loader == ReadRoot \/ RefuseAbsolute \/ LoadModule \/ FinishLoad

Editor ==
    \/ \E path \in Paths : \E content \in Saves[path] : EditModule(path, content)
    \/ \E input \in Inputs, where \in Locations : MoveInput(input, where)

Finished == outcome # "loading" /\ UNCHANGED vars

Next == Loader \/ Editor \/ Finished

Spec == Init /\ [][Next]_vars

(***************************************************************************)
(* Properties.                                                             *)
(***************************************************************************)
(* What manifest.rs requires of one selection, from the content it read.   *)
SelectionSound(i) ==
    LET m == seen[i].file
        names == {m.namespace} \cup ElementsOf(m.imports)
    IN /\ raw.modules[i].manifest \notin AbsolutePaths
       /\ m.version = FormatVersion
       /\ ~Blank(m.name)
       /\ names \subseteq CedarNames
       /\ Cardinality(names) = Len(m.imports) + 1
       /\ \A input \in InputsOf(m) :
            input \in ExplicitInputs /\ seen[i].where[input] = "inside"

(* What it requires of the bundle: every pair of modules is compared.      *)
BundleSound ==
    LET n == Len(raw.modules)
        M(i) == seen[i].file
    IN /\ raw.version = FormatVersion /\ ~Blank(raw.name) /\ n > 0
       /\ \A i \in 1..n : SelectionSound(i)
       /\ \A i, j \in 1..n : i # j =>
            M(i).name # M(j).name /\ ~NamespacesOverlap(M(i).namespace, M(j).namespace)
       /\ \A i \in 1..n : \A k \in ElementsOf(M(i).imports) :
            \E j \in 1..n : M(j).namespace = k

(* manifest.rs accumulates diagnostics over modules that failed, skipped   *)
(* and loaded ones, and compares only neighbours: the verdict is still the *)
(* exact one, a bundle is loaded if and only if it is sound as a whole.    *)
VerdictExact ==
    outcome \in {"ok", "invalid"} => (outcome = "ok" <=> BundleSound)

(* A loaded bundle holds one module per selection, with the role selected  *)
(* for it, in strict name order whatever the order of the selections was.  *)
NothingDropped ==
    outcome = "ok" =>
        /\ Len(modules) = Len(raw.modules)
        /\ OrderedByName(modules)
        /\ ElementsOf(modules) =
             {Selected(seen[i].file, raw.modules[i].role) : i \in 1..Len(raw.modules)}

(* manifest.rs and archive.rs each check the module set: what the loader   *)
(* accepts, the reader of the archive built from it accepts too.           *)
LoadedSetAccepted == outcome = "ok" => ModulesValid(modules)

(* An unreadable or undecodable module manifest is never reported as a     *)
(* content failure, however many diagnostics were pending when it was met; *)
(* and such an outcome always has that file as its cause.                  *)
FailureIsTheFile ==
    LET last == seen[Len(seen)].file IN
    /\ outcome = "invalid" =>
         \A i \in 1..Len(seen) : raw.modules[i].manifest \notin AbsolutePaths =>
             seen[i].file \notin {Absent, Garbled}
    /\ outcome = "io" /\ raw # NotLoaded => last = Absent
    /\ outcome = "manifest" /\ raw # NotLoaded => last = Garbled

(* Two modules of a loaded bundle never own a common name: the promise of  *)
(* the overlap check, which the scan of neighbours does not keep.          *)
NamespacesDisjoint == outcome = "ok" => ~SomeOverlap(NamespacesOf(modules))
=============================================================================
