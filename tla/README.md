# treetop-bundle: a verification development

`treetop-bundle` compiles policy modules written in Cedar, with schemas and
label rules, into one deterministic archive, signs it, and opens it again for a
policy engine. This directory models that life of a bundle in TLA+: loading the
manifests, compiling the inputs, building, signing and re-signing the archive,
validating it elsewhere, deciding requests and labelling resources with it, and
the command line that does these things to files, with its checks and its keys.
TLC checks the models on small instances; TLAPS proves the central results for
every value of the constants.

All paths of source files are relative to the root of the repository
(`src/archive.rs`, `cli/src/main.rs`, ...).

## 1. The system

| part | state it keeps | operations | properties that make it correct |
|---|---|---|---|
| manifest (`src/manifest.rs`) | none between calls; during a load the modules read so far and the diagnostics | `BundleManifest::from_path`, `ModuleManifest::from_path` | the verdict depends on what was read, on all of it and on nothing else; module roots are pairwise disjoint (they are not always, see `manifest_digits`); the result is in name order |
| namespaces (`manifest.rs` 431-440, scans at 395-410 and `archive.rs` 738-746) | none | `namespace_owns`, `namespaces_overlap`, the scan of neighbours | the scan finds every overlap; a name has at most one owner |
| validation (`src/validation.rs`) | locals of one compilation: text, ids, aggregate policies, merged schema, labels | `compile_manifest`, `validate_archive_parts`, `check_policy`, `check_module` | what the compiler emits, the reader accepts, with no warning that was not announced |
| builder (`src/builder.rs`) | the loaded manifest, `deny_warnings` | `check`, `build` | calls do not influence one another; a check foretells the build |
| archive (`src/archive.rs`) | bytes | `build`, `resign`, `read`, `validate` | signature → manifest bytes → digests → artifacts is an unbroken chain; a bundle id names one bundle |
| signing (`src/signing.rs`) | `TrustStore`, keys | `sign_manifest`, `TrustStore::insert`/`verify`, key loading | acceptance follows the trust store of the moment; a key comes from a private file and the password from the first source there is |
| labels (`src/labels.rs`) | compiled rules | `from_json_str`, `combine`, `validate_schema`, matching | budgets hold per document and together; the reader takes what was combined; labels are what the other attributes justify |
| command line (`cli/src/main.rs`) | files | `check`, `build`, `sign` | no output is overwritten, no half archive is relied on, exit statuses tell the truth |
| engine (`src/engine.rs`, `archive.rs` 132-291) | an engine of treetop-core | preparation in two layouts, reload, versions, sessions, evaluation | division into stores changes no decision on an action whose groups are under its own root, and is refused for a reason only; a schema is never lost |
| diagnostics, errors (`src/diagnostic.rs`, `src/error.rs`) | none | classification of errors | content failures and others are told apart |
| Cedar, treetop-core, ed25519, SHA-256, tar, gzip | external | | assumed, see section 5 |

How they interact. The command line calls the builder (`from_manifest`, then
`check` or `build`); the builder calls the manifest loader once and the compiler
at each call; `build` hands the compiled parts to the archive, which signs the
manifest bytes. In another process, `read` and `validate` open the archive, ask
the trust store, and check the manifest and all content again with the
reader's own code. The library is single-threaded: concurrency lies in the file
system, between processes and with people who edit or move files.

What is hard: files that change between being checked and being read; files
that are read while being written; failure in the middle of nested loops; two
validators of one thing in two places; a signature that covers one entry of
several; re-signing of manifests somebody has laid out differently; name
comparison that relies on byte order; a key file that is judged, read and read
again after a prompt; an engine that is reloaded between two questions; labels
that depend on other labels. `PROJECT.json` lists each hazard with its
line and the properties that stand against it.

## 2. Modules

| module | models | state and actions |
|---|---|---|
| `Namespaces` | `namespace_owns`, `namespaces_overlap`, Rust's order on `str`, the scan | operators only; a name is a sequence of ASCII codes, because the place of `:` among digits and letters matters |
| `ArchiveManifest` | `validate_manifest` of the reader | operators only |
| `Manifest` | `BundleManifest::from_path` | `root`, `files`, `location` are the disk; `raw`, `position`, `modules`, `diagnostics` are the locals; one action per file read (`ReadRoot`, `RefuseAbsolute`, `LoadModule`) and `FinishLoad`; `EditModule` and `MoveInput` are other people |
| `Validation` | the checks of `validation.rs`, for compiler and reader | operators only; a diagnostic is its code |
| `Compile` | `compile_manifest`, `BundleBuilder`, `check_module` | the variables are the locals of `compile_manifest`; one action per input read, `Finish` for the aggregate checks, the verdict and `deny_warnings`, `Save` for other people |
| `Archive` | `build`, `resign`, `validate`, trust stores | `shelf` holds archives as sequences of entries; `Build`, `BuildSigned`, `Resign`, `Validate`, `Rotate`; `AlterEntry` and `AppendBytes` are the rewrites that `tests/bundle.rs` does to archives |
| `WriteOnce` | the abstract promise of the command line on archive files | `Claim`, `Append`, `Announce`, `Rely`, and the user |
| `Publish` | `build`, `sign`, `check archive` as processes | `pc` is the place of each job in `run_build`, `run_sign`, `run_check`; one action per system call or fallible step that others can see; `Crash`, `Place`, `Remove` are outside |
| `References` | `validate_policy_ownership` with the walk `collect_expr_references` | `pending`, `visited` and `references` are the walk; `Scope` collects from the policy's head, `Collect` is one call on one expression, `Judge` the loop over what was collected |
| `Labels` | `labels.rs` and the labelling of treetop-core | one document after the other through `Open`, `ParseRule`, `CloseDocument`; `Combine` and `Accept` for the reader and the schema; `Submit`, `Clear`, `Derive`, `Finish`, `Change` at run time |
| `Engine` | preparation (`archive.rs` 200-285) and `PreparedEngine` | `generations` are the states the engine has had; `Prepare`, `Reload`, `CurrentVersion`, `Evaluate`, `Session`, `SessionEvaluate` for several clients |
| `KeyLoading` | `load_signing_key` and `read_private_key` | `pc` is the place in the load; `Configure`, `Open`, `Metadata`, `Read`, the prompt (`Answer`, `NoAnswer`); `Supply` and `WriterComes` are whoever is at the other end of a FIFO; `Move`, `Rewrite`, `ChangeMode` are the owner of the file |
| `Checks` | `check policy`, beside `check module`, `check bundle` and `build`, with exit statuses | adds the run of `check policy` to the variables of `Compile`: `Call`, `ReadArgument`, `Judge` |
| `MCManifest`, `MCCompile`, `MCArchive`, `MCPublish`, `MCReferences`, `MCLabels`, `MCEngine`, `MCKeyLoading`, `MCChecks` | instances for TLC | |
| `ManifestProofs`, `CompileProofs`, `ReferencesProofs`, `LabelsProofs`, `ArchiveProofs`, `EngineProofs`, `KeyLoadingProofs`, `PublishProofs` | theorems | |

Composition. `ArchiveManifest` extends `Namespaces`; `Manifest` and
`Validation` extend `ArchiveManifest`, so that the loader, the compiler and the
reader are judged by the same translation of the reader; `Compile`, `Engine` and
`References` extend `Validation`, so that the engine is prepared from exactly the
bundles that the reader's checks accept. `Checks` extends `Compile`: the two
ways of checking share their files, and somebody saves one in between.
`Archive` takes the reader's judgement of content as the constant
`Deployable`, which stands for `ContentValid` of `Validation`; that `build` only
meets content for which it holds is the property `BuildValidates` of `Compile`.
`Publish` takes the outcome of compiling and validating as a free choice and
instantiates `WriteOnce` by a refinement mapping.

Definitions marked "Fault" are not part of a specification: each is a
plausible bug in the definition that follows it, used to see that a property
notices it.

## 3. What is checked

| run | instance | distinct states, or outcome |
|---|---|---|
| `manifest_load` | `Manifest.cfg`: 11 module contents plus unreadable and undecodable files at two paths, 8 root manifests plus unreadable and undecodable; three modules with names inside, beside, equal to one another, imports across; two edits | 2.2 million states |
| `manifest_digits` | `ManifestDigits.cfg`: roots `A`, `A0`, `A::B` | **violated**, see below |
| `compile_builder` | `Compile.cfg`: five bundles, one of them with roots `A`, `A0` and `A::B`, every document of each kind that fails a check, one save, two calls on the builder | 0.9 million states |
| `archive_circulation` | `Archive.cfg`: two keys, two contents, two signatures, two alterations, any trust store | 1.0 million states |
| `publish_jobs` | `Publish.cfg`: two builds to one path, a sign from it, a check of what sign wrote, two writes to a file, two acts of the user | 0.3 million states |
| `policy_references` | `References.cfg`: every condition of three expressions, every scope, three namespaces | 92 thousand states |
| `label_rules` | `Labels.cfg`: 19 documents, two of them combined, four schemas with required and optional attributes, forged labels, two changes of the resource | 0.4 million states |
| `engine_reload` | `Engine.cfg`: eight bundles in both layouts, one with an action in a group of another root and one that validation refuses, three reloads, five requests, two clients | 0.4 million states (symmetric clients) |
| `key_loading` | `KeyLoading.cfg`: two inodes, eight documents, ten password files, one of them a pipe, two steps of the owner | 0.5 million states |
| `source_checks` | `Checks.cfg`: `check policy` with and without schema and labels, beside one run of the compiler; one save | 0.9 million states |
| `checks_bytes` | `ChecksBytes.cfg`: a policy file that is not UTF-8 | **violated**, see below |
| `checks_skipped` | `ChecksSkipped.cfg`: labels beside a schema that does not parse or load | **violated**, see below |

**manifest_load.** (With three modules a third name can stand between two
others; without digits the scan stays exact.) `VerdictExact`: although diagnostics
accumulate over failed, skipped and loaded modules and the set checks run over
the survivors only, a bundle is loaded if and only if every selection is sound
and every pair of modules is compatible, all judged by the content that was read.
`NothingDropped`: the result is one module per selection in name order.
`LoadedSetAccepted`: the reader's second implementation of the set checks
agrees. `FailureIsTheFile`: the class of a failure, on which the exit status
rests, has its cause in the file read last, and only there.

**compile_builder.** `BuildValidates`: the compiler checks documents against
their modules one at a time, the reader checks the concatenation against the
recorded assignment; what one emits the other accepts. `WarningsAnnounced`: and
without a warning the build had not reported. `ShipsWhatItRead`: every named
input is in the archive once, in order, as it was when read, and merging schema
fragments has replaced nothing. `JudgedAsAWhole`: each document is judged against
what the accepted ones before it have left behind, and the aggregate is checked
even after errors; a finished run has an error if and only if the documents,
taken together and in no order, are unsound (`DocumentsSound`,
`CombinationSound`), so nothing sound is refused for an error. `OneOwner`: a shipped policy is recorded under
its module alone, and an ordinary one acts only on types of this module: a type
that another module owns too belongs to a pair of roots that the loader's scan
could not compare, because a third sorts between them (`A`, `A0`, `A::B`). The
instance has such a bundle, and in it a policy of `A` that acts on `A::B`.
`CheckPredictsBuild`: with no save between, the second call on a builder repeats
the first one's diagnostics and verdict. `UnreadableIsIo`, `RunEnds`.

**archive_circulation.** `Authentic`: what is accepted as signed was signed as
a whole (manifest and artifacts together) by a key trusted at that moment, and
`required` yields no unsigned bundle. `SignedIsSound`: a key is only ever put
under content that passes every check. `BundleIdIdentifies`: the bundle id of
two accepted archives, re-signed or not, is the same only if the bundles are.
`OutputAccepted`: what `build` and `resign` write is accepted by a consumer who
trusts the key, also for a manifest in another JSON layout, unless its signature
entry takes the archive over the size limits. `build` and `resign` themselves
check no limit on what they write.

**publish_jobs.** `SuccessIsWhole`: exit status 0 means that the whole archive
is at `--output` and stays there until the user removes it. `AcceptedIsWhole`:
an archive that is still being written is never signed or passed.
`ContentFailureLeavesNothing`: exit status 1 leaves no file, so the command can
be repeated. `NothingUnvalidated`, `JobsEnd`. `KeepsPromise`: the jobs refine
`WriteOnce`. A partial file does remain after a failed write (status 2) or a
kill, and blocks a repetition until it is removed; the models contain this and
no property says otherwise.

**policy_references.** `Confined`: a policy passes if and only if it acts on
its own namespace and mentions nothing beyond that and its imports, at any depth
and in any position: the `in` of an `is`, all three parts of an `if`, every
element. The property compares the walk with the least set that holds the
clauses and is closed under subexpressions.

**label_rules.** `WorkBounded`: at no moment have more patterns, or more bytes
of them, been compiled than one document may have, and no rule's programs exceed
what one `RegexSet` may. `ReaderAccepts`: the reader parses what the compiler
combined, and gets the same rules; only the schema can still refuse it.
`LabelsTrue`: the labels on a labelled resource are those its other attributes
justify, whatever was submitted under their names, for rules that read what
other rules own, and after a second labelling. `OthersUntouched`.
`LabelledConforms`: if the application's own attributes conform to the schema, a
resource labelled by rules that passed `validate_schema` conforms to it, where the
schema is read by Cedar's rules for common types and required attributes, and not
by the code's walk. One violation is left out because the code lets it happen:
`validate_schema` (`src/labels.rs:373`) does not ask which attributes are required,
so that a required label is absent after labelling when its field is optional and
missing, or is itself a label. Without the exception TLC finds such a resource.

**engine_reload.** `PartitionAgrees`: with stores, a decision is the one that
all policies of its version would give together, with the labels of the bundle.
Excepted are actions that the schema puts into a group of another root: validation
looks at the namespaces a schema declares (`src/validation.rs:710`) and not at
`memberOf`, so such a bundle is accepted; a policy on the group then applies to the
action in a monolithic engine, and is in a store that the request is not routed to.
The instance has a forbid lost in this way. What treetop-core does with such a
schema is open in the model: it prepares the stores or refuses them.
`RefusedOnlyWhenDependent`: a validated bundle is refused division into stores
only for overlapping roots, a policy that names a type of another ordinary
module, or such a group. `SchemaKept`: no path through preparation, reload or
session loses the schema.

**key_loading.** `FirstSource`: the first password source that is there decides;
an empty, unreadable or wrong one gives way to no other, and one line ending is
taken off a password file. `KeyWasPrivate`: the file read was private at some
moment while it was open. `NoDowngrade`: who has typed a password gets a key
protected by it, or none. `LoadExact`: of files nobody touches, a load finds a
key exactly if there is one. `LoadSettles`: a load ends, or waits in one of three
places: at the prompt, for the writer of a FIFO given as the key file (`File::open`
comes before the check for a regular file, and goes on waiting for that FIFO when
the path is moved away), or for a password file that is a FIFO or a terminal
(`cli/src/main.rs:368` checks for nothing). There is no second prompt. `TypeOK`.

**source_checks.** `RefusalReported`: what builder or compiler refused exits
with 1, although the status is computed afresh from the diagnostics.
`ModuleCoversPolicy`: what `check module` passes, `check policy` passes, on the
same files and as strictly.

**Findings.** `checks_bytes`: `check policy` reads its files by
`fs::read_to_string` (`cli/src/main.rs:338`), so that a file that is not UTF-8 is
an error of the filesystem with status 2, where `README.md:106` gives status 1 to
invalid content, and where `check module` reports `input.invalid_utf8` with
status 1. `checks_skipped`: with labels and a schema that is given but does not
parse or load, `check policy` adds the warning of `src/validation.rs:118` that no
schema was provided. And `manifest_digits`: with module roots `A`, `A0` and `A::B` the
bundle is loaded although `A` owns all of `A::B`. The sorted order is `A`,
`A0`, `A::B`, because the byte of `0` is smaller than that of `:`; the scan of
neighbours (`src/manifest.rs:400`, and again `src/archive.rs:739`) compares
`A` with `A0` and `A0` with `A::B`, and neither pair overlaps.
`CHANGELOG.md:128` presents the scan as a replacement of the comparison of all
pairs, and `tests/bundle.rs:695` asks for disjoint namespaces. The theorem
`AdjacentScanComplete` says where the scan is right: when no root contains a
digit (letters and `_` sort after `:`).

### Bounds and why they are enough

- Manifests: two or three selections are what the set checks need: pairs, and a
  third name between two others. Each failing content fails one check, beside
  contents that fail none. Two edits can fall between any two reads; a third one
  would touch a file already read or not yet read, which two do as well.
- Compilation: two modules, and two inputs of a kind, give every pairing that a
  duplicate id, a merge or a combination needs; `MaxRuns` = 2 gives a call and
  the call after it; the initial disk has at most one unsound document and
  `MaxEdits` = 1 adds another.
- Archives: two keys distinguish the signer from another; two contents, with and
  without a schema, allow artifacts of one archive under the manifest of
  the other; two alterations allow a change and its complement. One slot
  suffices for everything but copies; the proofs cover any number.
- Policies: three expressions give every kind below every other, and a part that
  two expressions share; the walk is proved for any number.
- Labels: two documents, each within limits that both together exceed; a rule
  that reads another's output, in both orders; two changes after a first
  labelling. Keys: two inodes distinguish the opened file from the one now at
  the path; two edits can swap a file and swap it back. Engine: a reload between
  any two calls of two clients; a third client adds nothing to a pair. Checks:
  one run of each command and one save anywhere in them.
- Jobs: two writers for one path, a reader of that path and a reader of the
  reader's output; an archive is whole after two writes, so that one write is
  a half. Every `Max...` constant is a bound of the model and not of the code.

### Fairness

`Compile` assumes weak fairness of the one running call: a call on a single
thread goes on. `KeyLoading` assumes the same of the load and nothing of the user
at the prompt or at the other end of a FIFO or a terminal (`Supply`, `WriterComes`).
`Publish` assumes it of each job by itself, because
jobs are processes that the operating system schedules; it holds that no job
waits for another. Nothing obliges a crash, an edit or a user to happen.
The other modules assume no fairness. Calls to the file system are taken to
return, but for the opening of a FIFO and the reading of a password file that is
one. `Publish` leaves out inputs that are a FIFO, and the prompt of `sign`: its jobs
end under the assumption that nobody has to be waited for.

## 4. What is proved

`tlapm` checks every leaf of the following, for any constants that satisfy the
named assumptions.

- `ManifestProofs`. `AdjacentScanComplete`: for any sorted sequence of
  digit-free names that do not end in `:`, the scan of neighbours finds an
  overlap if and only if some pair overlaps. The argument: if `left` owns
  `right`, every name sorted between them has `left` as a prefix, and its next
  byte lies between the end of string and `:`; without digits it is `:`,
  so `left` owns (or equals) its own successor. The sort itself is a permutation
  of which only the order of the result is known (`Sorting`); that there is one
  is proved by insertion (`SortingExists`), so the theorems hold for whatever
  `sort_unstable` does to equal names. `IInv` says of the load at every step
  that what is on disk is among the contents of the instance (`DiskInv`), and
  that the modules and diagnostics are exactly those of the contents read so far
  (`Progress`), with their sorted form and the set checks after the end:
  `LoadInvariant`. From it follow, for any manifests, any number of modules and
  any edits between the reads, `NothingDroppedHolds`, `FailureIsTheFileHolds` and
  `LoadedSetAcceptedHolds` (the two implementations of the set checks agree, with
  digits too), and under the hypothesis `LettersOnly`, that no Cedar name has a
  digit, `VerdictExactHolds` and `NamespacesDisjointHolds`. The run
  `manifest_digits` shows that the hypothesis is needed. Assumed: manifests decode
  to lists and strings (`ManifestsAssumption`), and a Cedar name ends in a segment
  and is not blank (`CedarNamesAssumption`).
- `ArchiveProofs`. The inductive invariant `Inv` says that every archive on
  a shelf carries signatures only of what is in `log` (`Shelved`), that each
  log entry is a manifest with its artifacts (`Logged`, `SignedIsSound`), and
  that the validated bundle's id is the id of its head and artifacts
  (`Identified`). The state alone does not suffice for `Authentic`: that the
  bytes under a verifying signature were signed is what `Shelved` adds. From it
  follow `SignedIsSoundHolds`, `AuthenticHolds` and `BundleIdIdentifiesHolds`
  for any number of slots, keys, contents and alterations. `OutputAcceptedHolds`
  adds that every archive marked as the work of `build` or `resign` is an
  encoding of what was made (`MadeIsEmitted`), and that decoding undoes encoding,
  with and without a schema and a signature. Assumed: digests and
  bundle ids do not collide (`DigestInjective`, `BundleIdInjective`), and a
  signature that verifies was made by its key (built into `KnownSignatures`).
- `PublishProofs`. `Inv` adds to `TypeOK` that a path holding a writer's file
  holds it at that writer's output, and only if the writer has made it
  (`Ownership`), what each place in a job implies for its exit status and its
  file (`Lifecycle`), that what a reader has read is a beginning of what is
  there now (`Prefixes`), and that accepted sources were whole (`Acceptance`).
  From it follow `TypeCorrect`, `SuccessIsWholeHolds`, `AcceptedIsWholeHolds`,
  `ContentFailureLeavesNothingHolds` and `NothingUnvalidatedHolds`, and step by
  step `PromiseKept`: `Spec` implies `WriteOnce`'s specification under the
  mapping, for any jobs, any paths and any wiring of outputs and inputs.

- `ReferencesProofs`. `ConfinedHolds`, for policies of any shape whose nodes have
  the number of parts of their kind (`NodeAssumption`). `Inv` says that pending
  and visited expressions belong to the policy, hold its clauses, and hold the
  parts of whatever was visited (`Frontier`). With nothing pending the visited
  ones are closed, and what a policy contains is the least closed set.
- `LabelsProofs`. `IInv` says that whatever the compiler has put together is
  clean, rule by rule and in its destinations, so that a second parse finds
  nothing: `ReaderAcceptsHolds`. That an attribute is cleared before, and set
  only by its own rule, gives `LabelsTrueHolds`; `OthersUntouchedHolds`. `Budget`
  says that the patterns and bytes compiled so far are at most the partial sum
  of what was measured when the document was opened; partial sums grow, which
  gives `WorkBoundedHolds`. `LabelledConformsHolds` compares the code's walk, cut
  off at a common type visited before, with the chains of references that Cedar
  may follow: a step of the walk that does not end it takes the one reference
  there is (`FollowsReference`), so that the record a rule was checked against is
  the only one (`AttributesAreTheRecords`). For any documents, limits and resources of
  `DocumentsAssumption`, `LimitsAssumption` and `ResourcesAssumption`.
- `CompileProofs`. A run is described by functions of the bundle and the files
  (`After`, `Found`, `Verdict`), which each action is shown to be. `Inv` says that
  a run during which nobody saved is on the one course that these functions
  allow (`ThisRun`), and that the run before ended as it would end now
  (`LastRun`): `CheckPredictsBuildHolds`. A file that could not be read is the
  last one opened (`Told`): `UnreadableIsIoHolds`. `OwnerInv` adds that, while
  nothing is wrong, the ids of the modules are disjoint and every policy read is
  under the module that listed it (`Recorded`). `OwnersOverlap` (roots that own a
  common name overlap) and the check of neighbours in the bundle then give
  `OneOwnerHolds`: no other owner of a type is a neighbour of its module. `ShipInv` adds what the
  accumulators have to do with the documents while nothing is wrong (`Clean`):
  text and label rules are the documents read so far, one after the other
  (`InOrder`); each policy in them passed the checks of its module, its id is
  its own and recorded (`PoliciesClean`); the schema is the fragments' and declares
  only what some module owns (`SchemaClean`); every rule fits one module
  (`LabelsClean`). `Gathered` says the same of the aggregate and of the ids at all
  times. The state that a reader judges has none of this: it has text, schema,
  labels and assignment, and each of its checks is derived from the one that the
  compiler made of a document, or of the aggregate, under another name
  (`BuildValidatesHolds`, `WarningsAnnouncedHolds`, `ShipsWhatItReadHolds`). `WholeInv` adds that the errors
  so far are exactly those of the documents read (`JudgedSoFar`), and that the
  schema is what the fragments make together while nothing is wrong
  (`MergedWhileClean`). A document adds errors if and only if it is unsound beside
  those before it (`NewErrors`, which needs `Clean`: only then do the accumulators
  stand for the documents), and that is the step by which soundness as a whole
  grows (`DocumentsSoundGrow`). With an error in hand the accumulators are no
  longer exact, and need not be, since neither side of the equivalence can change
  back. At the end the aggregate checks fail if and only if the combination does
  (`AggregateErrors`): `JudgedAsAWholeHolds`. For any
  bundles that the reader's checks of the modules accept, which
  `LoadedSetAcceptedHolds` shows of every loaded one, with digits or without
  (`BundlesAssumption`; that the namespaces are disjoint is not assumed, and follows
  only under `LettersOnly`, by `NamespacesDisjointHolds`), files that hold
  what their kind may hold or one of the three failures (`DocumentsAssumption`,
  `MarkersAssumption`), judgements of Cedar, and numbers of runs and saves.
  Of `Checks`, `RefusedForAReason` (a refusal has an error, or a warning that is
  denied, among its diagnostics) gives `RefusalReportedHolds`. For
  `ModuleCoversPolicyHolds` two invariants meet: `PassInv` says what an approved
  run of `check module` knows of the files, with the schema exactly that of a
  single fragment (`Exact`; merging it twice changes nothing, `MergesOnce`), and
  `CourseInv` that `check policy` holds the files it has passed (`Past`, `Held`).
  Where both are about the same files, at the same content, `PolicyAgrees` compares
  the two lists of diagnostics: the one of `check policy` is among the other but
  for a warning about skipped labels, in whose place the module has one of its
  own. Assumed: what stands for an absent option is no file and no
  content (`NotGivenAssumption`).
- `EngineProofs`. `Inv` says that every generation loads under the layout and
  has the schema and labels of the bundle. A policy that applies to a request names
  its action or a group of it (`MatchesAssumption`); where no group lies under a
  root that does not own the action, the policy is in the store that the request
  is routed to, so that this store decides as all do: `PartitionAgreesHolds`. What
  validation established of each policy is what a store asks for, but for
  references: `RefusedOnlyWhenDependentHolds` (`RolesAssumption`). Further
  `SchemaKeptHolds` and, proved and not run, `TypeCorrect` and `NeverOlderHolds` (a
  decision is not older than a version read before it).
- `KeyLoadingProofs`. `TypeCorrect`, `KeyWasPrivateHolds`, `NoDowngradeHolds`,
  `FirstSourceHolds` and `LoadExactHolds`, for passwords of any bytes and length,
  any inodes and any number of edits. Assumed: limits and sizes are naturals
  (`LimitsAssumption`, `SizesAssumption`), passwords are sequences of them
  (`BytesAssumption`), the values for "none" are no secrets and no files
  (`SecretsAssumption`, `DisksAssumption`, `TrimAssumption`).

Sums, flattened lists and courses of runs need an induction over data, and the
library's induction theorems take an operator, which the installed back ends
cannot instantiate. `LeastNatural` stands in: a set of naturals, here that of the
places where a claim fails, has a least element.

Every safety invariant and action property of the passing runs is stated by a
theorem, two of `Manifest` under the hypothesis `LettersOnly`, and so is the
refinement by `Publish`. Only model-checked: liveness (`RunEnds`, `JobsEnd`,
`LoadSettles`), which is beyond this prover as is `ENABLED`, and the claims that
three runs refute.

## 5. What is abstracted, and what is not modelled

- Cedar is a set of constants: whether a policy is valid under a schema, whether
  a schema loads, which strings are names, whether a policy applies to a request.
  `Compile` and `Engine` know a policy by the sets of types that its action
  constraint and its expressions mention; `References` computes these sets from
  the nodes of an expression. Expression kinds for which the code has no case
  are taken to have no subexpressions, which is a fact about Cedar's types.
  Agreement of a label rule with a schema is a constant in `Compile` and computed
  in `Labels`.
- treetop-core is external. Of the assignment of policies to stores, the routing
  of requests, and the clearing and deriving of labels, the models say what doc
  comments and tests of this repository rely on, and leave open what they leave
  open. Bundles without an ordinary module prepared with stores are left out of
  `Engine`.
- A regular expression is its length, the size of its compiled program and the
  texts it matches. Sums that saturate in the code are sums of naturals: the
  limits lie far below the width.
- The password file does not change during a load (one that is a FIFO or a terminal is
  supplied once, `Supply`); a read of a file's content is
  one step, after its metadata. Decoding of PEM and PKCS#8 is a label, a key and
  the password that opens it.
- Codecs: TOML and JSON decoding succeed with a record or fail; an archive is a
  sequence of entries with a flag for bytes after the end and one per entry for
  an ordinary file. The size of an encoding is a constant function. Digests and
  ids are injective functions, signatures cannot be made without the key.
- Diagnostics are their codes; positions, wording and rendering are left out.
- `Manifest` reads, decodes and canonicalises one file in one step. The path of
  an input is one of: plain and inside, plain and leading out, missing, or
  refused by its form.
- `Publish` reads an archive in one step: the file only grows, so that a read
  in pieces returns a beginning of it too. A path that `exists()` cannot examine
  for lack of permission is left out (`create_new` then fails with status 2).
- Not modelled: decoding of a public key file, which keeps no state and has one
  outcome; queries of an engine that only delegate (`list_policies_for_user`,
  `policy_store_ids`); output formats; fuzz targets, benchmarks, release and CI
  files.

## 6. Plan

Done: the life of a bundle from manifest to published archive, and its parts:
ownership of policies, labels, engines, signing keys and the commands that check
sources (sections 2 to 4). Left, in this order:

1. `Bundle`: `Compile`, `Archive`, `Publish` and `Engine` composed, with an
   abstract specification of approval: what an engine runs was once compiled from
   sources and, under `required`, signed by a trusted key. The links are there
   one by one (`BuildValidates`, `SignedIsSound`, `AcceptedIsWhole`, `Authentic`,
   `PartitionAgrees`), and proved; the composition would state them as one.
2. The abstract specification of a builder (a function of the files, evaluated at
   each call) as a refinement: `ThisRun` of `CompileProofs` is most of its proof, and
   `JudgedAsAWhole` is its verdict on errors.

## 7. Running

```text
tlc -workers 2 -config Manifest.cfg MCManifest
tlc -workers 2 -config ManifestDigits.cfg MCManifest   # finds the violation
tlc -workers 2 -config Compile.cfg MCCompile
tlc -workers 2 -config Archive.cfg MCArchive
tlc -workers 2 -config Publish.cfg MCPublish
tlc -workers 2 -config References.cfg MCReferences
tlc -workers 2 -config Labels.cfg MCLabels
tlc -workers 2 -config Engine.cfg MCEngine
tlc -workers 2 -config KeyLoading.cfg MCKeyLoading
tlc -workers 2 -config Checks.cfg MCChecks
tlc -workers 2 -config ChecksBytes.cfg MCChecks        # finds the violation
tlc -workers 2 -config ChecksSkipped.cfg MCChecks      # finds the violation
tlapm ManifestProofs.tla
tlapm ArchiveProofs.tla
tlapm PublishProofs.tla
tlapm ReferencesProofs.tla
tlapm LabelsProofs.tla
tlapm CompileProofs.tla
tlapm EngineProofs.tla
tlapm KeyLoadingProofs.tla
```
