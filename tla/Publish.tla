------------------------------- MODULE Publish -------------------------------
(***************************************************************************)
(* The command line (cli/src/main.rs) as jobs over one file system: `build`*)
(* and `sign` make an archive file, `sign` and `check archive` read one.   *)
(* Jobs run in processes of their own and share nothing but the paths; the *)
(* user moves files in between.  What a build finds in its inputs is       *)
(* Compile.tla's subject and what an archive holds is Archive.tla's: here  *)
(* they decide, either way, how the job goes on.                           *)
(***************************************************************************)
EXTENDS Integers, FiniteSets

CONSTANTS
    Paths,
    Builders, Signers, Checkers,   \* the jobs, by subcommand
    Output,                        \* --output of a builder or signer
    Input,                         \* the archive a signer or checker is given
    Size,                          \* bound: write calls that make an archive whole
    Nobody,                        \* no file at a path
    Foreign,                       \* a file no job made
    Dangling,                      \* a symbolic link to nothing
    NoSource,
    MaxEdits                       \* bound: steps of the user

Writers == Builders \cup Signers
Readers == Signers \cup Checkers
Jobs == Writers \cup Checkers

ASSUME JobsAssumption ==
    /\ Builders \cap Signers = {} /\ Writers \cap Checkers = {}
    /\ {Nobody, Foreign, Dangling} \cap Jobs = {}
    /\ Nobody # Foreign /\ Nobody # Dangling /\ Foreign # Dangling
ASSUME WiringAssumption == Output \in [Writers -> Paths] /\ Input \in [Readers -> Paths]
(* What BundleArchive::read has taken from a file.                         *)
Reading == [author : Writers \cup {Foreign}, size : 0..Size]
ASSUME SourceAssumption == NoSource \notin Reading
ASSUME BoundsAssumption == Size \in Nat \ {0} /\ MaxEdits \in Nat

VARIABLES
    path,       \* what is at each path: the writer that made the file there, or what is not a job's
    written,    \* how much of its file each writer has written
    pc,
    exit,       \* exit status of an ended job
    source,     \* what a reader has read: whose file, and how much of it was there
    created,    \* history: writers that have made their output file
    accepted,   \* history: readers whose archive passed validation
    removed,    \* history: writers whose file the user has taken away
    edits

vars == <<path, written, pc, exit, source, created, accepted, removed, edits>>
files == <<path, written, created>>
user == <<removed, edits>>

Statuses == {0, 1, 2}
Running == 3
Killed == 4

Init ==
    /\ path = [p \in Paths |-> Nobody]
    /\ written = [j \in Writers |-> 0]
    /\ pc = [j \in Jobs |-> IF j \in Writers THEN "start" ELSE "checked"]
    /\ exit = [j \in Jobs |-> Running]
    /\ source = [j \in Readers |-> NoSource]
    /\ created = {} /\ accepted = {} /\ removed = {}
    /\ edits = 0

At(j, label) == pc[j] = label
Goto(j, label) == pc' = [pc EXCEPT ![j] = label] /\ UNCHANGED exit
End(j, status) ==
    /\ pc' = [pc EXCEPT ![j] = "ended"]
    /\ exit' = [exit EXCEPT ![j] = status]

(* Fault: the output is reserved by creating it ahead of the work.         *)
ReserveOutput(j) ==
    /\ At(j, "start")
    /\ IF path[Output[j]] = Nobody
       THEN /\ path' = [path EXCEPT ![Output[j]] = j]
            /\ created' = created \cup {j}
            /\ Goto(j, "checked")
       ELSE End(j, 2) /\ UNCHANGED <<path, created>>
    /\ UNCHANGED <<written, source, accepted, user>>

(* refuse_overwrite: path.exists() follows links.                          *)
RefuseOverwrite(j) ==
    /\ At(j, "start")
    /\ IF path[Output[j]] \in {Nobody, Dangling} THEN Goto(j, "checked") ELSE End(j, 2)
    /\ UNCHANGED <<files, source, accepted, user>>

(* load_signing_key, load_trust_store.                                     *)
LoadKey(j) ==
    /\ At(j, "checked")
    /\ Goto(j, "keyed") \/ End(j, 2)
    /\ UNCHANGED <<files, source, accepted, user>>

(* from_manifest and build; a failure of the content goes through          *)
(* render_content_error.                                                   *)
Compile(j) ==
    /\ j \in Builders
    /\ At(j, "keyed")
    /\ Goto(j, "ready") \/ End(j, 1) \/ End(j, 2)
    /\ UNCHANGED <<files, source, accepted, user>>

(* BundleArchive::read: open, then read to the end of what is there now; a *)
(* file over the size limit is a content failure, the rest are not.        *)
ReadSource(j) ==
    LET author == path[Input[j]] IN
    /\ j \in Readers
    /\ At(j, "keyed")
    /\ \/ /\ author \notin {Nobody, Dangling}
          /\ source' = [source EXCEPT ![j] =
                [author |-> author, size |-> IF author \in Writers THEN written[author] ELSE Size]]
          /\ Goto(j, "read")
       \/ author \notin {Nobody, Dangling} /\ End(j, 1) /\ UNCHANGED source
       \/ End(j, 2) /\ UNCHANGED source
    /\ UNCHANGED <<files, accepted, user>>

(* Fault: a beginning of an archive passes.                                *)
ValidatePrefix(j) ==
    /\ j \in Readers
    /\ At(j, "read")
    /\ \/ /\ accepted' = accepted \cup {j}
          /\ IF j \in Signers THEN Goto(j, "ready") ELSE End(j, 0) \/ End(j, 1)
       \/ End(j, 1) /\ UNCHANGED accepted
    /\ UNCHANGED <<files, source, user>>

(* Fault: sign takes the archive as it comes.                              *)
SignUnvalidated(j) ==
    /\ j \in Signers
    /\ At(j, "read")
    /\ Goto(j, "ready")
    /\ UNCHANGED <<files, source, accepted, user>>

(* resign, validate.  decode_archive takes nothing short of a whole gzip   *)
(* stream; whether a whole archive is valid is up to its content.          *)
ValidateSource(j) ==
    /\ j \in Readers
    /\ At(j, "read")
    /\ \/ /\ source[j].size = Size
          /\ accepted' = accepted \cup {j}
          /\ IF j \in Signers THEN Goto(j, "ready") ELSE End(j, 0) \/ End(j, 1)
       \/ End(j, 1) /\ UNCHANGED accepted
    /\ UNCHANGED <<files, source, user>>

(* Fault: the check of refuse_overwrite is relied on, as with File::create.*)
CreateOrReplace(j) ==
    /\ j \in Writers
    /\ At(j, "ready")
    /\ path' = [path EXCEPT ![Output[j]] = j]
    /\ created' = created \cup {j}
    /\ Goto(j, "writing")
    /\ UNCHANGED <<written, source, accepted, user>>

(* Fault: waiting for the path to come free.                               *)
CreateWhenFree(j) == j \in Writers /\ path[Output[j]] = Nobody /\ CreateOrReplace(j)

(* write_new_file: create_new fails on anything that is at the path, a     *)
(* dangling link included, and may fail for other reasons.                 *)
CreateNew(j) ==
    /\ j \in Writers
    /\ At(j, "ready")
    /\ \/ /\ path[Output[j]] = Nobody
          /\ path' = [path EXCEPT ![Output[j]] = j]
          /\ created' = created \cup {j}
          /\ Goto(j, "writing")
       \/ End(j, 2) /\ UNCHANGED <<path, created>>
    /\ UNCHANGED <<written, source, accepted, user>>

(* write_all, on the open file whatever has become of its path since.      *)
Write(j) ==
    /\ j \in Writers
    /\ At(j, "writing")
    /\ \/ /\ written[j] < Size
          /\ written' = [written EXCEPT ![j] = @ + 1]
          /\ UNCHANGED <<pc, exit>>
       \/ /\ written[j] < Size
          /\ End(j, 2) /\ UNCHANGED written
       \/ /\ written[j] = Size
          /\ End(j, 0) /\ UNCHANGED written
    /\ UNCHANGED <<path, created, source, accepted, user>>

(* The process is killed: what it has written stays.                       *)
Crash(j) ==
    /\ pc[j] # "ended"
    /\ End(j, Killed)
    /\ UNCHANGED <<files, source, accepted, user>>

(* The user: puts a file or a link where there is none, or removes one.    *)
Place(p, file) ==
    /\ edits < MaxEdits
    /\ path[p] = Nobody
    /\ path' = [path EXCEPT ![p] = file]
    /\ edits' = edits + 1
    /\ UNCHANGED <<written, created, removed, pc, exit, source, accepted>>

Remove(p) ==
    /\ edits < MaxEdits
    /\ path[p] # Nobody
    /\ path' = [path EXCEPT ![p] = Nobody]
    /\ removed' = removed \cup ({path[p]} \cap Writers)
    /\ edits' = edits + 1
    /\ UNCHANGED <<written, created, pc, exit, source, accepted>>

Step(j) ==
    \/ RefuseOverwrite(j) \/ LoadKey(j) \/ Compile(j) \/ ReadSource(j) \/ ValidateSource(j)
    \/ CreateNew(j) \/ Write(j)

Next ==
    \/ \E j \in Jobs : Step(j) \/ Crash(j)
    \/ \E p \in Paths : Place(p, Foreign) \/ Place(p, Dangling) \/ Remove(p)
    \/ (\A j \in Jobs : At(j, "ended")) /\ UNCHANGED vars

(* The operating system schedules every job; nothing makes the user act.   *)
Spec == Init /\ [][Next]_vars /\ \A j \in Jobs : WF_vars(Step(j))

(***************************************************************************)
(* Properties.                                                             *)
(***************************************************************************)
(* The variables have their types.                                         *)
TypeOK ==
    /\ path \in [Paths -> Writers \cup {Nobody, Foreign, Dangling}]
    /\ written \in [Writers -> 0..Size]
    /\ pc \in [Jobs -> {"start", "checked", "keyed", "read", "ready", "writing", "ended"}]
    /\ exit \in [Jobs -> Statuses \cup {Running, Killed}]
    /\ source \in [Readers -> {NoSource} \cup Reading]
    /\ created \subseteq Writers /\ accepted \subseteq Readers /\ removed \subseteq Writers
    /\ edits \in 0..MaxEdits

(* A build or sign that exits 0 has left its whole archive at --output,    *)
(* where it stays, whoever else was told to write there, until the user    *)
(* takes it away.                                                          *)
SuccessIsWhole ==
    \A j \in Writers : exit[j] = 0 =>
        written[j] = Size /\ (path[Output[j]] = j \/ j \in removed)

(* An archive read while its build was still writing it is never signed or *)
(* passed: what a reader accepted is whole by the time it is accepted,     *)
(* even though the reader took its bytes earlier.                          *)
AcceptedIsWhole ==
    \A j \in accepted : source[j].author \in Writers => written[source[j].author] = Size

(* Exit status 1 tells of content alone: no file has been made, so the     *)
(* same command may be run again once the content is put right.            *)
ContentFailureLeavesNothing ==
    \A j \in Writers : exit[j] = 1 => j \notin created /\ \A p \in Paths : path[p] # j

(* A signed archive comes from a source that passed validation, and a      *)
(* check that reports success has validated what it read.                  *)
NothingUnvalidated ==
    \A j \in Readers : j \in created \/ exit[j] = 0 => j \in accepted

(* Every job ends, whatever the others do and however files are moved.     *)
(* Inputs that are a FIFO and the prompt of sign are left out.             *)
JobsEnd == \A j \in Jobs : <>(At(j, "ended"))

(* The jobs keep WriteOnce's promise.                                      *)
W == INSTANCE WriteOnce WITH
        Others    <- Foreign,
        owner     <- [p \in Paths |-> IF path[p] = Dangling THEN Foreign ELSE path[p]],
        claimed   <- created,
        size      <- written,
        announced <- {j \in Writers : exit[j] = 0},
        relied    <- {source[j].author : j \in {r \in accepted : source[r].author \in Writers}}

KeepsPromise == W!Spec
=============================================================================
