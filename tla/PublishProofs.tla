---------------------------- MODULE PublishProofs ----------------------------
(***************************************************************************)
(* Proofs about Publish, for any set of jobs, any wiring of their paths    *)
(* and archives of any size.  The properties are not inductive: they speak *)
(* of ended jobs and accepted archives, and hold because of what the jobs  *)
(* know on the way there.  Inv says what that is.                          *)
(***************************************************************************)
EXTENDS Publish, TLAPS

(* A file made by a job is at that job's output, until the user takes it.  *)
Ownership ==
    /\ \A p \in Paths : path[p] \in Writers => path[p] \in created /\ p = Output[path[p]]
    /\ \A j \in created : path[Output[j]] = j \/ j \in removed

(* The output file is made by the step that enters "writing".              *)
Lifecycle ==
    /\ \A j \in Jobs : pc[j] # "ended" => exit[j] = Running
    /\ \A j \in Writers : pc[j] \in {"start", "checked", "keyed", "read", "ready"} => j \notin created
    /\ \A j \in Jobs : pc[j] = "writing" => j \in created
    /\ \A j \in Writers : exit[j] = 0 => j \in created /\ written[j] = Size
    /\ \A j \in Writers : exit[j] = 1 => j \notin created

(* What a reader holds is a beginning of a file that has only grown since. *)
Prefixes ==
    \A j \in Readers : source[j] \in Reading /\ source[j].author \in Writers =>
        source[j].author \in created /\ source[j].size <= written[source[j].author]

(* Acceptance follows reading, and goes before all that a reader makes.    *)
Acceptance ==
    /\ \A j \in Readers : pc[j] = "read" => source[j] \in Reading
    /\ \A j \in Readers : pc[j] \in {"start", "checked", "keyed", "read"} => j \notin accepted
    /\ \A j \in accepted : source[j] \in Reading /\ source[j].size = Size
    /\ \A j \in Signers : pc[j] \in {"ready", "writing"} \/ j \in created => j \in accepted
    /\ \A j \in Readers : exit[j] = 0 => j \in accepted

Inv == TypeOK /\ Ownership /\ Lifecycle /\ Prefixes /\ Acceptance

(***************************************************************************)
(* Inv holds in every state.                                               *)
(***************************************************************************)
LEMMA InvInit == Init => Inv
<1> SUFFICES ASSUME Init PROVE Inv
  OBVIOUS
<1> USE JobsAssumption, WiringAssumption, BoundsAssumption DEF Init
<1>1. TypeOK
  BY DEF TypeOK, Writers, Readers, Jobs, Statuses, Running
<1>2. Ownership
  BY DEF Ownership, Jobs, Writers
<1>3. Lifecycle
  BY DEF Lifecycle, Jobs, Running
<1>4. Prefixes /\ Acceptance
  BY <1>1, SourceAssumption DEF Prefixes, Acceptance, TypeOK, Running, Reading, Jobs, Readers, Writers
<1> QED
  BY <1>1, <1>2, <1>3, <1>4 DEF Inv

LEMMA RefuseOverwriteKeeps ==
  ASSUME Inv, NEW j \in Jobs, RefuseOverwrite(j)
  PROVE  Inv'
<1> USE JobsAssumption, WiringAssumption, BoundsAssumption DEF Inv, RefuseOverwrite, At, Goto, End, files, user
<1>1. TypeOK'
  BY DEF TypeOK, Statuses, Running, Killed, Readers, Writers, Jobs
<1>2. Ownership'
  BY DEF Ownership, TypeOK
<1>3. Lifecycle'
  BY DEF Lifecycle, TypeOK, Running, Killed, Jobs, Writers
<1>4. Prefixes'
  BY DEF Prefixes, TypeOK, Reading
<1>5. Acceptance'
  BY DEF Acceptance, TypeOK, Reading, Running, Killed, Jobs, Readers, Writers, Lifecycle
<1> QED
  BY <1>1, <1>2, <1>3, <1>4, <1>5

LEMMA LoadKeyKeeps ==
  ASSUME Inv, NEW j \in Jobs, LoadKey(j)
  PROVE  Inv'
<1> USE JobsAssumption, WiringAssumption, BoundsAssumption DEF Inv, LoadKey, At, Goto, End, files, user
<1>1. TypeOK'
  BY DEF TypeOK, Statuses, Running, Killed, Readers, Writers, Jobs
<1>2. Ownership'
  BY DEF Ownership, TypeOK
<1>3. Lifecycle'
  BY DEF Lifecycle, TypeOK, Running, Killed, Jobs, Writers
<1>4. Prefixes'
  BY DEF Prefixes, TypeOK, Reading
<1>5. Acceptance'
  BY DEF Acceptance, TypeOK, Reading, Running, Killed, Jobs, Readers, Writers, Lifecycle
<1> QED
  BY <1>1, <1>2, <1>3, <1>4, <1>5

LEMMA CompileKeeps ==
  ASSUME Inv, NEW j \in Jobs, Compile(j)
  PROVE  Inv'
<1> USE JobsAssumption, WiringAssumption, BoundsAssumption DEF Inv, Compile, At, Goto, End, files, user
<1>1. TypeOK'
  BY DEF TypeOK, Statuses, Running, Killed, Readers, Writers, Jobs
<1>2. Ownership'
  BY DEF Ownership, TypeOK
<1>3. Lifecycle'
  BY DEF Lifecycle, TypeOK, Running, Killed, Jobs, Writers
<1>4. Prefixes'
  BY DEF Prefixes, TypeOK, Reading
<1>5. Acceptance'
  BY DEF Acceptance, TypeOK, Reading, Running, Killed, Jobs, Readers, Writers, Lifecycle
<1> QED
  BY <1>1, <1>2, <1>3, <1>4, <1>5

LEMMA ReadSourceKeeps ==
  ASSUME Inv, NEW j \in Jobs, ReadSource(j)
  PROVE  Inv'
<1> USE JobsAssumption, WiringAssumption, BoundsAssumption DEF Inv, ReadSource, At, Goto, End, files, user
<1>1. TypeOK'
  BY DEF TypeOK, Statuses, Running, Killed, Readers, Writers, Jobs, Reading
<1>2. Ownership'
  BY DEF Ownership, TypeOK
<1>3. Lifecycle'
  BY DEF Lifecycle, TypeOK, Running, Killed, Jobs, Writers
<1>4. Prefixes'
  <2>. SUFFICES ASSUME NEW r \in Readers, source'[r] \in Reading, source'[r].author \in Writers
                PROVE  /\ source'[r].author \in created
                       /\ source'[r].size <= written[source'[r].author]
    BY DEF Prefixes
  <2>1. CASE source'[r] = source[r]
    BY <2>1 DEF Prefixes
  <2>2. CASE source'[r] # source[r]
    <3>1. r = j /\ source'[j].author = path[Input[j]] /\ path[Input[j]] \in Writers
          /\ source'[j].size = written[path[Input[j]]]
      BY <2>2 DEF TypeOK
    <3>2. path[Input[j]] \in created /\ written[path[Input[j]]] \in 0..Size
      BY <3>1 DEF Ownership, TypeOK
    <3> QED
      BY <3>1, <3>2
  <2> QED
    BY <2>1, <2>2
<1>5. Acceptance'
  BY DEF Acceptance, TypeOK, Reading, Running, Killed, Jobs, Readers, Writers, Lifecycle
<1> QED
  BY <1>1, <1>2, <1>3, <1>4, <1>5

LEMMA ValidateSourceKeeps ==
  ASSUME Inv, NEW j \in Jobs, ValidateSource(j)
  PROVE  Inv'
<1> USE JobsAssumption, WiringAssumption, BoundsAssumption DEF Inv, ValidateSource, At, Goto, End, files, user
<1>1. TypeOK'
  BY DEF TypeOK, Statuses, Running, Killed, Readers, Writers, Jobs
<1>2. Ownership'
  BY DEF Ownership, TypeOK
<1>3. Lifecycle'
  BY DEF Lifecycle, TypeOK, Running, Killed, Jobs, Writers, Readers
<1>4. Prefixes'
  BY DEF Prefixes, TypeOK, Reading
<1>5. Acceptance'
  BY DEF Acceptance, TypeOK, Reading, Running, Killed, Jobs, Readers, Writers, Lifecycle
<1> QED
  BY <1>1, <1>2, <1>3, <1>4, <1>5

LEMMA CreateNewKeeps ==
  ASSUME Inv, NEW j \in Jobs, CreateNew(j)
  PROVE  Inv'
<1> USE JobsAssumption, WiringAssumption, BoundsAssumption DEF Inv, CreateNew, At, Goto, End, files, user
<1>1. TypeOK'
  BY DEF TypeOK, Statuses, Running, Killed, Readers, Writers, Jobs
<1>2. Ownership'
  BY DEF Ownership, TypeOK, Lifecycle, Jobs, Writers
<1>3. Lifecycle'
  BY DEF Lifecycle, TypeOK, Running, Killed, Jobs, Writers
<1>4. Prefixes'
  BY DEF Prefixes, TypeOK, Reading
<1>5. Acceptance'
  BY DEF Acceptance, TypeOK, Reading, Running, Killed, Jobs, Readers, Writers, Lifecycle
<1> QED
  BY <1>1, <1>2, <1>3, <1>4, <1>5

LEMMA WriteKeeps ==
  ASSUME Inv, NEW j \in Jobs, Write(j)
  PROVE  Inv'
<1> USE JobsAssumption, WiringAssumption, BoundsAssumption DEF Inv, Write, At, Goto, End, files, user
<1>1. TypeOK'
  BY DEF TypeOK, Statuses, Running, Killed, Readers, Writers, Jobs
<1>2. Ownership'
  BY DEF Ownership, TypeOK
<1>3. Lifecycle'
  BY DEF Lifecycle, TypeOK, Running, Killed, Jobs, Writers
<1>4. Prefixes'
  BY DEF Prefixes, TypeOK, Reading
<1>5. Acceptance'
  BY DEF Acceptance, TypeOK, Reading, Running, Killed, Jobs, Readers, Writers, Lifecycle
<1> QED
  BY <1>1, <1>2, <1>3, <1>4, <1>5

LEMMA CrashKeeps ==
  ASSUME Inv, NEW j \in Jobs, Crash(j)
  PROVE  Inv'
<1> USE JobsAssumption, WiringAssumption, BoundsAssumption DEF Inv, Crash, At, Goto, End, files, user
<1>1. TypeOK'
  BY DEF TypeOK, Statuses, Running, Killed, Readers, Writers, Jobs
<1>2. Ownership'
  BY DEF Ownership, TypeOK
<1>3. Lifecycle'
  BY DEF Lifecycle, TypeOK, Running, Killed, Jobs, Writers
<1>4. Prefixes'
  BY DEF Prefixes, TypeOK, Reading
<1>5. Acceptance'
  BY DEF Acceptance, TypeOK, Reading, Running, Killed, Jobs, Readers, Writers, Lifecycle
<1> QED
  BY <1>1, <1>2, <1>3, <1>4, <1>5

LEMMA PlaceKeeps ==
  ASSUME Inv, NEW p \in Paths, NEW file \in {Foreign, Dangling}, Place(p, file)
  PROVE  Inv'
<1> USE JobsAssumption, WiringAssumption, BoundsAssumption DEF Inv, Place
<1>1. TypeOK'
  BY DEF TypeOK
<1>2. Ownership'
  BY DEF Ownership, TypeOK, Jobs, Writers
<1>3. Lifecycle' /\ Prefixes' /\ Acceptance'
  BY DEF Lifecycle, Prefixes, Acceptance
<1> QED
  BY <1>1, <1>2, <1>3

LEMMA RemoveKeeps ==
  ASSUME Inv, NEW p \in Paths, Remove(p)
  PROVE  Inv'
<1> USE JobsAssumption, WiringAssumption, BoundsAssumption DEF Inv, Remove
<1>1. TypeOK'
  BY DEF TypeOK
<1>2. Ownership'
  BY DEF Ownership, TypeOK, Jobs, Writers
<1>3. Lifecycle' /\ Prefixes' /\ Acceptance'
  BY DEF Lifecycle, Prefixes, Acceptance
<1> QED
  BY <1>1, <1>2, <1>3

LEMMA InvStep == Inv /\ [Next]_vars => Inv'
<1> SUFFICES ASSUME Inv, [Next]_vars PROVE Inv'
  OBVIOUS
<1>1. ASSUME NEW j \in Jobs, Step(j) PROVE Inv'
  BY <1>1, RefuseOverwriteKeeps, LoadKeyKeeps, CompileKeeps, ReadSourceKeeps, ValidateSourceKeeps,
     CreateNewKeeps, WriteKeeps DEF Step
<1>2. ASSUME NEW j \in Jobs, Crash(j) PROVE Inv'
  BY <1>2, CrashKeeps
<1>3. ASSUME NEW p \in Paths, Place(p, Foreign) \/ Place(p, Dangling) \/ Remove(p) PROVE Inv'
  BY <1>3, PlaceKeeps, RemoveKeeps
<1>4. CASE UNCHANGED vars
  BY <1>4 DEF vars, Inv, TypeOK, Ownership, Lifecycle, Prefixes, Acceptance
<1> QED
  BY <1>1, <1>2, <1>3, <1>4 DEF Next

(* The inductive invariant holds in every reachable state of the jobs and  *)
(* the file system.                                                        *)
THEOREM Invariance == Spec => []Inv
  BY InvInit, InvStep, PTL DEF Spec

(* The variables keep their types.                                         *)
THEOREM TypeCorrect == Spec => []TypeOK
<1>1. Inv => TypeOK
  BY DEF Inv
<1> QED
  BY <1>1, Invariance, PTL

(* A job that exits 0 has left its whole archive at its output, and it     *)
(* stays there until the user takes it away.                               *)
THEOREM SuccessIsWholeHolds == Spec => []SuccessIsWhole
<1>1. Inv => SuccessIsWhole
  BY DEF Inv, Ownership, Lifecycle, SuccessIsWhole
<1> QED
  BY <1>1, Invariance, PTL

(* No reader signs or passes a file that its writer had not finished.      *)
THEOREM AcceptedIsWholeHolds == Spec => []AcceptedIsWhole
<1>1. Inv => AcceptedIsWhole
  <2> SUFFICES ASSUME Inv, NEW j \in accepted, source[j].author \in Writers
               PROVE  written[source[j].author] = Size
    BY DEF AcceptedIsWhole
  <2>1. source[j] \in Reading /\ source[j].size = Size /\ j \in Readers
    BY DEF Inv, Acceptance, TypeOK
  <2>2. source[j].size <= written[source[j].author]
    BY <2>1 DEF Inv, Prefixes
  <2>3. written[source[j].author] \in 0..Size
    BY DEF Inv, TypeOK
  <2> QED
    BY <2>1, <2>2, <2>3, BoundsAssumption
<1> QED
  BY <1>1, Invariance, PTL

(* A job that exits 1 has made no file.                                    *)
THEOREM ContentFailureLeavesNothingHolds == Spec => []ContentFailureLeavesNothing
<1>1. Inv => ContentFailureLeavesNothing
  BY DEF Inv, Ownership, Lifecycle, ContentFailureLeavesNothing
<1> QED
  BY <1>1, Invariance, PTL

(* Nothing is signed, and no check succeeds, without validation.           *)
THEOREM NothingUnvalidatedHolds == Spec => []NothingUnvalidated
<1>1. Inv => NothingUnvalidated
  BY JobsAssumption DEF Inv, TypeOK, Acceptance, NothingUnvalidated, Readers, Writers
<1> QED
  BY <1>1, Invariance, PTL

(***************************************************************************)
(* The jobs implement WriteOnce.                                           *)
(***************************************************************************)
Owner == [p \in Paths |-> IF path[p] = Dangling THEN Foreign ELSE path[p]]
Announced == {j \in Writers : exit[j] = 0}
Relied == {source[j].author : j \in {r \in accepted : source[r].author \in Writers}}

LEMMA PromiseInit == Init => W!Init
<1> SUFFICES ASSUME Init PROVE W!Init
  OBVIOUS
<1>1. Owner = [p \in Paths |-> Nobody]
  BY JobsAssumption DEF Init, Owner
<1>2. Announced = {}
  BY DEF Init, Announced, Running, Jobs
<1>3. Relied = {}
  BY DEF Init, Relied
<1> QED
  BY <1>1, <1>2, <1>3 DEF W!Init, Init, Owner, Announced, Relied

LEMMA OwnerUnchanged == path' = path => Owner' = Owner
  BY DEF Owner

LEMMA AnnouncedUnchanged ==
  ASSUME Inv, NEW j \in Jobs, NEW status, pc[j] # "ended", status # 0 \/ j \notin Writers,
         exit' = exit \/ exit' = [exit EXCEPT ![j] = status]
  PROVE  Announced' = Announced
<1>1. exit \in [Jobs -> Statuses \cup {Running, Killed}] /\ exit[j] = Running
  BY DEF Inv, TypeOK, Lifecycle
<1>2. \A w \in Writers : exit'[w] = 0 <=> exit[w] = 0
  BY <1>1 DEF Jobs, Running
<1> QED
  BY <1>2 DEF Announced

LEMMA ReliedUnchanged == source' = source /\ accepted' = accepted => Relied' = Relied
  BY DEF Relied

LEMMA Mapping ==
  /\ Owner' = Owner /\ Announced' = Announced /\ Relied' = Relied
  /\ created' = created /\ written' = written
  => UNCHANGED W!vars
  BY DEF W!vars, Owner, Announced, Relied

LEMMA QuietStep ==
  ASSUME Inv, NEW j \in Jobs, RefuseOverwrite(j) \/ LoadKey(j) \/ Compile(j) \/ Crash(j)
  PROVE  UNCHANGED W!vars
<1>1. Owner' = Owner /\ Relied' = Relied /\ created' = created /\ written' = written
  BY OwnerUnchanged, ReliedUnchanged
  DEF RefuseOverwrite, LoadKey, Compile, Crash, files, user
<1>2. PICK status \in {1, 2, Killed} : exit' = exit \/ exit' = [exit EXCEPT ![j] = status]
  BY DEF RefuseOverwrite, LoadKey, Compile, Crash, Goto, End
<1>3. pc[j] # "ended"
  BY DEF RefuseOverwrite, LoadKey, Compile, Crash, At
<1>4. Announced' = Announced
  BY <1>2, <1>3, AnnouncedUnchanged DEF Killed
<1> QED
  BY <1>1, <1>4, Mapping

LEMMA ReadStep ==
  ASSUME Inv, NEW j \in Jobs, ReadSource(j)
  PROVE  UNCHANGED W!vars
<1>1. Owner' = Owner /\ created' = created /\ written' = written
  BY OwnerUnchanged DEF ReadSource, files
<1>2. \A r \in accepted : source'[r] = source[r]
  BY DEF Inv, Acceptance, TypeOK, ReadSource, At
<1>3. accepted' = accepted
  BY DEF ReadSource
<1>4. Relied' = Relied
  BY <1>2, <1>3 DEF Relied
<1>5. PICK status \in {1, 2} : exit' = exit \/ exit' = [exit EXCEPT ![j] = status]
  BY DEF ReadSource, Goto, End
<1>6. pc[j] # "ended"
  BY DEF ReadSource, At
<1>7. Announced' = Announced
  BY <1>5, <1>6, AnnouncedUnchanged
<1> QED
  BY <1>1, <1>4, <1>7, Mapping

LEMMA ValidateStep ==
  ASSUME Inv, NEW j \in Jobs, ValidateSource(j)
  PROVE  W!Next \/ UNCHANGED W!vars
<1>1. /\ Owner' = Owner /\ created' = created /\ written' = written /\ source' = source
      /\ j \in Readers
  BY OwnerUnchanged DEF ValidateSource, files
<1>2. PICK status \in {0, 1} :
        /\ exit' = exit \/ exit' = [exit EXCEPT ![j] = status]
        /\ status # 0 \/ j \notin Writers
  BY JobsAssumption DEF ValidateSource, Goto, End, Readers, Writers
<1>3. Announced' = Announced
  <2>1. pc[j] # "ended"
    BY DEF ValidateSource, At
  <2> QED
    BY <1>2, <2>1, AnnouncedUnchanged
<1>4. CASE accepted' = accepted
  BY <1>1, <1>3, <1>4, ReliedUnchanged, Mapping
<1>5. CASE accepted' = accepted \cup {j} /\ source[j].size = Size
  <2>1. CASE source[j].author \notin Writers
    <3>1. Relied' = Relied
      BY <1>1, <1>5, <2>1 DEF Relied
    <3> QED
      BY <1>1, <1>3, <3>1, Mapping
  <2>2. CASE source[j].author \in Writers
    <3>0. PICK w \in Writers : w = source[j].author
      BY <2>2
    <3>1. Relied' = Relied \cup {w}
      BY <1>1, <1>5, <3>0 DEF Relied
    <3>2. source[j] \in Reading
      BY <1>1 DEF Inv, Acceptance, ValidateSource, At
    <3>3. w \in created /\ source[j].size <= written[w] /\ written[w] \in 0..Size
      BY <1>1, <3>0, <3>2 DEF Inv, Prefixes, TypeOK
    <3>4. written[w] = Size
      BY <1>5, <3>3, BoundsAssumption
    <3>5. W!Rely(w)
      BY <1>1, <1>3, <3>1, <3>3, <3>4 DEF W!Rely, Owner, Announced, Relied
    <3> QED
      BY <3>5 DEF W!Next
  <2> QED
    BY <2>1, <2>2
<1> QED
  BY <1>4, <1>5 DEF ValidateSource

LEMMA CreateStep ==
  ASSUME Inv, NEW j \in Jobs, CreateNew(j)
  PROVE  W!Next \/ UNCHANGED W!vars
<1>1. written' = written /\ Relied' = Relied /\ j \in Writers
  BY ReliedUnchanged DEF CreateNew
<1>2. exit' = exit \/ exit' = [exit EXCEPT ![j] = 2]
  BY DEF CreateNew, Goto, End
<1>3. Announced' = Announced
  BY <1>2, AnnouncedUnchanged DEF CreateNew, At
<1>4. CASE path' = path /\ created' = created
  BY <1>1, <1>3, <1>4, OwnerUnchanged, Mapping
<1>5. CASE /\ path[Output[j]] = Nobody /\ path' = [path EXCEPT ![Output[j]] = j]
           /\ created' = created \cup {j}
  <2>1. Output[j] \in Paths /\ j # Dangling
    BY <1>1, WiringAssumption, JobsAssumption DEF Jobs
  <2>2. Owner[Output[j]] = Nobody
    BY <1>5, <2>1, JobsAssumption DEF Owner
  <2>3. Owner' = [Owner EXCEPT ![Output[j]] = j]
    BY <1>5, <2>1 DEF Owner, Inv, TypeOK
  <2>4. j \notin created
    BY <1>1 DEF Inv, Lifecycle, CreateNew, At
  <2>5. W!Claim(j, Output[j])
    BY <1>1, <1>3, <1>5, <2>2, <2>3, <2>4 DEF W!Claim, Owner, Announced, Relied
  <2> QED
    BY <1>1, <2>1, <2>5 DEF W!Next
<1> QED
  BY <1>4, <1>5 DEF CreateNew

LEMMA WriteStep ==
  ASSUME Inv, NEW j \in Jobs, Write(j)
  PROVE  W!Next \/ UNCHANGED W!vars
<1>1. /\ Owner' = Owner /\ created' = created /\ Relied' = Relied
      /\ j \in Writers /\ j \in created /\ pc[j] # "ended" /\ exit[j] = Running
  BY OwnerUnchanged, ReliedUnchanged DEF Write, At, Inv, Lifecycle
<1>2. CASE written[j] < Size /\ written' = [written EXCEPT ![j] = @ + 1] /\ exit' = exit
  <2>1. Announced' = Announced
    BY <1>2 DEF Announced
  <2>2. j \notin Announced
    BY <1>1 DEF Announced, Running
  <2>3. W!Append(j)
    BY <1>1, <1>2, <2>1, <2>2 DEF W!Append, Owner, Announced, Relied
  <2> QED
    BY <1>1, <2>3 DEF W!Next
<1>3. CASE written' = written /\ End(j, 2)
  <2>1. exit' = [exit EXCEPT ![j] = 2] /\ 2 # 0
    BY <1>3 DEF End
  <2>2. Announced' = Announced
    BY <1>1, <2>1, AnnouncedUnchanged
  <2> QED
    BY <1>1, <1>3, <2>2, Mapping
<1>4. CASE written' = written /\ End(j, 0) /\ written[j] = Size
  <2>1. Announced' = Announced \cup {j}
    BY <1>1, <1>4 DEF Announced, End, Inv, TypeOK
  <2>2. W!Announce(j)
    BY <1>1, <1>4, <2>1 DEF W!Announce, Owner, Announced, Relied
  <2> QED
    BY <1>1, <2>2 DEF W!Next
<1> QED
  BY <1>2, <1>3, <1>4 DEF Write

LEMMA UserStep ==
  ASSUME Inv, NEW p \in Paths, Place(p, Foreign) \/ Place(p, Dangling) \/ Remove(p)
  PROVE  W!Next
<1>1. /\ created' = created /\ written' = written
      /\ Announced' = Announced /\ Relied' = Relied
  BY DEF Place, Remove, Announced, Relied
<1>2. CASE Place(p, Foreign) \/ Place(p, Dangling)
  <2>1. Owner[p] = Nobody
    BY <1>2, JobsAssumption DEF Place, Owner
  <2>2. Owner' = [Owner EXCEPT ![p] = Foreign]
    BY <1>2, JobsAssumption DEF Place, Owner, Inv, TypeOK
  <2>3. W!UserPlaces(p)
    BY <1>1, <2>1, <2>2 DEF W!UserPlaces, Owner, Announced, Relied
  <2> QED
    BY <2>3 DEF W!Next
<1>3. CASE Remove(p)
  <2>1. Owner' = [Owner EXCEPT ![p] = Nobody]
    BY <1>3, JobsAssumption DEF Remove, Owner, Inv, TypeOK
  <2>2. W!UserRemoves(p)
    BY <1>1, <2>1 DEF W!UserRemoves, Owner, Announced, Relied
  <2> QED
    BY <2>2 DEF W!Next
<1> QED
  BY <1>2, <1>3

LEMMA PromiseStep == Inv /\ [Next]_vars => [W!Next]_(W!vars)
<1> SUFFICES ASSUME Inv, [Next]_vars PROVE W!Next \/ UNCHANGED W!vars
  OBVIOUS
<1>1. ASSUME NEW j \in Jobs, Step(j) \/ Crash(j) PROVE W!Next \/ UNCHANGED W!vars
  BY <1>1, QuietStep, ReadStep, ValidateStep, CreateStep, WriteStep DEF Step
<1>2. ASSUME NEW p \in Paths, Place(p, Foreign) \/ Place(p, Dangling) \/ Remove(p) PROVE W!Next
  BY <1>2, UserStep
<1>3. CASE UNCHANGED vars
  BY <1>3, Mapping DEF vars, Owner, Announced, Relied
<1> QED
  BY <1>1, <1>2, <1>3 DEF Next

(* The jobs, run together with crashes and the user's own moves, implement *)
(* the write-once promise: every step of theirs is one of its steps or     *)
(* none at all.                                                            *)
THEOREM PromiseKept == Spec => KeepsPromise
<1>1. Spec => W!Init /\ [][W!Next]_(W!vars)
  BY PromiseInit, PromiseStep, Invariance, PTL DEF Spec
<1> QED
  BY <1>1 DEF KeepsPromise, W!Spec
=============================================================================
