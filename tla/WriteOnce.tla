------------------------------ MODULE WriteOnce ------------------------------
(***************************************************************************)
(* What the command line promises about the archive files it makes: a file *)
(* is put only where there is none, its bytes are appended by the one job  *)
(* that made it, and neither the job's own report nor another job relies   *)
(* on the file before it is whole.  Only the user takes files away.        *)
(***************************************************************************)
EXTENDS Integers

CONSTANTS Paths, Writers, Size, Nobody, Others

VARIABLES
    owner,       \* the writer whose file is at a path, Others for any other file, or Nobody
    claimed,     \* the writers that have made a file
    size,        \* how much of its file a writer has written
    announced,   \* the writers that have reported success
    relied       \* the writers whose file another job has accepted

vars == <<owner, claimed, size, announced, relied>>

Init ==
    /\ owner = [p \in Paths |-> Nobody]
    /\ claimed = {}
    /\ size = [w \in Writers |-> 0]
    /\ announced = {}
    /\ relied = {}

Claim(w, p) ==
    /\ owner[p] = Nobody
    /\ w \notin claimed
    /\ owner' = [owner EXCEPT ![p] = w]
    /\ claimed' = claimed \cup {w}
    /\ UNCHANGED <<size, announced, relied>>

Append(w) ==
    /\ w \in claimed \ announced
    /\ size[w] < Size
    /\ size' = [size EXCEPT ![w] = @ + 1]
    /\ UNCHANGED <<owner, claimed, announced, relied>>

Announce(w) ==
    /\ w \in claimed
    /\ size[w] = Size
    /\ announced' = announced \cup {w}
    /\ UNCHANGED <<owner, claimed, size, relied>>

Rely(w) ==
    /\ w \in claimed
    /\ size[w] = Size
    /\ relied' = relied \cup {w}
    /\ UNCHANGED <<owner, claimed, size, announced>>

UserPlaces(p) ==
    /\ owner[p] = Nobody
    /\ owner' = [owner EXCEPT ![p] = Others]
    /\ UNCHANGED <<claimed, size, announced, relied>>

UserRemoves(p) ==
    /\ owner' = [owner EXCEPT ![p] = Nobody]
    /\ UNCHANGED <<claimed, size, announced, relied>>

Next ==
    \/ \E w \in Writers : Append(w) \/ Announce(w) \/ Rely(w) \/ \E p \in Paths : Claim(w, p)
    \/ \E p \in Paths : UserPlaces(p) \/ UserRemoves(p)

Spec == Init /\ [][Next]_vars
=============================================================================
