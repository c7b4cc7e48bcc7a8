------------------------------ MODULE MCPublish ------------------------------
(***************************************************************************)
(* Bounded instance of Publish: two builds race for one path, a sign reads *)
(* that path while they may be writing it, and a check reads what the sign *)
(* writes.                                                                 *)
(***************************************************************************)
EXTENDS Publish

CONSTANTS b1, b2, s1, c1, p, q

MCOutput == [j \in {b1, b2, s1} |-> IF j = s1 THEN q ELSE p]
MCInput == [j \in {s1, c1} |-> IF j = s1 THEN p ELSE q]
=============================================================================
