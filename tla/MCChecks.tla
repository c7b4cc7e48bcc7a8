------------------------------- MODULE MCChecks -------------------------------
(***************************************************************************)
(* Bounded instance of Checks: the documents of MCCompile, modules with    *)
(* and without a schema, and check policy on the policies alone, or with   *)
(* the schema, the labels or both beside them.                             *)
(***************************************************************************)
EXTENDS MCCompile, Checks

MCArguments ==
    [policy : {pa}, schema : {sa, NotGiven}, labels : {la, NotGiven}, deny : BOOLEAN]

MCChecksDocuments ==
    (pa :> {<<P1>>, <<P2, P1>>, <<P1, [P2 EXCEPT !.static = FALSE]>>, <<[P1 EXCEPT !.dubious = TRUE]>>}
             \cup Broken)
    @@ (pb :> {<<P3>>})
    @@ (sa :> {Fragment(A, DeclA, A :> 1, FALSE), Fragment(A, AT :> {BT}, <<>>, FALSE),
               Fragment(A, DeclA, <<>>, TRUE), Unparsable, NotUtf8})
    @@ (la :> {<<Rule(AT, 1)>>, <<Rule(AT, 1), Rule(AT, 1)>>, <<Rule(AA, 3)>>, Missing})

ChecksBase == [path \in {pa, pb, sa, la} |-> Base[path]]
MCChecksDisks ==
    UNION {{[ChecksBase EXCEPT ![path] = c] : c \in MCChecksDocuments[path]} : path \in DOMAIN ChecksBase}

MCChecksBundles == {TwoModules}
MCChecksSolo ==
    {<<Mod(a, A, <<B>>, "ordinary", <<pa>>, <<sa>>, <<la>>)>>,
     <<Mod(a, A, <<B>>, "ordinary", <<pa>>, <<>>, <<la>>)>>}
=============================================================================
