------------------------------ MODULE MCCompile ------------------------------
(***************************************************************************)
(* Bounded instance of Compile: two modules A and B, or A, A0 and A::B that*)
(* the loader does not tell apart, a document of each kind that fails each *)
(* check, cedar's judgement by declared types.                             *)
(***************************************************************************)
EXTENDS Compile

CONSTANTS pa, pb, sa, sc, la, lc   \* input files: policies, schemas, labels

A   == <<65>>
B   == <<66>>
AT  == A \o <<58, 58, 84>>      \* "A::T"
AA  == A \o <<58, 58, 97>>      \* "A::a", an action type
BT  == B \o <<58, 58, 84>>
BA  == B \o <<58, 58, 97>>
A0  == A \o <<48>>              \* sorts between A and A::B
AB  == A \o <<58, 58, 66>>
ABA == AB \o <<58, 58, 97>>     \* "A::B::a", an action type of two owners
a   == <<97>>
b   == <<98>>
third == <<99>>

MCNames == {A, B, A0, AB}
MCGenerator == "this build"
MCHasIdPrefix(id, name) == IF name = a THEN id \in {1, 2} ELSE id \in {3, 4}

Policy(id, actions, references) ==
    [id |-> id, static |-> TRUE, structured |-> TRUE, constrained |-> TRUE,
     actions |-> actions, references |-> references, dubious |-> FALSE]

P1 == Policy(1, {AA}, {AT})
P2 == Policy(2, {AA}, {BT})
P3 == Policy(3, {BA}, {})
Open == [Policy(4, {}, {}) EXCEPT !.constrained = FALSE]

Broken == {Missing, NotUtf8, Unparsable}

PolicyDocsA ==
    {<<P1>>, <<P2, P1>>, <<P1, P1>>, <<[P1 EXCEPT !.id = 0]>>, <<[P1 EXCEPT !.id = 3]>>,
     <<P1, [P2 EXCEPT !.static = FALSE]>>, <<[P1 EXCEPT !.structured = FALSE]>>,
     <<[P1 EXCEPT !.dubious = TRUE]>>, <<Policy(1, {BA}, {})>>, <<Policy(1, {ABA}, {})>>}
PolicyDocsB == {<<P3>>, <<P3, Open>>}

Fragment(ns, declarations, field, warns) ==
    [namespaces |-> {ns}, declarations |-> declarations, fields |-> field, warns |-> warns]
DeclA == (AT :> {AT}) @@ (AA :> {AT})
SchemaDocs ==
    {Fragment(A, DeclA, A :> 1, FALSE), Fragment(A, <<>>, A :> 1, TRUE),
     Fragment(A, <<>>, A :> 2, FALSE), Fragment(A, AT :> {BT}, <<>>, FALSE),
     Fragment(B, (BA :> {}) @@ (BT :> {}), <<>>, FALSE)}

Rule(type, attribute) == [target |-> <<type, attribute>>]
LabelDocs == {<<>>, <<Rule(AT, 1)>>, <<Rule(AT, 1), Rule(AT, 2)>>,
              <<Rule(AT, 1), Rule(AT, 1)>>, <<Rule(BT, 1)>>, <<Rule(AA, 3)>>}

MCDocuments ==
    (pa :> PolicyDocsA \cup Broken) @@ (pb :> PolicyDocsB \cup {Missing})
    @@ (sa :> SchemaDocs \cup Broken) @@ (sc :> SchemaDocs)
    @@ (la :> LabelDocs \cup Broken) @@ (lc :> LabelDocs)

Base == (pa :> <<P1>>) @@ (pb :> <<P3>>)
        @@ (sa :> Fragment(A, DeclA, A :> 1, FALSE))
        @@ (sc :> Fragment(A, <<>>, A :> 1, TRUE))
        @@ (la :> <<Rule(AT, 1)>>) @@ (lc :> <<>>)

(* The sound disk, and those with one document other than it.              *)
MCDisks == UNION {{[Base EXCEPT ![path] = c] : c \in MCDocuments[path]} : path \in DOMAIN Base}

Mod(name, namespace, imports, role, policies, schemas, labelFiles) ==
    [name |-> name, namespace |-> namespace, imports |-> imports, role |-> role,
     policies |-> policies, schemas |-> schemas, labels |-> labelFiles]

WithSchema == <<Mod(a, A, <<>>, "ordinary", <<pa>>, <<sa, sc>>, <<la, lc>>)>>
TwoModules == <<Mod(a, A, <<B>>, "ordinary", <<pa>>, <<>>, <<la>>),
                Mod(b, B, <<>>, "ordinary", <<pb>>, <<>>, <<>>)>>
WithGlobal == <<Mod(a, A, <<>>, "ordinary", <<pa>>, <<sa>>, <<>>),
                Mod(b, B, <<>>, "global", <<pb>>, <<sc>>, <<>>)>>
Nested == <<Mod(a, A, <<>>, "ordinary", <<pa>>, <<>>, <<>>),
            Mod(b, A0, <<>>, "global", <<pb>>, <<>>, <<>>),
            Mod(third, AB, <<>>, "ordinary", <<>>, <<>>, <<>>)>>
MCBundles == {WithSchema, TwoModules, WithGlobal, Nested}
MCSolo == {<<Mod(a, A, <<B>>, "ordinary", <<pa>>, <<sa>>, <<la>>)>>}

(* cedar, over declared types only.                                        *)
MCStrict(policy, s) ==
    (IF policy.references \subseteq DOMAIN s.declarations THEN {} ELSE {"error"})
    \cup (IF policy.actions \subseteq DOMAIN s.declarations THEN {} ELSE {"misapplied"})
    \cup (IF policy.dubious THEN {"warning"} ELSE {})
MCSchemaLoads(s) ==
    \A d \in DOMAIN s.declarations : s.declarations[d] \subseteq DOMAIN s.declarations
MCLabelFits(rule, s) == rule.target[1] \in DOMAIN s.declarations
=============================================================================
