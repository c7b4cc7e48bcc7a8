------------------------------- MODULE MCEngine -------------------------------
(***************************************************************************)
(* Bounded instance of Engine: ordinary modules A and B, with an action of *)
(* B in a group of A too, a global module G, and the three roots of which  *)
(* two overlap unnoticed.                                                  *)
(***************************************************************************)
EXTENDS Engine, TLC

A == <<65>>
B == <<66>>
G == <<71>>
A0 == <<65, 48>>
AB == A \o <<58, 58, 66>>
Act(root) == root \o <<58, 58, 97>>     \* "root::a"
Type(root) == root \o <<58, 58, 84>>    \* "root::T"
a == <<97>>
b == <<98>>
c == <<99>>

MCNames == {A, B, G, A0, AB}
MCGenerator == "this build"
MCHasIdPrefix(id, name) == TRUE

Policy(id, effect, root, references, label) ==
    [id |-> id, effect |-> effect, static |-> TRUE, structured |-> TRUE, constrained |-> TRUE,
     actions |-> {Act(root)}, references |-> references, label |-> label]
Anything(id, effect) ==
    [Policy(id, effect, G, {}, 0) EXCEPT !.constrained = FALSE, !.actions = {}]

(* A label is there when a rule derives it on the type of the resource.    *)
MCMatches(policy, request, labels, schema) ==
    /\ ~policy.constrained \/ ({request.action} \cup GroupsOf(request.action, schema)) \cap policy.actions # {}
    /\ policy.label = 0 \/ \E i \in 1..Len(labels) : labels[i].target = <<request.resource, policy.label>>

MCStrict(policy, schema) == {}
MCSchemaLoads(schema) == TRUE
MCLabelFits(rule, schema) == TRUE
MCConforms(schema, request) == {request.action, request.resource} \subseteq DOMAIN schema.declarations
MCMemberships(schema) == schema.groups
MCLabelDigest(labels) == [digest |-> labels]

ClientSymmetry == Permutations(Clients)

Request(action, resource) == [action |-> Act(action), resource |-> Type(resource)]
MCRequests == {Request(A, A), Request(B, B), Request(A, B), Request(A, G), Request(G, G)}

Mod(name, root, imports, role, ids) ==
    [name |-> name, namespace |-> root, imports |-> imports, role |-> role, policyIds |-> ids]

SchemaAB ==
    [namespaces |-> {A, B}, fields |-> <<>>, groups |-> {},
     declarations |-> (Act(A) :> 1) @@ (Type(A) :> 1) @@ (Act(B) :> 1)]
BInGroupOfA ==
    [SchemaAB EXCEPT !.groups = {<<Act(B), Act(A)>>}, !.declarations = @ @@ (Type(B) :> 1)]
OnA == <<[target |-> <<Type(A), 1>>]>>

Bundle(modules, policies, ids, schema, labels) ==
    [modules |-> modules, policies |-> policies, policyIds |-> ids, schema |-> schema, labels |-> labels]

P1 == Policy(1, "permit", A, {Type(A)}, 1)
P2 == Policy(2, "permit", B, {}, 0)
P3 == Anything(3, "permit")
Crossing == Policy(1, "permit", A, {Type(B)}, 0)

Two == <<Mod(a, A, <<>>, "ordinary", <<1>>), Mod(b, B, <<>>, "ordinary", <<2>>)>>
Importing == [Two EXCEPT ![1].imports = <<B>>]
Three == Two \o <<Mod(c, G, <<>>, "global", <<3>>)>>

MCContents ==
    {Bundle(Two, <<P1, P2>>, <<1, 2>>, NoSchema, OnA),
     Bundle(Two, <<P1, P2>>, <<1, 2>>, SchemaAB, <<>>),
     Bundle(Two, <<Policy(1, "forbid", A, {}, 0), P2>>, <<1, 2>>, BInGroupOfA, <<>>),
     Bundle(Three, <<P1, P2, [P3 EXCEPT !.effect = "forbid"]>>, <<1, 2, 3>>, SchemaAB, OnA),
     Bundle(Three, <<P1, P2, P3>>, <<1, 2, 3>>, NoSchema, <<>>),
     Bundle(Two, <<Crossing, P2>>, <<1, 2>>, NoSchema, <<>>),         \* import missing
     Bundle(Importing, <<Crossing, P2>>, <<1, 2>>, NoSchema, <<>>),
     Bundle(<<Mod(a, A, <<>>, "ordinary", <<1>>), Mod(b, A0, <<>>, "ordinary", <<>>),
              Mod(c, AB, <<>>, "ordinary", <<2>>)>>,
            <<P1, Policy(2, "permit", AB, {}, 0)>>, <<1, 2>>, NoSchema, <<>>)}

MCReloads == {<<P1>>, <<Policy(1, "forbid", A, {}, 1), P2>>, <<P2, P3>>}
=============================================================================
