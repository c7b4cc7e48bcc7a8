----------------------------- MODULE MCReferences -----------------------------
(***************************************************************************)
(* Bounded instance of References: every condition of three expressions    *)
(* over three namespaces, of which the module owns A and imports B, and    *)
(* every scope over one condition.                                         *)
(***************************************************************************)
EXTENDS References

A == <<65>>
B == <<66>>
G == <<71>>
Type(root) == root \o <<58, 58, 84>>    \* "root::T"
Types == {{}, {Type(A)}, {Type(B)}, {Type(G)}}

MCExpressions == 1..3
MCNames == {A, B, G}
MCGenerator == "this build"
MCHasIdPrefix(id, name) == TRUE
MCStrict(policy_, schema) == {}
MCSchemaLoads(schema) == TRUE
MCLabelFits(rule, schema) == TRUE

(* The expressions over the given subexpressions.                          *)
N(kind, types, parts) == [kind |-> kind, types |-> types, parts |-> parts]
UpToTwo(inner) == {<<>>} \cup [1..1 -> inner] \cup [1..2 -> inner]
Over(inner) ==
    {N("literal", types, <<>>) : types \in Types \ {{}}} \cup {N("leaf", {}, <<>>)}
    \cup {N("unary", {}, parts) : parts \in [1..1 -> inner]}
    \cup {N("binary", {}, parts) : parts \in [1..2 -> inner]}
    \cup {N("is", types, parts) : types \in {{Type(A)}, {Type(G)}}, parts \in UpToTwo(inner) \ {<<>>}}
    \cup {N("if", {}, parts) : parts \in [1..3 -> inner]}
    \cup {N(kind, {}, parts) : kind \in {"set", "record"}, parts \in UpToTwo(inner)}

Trees == {<<one, two, three>> : one \in Over({2, 3}), two \in Over({3}), three \in Over({})}
SomeTree == <<N("unary", {}, <<2>>), N("is", {Type(A)}, <<3, 3>>), N("leaf", {}, <<>>)>>

Policy(principal, resource, actions, clauses, tree) ==
    [structured |-> TRUE, principal |-> principal, resource |-> resource,
     constrained |-> actions # {}, actions |-> actions, clauses |-> clauses, node |-> tree]

Unconstrained == [is |-> {}, entity |-> {}]
Constraints == [is : Types, entity : Types]

MCPolicies ==
    {Policy(Unconstrained, Unconstrained, {Type(A)}, {1}, tree) : tree \in Trees}
    \cup {Policy(p, r, actions, {1}, SomeTree) :
            p \in Constraints, r \in Constraints, actions \in SUBSET {Type(A), Type(B), Type(G)}}
    \cup {[Policy(Unconstrained, Unconstrained, {Type(A)}, clauses, SomeTree) EXCEPT !.structured = s] :
            clauses \in SUBSET MCExpressions, s \in BOOLEAN}

Mod(imports, role) == [namespace |-> A, imports |-> imports, role |-> role]
MCRecords == {Mod(<<B>>, "ordinary"), Mod(<<>>, "ordinary"), Mod(<<>>, "global")}
=============================================================================
