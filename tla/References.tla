------------------------------ MODULE References ------------------------------
(***************************************************************************)
(* validate_policy_ownership of validation.rs with the walk that collects  *)
(* what a policy mentions: the entity types of its scope, then those of    *)
(* its clauses, expression by expression.  Validation.tla takes the result *)
(* of the walk as a set; here it is computed.  The order in which          *)
(* subexpressions are visited shows in the order of diagnostics only.      *)
(***************************************************************************)
EXTENDS Validation

CONSTANTS
    Expressions,   \* occurrences of an expression in a policy
    Policies,      \* [structured, principal, resource, constrained, actions,
                   \*   clauses: sets of expressions, node: expression -> [kind, types, parts]]
    Records        \* the modules that the policies may stand in

(* The subexpressions of a kind, in the order of its fields: the operand;  *)
(* left, right; expr, in_expr; cond, then_expr, else_expr; the elements.   *)
(* A leaf is a variable, a slot or a literal that is no entity.            *)
Arity ==
    [literal |-> {0}, unary |-> {1}, binary |-> {2}, is |-> {1, 2}, if |-> {3},
     set |-> Nat, record |-> Nat, leaf |-> {0}]

ASSUME NodeAssumption ==
    \A p \in Policies :
        /\ p.clauses \subseteq Expressions
        /\ \A e \in Expressions :
              LET node == p.node[e] IN
              /\ node.kind \in DOMAIN Arity
              /\ node.parts \in Seq(Expressions)
              /\ Len(node.parts) \in Arity[node.kind]
              /\ node.types # {} => node.kind \in {"literal", "is"}

VARIABLES
    policy, module,
    pc,           \* "scope", "clauses" or "judged"
    pending,      \* expressions that collect_expr_references is still to be called on
    visited,      \* history: those it was called on
    references,
    found         \* diagnostics

vars == <<policy, module, pc, pending, visited, references, found>>

Init ==
    /\ policy \in Policies
    /\ module \in Records
    /\ pc = "scope"
    /\ pending = {} /\ visited = {} /\ references = {} /\ found = {}

(* The constraints on principal and resource are [is, entity], sets of at  *)
(* most one type each.                                                     *)
ScopeReferences(p) ==
    UNION {p.principal.is, p.principal.entity, p.resource.is, p.resource.entity, p.actions}

(* Nothing is collected of these.                                          *)
Exempt == ~policy.structured \/ module.role = "global"

Scope ==
    /\ pc = "scope" /\ ~Exempt
    /\ references' = ScopeReferences(policy)
    /\ pending' = policy.clauses
    /\ pc' = "clauses"
    /\ UNCHANGED <<policy, module, visited, found>>

AllOf(parts) == {parts[i] : i \in 1..Len(parts)}

(* Fault: `is T in expr` is taken for `is T`.                              *)
OperandsButIn(node) == IF node.kind = "is" THEN {node.parts[1]} ELSE AllOf(node.parts)

(* The recursive calls of collect_expr_references, by the kind.            *)
Operands(node) ==
    LET kind == node.kind
        parts == node.parts
    IN  CASE kind \in {"literal", "leaf"} -> {}
          [] kind = "unary"               -> {parts[1]}
          [] kind = "binary"              -> {parts[1], parts[2]}
          [] kind = "is"                  -> {parts[1]} \cup {parts[i] : i \in {2} \cap {Len(parts)}}
          [] kind = "if"                  -> {parts[1], parts[2], parts[3]}
          [] kind \in {"set", "record"}   -> AllOf(parts)

Pushed(node) == IF node.kind \in {"literal", "is"} THEN node.types ELSE {}

(* collect_expr_references, of one expression *)
Collect(e) ==
    /\ pc = "clauses"
    /\ references' = references \cup Pushed(policy.node[e])
    /\ pending' = (pending \ {e}) \cup Operands(policy.node[e])
    /\ visited' = visited \cup {e}
    /\ UNCHANGED <<policy, module, pc, found>>

Collected ==
    [structured |-> policy.structured, constrained |-> policy.constrained,
     actions |-> policy.actions, references |-> references]

Judge ==
    /\ (pc = "scope" /\ Exempt) \/ (pc = "clauses" /\ pending = {})
    /\ found' = OwnershipDiagnostics(Collected, module)
    /\ pc' = "judged"
    /\ UNCHANGED <<policy, module, pending, visited, references>>

Next == Scope \/ (\E e \in pending : Collect(e)) \/ Judge

Spec == Init /\ [][Next]_vars

(***************************************************************************)
(* Properties.                                                             *)
(***************************************************************************)
(* The expressions that a policy contains: those in every set that holds   *)
(* its clauses and the parts of what it holds.                             *)
Closed(p, s) == \A e \in s : AllOf(p.node[e].parts) \subseteq s

Within(p) ==
    {e \in Expressions : \A s \in SUBSET Expressions : p.clauses \subseteq s /\ Closed(p, s) => e \in s}

Mentioned(p) == ScopeReferences(p) \cup UNION {p.node[e].types : e \in Within(p)}

(* A policy of an ordinary module passes if and only if it acts on its own *)
(* namespace and mentions nothing, at any depth and in any position, but   *)
(* that namespace and its imports.                                         *)
Confined ==
    pc = "judged" =>
        (found = {} <=>
            /\ policy.structured
            /\ module.role = "global" \/
                 /\ policy.constrained
                 /\ \A type \in policy.actions : NamespaceOwns(module.namespace, type)
                 /\ \A type \in Mentioned(policy) : OwnedOrImported(module, type))
=============================================================================
