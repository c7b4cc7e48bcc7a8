--------------------------- MODULE ReferencesProofs ---------------------------
(***************************************************************************)
(* The walk of References.tla collects everything that a policy mentions,  *)
(* whatever expressions it is made of.  It visits only what the policy     *)
(* contains; when nothing is pending the visited expressions are a set     *)
(* that holds the clauses and is closed under parts, so that they are all. *)
(***************************************************************************)
EXTENDS References, TLAPS

LEMMA NodeTyped ==
    ASSUME NEW p \in Policies, NEW e \in Expressions
    PROVE  /\ p.node[e].kind \in {"literal", "unary", "binary", "is", "if", "set", "record", "leaf"}
           /\ p.node[e].parts \in Seq(Expressions)
           /\ p.node[e].types # {} => p.node[e].kind \in {"literal", "is"}
           /\ p.node[e].kind \in {"literal", "leaf"} => Len(p.node[e].parts) = 0
           /\ p.node[e].kind = "unary" => Len(p.node[e].parts) = 1
           /\ p.node[e].kind = "binary" => Len(p.node[e].parts) = 2
           /\ p.node[e].kind = "is" => Len(p.node[e].parts) \in {1, 2}
           /\ p.node[e].kind = "if" => Len(p.node[e].parts) = 3
<1>1. /\ p.node[e].kind \in DOMAIN Arity
      /\ p.node[e].parts \in Seq(Expressions)
      /\ Len(p.node[e].parts) \in Arity[p.node[e].kind]
      /\ p.node[e].types # {} => p.node[e].kind \in {"literal", "is"}
  BY NodeAssumption
<1>2. DOMAIN Arity = {"literal", "unary", "binary", "is", "if", "set", "record", "leaf"}
  BY DEF Arity
<1>3. /\ Arity["literal"] = {0} /\ Arity["leaf"] = {0} /\ Arity["unary"] = {1}
      /\ Arity["binary"] = {2} /\ Arity["is"] = {1, 2} /\ Arity["if"] = {3}
  BY DEF Arity
<1> QED
  BY <1>1, <1>2, <1>3

(* The recursive calls reach every subexpression, of every kind.           *)
LEMMA OperandsAreParts ==
    ASSUME NEW p \in Policies, NEW e \in Expressions
    PROVE  /\ Operands(p.node[e]) = AllOf(p.node[e].parts)
           /\ AllOf(p.node[e].parts) \subseteq Expressions
<1> DEFINE node == p.node[e]
           parts == node.parts
<1>1. parts \in Seq(Expressions) /\ Len(parts) \in Nat
  BY NodeTyped
<1>2. AllOf(parts) \subseteq Expressions
  BY <1>1 DEF AllOf
<1>3. Operands(node) = AllOf(parts)
  <2>1. CASE node.kind \in {"literal", "leaf"}
    <3>1. 1..Len(parts) = {}
      BY <2>1, NodeTyped
    <3> QED  BY <2>1, <3>1 DEF Operands, AllOf
  <2>2. CASE node.kind = "unary"
    <3>1. Len(parts) = 1 /\ 1..1 = {1}
      BY <2>2, NodeTyped
    <3>2. Operands(node) = {parts[1]}
      BY <2>2 DEF Operands
    <3> QED  BY <3>1, <3>2 DEF AllOf
  <2>3. CASE node.kind = "binary"
    <3>1. Len(parts) = 2 /\ 1..2 = {1, 2}
      BY <2>3, NodeTyped
    <3>2. Operands(node) = {parts[1], parts[2]}
      BY <2>3 DEF Operands
    <3> QED  BY <3>1, <3>2 DEF AllOf
  <2>4. CASE node.kind = "is"
    <3>1. 1..Len(parts) = {1} \cup ({2} \cap {Len(parts)})
      <4>1. Len(parts) \in {1, 2}
        BY <2>4, NodeTyped
      <4>2. 1..1 = {1} /\ 1..2 = {1, 2}
        OBVIOUS
      <4> QED
        BY <4>1, <4>2
    <3>2. Operands(node) = {parts[1]} \cup {parts[i] : i \in {2} \cap {Len(parts)}}
      BY <2>4 DEF Operands
    <3> QED  BY <3>1, <3>2 DEF AllOf
  <2>5. CASE node.kind = "if"
    <3>1. Len(parts) = 3 /\ 1..3 = {1, 2, 3}
      BY <2>5, NodeTyped
    <3>2. Operands(node) = {parts[1], parts[2], parts[3]}
      BY <2>5 DEF Operands
    <3> QED  BY <3>1, <3>2 DEF AllOf
  <2>6. CASE node.kind \in {"set", "record"}
    BY <2>6 DEF Operands
  <2> QED  BY <2>1, <2>2, <2>3, <2>4, <2>5, <2>6, NodeTyped
<1> QED  BY <1>2, <1>3

LEMMA PushedAreTypes ==
    ASSUME NEW p \in Policies, NEW e \in Expressions
    PROVE  Pushed(p.node[e]) = p.node[e].types
  BY NodeTyped DEF Pushed

(* What a policy contains holds its clauses and is closed under parts.     *)
LEMMA WithinIsClosed ==
    ASSUME NEW p \in Policies
    PROVE  /\ p.clauses \subseteq Within(p)
           /\ \A e \in Within(p) : AllOf(p.node[e].parts) \subseteq Within(p)
<1>1. p.clauses \subseteq Expressions
  BY NodeAssumption
<1>2. p.clauses \subseteq Within(p)
  BY <1>1 DEF Within
<1>3. ASSUME NEW e \in Within(p), NEW part \in AllOf(p.node[e].parts)
      PROVE  part \in Within(p)
  <2>1. e \in Expressions
    BY DEF Within
  <2>2. part \in Expressions
    BY <2>1, OperandsAreParts
  <2>3. ASSUME NEW s \in SUBSET Expressions, p.clauses \subseteq s, Closed(p, s)
        PROVE  part \in s
    <3>1. e \in s
      BY <2>3 DEF Within
    <3> QED  BY <3>1, <2>3 DEF Closed
  <2> QED  BY <2>2, <2>3 DEF Within
<1> QED  BY <1>2, <1>3

(* It is the least such set.                                               *)
LEMMA WithinIsLeast ==
    ASSUME NEW p \in Policies, NEW s \in SUBSET Expressions, p.clauses \subseteq s, Closed(p, s)
    PROVE  Within(p) \subseteq s
  BY DEF Within

(***************************************************************************)
(* The inductive invariant.                                                *)
(***************************************************************************)
Typed ==
    /\ policy \in Policies /\ module \in Records
    /\ pc \in {"scope", "clauses", "judged"}
    /\ pending \subseteq Expressions /\ visited \subseteq Expressions

(* What was visited or is pending is part of the policy; clauses, and the  *)
(* parts of what was visited, are one or the other.                        *)
Frontier ==
    /\ pending \cup visited \subseteq Within(policy)
    /\ policy.clauses \subseteq pending \cup visited
    /\ \A e \in visited : AllOf(policy.node[e].parts) \subseteq pending \cup visited
    /\ references = ScopeReferences(policy) \cup UNION {policy.node[e].types : e \in visited}

Unvisited == pc = "scope" => visited = {}

Inv ==
    /\ Typed
    /\ Unvisited
    /\ pc = "clauses" => ~Exempt
    /\ pc # "scope" /\ ~Exempt => Frontier
    /\ pc = "judged" =>
          /\ ~Exempt => pending = {}
          /\ found = OwnershipDiagnostics(Collected, module)

LEMMA InvInit == Init => Inv
  BY DEF Init, Inv, Typed, Unvisited

LEMMA ScopeKeeps == Inv /\ Scope => Inv'
<1> SUFFICES ASSUME Inv, Scope PROVE Inv'
  OBVIOUS
<1>1. policy' = policy /\ module' = module /\ ~Exempt /\ pc' = "clauses"
  BY DEF Scope
<1>2. ~Exempt'
  BY <1>1 DEF Exempt
<1>3. pending' = policy.clauses /\ references' = ScopeReferences(policy)
  BY DEF Scope
<1>4. visited' = {}
  BY DEF Scope, Inv, Unvisited
<1>5. policy \in Policies
  BY DEF Inv, Typed
<1>6. policy.clauses \subseteq Expressions
  BY <1>5, NodeAssumption
<1>7. Typed'
  BY <1>1, <1>3, <1>4, <1>6 DEF Inv, Typed
<1>8. PICK p \in Policies : p = policy
  BY <1>5
<1>9. policy.clauses \subseteq Within(policy)
  BY <1>8, WithinIsClosed
<1>10. Frontier'
  <2>1. (pending \cup visited)' = policy.clauses
    BY <1>3, <1>4
  <2>2. UNION {policy.node[e].types : e \in {}} = {}
    OBVIOUS
  <2> QED
    BY <1>1, <1>3, <1>4, <1>9, <2>1, <2>2 DEF Frontier
<1> QED
  BY <1>1, <1>2, <1>7, <1>10 DEF Inv, Unvisited

LEMMA CollectKeeps == Inv /\ (\E e \in pending : Collect(e)) => Inv'
<1> SUFFICES ASSUME Inv, NEW e \in pending, Collect(e) PROVE Inv'
  OBVIOUS
<1>1. policy' = policy /\ module' = module /\ pc = "clauses" /\ pc' = "clauses"
  BY DEF Collect
<1>2. ~Exempt /\ ~Exempt' /\ Typed /\ Frontier
  BY <1>1 DEF Inv, Exempt
<1>3. e \in Expressions
  BY <1>2 DEF Typed
<1>4. PICK p \in Policies : p = policy
  BY <1>2 DEF Typed
<1>5. Operands(p.node[e]) = AllOf(p.node[e].parts) /\ AllOf(p.node[e].parts) \subseteq Expressions
  BY <1>3, <1>4, OperandsAreParts
<1>6. pending' = (pending \ {e}) \cup AllOf(policy.node[e].parts) /\ visited' = visited \cup {e}
  BY <1>4, <1>5 DEF Collect
<1>7. references' = references \cup policy.node[e].types
  <2>1. Pushed(p.node[e]) = p.node[e].types
    BY <1>3, PushedAreTypes
  <2> QED
    BY <1>4, <2>1 DEF Collect
<1>8. Typed'
  BY <1>1, <1>2, <1>3, <1>4, <1>5, <1>6 DEF Typed
<1>9. Frontier'
  <2>1. (pending \cup visited)' = pending \cup visited \cup AllOf(policy.node[e].parts)
    BY <1>6
  <2>2. e \in Within(p)
    BY <1>2, <1>4 DEF Frontier
  <2>3. AllOf(policy.node[e].parts) \subseteq Within(policy)
    BY <2>2, <1>4, WithinIsClosed
  <2>4. (pending \cup visited \subseteq Within(policy))'
    BY <1>1, <1>2, <2>1, <2>3 DEF Frontier
  <2>5. (policy.clauses \subseteq pending \cup visited)'
    BY <1>1, <1>2, <2>1 DEF Frontier
  <2>6. (\A x \in visited : AllOf(policy.node[x].parts) \subseteq pending \cup visited)'
    BY <1>1, <1>2, <1>6, <2>1 DEF Frontier
  <2>7. (references = ScopeReferences(policy) \cup UNION {policy.node[x].types : x \in visited})'
    <3>1. UNION {policy.node[x].types : x \in visited \cup {e}}
             = (UNION {policy.node[x].types : x \in visited}) \cup policy.node[e].types
      <4>1. {policy.node[x].types : x \in visited \cup {e}}
               = {policy.node[x].types : x \in visited} \cup {policy.node[e].types}
        OBVIOUS
      <4>2. ASSUME NEW A, NEW b PROVE UNION (A \cup {b}) = (UNION A) \cup b
        OBVIOUS
      <4> QED
        BY <4>1, <4>2
    <3> QED
      BY <1>1, <1>2, <1>6, <1>7, <3>1 DEF Frontier
  <2> QED
    BY <2>4, <2>5, <2>6, <2>7 DEF Frontier
<1> QED
  BY <1>1, <1>2, <1>8, <1>9 DEF Inv, Unvisited

LEMMA JudgeKeeps == Inv /\ Judge => Inv'
<1> SUFFICES ASSUME Inv, Judge PROVE Inv'
  OBVIOUS
<1>1. /\ policy' = policy /\ module' = module /\ pending' = pending
      /\ visited' = visited /\ references' = references /\ pc' = "judged"
  BY DEF Judge
<1>2. Exempt' = Exempt /\ Collected' = Collected
  BY <1>1 DEF Exempt, Collected
<1>3. found' = OwnershipDiagnostics(Collected, module)
  BY DEF Judge
<1>4. Typed'
  BY <1>1 DEF Inv, Typed
<1>5. ~Exempt => pc = "clauses" /\ pending = {}
  BY DEF Judge
<1>6. ~Exempt => Frontier'
  <2>1. ~Exempt => Frontier
    BY <1>5 DEF Inv
  <2> QED
    BY <1>1, <2>1 DEF Frontier
<1>7. (found = OwnershipDiagnostics(Collected, module))'
  BY <1>1, <1>2, <1>3
<1> QED
  BY <1>1, <1>2, <1>4, <1>5, <1>6, <1>7 DEF Inv, Unvisited

LEMMA InvStutter == Inv /\ UNCHANGED vars => Inv'
<1> SUFFICES ASSUME Inv, UNCHANGED vars PROVE Inv'
  OBVIOUS
<1>1. /\ policy' = policy /\ module' = module /\ pc' = pc /\ pending' = pending
      /\ visited' = visited /\ references' = references /\ found' = found
  BY DEF vars
<1>2. Exempt' = Exempt /\ Collected' = Collected /\ Frontier' = Frontier
  BY <1>1 DEF Exempt, Collected, Frontier
<1> QED
  BY <1>1, <1>2 DEF Inv, Typed, Unvisited

LEMMA Invariance == Spec => []Inv
<1>1. Inv /\ [Next]_vars => Inv'
  BY ScopeKeeps, CollectKeeps, JudgeKeeps, InvStutter DEF Next
<1> QED
  BY InvInit, <1>1, PTL DEF Spec

(* When the walk is over, its references are what the policy mentions.     *)
LEMMA WalkIsComplete ==
    ASSUME Inv, pc = "judged", ~Exempt
    PROVE  references = Mentioned(policy)
<1>1. Typed /\ Frontier /\ pending = {}
  BY DEF Inv
<1>2. PICK p \in Policies : p = policy
  BY <1>1 DEF Typed
<1>3. visited \subseteq Within(policy)
  BY <1>1 DEF Frontier
<1>4. PICK s \in SUBSET Expressions : s = visited
  BY <1>1 DEF Typed
<1>5. p.clauses \subseteq s /\ Closed(p, s)
  BY <1>1, <1>2, <1>4 DEF Frontier, Closed
<1>6. Within(p) \subseteq s
  BY <1>5, WithinIsLeast
<1>7. Within(policy) = visited
  BY <1>2, <1>3, <1>4, <1>6
<1> QED
  BY <1>1, <1>7 DEF Frontier, Mentioned

LEMMA OwnershipIsExact ==
    ASSUME NEW p, NEW m
    PROVE  OwnershipDiagnostics(p, m) = {} <=>
             /\ p.structured
             /\ m.role = "global" \/
                  /\ p.constrained
                  /\ \A t \in p.actions : NamespaceOwns(m.namespace, t)
                  /\ \A t \in p.actions \cup p.references : OwnedOrImported(m, t)
  BY DEF OwnershipDiagnostics, When

(* Whatever a policy is made of, it passes if and only if it is structured *)
(* and, in an ordinary module, acts on its own namespace and mentions at   *)
(* any depth nothing but that and the imports (validate_policy_ownership). *)
THEOREM ConfinedHolds == Spec => []Confined
<1>1. Inv => Confined
  <2> SUFFICES ASSUME Inv, pc = "judged"
               PROVE  found = {} <=>
                        /\ policy.structured
                        /\ module.role = "global" \/
                             /\ policy.constrained
                             /\ \A t \in policy.actions : NamespaceOwns(module.namespace, t)
                             /\ \A t \in Mentioned(policy) : OwnedOrImported(module, t)
    BY DEF Confined
  <2>1. found = OwnershipDiagnostics(Collected, module)
    BY DEF Inv
  <2>2. /\ Collected.structured = policy.structured
        /\ Collected.constrained = policy.constrained
        /\ Collected.actions = policy.actions
        /\ Collected.references = references
    BY DEF Collected
  <2>3. found = {} <=>
          /\ policy.structured
          /\ module.role = "global" \/
               /\ policy.constrained
               /\ \A t \in policy.actions : NamespaceOwns(module.namespace, t)
               /\ \A t \in policy.actions \cup references : OwnedOrImported(module, t)
    BY <2>1, <2>2, OwnershipIsExact
  <2>4. policy.actions \subseteq Mentioned(policy)
    BY DEF Mentioned, ScopeReferences
  <2>5. CASE Exempt
    BY <2>3, <2>5 DEF Exempt
  <2>6. CASE ~Exempt
    <3>1. references = Mentioned(policy)
      BY <2>6, WalkIsComplete
    <3> QED
      BY <2>3, <2>4, <3>1
  <2> QED
    BY <2>5, <2>6
<1> QED
  BY Invariance, <1>1, PTL
=============================================================================
