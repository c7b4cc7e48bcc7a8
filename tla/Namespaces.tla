----------------------------- MODULE Namespaces -----------------------------
(***************************************************************************)
(* Cedar namespaces as manifest.rs and archive.rs compare them: as byte    *)
(* strings.  A name is a sequence of ASCII codes, so that the byte order   *)
(* that sort_unstable uses, and its place for ':' between the digits and   *)
(* the letters, is the one of the program.                                 *)
(***************************************************************************)
EXTENDS Integers, Sequences

Colon == 58    \* '0'..'9' are 48..57, 'A'..'Z' 65..90, '_' 95, 'a'..'z' 97..122

IsName(n) == n \in Seq(Nat)

HasPrefix(name, root) ==
    /\ Len(root) <= Len(name)
    /\ \A i \in 1..Len(root) : name[i] = root[i]

(* manifest.rs namespace_owns: the root itself, or the root followed by "::". *)
NamespaceOwns(root, name) ==
    \/ name = root
    \/ /\ HasPrefix(name, root)
       /\ Len(root) + 2 <= Len(name)
       /\ name[Len(root) + 1] = Colon
       /\ name[Len(root) + 2] = Colon

NamespacesOverlap(left, right) == NamespaceOwns(left, right) \/ NamespaceOwns(right, left)

(* Rust's `<` on str: at the first byte that differs, or a proper prefix. *)
Before(left, right) ==
    \/ Len(left) < Len(right) /\ HasPrefix(right, left)
    \/ \E i \in 1..Len(left) :
         /\ i <= Len(right)
         /\ left[i] < right[i]
         /\ \A j \in 1..(i - 1) : left[j] = right[j]

NotAfter(left, right) == left = right \/ Before(left, right)

(* What sort_unstable establishes of a sequence of names. *)
NameSorted(names) == \A i, j \in 1..Len(names) : i < j => NotAfter(names[i], names[j])

(* The windows(2) scan that both validators run over the sorted namespaces. *)
AdjacentOverlap(names) ==
    \E i \in 1..(Len(names) - 1) : NamespacesOverlap(names[i], names[i + 1])

(* What the scan is there to exclude. *)
SomeOverlap(names) ==
    \E i, j \in 1..Len(names) : i < j /\ NamespacesOverlap(names[i], names[j])

(* A Cedar name never ends in ':'. *)
EndsInSegment(name) == Len(name) > 0 /\ name[Len(name)] # Colon

(* No digit: every byte of the name sorts at or after ':'. *)
DigitFree(name) == \A i \in 1..Len(name) : name[i] >= Colon
=============================================================================
