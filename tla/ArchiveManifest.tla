--------------------------- MODULE ArchiveManifest ---------------------------
(***************************************************************************)
(* validate_manifest of archive.rs: what the reader of an archive demands  *)
(* of manifest.json, checked again from nothing although the compiler      *)
(* (manifest.rs, validation.rs) has established most of it.  Every failure *)
(* is the same BundleError::Archive, so the checks are one conjunction.    *)
(***************************************************************************)
EXTENDS Namespaces, FiniteSets, Functions

CONSTANTS
    CedarNames,    \* the strings that parse::<EntityTypeName>() accepts
    FormatVersion, \* FORMAT_VERSION of lib.rs
    ThisGenerator  \* the three versions this build of the crate writes

Space == 32
(* str::trim().is_empty() *)
Blank(s) == \A i \in 1..Len(s) : s[i] = Space

ASSUME CedarNamesAssumption ==
    \A n \in CedarNames : n \in Seq(Nat) /\ EndsInSegment(n) /\ ~Blank(n)

(* sort_unstable: the permutation that brings the names into byte order.   *)
Sorting(names) ==
    CHOOSE p \in Bijection(1..Len(names), 1..Len(names)) :
        \A i, j \in 1..Len(names) : i < j => NotAfter(names[p[i]], names[p[j]])

SortedNames(names) == LET p == Sorting(names) IN [i \in 1..Len(names) |-> names[p[i]]]

(* windows(2).all(pair[0] < pair[1]) *)
OrderedByName(modules) ==
    \A i \in 1..(Len(modules) - 1) : Before(modules[i].name, modules[i + 1].name)

StrictlyIncreasing(ids) == \A i \in 1..(Len(ids) - 1) : ids[i] < ids[i + 1]

HasRepeats(s) == \E i, j \in 1..Len(s) : i # j /\ s[i] = s[j]

ElementsOf(s) == {s[i] : i \in 1..Len(s)}

NamespacesOf(modules) == [i \in 1..Len(modules) |-> modules[i].namespace]

ImportsValid(modules) ==
    \A i \in 1..Len(modules) :
        LET m == modules[i] IN
        /\ ElementsOf(m.imports) \subseteq ElementsOf(NamespacesOf(modules))
        /\ m.namespace \notin ElementsOf(m.imports)
        /\ ~HasRepeats(m.imports)

(* Every policy id is assigned once, and to a module of the list. *)
AssignmentsValid(modules, policyIds) ==
    /\ \A i, j \in 1..Len(modules) :
         \A p \in 1..Len(modules[i].policyIds), q \in 1..Len(modules[j].policyIds) :
            modules[i].policyIds[p] = modules[j].policyIds[q] => i = j /\ p = q
    /\ UNION {ElementsOf(modules[i].policyIds) : i \in 1..Len(modules)} = ElementsOf(policyIds)

(* The part of validate_manifest that is about the module list alone. *)
ModulesValid(modules) ==
    /\ modules # <<>>
    /\ OrderedByName(modules)
    /\ \A i \in 1..Len(modules) :
         ~Blank(modules[i].name) /\ modules[i].namespace \in CedarNames
    /\ ImportsValid(modules)
    /\ ~AdjacentOverlap(SortedNames(NamespacesOf(modules)))

ManifestValid(m) ==
    /\ m.version = FormatVersion
    /\ ~Blank(m.name)
    /\ m.generator = ThisGenerator
    /\ ModulesValid(m.modules)
    /\ StrictlyIncreasing(m.policyIds)
    /\ AssignmentsValid(m.modules, m.policyIds)
=============================================================================
