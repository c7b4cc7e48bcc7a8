---------------------------- MODULE CompileProofs ----------------------------
(***************************************************************************)
(* Proofs about Compile and Checks, for all bundles, files, judgements of  *)
(* cedar and numbers of runs and saves: a builder that is used again       *)
(* repeats itself as long as nobody has saved a file; a run ends in a      *)
(* filesystem failure only over a file that it could not read; what it     *)
(* ships has one owner, is the sum of the files it read, and passes the    *)
(* checks that validate-aggregate makes on its own; it finds an error if   *)
(* and only if the documents are unsound taken together; and check policy  *)
(* agrees with check module on the same files.                             *)
(***************************************************************************)
EXTENDS Checks, FiniteSetTheorems, NaturalsInduction, WellFoundedInduction, TLAPS

(***************************************************************************)
(* The least element of a set of naturals stands in for an induction.      *)
(***************************************************************************)
LEMMA LeastNatural ==
    ASSUME NEW T \in SUBSET Nat, T # {}
    PROVE  \E x \in T : \A y \in T : x <= y
<1>1. PICK x \in T : \A y \in T : ~ (<<y, x>> \in OpToRel(<, Nat))
  BY NatLessThanWellFounded, WFMin, Zenon
<1>2. ASSUME NEW y \in T PROVE x <= y
  <2>1. ~(y < x)
    BY <1>1 DEF OpToRel
  <2> QED BY <2>1
<1> QED BY <1>2

(***************************************************************************)
(* The queue is a sequence of inputs.                                      *)
(***************************************************************************)
Joined(f, seqs, n) ==
    f = [k \in 1..n |-> IF k = 1 THEN seqs[k] ELSE f[k - 1] \o seqs[k]]

LEMMA FlattenIsJoined ==
    ASSUME NEW S, NEW seqs, Len(seqs) \in Nat \ {0},
           \A k \in 1..Len(seqs) : seqs[k] \in Seq(S)
    PROVE  \E F : /\ FlattenSeq(seqs) = F[Len(seqs)]
                  /\ F[1] = seqs[1]
                  /\ \A k \in 2..Len(seqs) : F[k] = F[k - 1] \o seqs[k]
                  /\ \A k \in 1..Len(seqs) : F[k] \in Seq(S)
<1> DEFINE Has(n) == \E f \in [1..n -> Seq(S)] : Joined(f, seqs, n)
           T == {n \in 1..Len(seqs) : ~Has(n)}
<1>1. 1 \in 1..Len(seqs) => Has(1)
  <2> SUFFICES ASSUME 1 \in 1..Len(seqs) PROVE Has(1)
    OBVIOUS
  <2> DEFINE f == [k \in 1..1 |-> seqs[k]]
  <2>1. seqs[1] \in Seq(S) /\ \A k \in 1..1 : k = 1
    OBVIOUS
  <2>2. f \in [1..1 -> Seq(S)] /\ Joined(f, seqs, 1)
    BY <2>1 DEF Joined
  <2> QED BY <2>2
<1>2. ASSUME NEW n \in 2..Len(seqs), Has(n - 1) PROVE Has(n)
  <2>1. PICK f \in [1..(n - 1) -> Seq(S)] : Joined(f, seqs, n - 1)
    BY <1>2
  <2> DEFINE g == [k \in 1..n |-> IF k = n THEN f[n - 1] \o seqs[n] ELSE f[k]]
  <2>2. seqs[n] \in Seq(S) /\ n \in Nat /\ n - 1 \in 1..(n - 1)
    BY <1>2
  <2>3. f[n - 1] \o seqs[n] \in Seq(S)
    BY <2>2
  <2>4. g \in [1..n -> Seq(S)]
    BY <2>2, <2>3
  <2>7. n \in 1..n /\ n # 1
    BY <2>2
  <2>9. g[n] = f[n - 1] \o seqs[n]
    BY <2>7
  <2>8. ASSUME NEW k \in 1..(n - 1) PROVE g[k] = f[k]
    <3>1. k \in 1..n /\ k # n
      BY <2>2
    <3> QED BY <3>1
  <2> HIDE DEF g
  <2>5. ASSUME NEW k \in 1..n PROVE g[k] = IF k = 1 THEN seqs[k] ELSE g[k - 1] \o seqs[k]
    <3>1. CASE k = n
      BY <3>1, <2>2, <2>7, <2>8, <2>9
    <3>2. CASE k # n
      <4>1. k \in 1..(n - 1) /\ (k # 1 => k - 1 \in 1..(n - 1))
        BY <3>2, <2>2
      <4>2. g[k] = f[k] /\ (k # 1 => g[k - 1] = f[k - 1])
        BY <4>1, <2>8
      <4>3. f[k] = IF k = 1 THEN seqs[k] ELSE f[k - 1] \o seqs[k]
        BY <4>1, <2>1 DEF Joined
      <4> QED BY <4>2, <4>3
    <3> QED BY <3>1, <3>2
  <2>6. Joined(g, seqs, n)
    BY <2>4, <2>5 DEF Joined
  <2> QED BY <2>4, <2>6
<1>3. T = {}
  <2> SUFFICES ASSUME T # {} PROVE FALSE
    OBVIOUS
  <2>0. T \in SUBSET Nat
    OBVIOUS
  <2> HIDE DEF Has
  <2>1. PICK n \in T : \A m \in T : n <= m
    BY <2>0, LeastNatural
  <2>2. n \in 1..Len(seqs) /\ ~Has(n)
    OBVIOUS
  <2>3. n # 1
    BY <2>2, <1>1
  <2>4. n \in 2..Len(seqs) /\ n - 1 \in 1..Len(seqs)
    BY <2>2, <2>3
  <2>5. n - 1 \notin T
    BY <2>1, <2>2
  <2>6. Has(n - 1)
    BY <2>4, <2>5
  <2> QED BY <1>2, <2>2, <2>4, <2>6
<1>4. Len(seqs) \in 1..Len(seqs)
  OBVIOUS
<1>5. Has(Len(seqs))
  BY <1>3, <1>4
<1> DEFINE F == CHOOSE f : Joined(f, seqs, Len(seqs))
<1>6. Joined(F, seqs, Len(seqs))
  BY <1>5
<1>7. FlattenSeq(seqs) = F[Len(seqs)]
  BY DEF FlattenSeq, Joined
<1> HIDE DEF F
<1>8. F[1] = seqs[1] /\ \A k \in 2..Len(seqs) : F[k] = F[k - 1] \o seqs[k]
  <2>1. \A k \in 1..Len(seqs) : F[k] = IF k = 1 THEN seqs[k] ELSE F[k - 1] \o seqs[k]
    BY <1>6 DEF Joined
  <2>2. 1 \in 1..Len(seqs) /\ \A k \in 2..Len(seqs) : k \in 1..Len(seqs) /\ k # 1
    OBVIOUS
  <2> QED BY <2>1, <2>2
<1> DEFINE U == {k \in 1..Len(seqs) : F[k] \notin Seq(S)}
<1>9. U = {}
  <2> SUFFICES ASSUME U # {} PROVE FALSE
    OBVIOUS
  <2>0. U \in SUBSET Nat
    OBVIOUS
  <2>1. PICK k \in U : \A j \in U : k <= j
    BY <2>0, LeastNatural
  <2>2. k # 1
    BY <1>8
  <2>3. k \in 2..Len(seqs) /\ k - 1 \in 1..Len(seqs) /\ k - 1 \notin U
    BY <2>1, <2>2
  <2>4. F[k - 1] \in Seq(S) /\ seqs[k] \in Seq(S)
    BY <2>3
  <2>5. F[k - 1] \o seqs[k] \in Seq(S)
    BY <2>4
  <2> QED BY <1>8, <2>3, <2>5
<1> QED BY <1>7, <1>8, <1>9

LEMMA FlattenIsSequence ==
    ASSUME NEW S, NEW seqs, Len(seqs) \in Nat,
           \A k \in 1..Len(seqs) : seqs[k] \in Seq(S),
           Len(seqs) = 0 => seqs \in Seq(S)
    PROVE  FlattenSeq(seqs) \in Seq(S)
<1>1. CASE Len(seqs) = 0
  BY <1>1 DEF FlattenSeq
<1>2. CASE Len(seqs) # 0
  <2>1. PICK F : /\ FlattenSeq(seqs) = F[Len(seqs)]
                 /\ \A k \in 1..Len(seqs) : F[k] \in Seq(S)
    BY <1>2, FlattenIsJoined
  <2> QED BY <1>2, <2>1
<1> QED BY <1>1, <1>2

LEMMA ElementsJoined ==
    ASSUME NEW S, NEW s \in Seq(S), NEW t \in Seq(S)
    PROVE  ElementsOf(s \o t) = ElementsOf(s) \cup ElementsOf(t)
<1>1. /\ Len(s \o t) = Len(s) + Len(t) /\ Len(s) \in Nat /\ Len(t) \in Nat
      /\ \A i \in 1..Len(s) : (s \o t)[i] = s[i]
      /\ \A i \in 1..Len(t) : (s \o t)[Len(s) + i] = t[i]
  OBVIOUS
<1>2. ASSUME NEW e \in ElementsOf(s \o t) PROVE e \in ElementsOf(s) \cup ElementsOf(t)
  <2>1. PICK i \in 1..Len(s \o t) : e = (s \o t)[i]
    BY DEF ElementsOf
  <2>2. CASE i <= Len(s)
    <3>1. i \in 1..Len(s)
      BY <1>1, <2>2
    <3> QED BY <1>1, <2>1, <3>1 DEF ElementsOf
  <2>3. CASE i > Len(s)
    <3>1. i - Len(s) \in 1..Len(t) /\ Len(s) + (i - Len(s)) = i
      BY <1>1, <2>3
    <3>2. e = t[i - Len(s)]
      BY <1>1, <2>1, <3>1
    <3> QED BY <3>1, <3>2 DEF ElementsOf
  <2> QED BY <1>1, <2>2, <2>3
<1>3. ASSUME NEW e \in ElementsOf(s) PROVE e \in ElementsOf(s \o t)
  <2>1. PICK i \in 1..Len(s) : e = s[i]
    BY DEF ElementsOf
  <2>2. i \in 1..Len(s \o t)
    BY <1>1
  <2> QED BY <1>1, <2>1, <2>2 DEF ElementsOf
<1>4. ASSUME NEW e \in ElementsOf(t) PROVE e \in ElementsOf(s \o t)
  <2>1. PICK i \in 1..Len(t) : e = t[i]
    BY DEF ElementsOf
  <2>2. Len(s) + i \in 1..Len(s \o t)
    BY <1>1
  <2>3. e = (s \o t)[Len(s) + i]
    BY <1>1, <2>1
  <2> QED BY <2>2, <2>3 DEF ElementsOf
<1> QED BY <1>2, <1>3, <1>4

LEMMA FlattenHoldsAll ==
    ASSUME NEW S, NEW seqs, Len(seqs) \in Nat,
           \A k \in 1..Len(seqs) : seqs[k] \in Seq(S),
           NEW k \in 1..Len(seqs)
    PROVE  ElementsOf(seqs[k]) \subseteq ElementsOf(FlattenSeq(seqs))
<1>0. Len(seqs) \in Nat \ {0}
  OBVIOUS
<1>1. PICK F : /\ FlattenSeq(seqs) = F[Len(seqs)]
               /\ F[1] = seqs[1]
               /\ \A n \in 2..Len(seqs) : F[n] = F[n - 1] \o seqs[n]
               /\ \A n \in 1..Len(seqs) : F[n] \in Seq(S)
  BY <1>0, FlattenIsJoined
<1>2. ASSUME NEW n \in 2..Len(seqs)
      PROVE  ElementsOf(F[n]) = ElementsOf(F[n - 1]) \cup ElementsOf(seqs[n])
  <2>0. n \in 1..Len(seqs) /\ n - 1 \in 1..Len(seqs)
    OBVIOUS
  <2>1. F[n - 1] \in Seq(S) /\ seqs[n] \in Seq(S) /\ F[n] = F[n - 1] \o seqs[n]
    BY <1>1, <2>0
  <2>2. ElementsOf(F[n - 1] \o seqs[n]) = ElementsOf(F[n - 1]) \cup ElementsOf(seqs[n])
    BY <2>1, ElementsJoined
  <2> QED BY <2>1, <2>2
<1> DEFINE T == {n \in k..Len(seqs) : ~(ElementsOf(seqs[k]) \subseteq ElementsOf(F[n]))}
<1>3. T = {}
  <2> SUFFICES ASSUME T # {} PROVE FALSE
    OBVIOUS
  <2>0. T \in SUBSET Nat
    OBVIOUS
  <2>1. PICK n \in T : \A j \in T : n <= j
    BY <2>0, LeastNatural
  <2>2. CASE n = 1
    BY <2>2, <1>1, <2>1
  <2>3. CASE n # 1
    <3>1. n \in 2..Len(seqs) /\ n - 1 \notin T
      BY <2>1, <2>3
    <3>2. n # k
      BY <3>1, <1>2, <2>1
    <3>3. n - 1 \in k..Len(seqs)
      BY <2>1, <3>1, <3>2
    <3>4. ElementsOf(seqs[k]) \subseteq ElementsOf(F[n - 1])
      BY <3>1, <3>3
    <3> QED BY <3>1, <3>4, <1>2, <2>1
  <2> QED BY <2>2, <2>3
<1>4. Len(seqs) \in k..Len(seqs)
  OBVIOUS
<1>5. ElementsOf(seqs[k]) \subseteq ElementsOf(F[Len(seqs)])
  BY <1>3, <1>4
<1> QED BY <1>1, <1>5

(* The ids of a document, in order, are its ids.                           *)
LEMMA IdsInOrderAreIds ==
    ASSUME NEW policies, Len(policies) \in Nat
    PROVE  /\ IdsInOrder(policies) \in Seq(IdsOf(policies))
           /\ ElementsOf(IdsInOrder(policies)) = IdsOf(policies)
<1> DEFINE Id(i) == IF i \in Identified(policies) THEN <<policies[i].id>> ELSE <<>>
           seqs == [i \in 1..Len(policies) |-> Id(i)]
<1>1. ASSUME NEW i \in 1..Len(policies) PROVE Id(i) \in Seq(IdsOf(policies))
  <2>1. CASE i \in Identified(policies)
    <3>1. policies[i].id \in IdsOf(policies)
      BY <2>1 DEF IdsOf
    <3> QED BY <2>1, <3>1
  <2>2. CASE i \notin Identified(policies)
    BY <2>2
  <2> QED BY <2>1, <2>2
<1>2. ASSUME NEW i \in Identified(policies) PROVE policies[i].id \in ElementsOf(Id(i))
  <2>1. Id(i) = <<policies[i].id>>
    OBVIOUS
  <2> HIDE DEF Id
  <2>2. Len(Id(i)) = 1 /\ Id(i)[1] = policies[i].id
    BY <2>1
  <2> QED BY <2>2 DEF ElementsOf
<1> HIDE DEF Id
<1>3. Len(seqs) = Len(policies) /\ \A i \in 1..Len(policies) : seqs[i] = Id(i)
  OBVIOUS
<1>4. Len(seqs) = 0 => seqs \in Seq(IdsOf(policies))
  OBVIOUS
<1> HIDE DEF seqs
<1>5. FlattenSeq(seqs) \in Seq(IdsOf(policies))
  BY <1>1, <1>3, <1>4, FlattenIsSequence
<1>6. ASSUME NEW i \in Identified(policies) PROVE policies[i].id \in ElementsOf(FlattenSeq(seqs))
  <2>1. i \in 1..Len(policies)
    BY DEF Identified, Statics
  <2>2. ElementsOf(seqs[i]) \subseteq ElementsOf(FlattenSeq(seqs))
    BY <2>1, <1>1, <1>3, FlattenHoldsAll
  <2> QED BY <1>2, <1>3, <2>1, <2>2
<1>7. IdsInOrder(policies) = FlattenSeq(seqs)
  BY DEF IdsInOrder, seqs, Id
<1>8. IdsOf(policies) \subseteq ElementsOf(FlattenSeq(seqs))
  BY <1>6 DEF IdsOf
<1>9. ElementsOf(FlattenSeq(seqs)) \subseteq IdsOf(policies)
  BY <1>5 DEF ElementsOf
<1> QED BY <1>5, <1>7, <1>8, <1>9

InputsOf(b) ==
    {i \in [module : 1..Len(b), kind : {"policy", "schema", "label"}, path : DOMAIN Documents] :
        /\ i.kind = "policy" => i.path \in PolicyFiles
        /\ i.kind = "label" => i.path \in LabelFiles}

LEMMA TaggedIsSequence ==
    ASSUME NEW b, NEW m \in 1..Len(b), NEW kind \in {"policy", "schema", "label"},
           NEW paths \in Seq(DOMAIN Documents),
           kind = "policy" => ElementsOf(paths) \subseteq PolicyFiles,
           kind = "label" => ElementsOf(paths) \subseteq LabelFiles
    PROVE  Tagged(m, kind, paths) \in Seq(InputsOf(b))
<1>1. ASSUME NEW k \in 1..Len(paths)
      PROVE  [module |-> m, kind |-> kind, path |-> paths[k]] \in InputsOf(b)
  BY DEF InputsOf, ElementsOf
<1> QED BY <1>1 DEF Tagged

LEMMA QueueIsSequence ==
    ASSUME NEW b \in Bundles \cup Solo
    PROVE  Queue(b) \in Seq(InputsOf(b))
<1> DEFINE Of(m) == Tagged(m, "policy", b[m].policies)
                      \o Tagged(m, "schema", b[m].schemas)
                      \o Tagged(m, "label", b[m].labels)
           all == [m \in 1..Len(b) |-> Of(m)]
<1>1. Len(b) \in Nat /\ \A m \in 1..Len(b) :
        /\ b[m].policies \in Seq(DOMAIN Documents)
        /\ b[m].schemas \in Seq(DOMAIN Documents)
        /\ b[m].labels \in Seq(DOMAIN Documents)
  BY BundlesAssumption
<1>3. ASSUME NEW m \in 1..Len(b) PROVE Of(m) \in Seq(InputsOf(b))
  <2>1. Tagged(m, "policy", b[m].policies) \in Seq(InputsOf(b))
    <3>1. ElementsOf(b[m].policies) \subseteq PolicyFiles
      BY DEF PolicyFiles
    <3> QED BY <3>1, <1>1, TaggedIsSequence
  <2>2. Tagged(m, "schema", b[m].schemas) \in Seq(InputsOf(b))
    BY <1>1, TaggedIsSequence
  <2>3. Tagged(m, "label", b[m].labels) \in Seq(InputsOf(b))
    <3>1. ElementsOf(b[m].labels) \subseteq LabelFiles
      BY DEF LabelFiles
    <3> QED BY <3>1, <1>1, TaggedIsSequence
  <2> QED BY <2>1, <2>2, <2>3
<1> HIDE DEF Of
<1>4. Len(all) = Len(b) /\ \A m \in 1..Len(b) : all[m] = Of(m)
  BY <1>1
<1>5. Len(b) = 0 => all \in Seq(InputsOf(b))
  BY <1>1
<1>6. FlattenSeq(all) \in Seq(InputsOf(b))
  BY <1>1, <1>3, <1>4, <1>5, FlattenIsSequence
<1> QED BY <1>6 DEF Queue, Of

(***************************************************************************)
(* One run as a computation: what a run holds, and what reading an input   *)
(* makes of it, as functions of the bundle, its queue and the files.       *)
(***************************************************************************)
Now == [text |-> text, aggregate |-> aggregate, ids |-> ids, assigned |-> assigned,
        hasSchema |-> hasSchema, schema |-> schema, labels |-> labels,
        diagnostics |-> diagnostics, outcome |-> outcome]

Fresh(b) ==
    [text |-> <<>>, aggregate |-> <<>>, ids |-> {}, assigned |-> [k \in 1..Len(b) |-> <<>>],
     hasSchema |-> FALSE, schema |-> EmptySchema, labels |-> <<>>,
     diagnostics |-> {}, outcome |-> "running"]

Failed(s, file) ==
    [text |-> s.text, aggregate |-> s.aggregate, ids |-> s.ids, assigned |-> s.assigned,
     hasSchema |-> s.hasSchema, schema |-> s.schema, labels |-> s.labels,
     diagnostics |-> When(file = NotUtf8, "input.invalid_utf8"),
     outcome |-> IF file = Missing THEN "io" ELSE "invalid"]

AfterPolicies(s, file, module, m) ==
    IF file = Unparsable THEN [s EXCEPT !.diagnostics = s.diagnostics \cup {"policy.syntax"}]
    ELSE [s EXCEPT !.diagnostics = s.diagnostics \cup DocumentDiagnostics(file, module, s.ids),
                   !.ids = s.ids \cup IdsOf(file),
                   !.assigned = [s.assigned EXCEPT ![m] = @ \o IdsInOrder(file)],
                   !.aggregate = s.aggregate \o StaticsInOrder(file),
                   !.text = s.text \o file]

AfterSchema(s, file, module) ==
    IF file = Unparsable
    THEN [s EXCEPT !.diagnostics = s.diagnostics \cup {"schema.syntax"}, !.hasSchema = TRUE]
    ELSE [s EXCEPT !.hasSchema = TRUE,
                   !.diagnostics = s.diagnostics
                        \cup When(file.warns, "schema.warning")
                        \cup When(\E ns \in file.namespaces : ~NamespaceOwns(module.namespace, ns),
                                  "schema.namespace_violation")
                        \cup MergeDiagnostics(s.schema, file),
                   !.schema = MergeSchema(s.schema, file)]

AfterLabels(s, file, module) ==
    IF file = Unparsable
    THEN [s EXCEPT !.diagnostics = s.diagnostics \cup {"labels.invalid_json"}]
    ELSE IF LabelSetDiagnostics(file) # {}
    THEN [s EXCEPT !.diagnostics = s.diagnostics \cup LabelSetDiagnostics(file)]
    ELSE [s EXCEPT !.diagnostics = s.diagnostics \cup
                        When(\E i \in 1..Len(file) :
                                ~NamespaceOwns(module.namespace, file[i].target[1]),
                             "labels.namespace_violation"),
                   !.labels = s.labels \o file]

AfterInput(s, file, module, m, kind) ==
    IF file \in {Missing, NotUtf8} THEN Failed(s, file)
    ELSE IF kind = "policy" THEN AfterPolicies(s, file, module, m)
    ELSE IF kind = "schema" THEN AfterSchema(s, file, module)
    ELSE AfterLabels(s, file, module)

Continued(b, q, d, s, k) ==
    AfterInput(s, d[q[k].path], b[q[k].module], q[k].module, q[k].kind)

(* The aggregate checks and the verdict, as functions of what a run holds. *)
Found(s) ==
    s.diagnostics \cup
    (LET combined == IF LabelSetDiagnostics(s.labels) = {} THEN s.labels ELSE <<>> IN
     LabelSetDiagnostics(s.labels) \cup
     IF ~s.hasSchema THEN {"schema.compatibility_skipped"}
     ELSE IF SchemaLoads(s.schema)
          THEN StrictDiagnostics(s.aggregate, s.schema) \cup LabelSchemaDiagnostics(combined, s.schema)
          ELSE {"schema.aggregate_invalid"})

Verdict(b, found, denying) ==
    IF Errors(found) # {} \/ (denying /\ b \notin Solo /\ Warnings(found) # {})
    THEN "invalid" ELSE "ok"

(***************************************************************************)
(* The course of a run, up to its n-th input.                              *)
(***************************************************************************)
Course(t, n, b, q, d) ==
    /\ t[1] = Fresh(b)
    /\ \A k \in 1..(n - 1) :
          /\ k <= Len(q)
          /\ t[k].outcome = "running"
          /\ t[k + 1] = Continued(b, q, d, t[k], k)

Reached(s, n, b, q, d) == \E t : Course(t, n, b, q, d) /\ t[n] = s

EndsAs(found, verdict, denying, b, q, d) ==
    \E n \in Nat \ {0} : \E s : Reached(s, n, b, q, d) /\
        \/ s.outcome # "running" /\ found = s.diagnostics /\ verdict = s.outcome
        \/ /\ s.outcome = "running"
           /\ n > Len(q)
           /\ found = Found(s)
           /\ verdict = Verdict(b, found, denying)

LEMMA CourseBegins ==
    ASSUME NEW b, NEW q, NEW d
    PROVE  Reached(Fresh(b), 1, b, q, d)
<1> DEFINE t == [k \in {1} |-> Fresh(b)]
<1>1. t[1] = Fresh(b) /\ 1..(1 - 1) = {}
  OBVIOUS
<1> HIDE DEF t
<1>2. Course(t, 1, b, q, d)
  BY <1>1 DEF Course
<1> QED BY <1>1, <1>2 DEF Reached

LEMMA CourseContinues ==
    ASSUME NEW b, NEW q, NEW d, NEW s, NEW n \in Nat \ {0},
           Reached(s, n, b, q, d), s.outcome = "running", n <= Len(q)
    PROVE  Reached(Continued(b, q, d, s, n), n + 1, b, q, d)
<1>1. PICK t : Course(t, n, b, q, d) /\ t[n] = s
  BY DEF Reached
<1> DEFINE next == Continued(b, q, d, s, n)
           u == [k \in 1..(n + 1) |-> IF k <= n THEN t[k] ELSE next]
<1> HIDE DEF next
<1>2. /\ u[1] = t[1] /\ u[n] = s /\ u[n + 1] = next
      /\ \A k \in 1..(n - 1) : u[k] = t[k] /\ u[k + 1] = t[k + 1]
  BY <1>1
<1> HIDE DEF u
<1>3. ASSUME NEW k \in 1..((n + 1) - 1)
      PROVE  k <= Len(q) /\ u[k].outcome = "running" /\ u[k + 1] = Continued(b, q, d, u[k], k)
  <2>1. CASE k = n
    BY <2>1, <1>2 DEF next
  <2>2. CASE k # n
    <3>1. k \in 1..(n - 1)
      BY <2>2
    <3>2. k <= Len(q) /\ t[k].outcome = "running" /\ t[k + 1] = Continued(b, q, d, t[k], k)
      BY <3>1, <1>1 DEF Course
    <3> QED BY <3>1, <3>2, <1>2
  <2> QED BY <2>1, <2>2
<1>4. u[1] = Fresh(b)
  BY <1>1, <1>2 DEF Course
<1>5. Course(u, n + 1, b, q, d)
  BY <1>3, <1>4 DEF Course
<1> QED BY <1>2, <1>5 DEF Reached, next

(* Two runs over the same files hold the same as long as both go on.       *)
LEMMA CoursesAgree ==
    ASSUME NEW b, NEW q, NEW d, NEW t, NEW u, NEW n \in Nat \ {0}, NEW r \in Nat \ {0},
           Course(t, n, b, q, d), Course(u, r, b, q, d), n <= r
    PROVE  t[n] = u[n]
<1> DEFINE T == {k \in 1..n : t[k] # u[k]}
<1>0. n \in 1..n
  OBVIOUS
<1> SUFFICES ASSUME T # {} PROVE FALSE
  BY <1>0
<1>1. T \in SUBSET Nat
  OBVIOUS
<1>2. PICK k \in T : \A j \in T : k <= j
  BY <1>1, LeastNatural
<1>3. k \in 1..n /\ t[k] # u[k]
  BY <1>2
<1>4. k # 1
  BY <1>3 DEF Course
<1>5. k - 1 \in 1..n /\ k - 1 \in 1..(n - 1) /\ k - 1 \in 1..(r - 1) /\ (k - 1) + 1 = k
  BY <1>3, <1>4
<1>6. t[k - 1] = u[k - 1]
  BY <1>2, <1>3, <1>5
<1>7. t[k] = Continued(b, q, d, t[k - 1], k - 1) /\ u[k] = Continued(b, q, d, u[k - 1], k - 1)
  BY <1>5 DEF Course
<1> QED BY <1>3, <1>6, <1>7

LEMMA OneCourse ==
    ASSUME NEW b, NEW q, NEW d, NEW s1, NEW s2, NEW n \in Nat \ {0}, NEW r \in Nat \ {0},
           Reached(s1, n, b, q, d), Reached(s2, r, b, q, d)
    PROVE  /\ n = r => s1 = s2
           /\ n < r => s1.outcome = "running" /\ n <= Len(q)
<1>1. PICK t : Course(t, n, b, q, d) /\ t[n] = s1
  BY DEF Reached
<1>2. PICK u : Course(u, r, b, q, d) /\ u[r] = s2
  BY DEF Reached
<1>3. ASSUME n <= r PROVE t[n] = u[n]
  <2>1. Course(t, n, b, q, d) /\ Course(u, r, b, q, d)
    BY <1>1, <1>2
  <2> QED BY <2>1, <1>3, CoursesAgree
<1>4. CASE n = r
  BY <1>1, <1>2, <1>3, <1>4
<1>5. CASE n < r
  <2>1. n \in 1..(r - 1)
    BY <1>5
  <2>2. n <= Len(q) /\ u[n].outcome = "running"
    BY <2>1, <1>2 DEF Course
  <2> QED BY <2>2, <1>1, <1>3, <1>5
<1> QED BY <1>4, <1>5

(* So runs over the same files end alike.                                  *)
LEMMA OneEnd ==
    ASSUME NEW b, NEW q \in Seq(InputsOf(b)), NEW d,
           NEW f1, NEW v1, NEW d1, NEW f2, NEW v2, NEW d2,
           EndsAs(f1, v1, d1, b, q, d), EndsAs(f2, v2, d2, b, q, d)
    PROVE  f1 = f2 /\ (d1 = d2 => v1 = v2)
<1> DEFINE Closed(s, n, f, v, dn) ==
             \/ s.outcome # "running" /\ f = s.diagnostics /\ v = s.outcome
             \/ /\ s.outcome = "running"
                /\ n > Len(q)
                /\ f = Found(s)
                /\ v = Verdict(b, f, dn)
<1>1. PICK n \in Nat \ {0} : \E s : Reached(s, n, b, q, d) /\ Closed(s, n, f1, v1, d1)
  BY DEF EndsAs
<1>2. PICK s1 : Reached(s1, n, b, q, d) /\ Closed(s1, n, f1, v1, d1)
  BY <1>1
<1>3. PICK r \in Nat \ {0} : \E s : Reached(s, r, b, q, d) /\ Closed(s, r, f2, v2, d2)
  BY DEF EndsAs
<1>4. PICK s2 : Reached(s2, r, b, q, d) /\ Closed(s2, r, f2, v2, d2)
  BY <1>3
<1>5. ~(n < r)
  <2>1. ASSUME n < r PROVE FALSE
    <3>1. s1.outcome = "running" /\ n <= Len(q)
      BY <2>1, <1>2, <1>4, OneCourse
    <3>2. n > Len(q) /\ Len(q) \in Nat
      BY <3>1, <1>2
    <3> QED BY <3>1, <3>2
  <2> QED BY <2>1
<1>6. ~(r < n)
  <2>1. ASSUME r < n PROVE FALSE
    <3>1. s2.outcome = "running" /\ r <= Len(q)
      BY <2>1, <1>2, <1>4, OneCourse
    <3>2. r > Len(q) /\ Len(q) \in Nat
      BY <3>1, <1>4
    <3> QED BY <3>1, <3>2
  <2> QED BY <2>1
<1>7. n = r
  BY <1>5, <1>6
<1>8. s1 = s2
  BY <1>2, <1>4, <1>7, OneCourse
<1> QED BY <1>2, <1>4, <1>8

(***************************************************************************)
(* The actions are these functions.                                        *)
(***************************************************************************)
Kept == UNCHANGED <<bundle, queue, disk, mode, deny, previous, startedAt, edits>>

LEMMA FailureIsAfter ==
    ASSUME ReadFails
    PROVE  Now' = Continued(bundle, queue, disk, Now, position)
<1>1. File = disk[queue[position].path] /\ File \in {Missing, NotUtf8}
  BY DEF File, Input, ReadFails
<1>2. Continued(bundle, queue, disk, Now, position) = Failed(Now, File)
  BY <1>1 DEF Continued, AfterInput
<1>3. Now' = Failed(Now, File)
  BY DEF ReadFails, Now, Failed
<1> QED BY <1>2, <1>3

LEMMA ReadPoliciesIsAfter ==
    ASSUME ReadPolicies
    PROVE  Now' = Continued(bundle, queue, disk, Now, position)
<1>1. Input.kind = "policy" /\ queue[position] = Input
  BY DEF ReadPolicies, Reading, Input
<1> DEFINE result == AfterPolicies(Now, File, Module, Input.module)
<1>2. CASE File \in {Missing, NotUtf8}
  <2>1. ReadFails
    BY <1>2, MarkersAssumption DEF ReadPolicies, ReadRejected, Sound
  <2> QED BY <2>1, <1>1, <1>2, FailureIsAfter
<1>3. CASE File = Unparsable
  <2>1. Now' = result
    BY <1>3, MarkersAssumption DEF ReadPolicies, ReadFails, ReadRejected, Sound, Now, AfterPolicies
  <2> QED BY <2>1, <1>1, <1>3, MarkersAssumption DEF Continued, AfterInput, File, Module
<1>4. CASE File \notin {Missing, NotUtf8, Unparsable}
  <2>1. Now' = result
    BY <1>4 DEF ReadPolicies, ReadFails, ReadRejected, Sound, Now, AfterPolicies
  <2> QED BY <2>1, <1>1, <1>4 DEF Continued, AfterInput, File, Module
<1> QED BY <1>2, <1>3, <1>4

LEMMA ReadSchemaIsAfter ==
    ASSUME ReadSchema
    PROVE  Now' = Continued(bundle, queue, disk, Now, position)
<1>1. Input.kind = "schema" /\ queue[position] = Input
  BY DEF ReadSchema, Reading, Input
<1> DEFINE result == AfterSchema(Now, File, Module)
<1>2. CASE File \in {Missing, NotUtf8}
  <2>1. ReadFails
    BY <1>2, MarkersAssumption DEF ReadSchema, ReadRejected, Sound
  <2> QED BY <2>1, <1>1, <1>2, FailureIsAfter
<1>3. CASE File = Unparsable
  <2>1. Now' = result
    BY <1>3, MarkersAssumption DEF ReadSchema, ReadFails, ReadRejected, Sound, Now, AfterSchema
  <2> QED BY <2>1, <1>1, <1>3, MarkersAssumption DEF Continued, AfterInput, File, Module
<1>4. CASE File \notin {Missing, NotUtf8, Unparsable}
  <2>1. Now' = result
    BY <1>4 DEF ReadSchema, ReadFails, ReadRejected, Sound, Now, AfterSchema
  <2> QED BY <2>1, <1>1, <1>4 DEF Continued, AfterInput, File, Module
<1> QED BY <1>2, <1>3, <1>4

LEMMA ReadLabelsIsAfter ==
    ASSUME ReadLabels
    PROVE  Now' = Continued(bundle, queue, disk, Now, position)
<1>1. Input.kind = "label" /\ queue[position] = Input
  BY DEF ReadLabels, Reading, Input
<1> DEFINE result == AfterLabels(Now, File, Module)
<1>2. CASE File \in {Missing, NotUtf8}
  <2>1. ReadFails
    BY <1>2, MarkersAssumption DEF ReadLabels, ReadRejected, Sound
  <2> QED BY <2>1, <1>1, <1>2, FailureIsAfter
<1>3. CASE File = Unparsable
  <2>1. Now' = result
    BY <1>3, MarkersAssumption DEF ReadLabels, ReadFails, ReadRejected, Sound, Now, AfterLabels
  <2> QED BY <2>1, <1>1, <1>3, MarkersAssumption DEF Continued, AfterInput, File, Module
<1>4. CASE File \notin {Missing, NotUtf8, Unparsable}
  <2>1. Now' = result
    BY <1>4 DEF ReadLabels, ReadFails, ReadRejected, Sound, Now, AfterLabels
  <2> QED BY <2>1, <1>1, <1>4 DEF Continued, AfterInput, File, Module
<1> QED BY <1>2, <1>3, <1>4

Reads == ReadPolicies \/ ReadSchema \/ ReadLabels

LEMMA ReadsAre ==
    ASSUME Reads
    PROVE  /\ Now' = Continued(bundle, queue, disk, Now, position)
           /\ outcome = "running" /\ position <= Len(queue)
           /\ position' = position + 1 /\ seen' = Append(seen, File)
           /\ Kept
<1>1. Now' = Continued(bundle, queue, disk, Now, position)
  BY ReadPoliciesIsAfter, ReadSchemaIsAfter, ReadLabelsIsAfter DEF Reads
<1> QED BY <1>1 DEF Reads, ReadPolicies, ReadSchema, ReadLabels, Reading, Running, Read, Kept

LEMMA FinishIsVerdict ==
    ASSUME Finish, (mode = "module") <=> (bundle \in Solo)
    PROVE  /\ outcome = "running" /\ position > Len(queue)
           /\ diagnostics' = Found(Now)
           /\ outcome' = Verdict(bundle, Found(Now), deny)
           /\ outcome' \in {"ok", "invalid"}
           /\ Kept /\ position' = position /\ seen' = seen
<1>1. diagnostics' = Found(Now)
  BY DEF Finish, Found, Now, AggregateDiagnostics, Combined
<1>2. outcome' = Verdict(bundle, diagnostics', deny)
  BY DEF Finish, Verdict
<1> QED BY <1>1, <1>2 DEF Finish, Running, Kept, accumulators

(***************************************************************************)
(* The invariant.                                                          *)
(***************************************************************************)
Bookkeeping ==
    /\ bundle \in Bundles \cup Solo /\ queue = Queue(bundle)
    /\ position \in Nat \ {0}
    /\ outcome \in {"none", "running", "ok", "io", "invalid"}
    /\ edits \in Nat /\ startedAt \in Nat /\ previous.startedAt \in Nat
    /\ previous.startedAt <= startedAt /\ startedAt <= edits
    /\ outcome # "none" => ((mode = "module") <=> (bundle \in Solo))

(* With no save since it began, the run is on its course or has ended it.  *)
ThisRun ==
    outcome # "none" /\ edits = startedAt =>
        IF outcome = "running" THEN Reached(Now, position, bundle, queue, disk)
        ELSE EndsAs(diagnostics, outcome, deny, bundle, queue, disk)

(* The run before ended as it would now, with no save since it began.      *)
LastRun ==
    previous.outcome # "none" /\ edits = previous.startedAt =>
        EndsAs(previous.diagnostics, previous.outcome, previous.deny, bundle, queue, disk)

(* A file that could not be read is the last one that a run has opened.    *)
Told ==
    /\ \E Contents : seen \in Seq(Contents)
    /\ outcome = "io" => \E k \in 1..Len(seen) : seen[k] = Missing
    /\ outcome \in {"running", "ok", "invalid"} => \A k \in 1..Len(seen) : seen[k] # Missing

Inv == Bookkeeping /\ ThisRun /\ LastRun /\ Told

LEMMA InitInv == Init => Inv
<1> SUFFICES ASSUME Init PROVE Inv
  OBVIOUS
<1>1. Bookkeeping
  BY DEF Init, Bookkeeping
<1>2. ThisRun /\ LastRun
  BY DEF Init, ThisRun, LastRun
<1>3. seen \in Seq({}) /\ Told
  BY DEF Init, Told
<1> QED BY <1>1, <1>2, <1>3 DEF Inv

LEMMA QueueIsLong ==
    ASSUME Bookkeeping
    PROVE  queue \in Seq(InputsOf(bundle)) /\ Len(queue) \in Nat
<1>1. queue \in Seq(InputsOf(bundle))
  BY QueueIsSequence DEF Bookkeeping
<1> QED BY <1>1

LEMMA StartKeepsInv ==
    ASSUME Inv, NEW m \in {"check", "build", "module"}, NEW d \in BOOLEAN, Start(m, d)
    PROVE  Inv'
<1>1. Bookkeeping'
  BY DEF Inv, Bookkeeping, Start, FreshPosition
<1>2. Now' = Fresh(bundle)
  BY DEF Start, Now, Fresh, FreshText, FreshIds
<1>3. position' = 1 /\ outcome' = "running" /\ UNCHANGED <<bundle, queue, disk, edits>>
      /\ startedAt' = edits
  BY DEF Start, FreshPosition
<1>4. ThisRun'
  <2>1. Reached(Fresh(bundle), 1, bundle, queue, disk)
    BY CourseBegins
  <2>2. Reached(Now', position', bundle', queue', disk')
    BY <2>1, <1>2, <1>3
  <2> QED BY <2>2, <1>3 DEF ThisRun
<1>5. LastRun'
  <2> SUFFICES ASSUME (previous.outcome # "none")', (edits = previous.startedAt)'
               PROVE  EndsAs(previous.diagnostics, previous.outcome, previous.deny,
                            bundle, queue, disk)'
    BY DEF LastRun
  <2>1. /\ previous'.outcome = outcome /\ previous'.diagnostics = diagnostics
        /\ previous'.deny = deny /\ previous'.startedAt = startedAt
    BY DEF Start
  <2>2. outcome # "none" /\ outcome # "running" /\ edits = startedAt
    BY <2>1, <1>3 DEF Start
  <2>3. EndsAs(diagnostics, outcome, deny, bundle, queue, disk)
    BY <2>2 DEF Inv, ThisRun
  <2> QED BY <2>1, <2>3, <1>3
<1>6. Told'
  <2>1. seen' = <<>> /\ outcome' = "running"
    BY DEF Start
  <2>2. seen' \in Seq({})
    BY <2>1
  <2> QED BY <2>1, <2>2 DEF Told
<1> QED BY <1>1, <1>4, <1>5, <1>6 DEF Inv

(* The run before is not affected by what neither saves nor starts.        *)
LEMMA KeptLastRun ==
    ASSUME LastRun, Kept
    PROVE  LastRun'
<1>1. /\ previous' = previous /\ edits' = edits /\ bundle' = bundle /\ queue' = queue
      /\ disk' = disk
  BY DEF Kept
<1> SUFFICES ASSUME (previous.outcome # "none")', (edits = previous.startedAt)'
             PROVE  EndsAs(previous.diagnostics, previous.outcome, previous.deny,
                          bundle, queue, disk)'
  BY DEF LastRun
<1>2. EndsAs(previous.diagnostics, previous.outcome, previous.deny, bundle, queue, disk)
  BY <1>1 DEF LastRun
<1> QED BY <1>1, <1>2

LEMMA ReadOutcome ==
    ASSUME Reads, outcome = "running"
    PROVE  outcome' = IF File = Missing THEN "io"
                      ELSE IF File = NotUtf8 THEN "invalid" ELSE "running"
<1>1. CASE File \in {Missing, NotUtf8}
  <2>1. ReadFails
    BY <1>1, MarkersAssumption DEF Reads, ReadPolicies, ReadSchema, ReadLabels, ReadRejected, Sound
  <2> QED BY <1>1, <2>1 DEF ReadFails
<1>2. CASE File \notin {Missing, NotUtf8}
  <2>1. outcome' = outcome
    BY <1>2 DEF Reads, ReadPolicies, ReadSchema, ReadLabels, ReadRejected, ReadFails
  <2> QED BY <1>2, <2>1
<1> QED BY <1>1, <1>2

LEMMA ReadsKeepInv ==
    ASSUME Inv, Reads
    PROVE  Inv'
<1>1. /\ Now' = Continued(bundle, queue, disk, Now, position)
      /\ outcome = "running" /\ position <= Len(queue)
      /\ position' = position + 1 /\ seen' = Append(seen, File)
      /\ Kept
  BY ReadsAre
<1>2. outcome' = IF File = Missing THEN "io"
                 ELSE IF File = NotUtf8 THEN "invalid" ELSE "running"
  BY <1>1, ReadOutcome
<1>3. Bookkeeping'
  BY <1>1, <1>2 DEF Inv, Bookkeeping, Kept
<1>4. ThisRun'
  <2> SUFFICES ASSUME edits' = startedAt'
               PROVE  (IF outcome = "running" THEN Reached(Now, position, bundle, queue, disk)
                       ELSE EndsAs(diagnostics, outcome, deny, bundle, queue, disk))'
    BY DEF ThisRun
  <2>1. edits = startedAt /\ bundle' = bundle /\ queue' = queue /\ disk' = disk
    BY <1>1 DEF Kept
  <2>2. Reached(Now, position, bundle, queue, disk)
    BY <2>1, <1>1 DEF Inv, ThisRun
  <2>3. position \in Nat \ {0} /\ Now.outcome = "running"
    BY <1>1 DEF Inv, Bookkeeping, Now
  <2>4. Reached(Continued(bundle, queue, disk, Now, position), position + 1, bundle, queue, disk)
    BY <2>2, <2>3, <1>1, CourseContinues
  <2>5. Reached(Now', position', bundle', queue', disk')
    BY <2>4, <2>1, <1>1
  <2>6. CASE outcome' = "running"
    BY <2>5, <2>6
  <2>7. CASE outcome' # "running"
    <3>1. Now'.outcome = outcome' /\ Now'.diagnostics = diagnostics' /\ position' \in Nat \ {0}
      BY <2>3, <1>1 DEF Now
    <3>2. EndsAs(diagnostics', outcome', deny', bundle', queue', disk')
      BY <3>1, <2>5, <2>7 DEF EndsAs
    <3> QED BY <3>2, <2>7
  <2> QED BY <2>6, <2>7
<1>5. LastRun'
  BY <1>1, KeptLastRun DEF Inv
<1>6. Told'
  <2>1. PICK Contents : seen \in Seq(Contents)
    BY DEF Inv, Told
  <2> DEFINE More == Contents \cup {File}
  <2>2. seen \in Seq(More) /\ File \in More
    BY <2>1
  <2> HIDE DEF More
  <2>3. /\ seen' \in Seq(More) /\ Len(seen') = Len(seen) + 1 /\ Len(seen) \in Nat
        /\ seen'[Len(seen) + 1] = File
        /\ \A k \in 1..Len(seen) : seen'[k] = seen[k]
    BY <2>2, <1>1
  <2>4. \A k \in 1..Len(seen) : seen[k] # Missing
    BY <1>1 DEF Inv, Told
  <2>5. outcome' = "io" => \E k \in 1..Len(seen') : seen'[k] = Missing
    <3>1. outcome' = "io" => File = Missing
      BY <1>2
    <3>2. Len(seen) + 1 \in 1..Len(seen')
      BY <2>3
    <3> QED BY <3>1, <3>2, <2>3
  <2>6. outcome' \in {"running", "ok", "invalid"} => \A k \in 1..Len(seen') : seen'[k] # Missing
    <3>1. outcome' \in {"running", "ok", "invalid"} => File # Missing
      BY <1>2
    <3>2. ASSUME NEW k \in 1..Len(seen') PROVE k = Len(seen) + 1 \/ k \in 1..Len(seen)
      BY <2>3
    <3> QED BY <3>1, <3>2, <2>3, <2>4
  <2> QED BY <2>3, <2>5, <2>6 DEF Told
<1> QED BY <1>3, <1>4, <1>5, <1>6 DEF Inv

LEMMA FinishKeepsInv ==
    ASSUME Inv, Finish
    PROVE  Inv'
<1>1. /\ outcome = "running" /\ position > Len(queue)
      /\ diagnostics' = Found(Now)
      /\ outcome' = Verdict(bundle, Found(Now), deny)
      /\ outcome' \in {"ok", "invalid"}
      /\ Kept /\ position' = position /\ seen' = seen
  <2>1. outcome = "running"
    BY DEF Finish, Running
  <2>2. (mode = "module") <=> (bundle \in Solo)
    BY <2>1 DEF Inv, Bookkeeping
  <2> QED BY <2>2, FinishIsVerdict
<1>2. Bookkeeping'
  BY <1>1 DEF Inv, Bookkeeping, Kept
<1>3. ThisRun'
  <2> SUFFICES ASSUME edits' = startedAt'
               PROVE  EndsAs(diagnostics', outcome', deny', bundle', queue', disk')
    BY <1>1 DEF ThisRun
  <2>1. edits = startedAt /\ bundle' = bundle /\ queue' = queue /\ disk' = disk /\ deny' = deny
    BY <1>1 DEF Kept
  <2>2. Reached(Now, position, bundle, queue, disk)
    BY <2>1, <1>1 DEF Inv, ThisRun
  <2>3. position \in Nat \ {0} /\ Now.outcome = "running"
    BY <1>1 DEF Inv, Bookkeeping, Now
  <2>4. EndsAs(diagnostics', outcome', deny, bundle, queue, disk)
    BY <1>1, <2>2, <2>3 DEF EndsAs
  <2> QED BY <2>1, <2>4
<1>4. LastRun'
  BY <1>1, KeptLastRun DEF Inv
<1>5. Told'
  BY <1>1 DEF Inv, Told
<1> QED BY <1>2, <1>3, <1>4, <1>5 DEF Inv

LEMMA SaveKeepsInv ==
    ASSUME Inv, NEW path, NEW content, Save(path, content)
    PROVE  Inv'
<1>1. Bookkeeping'
  BY DEF Inv, Bookkeeping, Save, accumulators
<1>2. (edits # startedAt)' /\ (edits # previous.startedAt)'
  BY DEF Inv, Bookkeeping, Save
<1>3. ThisRun' /\ LastRun'
  BY <1>2 DEF ThisRun, LastRun
<1>4. Told'
  BY DEF Inv, Told, Save
<1> QED BY <1>1, <1>3, <1>4 DEF Inv

LEMMA StutterKeepsInv ==
    ASSUME Inv, UNCHANGED vars
    PROVE  Inv'
<1>1. Kept /\ Now' = Now
      /\ UNCHANGED <<position, diagnostics, outcome, deny, bundle, queue, disk, edits, startedAt,
                     mode, previous, seen>>
  BY DEF vars, accumulators, Kept, Now
<1>2. Bookkeeping'
  BY <1>1 DEF Inv, Bookkeeping
<1>3. ThisRun'
  <2> SUFFICES ASSUME (outcome # "none")', (edits = startedAt)'
               PROVE  (IF outcome = "running" THEN Reached(Now, position, bundle, queue, disk)
                       ELSE EndsAs(diagnostics, outcome, deny, bundle, queue, disk))'
    BY DEF ThisRun
  <2>1. IF outcome = "running" THEN Reached(Now, position, bundle, queue, disk)
        ELSE EndsAs(diagnostics, outcome, deny, bundle, queue, disk)
    BY <1>1 DEF Inv, ThisRun
  <2> QED BY <1>1, <2>1
<1>4. LastRun'
  BY <1>1, KeptLastRun DEF Inv
<1>5. Told'
  BY <1>1 DEF Inv, Told
<1> QED BY <1>2, <1>3, <1>4, <1>5 DEF Inv

LEMMA NextKeepsInv == Inv /\ [Next]_vars => Inv'
<1> SUFFICES ASSUME Inv, [Next]_vars PROVE Inv'
  OBVIOUS
<1>1. ASSUME NEW m \in {"check", "build", "module"}, NEW d \in BOOLEAN, Start(m, d) PROVE Inv'
  BY <1>1, StartKeepsInv
<1>2. CASE Reads
  BY <1>2, ReadsKeepInv
<1>3. CASE Finish
  BY <1>3, FinishKeepsInv
<1>4. ASSUME NEW path, NEW content, Save(path, content) PROVE Inv'
  BY <1>4, SaveKeepsInv
<1>5. CASE UNCHANGED vars
  BY <1>5, StutterKeepsInv
<1> QED BY <1>1, <1>2, <1>3, <1>4, <1>5 DEF Next, Step, Reads, Idle

LEMMA AlwaysInv == Spec => []Inv
BY InitInv, NextKeepsInv, PTL DEF Spec

(***************************************************************************)
(* Theorems.                                                               *)
(***************************************************************************)
(* A check announces what the build will do: with no save since the run    *)
(* before began, a run of a builder repeats its diagnostics, and its       *)
(* verdict under the same deny_warnings (builder.rs check and build).      *)
THEOREM CheckPredictsBuildHolds == Spec => []CheckPredictsBuild
<1>1. Inv => CheckPredictsBuild
  <2> SUFFICES ASSUME Inv, outcome \in {"ok", "io", "invalid"}, previous.outcome # "none",
                      edits = previous.startedAt
               PROVE  diagnostics = previous.diagnostics
                      /\ (deny = previous.deny => outcome = previous.outcome)
    BY DEF CheckPredictsBuild
  <2>1. edits = startedAt
    BY DEF Inv, Bookkeeping
  <2>2. EndsAs(diagnostics, outcome, deny, bundle, queue, disk)
    BY <2>1 DEF Inv, ThisRun
  <2>3. EndsAs(previous.diagnostics, previous.outcome, previous.deny, bundle, queue, disk)
    BY DEF Inv, LastRun
  <2>4. queue \in Seq(InputsOf(bundle))
    BY QueueIsLong DEF Inv
  <2> QED BY <2>2, <2>3, <2>4, OneEnd
<1> QED BY <1>1, AlwaysInv, PTL

(* A run ends in a filesystem failure if and only if it met an input that  *)
(* it could not read (read_utf8 of validation.rs), whatever was wrong with *)
(* the content of the inputs before.                                       *)
THEOREM UnreadableIsIoHolds == Spec => []UnreadableIsIo
<1>1. Inv => UnreadableIsIo
  BY DEF Inv, Told, UnreadableIsIo
<1> QED BY <1>1, AlwaysInv, PTL

(* Disjoint namespaces are what makes ownership a function: two modules    *)
(* that both own a name have overlapping namespaces, digits or not.        *)
THEOREM OwnersOverlap ==
    ASSUME NEW a, NEW b, NEW n, IsName(a), IsName(b), IsName(n),
           EndsInSegment(a), EndsInSegment(b),
           NamespaceOwns(a, n), NamespaceOwns(b, n)
    PROVE  NamespacesOverlap(a, b)
<1> USE DEF IsName
<1>0. Len(a) \in Nat /\ Len(b) \in Nat /\ Len(n) \in Nat
  OBVIOUS
<1>1. ASSUME NEW x \in Seq(Nat), NEW y \in Seq(Nat), EndsInSegment(y),
             NamespaceOwns(x, n), NamespaceOwns(y, n), Len(x) <= Len(y)
      PROVE  NamespaceOwns(x, y)
  <2>1. HasPrefix(n, x) /\ HasPrefix(n, y)
    BY <1>1, <1>0 DEF NamespaceOwns, HasPrefix
  <2>2. HasPrefix(y, x)
    BY <1>1, <2>1 DEF HasPrefix
  <2>3. CASE Len(x) = Len(y)
    <3>1. \A i \in 1..Len(x) : x[i] = y[i]
      BY <2>2 DEF HasPrefix
    <3>2. x = [i \in 1..Len(x) |-> x[i]] /\ y = [i \in 1..Len(y) |-> y[i]]
      BY <1>1
    <3>3. x = y
      BY <2>3, <3>1, <3>2, Zenon
    <3> QED BY <3>3 DEF NamespaceOwns
  <2>4. CASE Len(x) < Len(y)
    <3>1. x # n
      BY <2>1, <2>4, <1>0, <1>1 DEF HasPrefix
    <3>2. n[Len(x) + 1] = Colon /\ n[Len(x) + 2] = Colon
      BY <3>1, <1>1 DEF NamespaceOwns
    <3>3. y[Len(x) + 1] = Colon
      <4>1. Len(x) + 1 \in 1..Len(y)
        BY <2>4
      <4> QED BY <4>1, <3>2, <2>1 DEF HasPrefix
    <3>4. Len(x) + 2 <= Len(y)
      BY <3>3, <2>4, <1>1 DEF EndsInSegment
    <3>5. y[Len(x) + 2] = Colon
      BY <3>2, <3>4, <2>1, <1>1 DEF HasPrefix
    <3> QED BY <2>2, <3>3, <3>4, <3>5 DEF NamespaceOwns
  <2> QED BY <2>3, <2>4, <1>1
<1>2. Len(a) <= Len(b) \/ Len(b) <= Len(a)
  BY <1>0
<1> QED BY <1>1, <1>2 DEF NamespacesOverlap

(***************************************************************************)
(* One owner.  While nothing is wrong, the ids assigned to the modules are *)
(* disjoint, and every policy read is under the module that listed it.     *)
(***************************************************************************)
DiskTyped == DOMAIN disk = DOMAIN Documents /\ \A path \in DOMAIN disk : disk[path] \in Documents[path]

AssignedTyped == assigned \in [1..Len(bundle) -> Seq(ids)]

Disjoint(given) ==
    \A m, n \in 1..Len(bundle) : m # n => ElementsOf(given[m]) \cap ElementsOf(given[n]) = {}

Vetted(file, m, given) ==
    /\ \A p \in 1..Len(file) : file[p].id \in ElementsOf(given[m])
    /\ bundle[m].role = "ordinary" =>
         \A p \in 1..Len(file) : \A t \in file[p].actions :
            t \in Seq(Nat) /\ NamespaceOwns(bundle[m].namespace, t)

Recorded ==
    outcome = "running" /\ Errors(diagnostics) = {} =>
        /\ Disjoint(assigned)
        /\ \A k \in 1..Len(seen) : queue[k].kind = "policy" =>
              Vetted(seen[k], queue[k].module, assigned)

Counted == outcome = "running" => Len(seen) = position - 1 /\ parts = NoParts

OwnerInv == Inv /\ DiskTyped /\ AssignedTyped /\ Recorded /\ Counted /\ OneOwner

LEMMA ErrorsGrow ==
    ASSUME NEW before, NEW after, before \subseteq after, Errors(after) = {}
    PROVE  Errors(before) = {}
  BY DEF Errors

LEMMA DiagnosticsGrow ==
    ASSUME Reads, outcome' = "running"
    PROVE  diagnostics \subseteq diagnostics'
<1>1. ~ReadFails
  BY DEF ReadFails
<1> QED BY <1>1 DEF Reads, ReadPolicies, ReadSchema, ReadLabels, ReadRejected

(* What a policy document without an error is like.                        *)
LEMMA DocumentIsSound ==
    ASSUME NEW policies, NEW module, NEW known,
           Errors(DocumentDiagnostics(policies, module, known)) = {}
    PROVE  /\ Identified(policies) = 1..Len(policies)
           /\ IdsOf(policies) \cap known = {}
           /\ module.role = "ordinary" =>
                \A p \in 1..Len(policies) : \A t \in policies[p].actions :
                    NamespaceOwns(module.namespace, t)
<1> DEFINE All == DocumentDiagnostics(policies, module, known)
<1>1. \A code \in All : code \in WarningCodes
  BY DEF Errors
<1>2. "policy.templates_unsupported" \notin All /\ "policy.missing_id" \notin All
      /\ "policy.duplicate_id" \notin All /\ "policy.action_namespace_violation" \notin All
      /\ "policy.structured_representation" \notin All
  BY <1>1 DEF WarningCodes
<1>3. TemplateDiagnostics(policies) \subseteq All /\ IdDiagnostics(policies, known) \subseteq All
  BY DEF DocumentDiagnostics
<1>4. \A i \in Identified(policies) : OwnershipDiagnostics(policies[i], module) \subseteq All
  BY DEF DocumentDiagnostics
<1> HIDE DEF All
<1>5. \A i \in 1..Len(policies) : policies[i].static
  BY <1>2, <1>3 DEF TemplateDiagnostics, When
<1>6. Identified(policies) = Statics(policies)
  BY <1>2, <1>3 DEF IdDiagnostics, When
<1>7. Identified(policies) = 1..Len(policies)
  BY <1>5, <1>6 DEF Statics
<1>8. IdsOf(policies) \cap known = {}
  BY <1>2, <1>3 DEF IdDiagnostics, When
<1>9. ASSUME module.role = "ordinary", NEW p \in 1..Len(policies), NEW t \in policies[p].actions
      PROVE  NamespaceOwns(module.namespace, t)
  <2>1. OwnershipDiagnostics(policies[p], module) \subseteq All
    BY <1>4, <1>7
  <2>2. policies[p].structured
    BY <2>1, <1>2 DEF OwnershipDiagnostics
  <2>3. When(\E u \in policies[p].actions : ~NamespaceOwns(module.namespace, u),
             "policy.action_namespace_violation") \subseteq All
    BY <2>1, <2>2, <1>9 DEF OwnershipDiagnostics
  <2> QED BY <2>3, <1>2 DEF When
<1> QED BY <1>7, <1>8, <1>9

AnyPolicy == {policy \in UNION {UNION {ElementsOf(c) : c \in Parsed(path)} : path \in PolicyFiles} :
                 policy.id \in Nat /\ policy.actions \subseteq Seq(Nat)}
AnyRule == UNION {UNION {ElementsOf(c) : c \in Parsed(path)} : path \in LabelFiles}

LEMMA FileIsDocument ==
    ASSUME Bookkeeping, DiskTyped, position <= Len(queue)
    PROVE  /\ Input \in InputsOf(bundle)
           /\ Input.kind = "policy" /\ Sound =>
                /\ File \in Seq(AnyPolicy) /\ Len(File) \in Nat
                /\ \A p \in 1..Len(File) : File[p].id \in Nat /\ File[p].actions \subseteq Seq(Nat)
           /\ Input.kind = "label" /\ Sound => File \in Seq(AnyRule)
<1>1. queue \in Seq(InputsOf(bundle)) /\ position \in 1..Len(queue)
  BY QueueIsLong DEF Bookkeeping
<1>2. Input \in InputsOf(bundle)
  BY <1>1 DEF Input
<1>3. File \in Documents[Input.path] /\ (Sound => File \in Parsed(Input.path))
  BY <1>2 DEF File, DiskTyped, InputsOf, Parsed, Sound
<1>4. ASSUME Input.kind = "policy", Sound
      PROVE  /\ File \in Seq(AnyPolicy) /\ Len(File) \in Nat
             /\ \A p \in 1..Len(File) : File[p].id \in Nat /\ File[p].actions \subseteq Seq(Nat)
  <2>1. Input.path \in PolicyFiles
    BY <1>2, <1>4 DEF InputsOf
  <2>2. /\ File \in Seq(ElementsOf(File))
        /\ \A policy \in ElementsOf(File) : policy.id \in Nat /\ policy.actions \subseteq Seq(Nat)
    BY <2>1, <1>3, <1>4, DocumentsAssumption
  <2>3. ElementsOf(File) \subseteq AnyPolicy
    BY <2>1, <2>2, <1>3, <1>4 DEF AnyPolicy
  <2>4. \A p \in 1..Len(File) : File[p] \in ElementsOf(File)
    BY DEF ElementsOf
  <2> QED BY <2>2, <2>3, <2>4
<1>5. ASSUME Input.kind = "label", Sound
      PROVE  File \in Seq(AnyRule)
  <2>1. Input.path \in LabelFiles
    BY <1>2, <1>5 DEF InputsOf
  <2>2. File \in Seq(ElementsOf(File))
    BY <2>1, <1>3, <1>5, DocumentsAssumption
  <2>3. ElementsOf(File) \subseteq AnyRule
    BY <2>1, <1>3, <1>5 DEF AnyRule
  <2> QED BY <2>2, <2>3
<1> QED BY <1>2, <1>4, <1>5

(* Recording a sound document: ids stay disjoint, and it is vetted.        *)
LEMMA DocumentIsRecorded ==
    ASSUME NEW file, Len(file) \in Nat, NEW m \in 1..Len(bundle),
           \A p \in 1..Len(file) : file[p].actions \subseteq Seq(Nat),
           AssignedTyped, Disjoint(assigned),
           Errors(DocumentDiagnostics(file, bundle[m], ids)) = {}
    PROVE  LET given == [assigned EXCEPT ![m] = @ \o IdsInOrder(file)] IN
           /\ Disjoint(given)
           /\ Vetted(file, m, given)
           /\ \A n \in 1..Len(bundle) : ElementsOf(assigned[n]) \subseteq ElementsOf(given[n])
<1> DEFINE given == [assigned EXCEPT ![m] = @ \o IdsInOrder(file)]
<1>1. /\ Identified(file) = 1..Len(file)
      /\ IdsOf(file) \cap ids = {}
      /\ bundle[m].role = "ordinary" =>
           \A p \in 1..Len(file) : \A t \in file[p].actions : NamespaceOwns(bundle[m].namespace, t)
  BY DocumentIsSound
<1>2. IdsInOrder(file) \in Seq(IdsOf(file)) /\ ElementsOf(IdsInOrder(file)) = IdsOf(file)
  BY IdsInOrderAreIds
<1>3. \A n \in 1..Len(bundle) : assigned[n] \in Seq(ids) /\ ElementsOf(assigned[n]) \subseteq ids
  BY DEF AssignedTyped, ElementsOf
<1>4. given[m] = assigned[m] \o IdsInOrder(file)
      /\ \A n \in 1..Len(bundle) : n # m => given[n] = assigned[n]
  BY DEF AssignedTyped
<1>5. ElementsOf(given[m]) = ElementsOf(assigned[m]) \cup IdsOf(file)
  <2> DEFINE Ids == ids \cup IdsOf(file)
  <2>1. assigned[m] \in Seq(Ids) /\ IdsInOrder(file) \in Seq(Ids)
    BY <1>2, <1>3
  <2> HIDE DEF Ids
  <2>2. ElementsOf(assigned[m] \o IdsInOrder(file)) = ElementsOf(assigned[m]) \cup ElementsOf(IdsInOrder(file))
    BY <2>1, ElementsJoined
  <2> HIDE DEF given
  <2> QED BY <2>2, <1>2, <1>4
<1> HIDE DEF given
<1>6. Disjoint(given)
  <2> SUFFICES ASSUME NEW i \in 1..Len(bundle), NEW j \in 1..Len(bundle), i # j
               PROVE  ElementsOf(given[i]) \cap ElementsOf(given[j]) = {}
    BY DEF Disjoint
  <2>1. ElementsOf(assigned[i]) \cap ElementsOf(assigned[j]) = {}
    BY DEF Disjoint
  <2>2. CASE i = m
    BY <2>1, <2>2, <1>1, <1>3, <1>4, <1>5
  <2>3. CASE j = m
    BY <2>1, <2>3, <1>1, <1>3, <1>4, <1>5
  <2>4. CASE i # m /\ j # m
    BY <2>1, <2>4, <1>4
  <2> QED BY <2>2, <2>3, <2>4
<1>7. Vetted(file, m, given)
  <2>1. \A p \in 1..Len(file) : file[p].id \in IdsOf(file)
    BY <1>1 DEF IdsOf
  <2> QED BY <2>1, <1>1, <1>5 DEF Vetted
<1>8. \A n \in 1..Len(bundle) : ElementsOf(assigned[n]) \subseteq ElementsOf(given[n])
  BY <1>4, <1>5
<1> QED BY <1>6, <1>7, <1>8 DEF given

LEMMA ReadsKeepTyped ==
    ASSUME Inv, DiskTyped, AssignedTyped, Reads
    PROVE  AssignedTyped'
<1>1. bundle' = bundle /\ position <= Len(queue) /\ Bookkeeping
  BY ReadsAre DEF Kept, Inv
<1>2. CASE assigned' = assigned /\ ids' = ids
  BY <1>1, <1>2 DEF AssignedTyped
<1>3. CASE ReadPolicies /\ Sound
  <2>1. ids' = ids \cup IdsOf(File)
        /\ assigned' = [assigned EXCEPT ![Input.module] = @ \o IdsInOrder(File)]
    BY <1>3 DEF ReadPolicies, Sound, ReadFails, ReadRejected
  <2>2. Input.kind = "policy"
    BY <1>3 DEF ReadPolicies, Reading
  <2>3. Len(File) \in Nat /\ Input.module \in 1..Len(bundle)
    BY <1>1, <1>3, <2>2, FileIsDocument DEF InputsOf
  <2>4. IdsInOrder(File) \in Seq(IdsOf(File))
    BY <2>3, IdsInOrderAreIds
  <2>5. \A n \in 1..Len(bundle) : assigned[n] \in Seq(ids \cup IdsOf(File))
    BY DEF AssignedTyped
  <2>6. assigned[Input.module] \o IdsInOrder(File) \in Seq(ids \cup IdsOf(File))
    BY <2>3, <2>4, <2>5
  <2> QED BY <1>1, <2>1, <2>3, <2>5, <2>6 DEF AssignedTyped
<1> QED BY <1>2, <1>3 DEF Reads, ReadPolicies, ReadSchema, ReadLabels, ReadFails, ReadRejected, Sound

LEMMA VettedStays ==
    ASSUME NEW file, NEW m \in 1..Len(bundle), NEW given, NEW more,
           \A n \in 1..Len(bundle) : ElementsOf(given[n]) \subseteq ElementsOf(more[n]),
           Vetted(file, m, given)
    PROVE  Vetted(file, m, more)
  BY DEF Vetted

LEMMA ReadsKeepRecorded ==
    ASSUME Inv, DiskTyped, AssignedTyped, Recorded, Counted, Reads
    PROVE  Recorded'
<1> SUFFICES ASSUME outcome' = "running", Errors(diagnostics') = {}
             PROVE  /\ Disjoint(assigned')
                    /\ \A k \in 1..Len(seen') : queue[k].kind = "policy" =>
                          Vetted(seen'[k], queue[k].module, assigned')
  <2>1. bundle' = bundle /\ queue' = queue
    BY ReadsAre DEF Kept
  <2> QED BY <2>1 DEF Recorded, Disjoint, Vetted
<1>1. /\ outcome = "running" /\ position <= Len(queue) /\ seen' = Append(seen, File)
      /\ Bookkeeping /\ Len(seen) = position - 1
  BY ReadsAre DEF Inv, Counted
<1>2. Errors(diagnostics) = {}
  BY DiagnosticsGrow, ErrorsGrow
<1>3. /\ Disjoint(assigned)
      /\ \A k \in 1..Len(seen) : queue[k].kind = "policy" => Vetted(seen[k], queue[k].module, assigned)
  BY <1>1, <1>2 DEF Recorded
<1>4. PICK Contents : seen \in Seq(Contents)
  BY DEF Inv, Told
<1> DEFINE More == Contents \cup {File}
<1>5. seen \in Seq(More) /\ File \in More
  BY <1>4
<1> HIDE DEF More
<1>6. /\ Len(seen') = position /\ position \in Nat \ {0} /\ seen'[position] = File
      /\ \A k \in 1..Len(seen) : seen'[k] = seen[k]
      /\ \A k \in 1..position : k = position \/ k \in 1..Len(seen)
  BY <1>1, <1>5 DEF Bookkeeping
<1>7. queue[position] = Input /\ queue \in Seq(InputsOf(bundle)) /\ Len(queue) \in Nat
  BY <1>1, QueueIsLong DEF Input
<1>8. \A k \in 1..position : queue[k].module \in 1..Len(bundle)
  BY <1>1, <1>6, <1>7 DEF InputsOf
<1>9. ASSUME Disjoint(assigned'),
             \A n \in 1..Len(bundle) : ElementsOf(assigned[n]) \subseteq ElementsOf(assigned'[n]),
             Input.kind = "policy" => Vetted(File, Input.module, assigned')
      PROVE  /\ Disjoint(assigned')
             /\ \A k \in 1..Len(seen') : queue[k].kind = "policy" =>
                   Vetted(seen'[k], queue[k].module, assigned')
  <2>1. ASSUME NEW k \in 1..Len(seen'), queue[k].kind = "policy"
        PROVE  Vetted(seen'[k], queue[k].module, assigned')
    <3>1. CASE k = position
      BY <3>1, <2>1, <1>6, <1>7, <1>9
    <3>2. CASE k \in 1..Len(seen)
      <4>1. Vetted(seen[k], queue[k].module, assigned) /\ queue[k].module \in 1..Len(bundle)
        BY <3>2, <2>1, <1>3, <1>6, <1>8
      <4>2. Vetted(seen[k], queue[k].module, assigned')
        BY <4>1, <1>9, VettedStays
      <4> QED BY <4>2, <3>2, <1>6
    <3> QED BY <3>1, <3>2, <1>6
  <2> QED BY <2>1, <1>9
<1>10. CASE Input.kind # "policy"
  <2>1. assigned' = assigned
    BY <1>10 DEF Reads, ReadPolicies, ReadSchema, ReadLabels, ReadFails, ReadRejected, Reading
  <2> QED BY <2>1, <1>3, <1>9, <1>10
<1>11. CASE Input.kind = "policy"
  <2>1. ReadPolicies
    BY <1>11 DEF Reads, ReadSchema, ReadLabels, Reading
  <2>2. ~ReadFails
    BY DEF ReadFails
  <2>3. ~ReadRejected("policy.syntax")
    <3>1. ASSUME ReadRejected("policy.syntax") PROVE FALSE
      <4>1. "policy.syntax" \in diagnostics' /\ "policy.syntax" \notin WarningCodes
        BY <3>1 DEF ReadRejected, WarningCodes
      <4> QED BY <4>1 DEF Errors
    <3> QED BY <3>1
  <2>4. /\ Sound
        /\ diagnostics' = diagnostics \cup DocumentDiagnostics(File, Module, ids)
        /\ assigned' = [assigned EXCEPT ![Input.module] = @ \o IdsInOrder(File)]
    BY <2>1, <2>2, <2>3 DEF ReadPolicies
  <2>5. Len(File) \in Nat /\ (\A p \in 1..Len(File) : File[p].actions \subseteq Seq(Nat))
        /\ Input.module \in 1..Len(bundle)
    BY <1>1, <1>11, <2>4, FileIsDocument DEF InputsOf
  <2>6. Errors(DocumentDiagnostics(File, bundle[Input.module], ids)) = {}
    BY <2>4, ErrorsGrow DEF Module
  <2>7. /\ Disjoint(assigned')
        /\ Vetted(File, Input.module, assigned')
        /\ \A n \in 1..Len(bundle) : ElementsOf(assigned[n]) \subseteq ElementsOf(assigned'[n])
    BY <2>4, <2>5, <2>6, <1>3, DocumentIsRecorded
  <2> QED BY <2>7, <1>9
<1> QED BY <1>10, <1>11

LEMMA InitOwner == Init => OwnerInv
<1> SUFFICES ASSUME Init PROVE OwnerInv
  OBVIOUS
<1>1. DiskTyped
  BY DocumentsAssumption DEF Init, DiskTyped
<1>2. AssignedTyped
  BY DEF Init, AssignedTyped
<1>3. Recorded /\ Counted /\ OneOwner
  BY DEF Init, Recorded, Counted, OneOwner, Built
<1> QED BY <1>1, <1>2, <1>3, InitInv DEF OwnerInv

LEMMA StartKeepsOwner ==
    ASSUME OwnerInv, NEW m \in {"check", "build", "module"}, NEW d \in BOOLEAN, Start(m, d)
    PROVE  OwnerInv'
<1>1. Inv'
  BY StartKeepsInv DEF OwnerInv
<1>2. /\ bundle' = bundle /\ disk' = disk /\ seen' = <<>> /\ parts' = NoParts /\ position' = 1
      /\ ids' = {} /\ assigned' = [k \in 1..Len(bundle) |-> <<>>]
  BY DEF Start, FreshPosition, FreshIds
<1>3. DiskTyped' /\ AssignedTyped' /\ Counted' /\ OneOwner'
  BY <1>2 DEF OwnerInv, DiskTyped, AssignedTyped, Counted, OneOwner, Built
<1>4. \A k \in 1..Len(bundle) : ElementsOf(assigned'[k]) = {}
  BY <1>2 DEF ElementsOf
<1>5. Disjoint(assigned)'
  BY <1>2, <1>4 DEF Disjoint
<1>6. Recorded'
  BY <1>2, <1>5 DEF Recorded
<1> QED BY <1>1, <1>3, <1>6 DEF OwnerInv

LEMMA ReadsKeepOwner ==
    ASSUME OwnerInv, Reads
    PROVE  OwnerInv'
<1>1. Inv' /\ AssignedTyped' /\ Recorded'
  BY ReadsKeepInv, ReadsKeepTyped, ReadsKeepRecorded DEF OwnerInv
<1>2. /\ outcome = "running" /\ position' = position + 1 /\ seen' = Append(seen, File)
      /\ disk' = disk /\ parts' = parts /\ Bookkeeping
  <2>1. parts' = parts
    BY DEF Reads, ReadPolicies, ReadSchema, ReadLabels
  <2> QED BY <2>1, ReadsAre DEF Kept, OwnerInv, Inv
<1>3. parts = NoParts /\ Len(seen) = position - 1
  BY <1>2 DEF OwnerInv, Counted
<1>4. PICK Contents : seen \in Seq(Contents)
  BY DEF OwnerInv, Inv, Told
<1> DEFINE More == Contents \cup {File}
<1>5. seen \in Seq(More) /\ File \in More
  BY <1>4
<1> HIDE DEF More
<1>6. Len(seen') = position
  BY <1>2, <1>3, <1>5 DEF Bookkeeping
<1>7. Counted'
  BY <1>2, <1>3, <1>6 DEF Counted, Bookkeeping
<1>8. DiskTyped'
  BY <1>2 DEF OwnerInv, DiskTyped
<1>9. OneOwner'
  BY <1>2, <1>3 DEF OneOwner, Built
<1> QED BY <1>1, <1>7, <1>8, <1>9 DEF OwnerInv

(* Of what is recorded, every policy has the module that listed it, and    *)
(* every type that it acts on is that module's.                            *)
LEMMA VettedHasOneOwner ==
    ASSUME Bookkeeping, Disjoint(assigned), NEW file, NEW m \in 1..Len(bundle),
           Vetted(file, m, assigned), NEW p \in 1..Len(file)
    PROVE  /\ Assigning(Records, file[p].id) = {m}
           /\ bundle[m].role = "ordinary" =>
                \A t \in file[p].actions : OwnsAlone(m, t)
<1>1. Len(bundle) \in Nat /\ \A n \in 1..Len(bundle) : bundle[n].namespace \in CedarNames
  BY BundlesAssumption DEF Bookkeeping
<1>2. Len(Records) = Len(bundle) /\ \A n \in 1..Len(bundle) : Records[n].policyIds = assigned[n]
  BY <1>1 DEF Records
<1>3. file[p].id \in ElementsOf(assigned[m])
  BY DEF Vetted
<1>4. \A n \in 1..Len(bundle) : n # m => file[p].id \notin ElementsOf(assigned[n])
  BY <1>3 DEF Disjoint
<1>5. Assigning(Records, file[p].id) = {m}
  BY <1>2, <1>3, <1>4 DEF Assigning
<1>6. ASSUME bundle[m].role = "ordinary", NEW t \in file[p].actions,
             NEW n \in 1..Len(bundle) \ {m}, NamespaceOwns(bundle[n].namespace, t)
      PROVE  ~Neighbours(bundle[n].namespace, bundle[m].namespace)
  <2>1. t \in Seq(Nat) /\ NamespaceOwns(bundle[m].namespace, t)
    BY <1>6 DEF Vetted
  <2>2. /\ IsName(bundle[m].namespace) /\ EndsInSegment(bundle[m].namespace)
        /\ IsName(bundle[n].namespace) /\ EndsInSegment(bundle[n].namespace)
        /\ IsName(t)
    BY <1>1, <2>1, CedarNamesAssumption DEF IsName
  <2>3. NamespacesOverlap(bundle[n].namespace, bundle[m].namespace)
    BY <2>1, <2>2, <1>6, OwnersOverlap
  <2>4. ~AdjacentOverlap(SortedNames(NamespacesOf(bundle)))
    <3>1. bundle \in Bundles
      BY <1>1, <1>6, BundlesAssumption DEF Bookkeeping
    <3> QED BY <3>1, BundlesAssumption DEF ModulesValid
  <2> QED BY <2>3, <2>4 DEF Neighbours, AdjacentOverlap, NamespacesOverlap
<1>7. bundle[m].role = "ordinary" => \A t \in file[p].actions : NamespaceOwns(bundle[m].namespace, t)
  BY DEF Vetted
<1> QED BY <1>5, <1>6, <1>7 DEF OwnsAlone

LEMMA FinishKeepsOwner ==
    ASSUME OwnerInv, Finish
    PROVE  OwnerInv'
<1>1. Inv'
  BY FinishKeepsInv DEF OwnerInv
<1>2. /\ outcome = "running" /\ outcome' \in {"ok", "invalid"} /\ position > Len(queue)
      /\ diagnostics \subseteq diagnostics'
      /\ UNCHANGED <<bundle, queue, disk, assigned, ids, seen>>
  BY DEF Finish, Running, accumulators
<1>3. DiskTyped' /\ AssignedTyped' /\ Recorded' /\ Counted'
  BY <1>2 DEF OwnerInv, DiskTyped, AssignedTyped, Recorded, Counted
<1>4. parts = NoParts /\ Len(seen) = position - 1 /\ Bookkeeping /\ Len(queue) \in Nat
  BY <1>2, QueueIsLong DEF OwnerInv, Counted, Inv
<1>5. OneOwner'
  <2> SUFFICES ASSUME Built',
                      NEW k \in 1..Len(queue), queue[k].kind = "policy",
                      NEW p \in 1..Len(seen[k])
               PROVE  LET policy == seen[k][p]
                          owner == queue[k].module
                      IN /\ Assigning(parts'.modules, policy.id) = {owner}
                         /\ bundle[owner].role = "ordinary" =>
                              \A t \in policy.actions : OwnsAlone(owner, t)
    <3>1. \A m, t : OwnsAlone(m, t)' = OwnsAlone(m, t)
      BY <1>2 DEF OwnsAlone, Neighbours
    <3> QED BY <1>2, <3>1 DEF OneOwner
  <2>1. parts' = Compiled /\ Errors(diagnostics') = {}
    BY <1>4 DEF Finish, Built
  <2>2. Errors(diagnostics) = {}
    BY <2>1, <1>2, ErrorsGrow
  <2>3. k \in 1..Len(seen)
    BY <1>2, <1>4 DEF Bookkeeping
  <2>4. Disjoint(assigned) /\ Vetted(seen[k], queue[k].module, assigned)
    BY <1>2, <2>2, <2>3 DEF OwnerInv, Recorded
  <2>5. queue[k].module \in 1..Len(bundle)
    BY <1>4, QueueIsLong DEF InputsOf
  <2>6. parts'.modules = Records
    BY <2>1 DEF Compiled
  <2> DEFINE policy == seen[k][p]
             owner == queue[k].module
  <2>7. /\ Assigning(Records, policy.id) = {owner}
        /\ bundle[owner].role = "ordinary" => \A t \in policy.actions : OwnsAlone(owner, t)
    BY <1>4, <2>4, <2>5, VettedHasOneOwner, Zenon
  <2> QED BY <2>6, <2>7, Zenon
<1> QED BY <1>1, <1>3, <1>5 DEF OwnerInv

LEMMA SameOwners ==
    ASSUME OneOwner, UNCHANGED <<bundle, queue, seen, parts>>
    PROVE  OneOwner'
<1>1. \A modules, id : Assigning(modules, id)' = Assigning(modules, id)
  BY DEF Assigning
<1>2. \A m, t : OwnsAlone(m, t)' = OwnsAlone(m, t)
  BY DEF OwnsAlone, Neighbours
<1> QED BY <1>1, <1>2 DEF OneOwner, Built

LEMMA SaveKeepsOwner ==
    ASSUME OwnerInv, NEW path \in DOMAIN disk, NEW content \in Documents[path], Save(path, content)
    PROVE  OwnerInv'
<1>1. Inv'
  BY SaveKeepsInv DEF OwnerInv
<1>2. /\ UNCHANGED <<bundle, queue, assigned, ids, seen, outcome, diagnostics, position, parts>>
      /\ disk' = [disk EXCEPT ![path] = content]
  BY DEF Save, accumulators
<1>3. DiskTyped'
  BY <1>2 DEF OwnerInv, DiskTyped
<1>4. AssignedTyped' /\ Counted'
  BY <1>2 DEF OwnerInv, AssignedTyped, Counted
<1>5. Recorded'
  BY <1>2 DEF OwnerInv, Recorded, Disjoint, Vetted
<1>6. OneOwner'
  BY <1>2, SameOwners DEF OwnerInv
<1> QED BY <1>1, <1>3, <1>4, <1>5, <1>6 DEF OwnerInv

LEMMA StutterKeepsOwner ==
    ASSUME OwnerInv, UNCHANGED vars
    PROVE  OwnerInv'
<1>1. Inv'
  BY StutterKeepsInv DEF OwnerInv
<1>2. UNCHANGED <<bundle, queue, assigned, ids, seen, outcome, diagnostics, position, parts, disk>>
  BY DEF vars, accumulators
<1>3. DiskTyped' /\ AssignedTyped' /\ Counted'
  BY <1>2 DEF OwnerInv, DiskTyped, AssignedTyped, Counted
<1>4. Recorded'
  BY <1>2 DEF OwnerInv, Recorded, Disjoint, Vetted
<1>5. OneOwner'
  BY <1>2, SameOwners DEF OwnerInv
<1> QED BY <1>1, <1>3, <1>4, <1>5 DEF OwnerInv

LEMMA NextKeepsOwner == OwnerInv /\ [Next]_vars => OwnerInv'
<1> SUFFICES ASSUME OwnerInv, [Next]_vars PROVE OwnerInv'
  OBVIOUS
<1>1. ASSUME NEW m \in {"check", "build", "module"}, NEW d \in BOOLEAN, Start(m, d)
      PROVE  OwnerInv'
  BY <1>1, StartKeepsOwner
<1>2. CASE Reads
  BY <1>2, ReadsKeepOwner
<1>3. CASE Finish
  BY <1>3, FinishKeepsOwner
<1>4. ASSUME NEW path \in DOMAIN disk, NEW content \in Documents[path], Save(path, content)
      PROVE  OwnerInv'
  BY <1>4, SaveKeepsOwner
<1>5. CASE UNCHANGED vars
  BY <1>5, StutterKeepsOwner
<1> QED BY <1>1, <1>2, <1>3, <1>4, <1>5 DEF Next, Step, Reads, Idle

(* Every policy in an archive is recorded under the module whose document  *)
(* it came from and under no other, and one of an ordinary module acts     *)
(* only on types that it owns, and at most such modules with it as its     *)
(* loader's scan of neighbours let through (validate_module_policies and   *)
(* validate_policy_ownership of validation.rs).                            *)
THEOREM OneOwnerHolds == Spec => []OneOwner
<1>1. OwnerInv => OneOwner
  BY DEF OwnerInv
<1> QED BY <1>1, InitOwner, NextKeepsOwner, PTL DEF Spec

(***************************************************************************)
(* What the compiler emits, the reader accepts.  First the operators: a    *)
(* flattened list grows at its end, flattening singletons is the identity, *)
(* and a finite set of naturals has an ascending enumeration.              *)
(***************************************************************************)
LEMMA FlattenExtends ==
    ASSUME NEW S, NEW seqs \in Seq(Seq(S)), NEW s \in Seq(S)
    PROVE  FlattenSeq(Append(seqs, s)) = FlattenSeq(seqs) \o s
<1> DEFINE more == Append(seqs, s)
           n == Len(seqs)
<1>1. /\ n \in Nat /\ Len(more) = n + 1 /\ more[n + 1] = s
      /\ \A k \in 1..n : more[k] = seqs[k] /\ seqs[k] \in Seq(S)
      /\ \A k \in 1..(n + 1) : more[k] \in Seq(S)
  OBVIOUS
<1> HIDE DEF more, n
<1>2. PICK G : /\ FlattenSeq(more) = G[n + 1]
               /\ G[1] = more[1]
               /\ \A k \in 2..(n + 1) : G[k] = G[k - 1] \o more[k]
               /\ \A k \in 1..(n + 1) : G[k] \in Seq(S)
  <2>1. Len(more) \in Nat \ {0} /\ \A k \in 1..Len(more) : more[k] \in Seq(S)
    BY <1>1
  <2>2. \E G : /\ FlattenSeq(more) = G[Len(more)]
               /\ G[1] = more[1]
               /\ \A k \in 2..Len(more) : G[k] = G[k - 1] \o more[k]
               /\ \A k \in 1..Len(more) : G[k] \in Seq(S)
    BY <2>1, FlattenIsJoined
  <2> QED BY <2>2, <1>1
<1>3. CASE n = 0
  <2>1. FlattenSeq(seqs) = seqs /\ seqs = <<>>
    BY <1>3 DEF FlattenSeq, n
  <2>2. FlattenSeq(more) = s
    BY <1>1, <1>2, <1>3
  <2>3. <<>> \o s = s
    OBVIOUS
  <2> QED BY <2>1, <2>2, <2>3 DEF more
<1>4. CASE n # 0
  <2>1. PICK F : /\ FlattenSeq(seqs) = F[n]
                 /\ F[1] = seqs[1]
                 /\ \A k \in 2..n : F[k] = F[k - 1] \o seqs[k]
    <3>1. Len(seqs) \in Nat \ {0} /\ \A k \in 1..Len(seqs) : seqs[k] \in Seq(S)
      BY <1>1, <1>4 DEF n
    <3>2. \E F : /\ FlattenSeq(seqs) = F[Len(seqs)]
                 /\ F[1] = seqs[1]
                 /\ \A k \in 2..Len(seqs) : F[k] = F[k - 1] \o seqs[k]
                 /\ \A k \in 1..Len(seqs) : F[k] \in Seq(S)
      BY <3>1, FlattenIsJoined
    <3>3. n = Len(seqs)
      BY DEF n
    <3> QED BY <3>2, <3>3
  <2> DEFINE T == {k \in 1..n : F[k] # G[k]}
  <2>2. T = {}
    <3> SUFFICES ASSUME T # {} PROVE FALSE
      OBVIOUS
    <3>0. T \in SUBSET Nat
      OBVIOUS
    <3>1. PICK k \in T : \A j \in T : k <= j
      BY <3>0, LeastNatural
    <3>2. k # 1
      BY <2>1, <1>1, <1>2, <1>4
    <3>3. k \in 2..n /\ k \in 2..(n + 1) /\ k - 1 \in 1..n /\ k - 1 \notin T
      BY <1>1, <3>1, <3>2
    <3>4. F[k - 1] = G[k - 1] /\ seqs[k] = more[k]
      BY <1>1, <3>3
    <3> QED BY <2>1, <1>2, <3>1, <3>3, <3>4
  <2>3. n \in 1..n /\ n + 1 \in 2..(n + 1) /\ (n + 1) - 1 = n
    BY <1>1, <1>4
  <2>4. F[n] = G[n]
    BY <2>2, <2>3
  <2>5. G[n + 1] = G[n] \o more[n + 1]
    BY <1>2, <2>3
  <2> QED BY <2>1, <2>4, <2>5, <1>1, <1>2 DEF more
<1> QED BY <1>3, <1>4

LEMMA SeqsEqual ==
    ASSUME NEW S, NEW s \in Seq(S), NEW t \in Seq(S), Len(s) = Len(t),
           \A i \in 1..Len(s) : s[i] = t[i]
    PROVE  s = t
<1>1. s = [i \in 1..Len(s) |-> s[i]] /\ t = [i \in 1..Len(s) |-> t[i]]
  OBVIOUS
<1>2. [i \in 1..Len(s) |-> s[i]] = [i \in 1..Len(s) |-> t[i]]
  OBVIOUS
<1> QED BY <1>1, <1>2

LEMMA FlattenSingletons ==
    ASSUME NEW S, NEW s \in Seq(S)
    PROVE  FlattenSeq([i \in 1..Len(s) |-> <<s[i]>>]) = s
<1> DEFINE ones == [i \in 1..Len(s) |-> <<s[i]>>]
           n == Len(s)
<1>1. n \in Nat /\ Len(ones) = n /\ \A i \in 1..n : ones[i] = <<s[i]>> /\ s[i] \in S
  OBVIOUS
<1>2. CASE n = 0
  <2>1. ones = <<>> /\ s = <<>>
    BY <1>2
  <2> HIDE DEF ones
  <2> QED BY <1>1, <1>2, <2>1 DEF FlattenSeq, ones
<1>3. CASE n # 0
  <2> HIDE DEF ones
  <2>9. \A k \in 1..n : <<s[k]>> \in Seq(S)
    BY <1>1
  <2> HIDE DEF n
  <2>0. Len(ones) \in Nat \ {0} /\ \A k \in 1..Len(ones) : ones[k] \in Seq(S)
    BY <1>1, <1>3, <2>9
  <2>1. PICK F : /\ FlattenSeq(ones) = F[Len(ones)]
                 /\ F[1] = ones[1]
                 /\ \A k \in 2..Len(ones) : F[k] = F[k - 1] \o ones[k]
                 /\ \A k \in 1..Len(ones) : F[k] \in Seq(S)
    BY <2>0, FlattenIsJoined
  <2> DEFINE Begins(f, k) == Len(f) = k /\ \A i \in 1..k : f[i] = s[i]
             T == {k \in 1..n : ~Begins(F[k], k)}
  <2>2. T = {}
    <3> SUFFICES ASSUME T # {} PROVE FALSE
      OBVIOUS
    <3>0. T \in SUBSET Nat
      BY <1>1
    <3>1. PICK k \in T : \A j \in T : k <= j
      BY <3>0, LeastNatural
    <3>2. k # 1
      <4>1. 1 \in 1..n
        BY <1>1, <1>3
      <4>2. F[1] = <<s[1]>>
        BY <2>1, <1>1, <4>1
      <4>3. Begins(F[1], 1)
        BY <4>2
      <4> QED BY <4>3
    <3>3. k \in 2..n /\ k - 1 \in 1..n /\ k - 1 \notin T /\ k \in 1..n
      BY <1>1, <3>1, <3>2
    <3>4. Begins(F[k - 1], k - 1)
      BY <3>3
    <3>5. F[k] = F[k - 1] \o <<s[k]>> /\ F[k - 1] \in Seq(S) /\ <<s[k]>> \in Seq(S)
      <4>1. k \in 2..Len(ones) /\ k - 1 \in 1..Len(ones)
        BY <1>1, <3>3
      <4>2. F[k] = F[k - 1] \o ones[k] /\ F[k - 1] \in Seq(S)
        BY <2>1, <4>1
      <4> QED BY <4>2, <1>1, <2>9, <3>3
    <3>6. /\ Len(F[k]) = k
          /\ \A i \in 1..(k - 1) : F[k][i] = F[k - 1][i]
          /\ F[k][k] = s[k]
      BY <3>3, <3>4, <3>5
    <3>7. \A i \in 1..k : i = k \/ i \in 1..(k - 1)
      BY <3>3
    <3>8. Begins(F[k], k)
      BY <3>4, <3>6, <3>7
    <3> QED BY <3>8, <3>1
  <2>3. n \in 1..n
    BY <1>1, <1>3
  <2>4. Begins(F[n], n) /\ F[n] \in Seq(S)
    BY <1>1, <2>1, <2>2, <2>3
  <2>5. F[n] = s
    BY <2>4, SeqsEqual DEF n
  <2> QED BY <2>1, <2>5, <1>1 DEF ones
<1> QED BY <1>2, <1>3

LEMMA StaticsInOrderAreStatics ==
    ASSUME NEW S, NEW policies \in Seq(S)
    PROVE  /\ StaticsInOrder(policies) \in Seq(S)
           /\ ElementsOf(StaticsInOrder(policies)) = {policy \in ElementsOf(policies) : policy.static}
<1> DEFINE Of(i) == IF i \in Statics(policies) THEN <<policies[i]>> ELSE <<>>
           seqs == [i \in 1..Len(policies) |-> Of(i)]
           R == {policies[i] : i \in Statics(policies)}
<1>0. Len(policies) \in Nat /\ R \subseteq S
  BY DEF Statics
<1>1. ASSUME NEW i \in 1..Len(policies) PROVE Of(i) \in Seq(R)
  <2>1. CASE i \in Statics(policies)
    BY <2>1
  <2>2. CASE i \notin Statics(policies)
    BY <2>2
  <2> QED BY <2>1, <2>2
<1>2. ASSUME NEW i \in Statics(policies) PROVE policies[i] \in ElementsOf(Of(i))
  <2>1. Of(i) = <<policies[i]>>
    OBVIOUS
  <2> HIDE DEF Of
  <2>2. Len(Of(i)) = 1 /\ Of(i)[1] = policies[i]
    BY <2>1
  <2> QED BY <2>2 DEF ElementsOf
<1> HIDE DEF Of
<1>3. Len(seqs) = Len(policies) /\ \A i \in 1..Len(policies) : seqs[i] = Of(i)
  BY <1>0
<1>4. Len(seqs) = 0 => seqs \in Seq(R)
  BY <1>0
<1> HIDE DEF seqs, R
<1>5. FlattenSeq(seqs) \in Seq(R)
  BY <1>0, <1>1, <1>3, <1>4, FlattenIsSequence
<1>6. ASSUME NEW i \in Statics(policies) PROVE policies[i] \in ElementsOf(FlattenSeq(seqs))
  <2>1. i \in 1..Len(policies)
    BY DEF Statics
  <2>2. ElementsOf(seqs[i]) \subseteq ElementsOf(FlattenSeq(seqs))
    BY <1>0, <2>1, <1>1, <1>3, FlattenHoldsAll
  <2> QED BY <1>2, <1>3, <2>1, <2>2
<1>7. StaticsInOrder(policies) = FlattenSeq(seqs)
  BY DEF StaticsInOrder, seqs, Of
<1>8. R \subseteq ElementsOf(FlattenSeq(seqs))
  BY <1>6 DEF R
<1>9. ElementsOf(FlattenSeq(seqs)) \subseteq R /\ FlattenSeq(seqs) \in Seq(S)
  BY <1>5, <1>0 DEF ElementsOf
<1>10. R = {policy \in ElementsOf(policies) : policy.static}
  BY DEF R, Statics, ElementsOf
<1> QED BY <1>7, <1>8, <1>9, <1>10

(* Every policy with an id: then the ids in order are one for one.         *)
LEMMA IdsOneForOne ==
    ASSUME NEW policies, Len(policies) \in Nat, Identified(policies) = 1..Len(policies)
    PROVE  IdsInOrder(policies) = [i \in 1..Len(policies) |-> policies[i].id]
<1> DEFINE s == [i \in 1..Len(policies) |-> policies[i].id]
           ones == [i \in 1..Len(s) |-> <<s[i]>>]
           seqs == [i \in 1..Len(policies) |->
                      IF i \in Identified(policies) THEN <<policies[i].id>> ELSE <<>>]
<1>1. s \in Seq({policies[i].id : i \in 1..Len(policies)}) /\ Len(s) = Len(policies)
      /\ \A i \in 1..Len(policies) : s[i] = policies[i].id
  OBVIOUS
<1> HIDE DEF s
<1>2. seqs = [i \in 1..Len(policies) |-> <<policies[i].id>>]
  OBVIOUS
<1>3. ones = [i \in 1..Len(policies) |-> <<policies[i].id>>]
  BY <1>1
<1>4. FlattenSeq(ones) = s
  BY <1>1, FlattenSingletons
<1>5. IdsInOrder(policies) = FlattenSeq(seqs)
  BY DEF IdsInOrder
<1> HIDE DEF ones, seqs
<1>6. IdsInOrder(policies) = s
  BY <1>2, <1>3, <1>4, <1>5
<1> QED BY <1>6 DEF s

LEMMA NoRepeatsJoined ==
    ASSUME NEW S, NEW s \in Seq(S), NEW t \in Seq(S), ~HasRepeats(s), ~HasRepeats(t),
           ElementsOf(s) \cap ElementsOf(t) = {}
    PROVE  ~HasRepeats(s \o t)
<1> DEFINE u == s \o t
<1>1. /\ Len(u) = Len(s) + Len(t) /\ Len(s) \in Nat /\ Len(t) \in Nat
      /\ \A i \in 1..Len(s) : u[i] = s[i] /\ s[i] \in ElementsOf(s)
      /\ \A i \in (Len(s) + 1)..Len(u) :
            u[i] = t[i - Len(s)] /\ i - Len(s) \in 1..Len(t) /\ t[i - Len(s)] \in ElementsOf(t)
  BY DEF ElementsOf
<1> HIDE DEF u
<1> SUFFICES ASSUME NEW i \in 1..Len(u), NEW j \in 1..Len(u), i # j PROVE u[i] # u[j]
  BY DEF HasRepeats, u
<1>2. \A k \in 1..Len(u) : k \in 1..Len(s) \/ k \in (Len(s) + 1)..Len(u)
  BY <1>1
<1>3. CASE i \in 1..Len(s) /\ j \in 1..Len(s)
  BY <1>1, <1>3 DEF HasRepeats
<1>4. CASE i \in (Len(s) + 1)..Len(u) /\ j \in (Len(s) + 1)..Len(u)
  <2>1. i - Len(s) # j - Len(s)
    BY <1>1
  <2> QED BY <2>1, <1>1, <1>4 DEF HasRepeats
<1>5. CASE i \in 1..Len(s) /\ j \in (Len(s) + 1)..Len(u)
  BY <1>1, <1>5
<1>6. CASE j \in 1..Len(s) /\ i \in (Len(s) + 1)..Len(u)
  BY <1>1, <1>6
<1> QED BY <1>2, <1>3, <1>4, <1>5, <1>6

LEMMA AscendingExists ==
    ASSUME NEW ids0 \in SUBSET Nat, IsFiniteSet(ids0)
    PROVE  \E s \in [1..Cardinality(ids0) -> ids0] : StrictlyIncreasing(s)
<1> DEFINE Has(S) == \E s \in [1..Cardinality(S) -> S] : StrictlyIncreasing(s)
           Sizes == {n \in Nat : \E S \in SUBSET ids0 : Cardinality(S) = n /\ ~Has(S)}
<1>1. ASSUME NEW S \in SUBSET ids0, S # {},
             \A R \in SUBSET ids0 : Cardinality(R) = Cardinality(S) - 1 => Has(R)
      PROVE  Has(S)
  <2> HIDE DEF Has
  <2>1. S \in SUBSET Nat /\ IsFiniteSet(S)
    BY FS_Subset
  <2>2. PICK x \in S : \A y \in S : x <= y
    BY <2>1, <1>1, LeastNatural
  <2> DEFINE R == S \ {x}
             n == Cardinality(S)
  <2>3. n \in Nat \ {0} /\ Cardinality(R) = n - 1
    BY <2>1, <1>1, FS_RemoveElement, FS_CardinalityType, FS_EmptySet
  <2>4. Has(R)
    BY <2>3, <1>1
  <2>5. PICK s \in [1..(n - 1) -> R] : StrictlyIncreasing(s)
    BY <2>3, <2>4 DEF Has
  <2> HIDE DEF n
  <2> DEFINE t == [i \in 1..n |-> IF i = 1 THEN x ELSE s[i - 1]]
  <2>6. \A i \in 2..n : i - 1 \in 1..(n - 1) /\ s[i - 1] \in S /\ x < s[i - 1] /\ s[i - 1] \in Nat
    <3>1. ASSUME NEW y \in R PROVE y \in S /\ x < y /\ y \in Nat
      <4>1. x \in Nat /\ y \in Nat /\ x <= y /\ x # y
        BY <2>1, <2>2
      <4> QED BY <4>1
    <3>2. \A i \in 2..n : i - 1 \in 1..(n - 1)
      BY <2>3
    <3>3. \A i \in 1..(n - 1) : s[i] \in R
      OBVIOUS
    <3> HIDE DEF R
    <3> QED BY <3>1, <3>2, <3>3
  <2>7. t \in [1..n -> S]
    BY <2>2, <2>3, <2>6
  <2>8. t[1] = x /\ (\A i \in 2..n : t[i] = s[i - 1]) /\ Len(t) = n
    BY <2>3
  <2> HIDE DEF t
  <2>9. ASSUME NEW i \in 1..(n - 1) PROVE t[i] < t[i + 1]
    <3>1. i + 1 \in 2..n /\ (i + 1) - 1 = i /\ t[i + 1] = s[i]
      BY <2>3, <2>8
    <3>2. CASE i = 1
      BY <3>1, <3>2, <2>6, <2>8
    <3>3. CASE i # 1
      <4>1. i \in 2..n /\ i - 1 \in 1..((n - 1) - 1)
        BY <2>3, <3>3
      <4>2. Len(s) = n - 1
        BY <2>3
      <4>3. s[i - 1] < s[(i - 1) + 1]
        BY <4>1, <4>2, <2>5 DEF StrictlyIncreasing
      <4>4. (i - 1) + 1 = i
        BY <2>3
      <4> QED BY <4>1, <4>3, <4>4, <3>1, <2>8
    <3> QED BY <3>2, <3>3
  <2>10. StrictlyIncreasing(t)
    BY <2>8, <2>9 DEF StrictlyIncreasing
  <2> QED BY <2>7, <2>10 DEF Has, n
<1>2. Has({})
  <2>1. Cardinality({}) = 0
    BY FS_EmptySet
  <2> DEFINE t == [i \in 1..0 |-> 0]
  <2>2. t \in [1..0 -> {}] /\ Len(t) = 0
    OBVIOUS
  <2>3. StrictlyIncreasing(t)
    BY <2>2 DEF StrictlyIncreasing
  <2> HIDE DEF t
  <2> QED BY <2>1, <2>2, <2>3
<1>3. Sizes = {}
  <2> SUFFICES ASSUME Sizes # {} PROVE FALSE
    OBVIOUS
  <2> HIDE DEF Has
  <2>0. Sizes \in SUBSET Nat
    OBVIOUS
  <2>1. PICK n \in Sizes : \A m \in Sizes : n <= m
    BY <2>0, LeastNatural
  <2>2. PICK S \in SUBSET ids0 : Cardinality(S) = n /\ ~Has(S)
    OBVIOUS
  <2>3. S # {}
    BY <2>2, <1>2
  <2>4. n - 1 \notin Sizes
    BY <2>0, <2>1
  <2>5. IsFiniteSet(S) /\ n \in Nat \ {0}
    BY <2>0, <2>2, <2>3, FS_Subset, FS_EmptySet
  <2>6. \A R \in SUBSET ids0 : Cardinality(R) = Cardinality(S) - 1 => Has(R)
    BY <2>2, <2>4, <2>5
  <2> QED BY <1>1, <2>2, <2>3, <2>6
<1>4. Cardinality(ids0) \in Nat
  BY FS_CardinalityType
<1> QED BY <1>3, <1>4

(* The ids of an archive, as a BTreeSet gives them, are the ids collected. *)
LEMMA AscendingEnumerates ==
    ASSUME NEW ids0 \in SUBSET Nat, IsFiniteSet(ids0)
    PROVE  StrictlyIncreasing(Ascending(ids0)) /\ ElementsOf(Ascending(ids0)) = ids0
<1> DEFINE s == Ascending(ids0)
           n == Cardinality(ids0)
<1>1. s \in [1..n -> ids0] /\ StrictlyIncreasing(s)
  BY AscendingExists DEF Ascending
<1>2. n \in Nat
  BY FS_CardinalityType
<1> HIDE DEF s, n
<1>3. Len(s) = n /\ \A i \in 1..n : s[i] \in Nat
  <2>1. s \in Seq(ids0) /\ Len(s) = n
    BY <1>1, <1>2
  <2>2. \A i \in 1..n : s[i] \in ids0
    BY <1>1
  <2> QED BY <2>1, <2>2
<1>4. ASSUME NEW i \in 1..n, NEW j \in 1..n, i < j PROVE s[i] < s[j]
  <2> DEFINE T == {k \in (i + 1)..n : ~(s[i] < s[k])}
  <2>1. T = {}
    <3> SUFFICES ASSUME T # {} PROVE FALSE
      OBVIOUS
    <3>0. T \in SUBSET Nat
      BY <1>2
    <3>1. PICK k \in T : \A l \in T : k <= l
      BY <3>0, LeastNatural
    <3>2. k - 1 \in 1..(n - 1) /\ (k - 1) + 1 = k /\ k - 1 \notin T
      BY <1>2, <3>1
    <3>3. s[k - 1] < s[k]
      BY <3>2, <1>1, <1>3 DEF StrictlyIncreasing
    <3>4. k - 1 = i \/ s[i] < s[k - 1]
      <4>1. k - 1 = i \/ k - 1 \in (i + 1)..n
        BY <1>2, <3>1
      <4> QED BY <4>1, <3>2
    <3>5. s[i] \in Nat /\ s[k - 1] \in Nat /\ s[k] \in Nat
      BY <1>2, <1>3, <3>2
    <3> QED BY <3>3, <3>4, <3>5, <3>1
  <2>2. j \in (i + 1)..n
    BY <1>2, <1>4
  <2> QED BY <2>1, <2>2
<1>5. s \in Injection(1..n, ids0)
  <2>1. ASSUME NEW i \in 1..n, NEW j \in 1..n, s[i] = s[j] PROVE i = j
    <3>1. ~(i < j) /\ ~(j < i)
      BY <2>1, <1>3, <1>4
    <3> QED BY <3>1, <1>2
  <2> QED BY <2>1, <1>1 DEF Injection, IsInjective
<1>6. Cardinality(1..n) = n
  BY <1>2, FS_Interval
<1>7. s \in Surjection(1..n, ids0)
  BY <1>5, <1>6, FS_Injection DEF n
<1>8. \A x \in ids0 : \E i \in 1..n : s[i] = x
  BY <1>7 DEF Surjection
<1>9. ElementsOf(s) = ids0
  BY <1>1, <1>3, <1>8 DEF ElementsOf
<1> QED BY <1>1, <1>9 DEF s

(***************************************************************************)
(* What holds of the documents read so far, while nothing is wrong.        *)
(***************************************************************************)
Typed ==
    /\ text \in Seq(AnyPolicy) /\ aggregate \in Seq(AnyPolicy) /\ labels \in Seq(AnyRule)

Gathered ==
    /\ ElementsOf(aggregate) = {policy \in ElementsOf(text) : policy.static}
    /\ UNION {ElementsOf(assigned[m]) : m \in 1..Len(bundle)} = ids

DistinctIds(policies) ==
    \A i, j \in 1..Len(policies) : i # j => policies[i].id # policies[j].id

Passed(policy, m, found) ==
    /\ policy.static /\ policy.id # MissingId
    /\ OwnershipDiagnostics(policy, bundle[m]) = {}
    /\ PrefixDiagnostics(policy, bundle[m]) \subseteq found

(* The documents themselves, in order.                                     *)
InOrder ==
    /\ position <= Len(queue) + 1
    /\ \A k \in 1..Len(seen) : seen[k] \notin {Missing, NotUtf8, Unparsable}
    /\ DocumentsOf("policy") \in Seq(Seq(AnyPolicy)) /\ DocumentsOf("label") \in Seq(Seq(AnyRule))
    /\ text = FlattenSeq(DocumentsOf("policy"))
    /\ labels = FlattenSeq(DocumentsOf("label"))

PoliciesClean ==
    /\ DistinctIds(text)
    /\ ids = {policy.id : policy \in ElementsOf(text)}
    /\ \A policy \in ElementsOf(text) : \E m \in 1..Len(bundle) :
          policy.id \in ElementsOf(assigned[m]) /\ Passed(policy, m, diagnostics)
    /\ \A m \in 1..Len(bundle) : ~HasRepeats(assigned[m])

SchemaClean ==
    /\ hasSchema <=> Fragments # {}
    /\ Merges(schema, Fragments)
    /\ schema = [namespaces |-> schema.namespaces, declarations |-> schema.declarations,
                 fields |-> schema.fields]
    /\ \A ns \in schema.namespaces : OwnedBySome(bundle, ns)

LabelsClean ==
    \A rule \in ElementsOf(labels) : OwnedBySome(bundle, rule.target[1])

Clean ==
    outcome = "running" /\ Errors(diagnostics) = {} =>
        InOrder /\ PoliciesClean /\ SchemaClean /\ LabelsClean

Promises == BuildValidates /\ WarningsAnnounced /\ ShipsWhatItRead

ShipInv == OwnerInv /\ Typed /\ Gathered /\ Clean /\ Promises

(* Distinct ids in two lists that have none in common.                     *)
LEMMA DistinctJoined ==
    ASSUME NEW S, NEW s \in Seq(S), NEW t \in Seq(S), DistinctIds(s), DistinctIds(t),
           \A e \in ElementsOf(s) : \A f \in ElementsOf(t) : e.id # f.id
    PROVE  DistinctIds(s \o t)
<1> DEFINE u == s \o t
<1>1. /\ Len(u) = Len(s) + Len(t) /\ Len(s) \in Nat /\ Len(t) \in Nat
      /\ \A i \in 1..Len(s) : u[i] = s[i] /\ s[i] \in ElementsOf(s)
      /\ \A i \in (Len(s) + 1)..Len(u) :
            u[i] = t[i - Len(s)] /\ i - Len(s) \in 1..Len(t) /\ t[i - Len(s)] \in ElementsOf(t)
  BY DEF ElementsOf
<1> HIDE DEF u
<1> SUFFICES ASSUME NEW i \in 1..Len(u), NEW j \in 1..Len(u), i # j PROVE u[i].id # u[j].id
  BY DEF DistinctIds, u
<1>2. \A k \in 1..Len(u) : k \in 1..Len(s) \/ k \in (Len(s) + 1)..Len(u)
  BY <1>1
<1>3. CASE i \in 1..Len(s) /\ j \in 1..Len(s)
  BY <1>1, <1>3 DEF DistinctIds
<1>4. CASE i \in (Len(s) + 1)..Len(u) /\ j \in (Len(s) + 1)..Len(u)
  <2>1. i - Len(s) # j - Len(s) /\ i - Len(s) \in 1..Len(t) /\ j - Len(s) \in 1..Len(t)
    BY <1>1, <1>4
  <2>2. t[i - Len(s)].id # t[j - Len(s)].id
    BY <2>1 DEF DistinctIds
  <2> QED BY <2>2, <1>1, <1>4
<1>5. CASE i \in 1..Len(s) /\ j \in (Len(s) + 1)..Len(u)
  BY <1>1, <1>5
<1>6. CASE j \in 1..Len(s) /\ i \in (Len(s) + 1)..Len(u)
  BY <1>1, <1>6
<1> QED BY <1>2, <1>3, <1>4, <1>5, <1>6

LEMMA EmptyElements == ElementsOf(<<>>) = {}
  BY DEF ElementsOf

(* What a policy document without an error has passed, policy by policy.   *)
LEMMA DocumentPasses ==
    ASSUME NEW policies, Len(policies) \in Nat, NEW m, NEW known,
           Errors(DocumentDiagnostics(policies, bundle[m], known)) = {}
    PROVE  /\ DistinctIds(policies)
           /\ IdsOf(policies) = {policy.id : policy \in ElementsOf(policies)}
           /\ \A policy \in ElementsOf(policies) :
                 Passed(policy, m, DocumentDiagnostics(policies, bundle[m], known))
           /\ ~HasRepeats(IdsInOrder(policies))
<1> DEFINE All == DocumentDiagnostics(policies, bundle[m], known)
<1>1. All \subseteq WarningCodes
  BY DEF Errors
<1>2. "policy.templates_unsupported" \notin All /\ "policy.duplicate_id" \notin All
  BY <1>1 DEF WarningCodes
<1>3. TemplateDiagnostics(policies) \subseteq All /\ IdDiagnostics(policies, known) \subseteq All
  BY DEF DocumentDiagnostics
<1>4. Identified(policies) = 1..Len(policies)
  BY DocumentIsSound
<1>5. \A i \in 1..Len(policies) :
         /\ OwnershipDiagnostics(policies[i], bundle[m]) \subseteq All
         /\ PrefixDiagnostics(policies[i], bundle[m]) \subseteq All
  BY <1>4 DEF DocumentDiagnostics
<1> HIDE DEF All
<1>6. DistinctIds(policies)
  <2>1. ~ \E i, j \in Identified(policies) : i # j /\ policies[i].id = policies[j].id
    BY <1>2, <1>3 DEF IdDiagnostics, When
  <2> QED BY <2>1, <1>4 DEF DistinctIds
<1>7. IdsOf(policies) = {policy.id : policy \in ElementsOf(policies)}
  BY <1>4 DEF IdsOf, ElementsOf
<1>8. ASSUME NEW i \in 1..Len(policies)
      PROVE  Passed(policies[i], m, All)
  <2>1. policies[i].static /\ policies[i].id # MissingId
    BY <1>4 DEF Identified, Statics
  <2>2. OwnershipDiagnostics(policies[i], bundle[m]) \cap WarningCodes = {}
    BY DEF OwnershipDiagnostics, WarningCodes, When
  <2>3. OwnershipDiagnostics(policies[i], bundle[m]) = {}
    BY <1>1, <1>5, <2>2
  <2> QED BY <2>1, <2>3, <1>5 DEF Passed
<1>9. \A policy \in ElementsOf(policies) : Passed(policy, m, All)
  BY <1>8 DEF ElementsOf
<1>10. ~HasRepeats(IdsInOrder(policies))
  <2> DEFINE s == [i \in 1..Len(policies) |-> policies[i].id]
  <2>1. Len(s) = Len(policies) /\ \A i \in 1..Len(policies) : s[i] = policies[i].id
    OBVIOUS
  <2> HIDE DEF s
  <2>2. ~HasRepeats(s)
    BY <2>1, <1>6 DEF HasRepeats, DistinctIds
  <2>3. IdsInOrder(policies) = s
    BY <1>4, IdsOneForOne DEF s
  <2> QED BY <2>2, <2>3
<1> QED BY <1>6, <1>7, <1>9, <1>10 DEF All

LEMMA PassedStays ==
    ASSUME NEW policy, NEW m, NEW found, NEW more, found \subseteq more, Passed(policy, m, found)
    PROVE  Passed(policy, m, more)
  BY DEF Passed

(* A step of the reading that leaves the run without an error.             *)
PolicyRead ==
    /\ Input.kind = "policy"
    /\ DocumentDiagnostics(File, bundle[Input.module], ids) \subseteq diagnostics'
    /\ ids' = ids \cup IdsOf(File)
    /\ assigned' = [assigned EXCEPT ![Input.module] = @ \o IdsInOrder(File)]
    /\ aggregate' = aggregate \o StaticsInOrder(File)
    /\ text' = text \o File
    /\ UNCHANGED <<hasSchema, schema, labels>>

SchemaRead ==
    /\ Input.kind = "schema"
    /\ When(File.warns, "schema.warning") \subseteq diagnostics'
    /\ When(\E ns \in File.namespaces : ~NamespaceOwns(bundle[Input.module].namespace, ns),
            "schema.namespace_violation") \subseteq diagnostics'
    /\ MergeDiagnostics(schema, File) \subseteq diagnostics'
    /\ hasSchema' = TRUE /\ schema' = MergeSchema(schema, File)
    /\ UNCHANGED <<text, aggregate, ids, assigned, labels>>

LabelsRead ==
    /\ Input.kind = "label"
    /\ When(\E i \in 1..Len(File) : ~NamespaceOwns(bundle[Input.module].namespace, File[i].target[1]),
            "labels.namespace_violation") \subseteq diagnostics'
    /\ labels' = labels \o File
    /\ UNCHANGED <<text, aggregate, ids, assigned, hasSchema, schema>>

LEMMA CleanRead ==
    ASSUME OwnerInv, Reads, outcome' = "running", Errors(diagnostics') = {}
    PROVE  /\ outcome = "running" /\ Errors(diagnostics) = {} /\ Sound
           /\ diagnostics \subseteq diagnostics'
           /\ PolicyRead \/ SchemaRead \/ LabelsRead
<1>1. outcome = "running"
  BY ReadsAre
<1>2. diagnostics \subseteq diagnostics'
  BY DiagnosticsGrow
<1>3. Errors(diagnostics) = {}
  BY <1>2, ErrorsGrow
<1>4. ~ReadFails
  BY DEF ReadFails
<1>5. ASSUME NEW code, code \notin WarningCodes PROVE code \notin diagnostics'
  BY <1>5 DEF Errors
<1>6. CASE ReadPolicies
  <2>1. ~ReadRejected("policy.syntax")
    BY <1>5 DEF ReadRejected, WarningCodes
  <2> QED BY <2>1, <1>1, <1>2, <1>3, <1>4, <1>6 DEF ReadPolicies, Reading, PolicyRead, Module
<1>7. CASE ReadSchema
  <2>1. ~ReadRejected("schema.syntax")
    BY <1>5 DEF ReadRejected, WarningCodes
  <2> QED BY <2>1, <1>1, <1>2, <1>3, <1>4, <1>7 DEF ReadSchema, Reading, SchemaRead, Module
<1>8. CASE ReadLabels
  <2>1. ~ReadRejected("labels.invalid_json")
    BY <1>5 DEF ReadRejected, WarningCodes
  <2>2. Input.kind = "label" /\ Sound
    BY <2>1, <1>4, <1>8 DEF ReadLabels, Reading
  <2>3. LabelSetDiagnostics(File) \subseteq diagnostics' => LabelSetDiagnostics(File) = {}
    <3>1. LabelSetDiagnostics(File) \cap WarningCodes = {}
      BY DEF LabelSetDiagnostics, WarningCodes, When
    <3> QED BY <3>1 DEF Errors
  <2> QED BY <2>1, <2>2, <2>3, <1>1, <1>2, <1>3, <1>4, <1>8 DEF ReadLabels, LabelsRead, Module
<1> QED BY <1>6, <1>7, <1>8 DEF Reads

LEMMA ReadsKeepLists ==
    ASSUME OwnerInv, Typed, Gathered, Reads
    PROVE  Typed' /\ Gathered'
<1>1. bundle' = bundle /\ position <= Len(queue) /\ Bookkeeping /\ DiskTyped
  BY ReadsAre DEF Kept, OwnerInv, Inv
<1>2. CASE UNCHANGED <<text, aggregate, labels, assigned, ids>>
  BY <1>1, <1>2 DEF Typed, Gathered
<1>3. CASE ReadPolicies /\ Sound
  <2> DEFINE m == Input.module
  <2>1. /\ ids' = ids \cup IdsOf(File) /\ labels' = labels
        /\ assigned' = [assigned EXCEPT ![m] = @ \o IdsInOrder(File)]
        /\ aggregate' = aggregate \o StaticsInOrder(File)
        /\ text' = text \o File
    BY <1>3 DEF ReadPolicies, Sound, ReadFails, ReadRejected
  <2>2. Input.kind = "policy"
    BY <1>3 DEF ReadPolicies, Reading
  <2>3. File \in Seq(AnyPolicy) /\ Len(File) \in Nat /\ m \in 1..Len(bundle)
    BY <1>1, <1>3, <2>2, FileIsDocument DEF InputsOf
  <2> HIDE DEF m
  <2>4. /\ StaticsInOrder(File) \in Seq(AnyPolicy)
        /\ ElementsOf(StaticsInOrder(File)) = {policy \in ElementsOf(File) : policy.static}
    BY <2>3, StaticsInOrderAreStatics
  <2>5. Typed'
    BY <2>1, <2>3, <2>4 DEF Typed
  <2>6. /\ ElementsOf(text') = ElementsOf(text) \cup ElementsOf(File)
        /\ ElementsOf(aggregate') = ElementsOf(aggregate) \cup ElementsOf(StaticsInOrder(File))
    BY <2>1, <2>3, <2>4, ElementsJoined DEF Typed
  <2>7. ElementsOf(aggregate') = {policy \in ElementsOf(text') : policy.static}
    BY <2>4, <2>6 DEF Gathered
  <2>8. \A n \in 1..Len(bundle) : assigned[n] \in Seq(ids)
    BY DEF OwnerInv, AssignedTyped
  <2>9. IdsInOrder(File) \in Seq(IdsOf(File)) /\ ElementsOf(IdsInOrder(File)) = IdsOf(File)
    BY <2>3, IdsInOrderAreIds
  <2>10. ElementsOf(assigned[m] \o IdsInOrder(File)) = ElementsOf(assigned[m]) \cup IdsOf(File)
    <3> DEFINE Ids == ids \cup IdsOf(File)
    <3>1. assigned[m] \in Seq(Ids) /\ IdsInOrder(File) \in Seq(Ids)
      BY <2>3, <2>8, <2>9
    <3> HIDE DEF Ids
    <3> QED BY <3>1, <2>9, ElementsJoined
  <2>11. assigned'[m] = assigned[m] \o IdsInOrder(File)
         /\ \A n \in 1..Len(bundle) : n # m => assigned'[n] = assigned[n]
    BY <2>1, <2>3 DEF OwnerInv, AssignedTyped
  <2>12. UNION {ElementsOf(assigned'[n]) : n \in 1..Len(bundle)}
           = (UNION {ElementsOf(assigned[n]) : n \in 1..Len(bundle)}) \cup IdsOf(File)
    <3> DEFINE Old(n) == ElementsOf(assigned[n])
               New(n) == ElementsOf(assigned'[n])
    <3>1. New(m) = Old(m) \cup IdsOf(File) /\ \A n \in 1..Len(bundle) : n # m => New(n) = Old(n)
      BY <2>10, <2>11
    <3> HIDE DEF Old, New
    <3>2. UNION {New(n) : n \in 1..Len(bundle)} = (UNION {Old(n) : n \in 1..Len(bundle)}) \cup IdsOf(File)
      BY <3>1, <2>3
    <3> QED BY <3>2 DEF Old, New
  <2>13. Gathered'
    BY <1>1, <2>1, <2>7, <2>12 DEF Gathered
  <2> QED BY <2>5, <2>13
<1>4. CASE ReadLabels /\ Sound /\ labels' = labels \o File
  <2>1. Input.kind = "label" /\ UNCHANGED <<text, aggregate, ids, assigned>>
    BY <1>4 DEF ReadLabels, Reading, Sound, ReadFails, ReadRejected
  <2>2. File \in Seq(AnyRule)
    BY <1>1, <1>4, <2>1, FileIsDocument
  <2> QED BY <1>1, <1>4, <2>1, <2>2 DEF Typed, Gathered
<1> QED BY <1>2, <1>3, <1>4 DEF Reads, ReadPolicies, ReadSchema, ReadLabels, ReadFails, ReadRejected, Sound

LEMMA HistoryGrows ==
    ASSUME OwnerInv, Reads
    PROVE  /\ Len(seen) = position - 1 /\ position \in 1..Len(queue) /\ Len(queue) \in Nat
           /\ Len(seen') = position /\ seen'[position] = File
           /\ \A k \in 1..(position - 1) : seen'[k] = seen[k]
           /\ \A k \in 1..position : k = position \/ k \in 1..(position - 1)
           /\ queue' = queue /\ bundle' = bundle /\ queue[position] = Input
           /\ position' = position + 1
           /\ Input \in InputsOf(bundle)
<1>1. /\ outcome = "running" /\ position <= Len(queue) /\ position' = position + 1
      /\ seen' = Append(seen, File) /\ queue' = queue /\ bundle' = bundle
      /\ Bookkeeping /\ Len(seen) = position - 1
  BY ReadsAre DEF Kept, OwnerInv, Inv, Counted
<1>2. PICK Contents : seen \in Seq(Contents)
  BY DEF OwnerInv, Inv, Told
<1> DEFINE More == Contents \cup {File}
<1>3. seen \in Seq(More) /\ File \in More
  BY <1>2
<1> HIDE DEF More
<1>4. /\ Len(seen') = position /\ seen'[position] = File
      /\ \A k \in 1..(position - 1) : seen'[k] = seen[k]
  BY <1>1, <1>3 DEF Bookkeeping
<1>5. /\ position \in 1..Len(queue) /\ Len(queue) \in Nat /\ queue[position] = Input
      /\ \A k \in 1..position : k = position \/ k \in 1..(position - 1)
  BY <1>1, QueueIsLong DEF Bookkeeping, Input
<1>6. Input \in InputsOf(bundle)
  BY <1>1, FileIsDocument DEF OwnerInv
<1> QED BY <1>1, <1>4, <1>5, <1>6

LEMMA DocumentsGrow ==
    ASSUME OwnerInv, Reads, NEW kind, NEW S, DocumentsOf(kind) \in Seq(S), {File, <<>>} \subseteq S
    PROVE  /\ DocumentsOf(kind)' = Append(DocumentsOf(kind), IF Input.kind = kind THEN File ELSE <<>>)
           /\ DocumentsOf(kind)' \in Seq(S)
<1> DEFINE d == DocumentsOf(kind)
           last == IF Input.kind = kind THEN File ELSE <<>>
           e == [k \in 1..position |-> IF queue[k].kind = kind THEN seen'[k] ELSE <<>>]
<1>1. DocumentsOf(kind)' = e
  BY HistoryGrows DEF DocumentsOf
<1>2. d = [k \in 1..(position - 1) |-> IF queue[k].kind = kind THEN seen[k] ELSE <<>>]
  BY HistoryGrows DEF DocumentsOf
<1>3. position \in Nat \ {0} /\ position \in 1..position
  BY HistoryGrows
<1>4. e[position] = last
  BY <1>3, HistoryGrows
<1>5. \A k \in 1..(position - 1) : k \in 1..position
  BY <1>3
<1>6. ASSUME NEW k \in 1..(position - 1) PROVE e[k] = d[k] /\ d[k] \in S
  <2>1. e[k] = IF queue[k].kind = kind THEN seen'[k] ELSE <<>>
    BY <1>5
  <2>2. d[k] = IF queue[k].kind = kind THEN seen[k] ELSE <<>>
    BY <1>2
  <2>3. seen'[k] = seen[k]
    BY HistoryGrows
  <2>4. Len(d) = position - 1
    <3> HIDE DEF d
    <3> QED BY <1>2, <1>3
  <2>5. d[k] \in S
    BY <2>4
  <2> QED BY <2>1, <2>2, <2>3, <2>5
<1>7. last \in S
  OBVIOUS
<1>8. Len(d) = position - 1 /\ d \in Seq(S)
  <2> HIDE DEF d
  <2>1. Len(d) = position - 1
    BY <1>2, <1>3
  <2> QED BY <2>1 DEF d
<1>9. e = [k \in 1..position |-> e[k]]
  OBVIOUS
<1> HIDE DEF d, e, last
<1>10. \A k \in 1..position : e[k] \in S
  BY <1>4, <1>6, <1>7, HistoryGrows
<1>11. e \in Seq(S) /\ Len(e) = position
  BY <1>3, <1>9, <1>10
<1>12. /\ Append(d, last) \in Seq(S) /\ Len(Append(d, last)) = position
       /\ Append(d, last)[position] = last
       /\ \A k \in 1..(position - 1) : Append(d, last)[k] = d[k]
  BY <1>3, <1>7, <1>8
<1>13. \A k \in 1..position : e[k] = Append(d, last)[k]
  BY <1>4, <1>6, <1>12, HistoryGrows
<1>14. e = Append(d, last)
  BY <1>11, <1>12, <1>13, SeqsEqual
<1> QED BY <1>1, <1>11, <1>14 DEF d, last

LEMMA FragmentsGrow ==
    ASSUME OwnerInv, Reads
    PROVE  Fragments' = IF Input.kind = "schema" THEN Fragments \cup {File} ELSE Fragments
<1>1. Fragments' = {seen'[k] : k \in {k \in 1..position : queue[k].kind = "schema"}}
  BY HistoryGrows DEF Fragments
<1>2. Fragments = {seen[k] : k \in {k \in 1..(position - 1) : queue[k].kind = "schema"}}
  BY HistoryGrows DEF Fragments
<1>3. \A k \in 1..(position - 1) : k \in 1..position
  BY HistoryGrows
<1>4. position \in 1..position
  BY HistoryGrows
<1> QED BY <1>1, <1>2, <1>3, <1>4, HistoryGrows

LEMMA ReadsKeepInOrder ==
    ASSUME OwnerInv, Typed, InOrder, Reads, Sound, PolicyRead \/ SchemaRead \/ LabelsRead
    PROVE  InOrder'
<1>1. position' <= Len(queue') + 1
  BY HistoryGrows
<1>2. \A k \in 1..Len(seen') : seen'[k] \notin {Missing, NotUtf8, Unparsable}
  <2>1. ASSUME NEW k \in 1..position PROVE seen'[k] \notin {Missing, NotUtf8, Unparsable}
    <3>1. CASE k = position
      BY <3>1, HistoryGrows DEF Sound
    <3>2. CASE k \in 1..(position - 1)
      <4>1. k \in 1..Len(seen)
        BY <3>2, HistoryGrows
      <4> QED BY <4>1, <3>2, HistoryGrows DEF InOrder
    <3> QED BY <3>1, <3>2, HistoryGrows
  <2> QED BY <2>1, HistoryGrows
<1>0. DiskTyped /\ Bookkeeping /\ position <= Len(queue)
  BY ReadsAre DEF OwnerInv, Inv
<1>3. /\ DocumentsOf("policy")' \in Seq(Seq(AnyPolicy))
      /\ text' = FlattenSeq(DocumentsOf("policy")')
  <2> DEFINE d == DocumentsOf("policy")
             last == IF Input.kind = "policy" THEN File ELSE <<>>
             after == DocumentsOf("policy")'
  <2>1. last \in Seq(AnyPolicy)
    BY <1>0, FileIsDocument
  <2>2. d \in Seq(Seq(AnyPolicy)) /\ text = FlattenSeq(d)
    BY DEF InOrder
  <2>3. after = Append(d, last) /\ after \in Seq(Seq(AnyPolicy))
    <3>1. CASE Input.kind = "policy"
      <4>1. {File, <<>>} \subseteq Seq(AnyPolicy)
        BY <3>1, <2>1
      <4> QED BY <4>1, <2>2, DocumentsGrow
    <3>2. CASE Input.kind # "policy"
      <4> DEFINE S == Seq(AnyPolicy) \cup {File}
      <4>1. d \in Seq(S) /\ {File, <<>>} \subseteq S
        BY <2>2
      <4> HIDE DEF S
      <4>2. after = Append(d, last)
        BY <4>1, DocumentsGrow
      <4> HIDE DEF d, last, after
      <4>3. Append(d, last) \in Seq(Seq(AnyPolicy))
        BY <2>1, <2>2
      <4> QED BY <4>2, <4>3
    <3> QED BY <3>1, <3>2
  <2>4. text' = text \o last
    <3>1. CASE PolicyRead
      BY <3>1 DEF PolicyRead
    <3>2. CASE SchemaRead \/ LabelsRead
      <4>1. text' = text /\ last = <<>> /\ text \in Seq(AnyPolicy)
        BY <3>2 DEF SchemaRead, LabelsRead, Typed
      <4>2. text \o <<>> = text
        BY <4>1
      <4> QED BY <4>1, <4>2
    <3> QED BY <3>1, <3>2
  <2> HIDE DEF d, last, after
  <2>5. FlattenSeq(Append(d, last)) = FlattenSeq(d) \o last
    BY <2>1, <2>2, FlattenExtends
  <2>6. text' = FlattenSeq(after) /\ after \in Seq(Seq(AnyPolicy))
    BY <2>2, <2>3, <2>4, <2>5
  <2> QED BY <2>6 DEF after
<1>4. /\ DocumentsOf("label")' \in Seq(Seq(AnyRule))
      /\ labels' = FlattenSeq(DocumentsOf("label")')
  <2> DEFINE d == DocumentsOf("label")
             last == IF Input.kind = "label" THEN File ELSE <<>>
             after == DocumentsOf("label")'
  <2>1. last \in Seq(AnyRule)
    BY <1>0, FileIsDocument
  <2>2. d \in Seq(Seq(AnyRule)) /\ labels = FlattenSeq(d)
    BY DEF InOrder
  <2>3. after = Append(d, last) /\ after \in Seq(Seq(AnyRule))
    <3>1. CASE Input.kind = "label"
      <4>1. {File, <<>>} \subseteq Seq(AnyRule)
        BY <3>1, <2>1
      <4> QED BY <4>1, <2>2, DocumentsGrow
    <3>2. CASE Input.kind # "label"
      <4> DEFINE S == Seq(AnyRule) \cup {File}
      <4>1. d \in Seq(S) /\ {File, <<>>} \subseteq S
        BY <2>2
      <4> HIDE DEF S
      <4>2. after = Append(d, last)
        BY <4>1, DocumentsGrow
      <4> HIDE DEF d, last, after
      <4>3. Append(d, last) \in Seq(Seq(AnyRule))
        BY <2>1, <2>2
      <4> QED BY <4>2, <4>3
    <3> QED BY <3>1, <3>2
  <2>4. labels' = labels \o last
    <3>1. CASE LabelsRead
      BY <3>1 DEF LabelsRead
    <3>2. CASE PolicyRead \/ SchemaRead
      <4>1. labels' = labels /\ last = <<>> /\ labels \in Seq(AnyRule)
        BY <3>2 DEF SchemaRead, PolicyRead, Typed
      <4>2. labels \o <<>> = labels
        BY <4>1
      <4> QED BY <4>1, <4>2
    <3> QED BY <3>1, <3>2
  <2> HIDE DEF d, last, after
  <2>5. FlattenSeq(Append(d, last)) = FlattenSeq(d) \o last
    BY <2>1, <2>2, FlattenExtends
  <2>6. labels' = FlattenSeq(after) /\ after \in Seq(Seq(AnyRule))
    BY <2>2, <2>3, <2>4, <2>5
  <2> QED BY <2>6 DEF after
<1> QED BY <1>1, <1>2, <1>3, <1>4 DEF InOrder

(* What was passed is passed, with the same modules and more diagnostics.  *)
LEMMA ReadsKeepPolicies ==
    ASSUME OwnerInv, Typed, Gathered, PoliciesClean, Reads, Sound,
           outcome = "running", Errors(diagnostics) = {}, Errors(diagnostics') = {},
           diagnostics \subseteq diagnostics', PolicyRead \/ SchemaRead \/ LabelsRead
    PROVE  PoliciesClean'
<1>1. bundle' = bundle /\ Bookkeeping /\ DiskTyped /\ position <= Len(queue)
  BY ReadsAre DEF Kept, OwnerInv, Inv
<1>2. CASE SchemaRead \/ LabelsRead
  <2>1. UNCHANGED <<text, ids, assigned, bundle>>
    BY <1>1, <1>2 DEF SchemaRead, LabelsRead
  <2>2. ASSUME NEW policy \in ElementsOf(text)
        PROVE  \E m \in 1..Len(bundle) :
                  policy.id \in ElementsOf(assigned[m]) /\ Passed(policy, m, diagnostics')
    <3>1. PICK m \in 1..Len(bundle) :
              policy.id \in ElementsOf(assigned[m]) /\ Passed(policy, m, diagnostics)
      BY DEF PoliciesClean
    <3>2. Passed(policy, m, diagnostics')
      BY <3>1, PassedStays
    <3> QED BY <3>1, <3>2
  <2> QED BY <2>1, <2>2 DEF PoliciesClean, Passed, DistinctIds
<1>3. CASE PolicyRead
  <2> DEFINE m == Input.module
             found == DocumentDiagnostics(File, bundle[m], ids)
  <2>1. /\ found \subseteq diagnostics' /\ ids' = ids \cup IdsOf(File)
        /\ assigned' = [assigned EXCEPT ![m] = @ \o IdsInOrder(File)]
        /\ text' = text \o File /\ Input.kind = "policy"
    BY <1>3 DEF PolicyRead
  <2>2. File \in Seq(AnyPolicy) /\ Len(File) \in Nat /\ m \in 1..Len(bundle)
    BY <1>1, <2>1, FileIsDocument DEF InputsOf
  <2>3. Errors(found) = {}
    BY <2>1, ErrorsGrow
  <2> HIDE DEF m
  <2>4. /\ DistinctIds(File)
        /\ IdsOf(File) = {policy.id : policy \in ElementsOf(File)}
        /\ \A policy \in ElementsOf(File) : Passed(policy, m, found)
        /\ ~HasRepeats(IdsInOrder(File))
    BY <2>2, <2>3, DocumentPasses
  <2>5. IdsOf(File) \cap ids = {}
    BY <2>3, DocumentIsSound
  <2> HIDE DEF found
  <2>6. ids = {policy.id : policy \in ElementsOf(text)} /\ text \in Seq(AnyPolicy)
    BY DEF PoliciesClean, Typed
  <2>7. DistinctIds(text')
    <3>1. \A e \in ElementsOf(text) : \A f \in ElementsOf(File) : e.id # f.id
      BY <2>4, <2>5, <2>6
    <3>2. DistinctIds(text \o File)
      BY <3>1, <2>2, <2>4, <2>6, DistinctJoined DEF PoliciesClean
    <3> QED BY <3>2, <2>1
  <2>8. ElementsOf(text') = ElementsOf(text) \cup ElementsOf(File)
    BY <2>1, <2>2, <2>6, ElementsJoined
  <2>9. ids' = {policy.id : policy \in ElementsOf(text')}
    BY <2>1, <2>4, <2>6, <2>8
  <2>10. IdsInOrder(File) \in Seq(IdsOf(File)) /\ ElementsOf(IdsInOrder(File)) = IdsOf(File)
    BY <2>2, IdsInOrderAreIds
  <2>11. \A n \in 1..Len(bundle) : assigned[n] \in Seq(ids) /\ ElementsOf(assigned[n]) \subseteq ids
    BY DEF OwnerInv, AssignedTyped, ElementsOf
  <2>12. assigned'[m] = assigned[m] \o IdsInOrder(File)
         /\ \A n \in 1..Len(bundle) : n # m => assigned'[n] = assigned[n]
    BY <2>1, <2>2 DEF OwnerInv, AssignedTyped
  <2>13. /\ ElementsOf(assigned'[m]) = ElementsOf(assigned[m]) \cup IdsOf(File)
         /\ ~HasRepeats(assigned'[m])
    <3> DEFINE Ids == ids \cup IdsOf(File)
    <3>1. assigned[m] \in Seq(Ids) /\ IdsInOrder(File) \in Seq(Ids)
      BY <2>2, <2>10, <2>11
    <3> HIDE DEF Ids
    <3>2. ElementsOf(assigned[m] \o IdsInOrder(File))
            = ElementsOf(assigned[m]) \cup ElementsOf(IdsInOrder(File))
      BY <3>1, ElementsJoined
    <3>3. ElementsOf(assigned[m]) \cap ElementsOf(IdsInOrder(File)) = {}
      BY <2>2, <2>5, <2>10, <2>11
    <3>4. ~HasRepeats(assigned[m])
      BY <2>2 DEF PoliciesClean
    <3>5. ~HasRepeats(assigned[m] \o IdsInOrder(File))
      BY <3>1, <3>3, <3>4, <2>4, NoRepeatsJoined
    <3> QED BY <3>2, <3>5, <2>10, <2>12
  <2>14. ASSUME NEW n \in 1..Len(bundle)
         PROVE  ~HasRepeats(assigned'[n]) /\ ElementsOf(assigned[n]) \subseteq ElementsOf(assigned'[n])
    <3>1. CASE n = m
      BY <3>1, <2>13
    <3>2. CASE n # m
      BY <3>2, <2>12 DEF PoliciesClean
    <3> QED BY <3>1, <3>2
  <2>15. ASSUME NEW policy \in ElementsOf(text')
         PROVE  \E n \in 1..Len(bundle) :
                   policy.id \in ElementsOf(assigned'[n]) /\ Passed(policy, n, diagnostics')
    <3>1. CASE policy \in ElementsOf(text)
      <4>1. PICK n \in 1..Len(bundle) :
                policy.id \in ElementsOf(assigned[n]) /\ Passed(policy, n, diagnostics)
        BY <3>1 DEF PoliciesClean
      <4>2. Passed(policy, n, diagnostics')
        BY <4>1, PassedStays
      <4> QED BY <4>1, <4>2, <2>14
    <3>2. CASE policy \in ElementsOf(File)
      <4>1. Passed(policy, m, diagnostics')
        BY <3>2, <2>1, <2>4, PassedStays
      <4>2. policy.id \in ElementsOf(assigned'[m])
        BY <3>2, <2>4, <2>13
      <4> QED BY <4>1, <4>2, <2>2
    <3> QED BY <3>1, <3>2, <2>8
  <2> QED BY <1>1, <2>7, <2>9, <2>14, <2>15 DEF PoliciesClean, Passed, DistinctIds
<1> QED BY <1>2, <1>3

(* The schema merged so far, and whom its namespaces belong to.            *)
LEMMA MergesGrow ==
    ASSUME NEW fragments, NEW merged, NEW fragment, Merges(merged, fragments),
           MergeDiagnostics(merged, fragment) = {}
    PROVE  Merges(MergeSchema(merged, fragment), fragments \cup {fragment})
<1> DEFINE more == MergeSchema(merged, fragment)
<1>1. /\ DOMAIN merged.declarations \cap DOMAIN fragment.declarations = {}
      /\ \A key \in DOMAIN merged.fields \cap DOMAIN fragment.fields :
            merged.fields[key] = fragment.fields[key]
  BY DEF MergeDiagnostics, When
<1>2. /\ DOMAIN more.declarations = DOMAIN merged.declarations \cup DOMAIN fragment.declarations
      /\ DOMAIN more.fields = DOMAIN merged.fields \cup DOMAIN fragment.fields
      /\ \A d \in DOMAIN more.declarations : more.declarations[d] =
            IF d \in DOMAIN fragment.declarations THEN fragment.declarations[d]
            ELSE merged.declarations[d]
      /\ \A d \in DOMAIN more.fields : more.fields[d] =
            IF d \in DOMAIN merged.fields THEN merged.fields[d] ELSE fragment.fields[d]
  BY DEF MergeSchema
<1> HIDE DEF more
<1>3. /\ DOMAIN merged.declarations = UNION {DOMAIN f.declarations : f \in fragments}
      /\ DOMAIN merged.fields = UNION {DOMAIN f.fields : f \in fragments}
  BY DEF Merges
<1>4. DOMAIN more.declarations = UNION {DOMAIN f.declarations : f \in fragments \cup {fragment}}
  BY <1>2, <1>3
<1>5. DOMAIN more.fields = UNION {DOMAIN f.fields : f \in fragments \cup {fragment}}
  BY <1>2, <1>3
<1>6. ASSUME NEW f \in fragments
      PROVE  /\ \A d \in DOMAIN f.declarations : more.declarations[d] = f.declarations[d]
             /\ \A d \in DOMAIN f.fields : more.fields[d] = f.fields[d]
  <2>1. /\ \A d \in DOMAIN f.declarations : merged.declarations[d] = f.declarations[d]
        /\ \A d \in DOMAIN f.fields : merged.fields[d] = f.fields[d]
    BY DEF Merges
  <2>2. DOMAIN f.declarations \subseteq DOMAIN merged.declarations
    BY <1>3
  <2>3. DOMAIN f.fields \subseteq DOMAIN merged.fields
    BY <1>3
  <2> QED BY <2>1, <2>2, <2>3, <1>1, <1>2
<1>7. /\ \A d \in DOMAIN fragment.declarations : more.declarations[d] = fragment.declarations[d]
      /\ \A d \in DOMAIN fragment.fields : more.fields[d] = fragment.fields[d]
  BY <1>1, <1>2
<1>8. \A f \in fragments \cup {fragment} :
         /\ \A d \in DOMAIN f.declarations : more.declarations[d] = f.declarations[d]
         /\ \A d \in DOMAIN f.fields : more.fields[d] = f.fields[d]
  BY <1>6, <1>7
<1> QED BY <1>4, <1>5, <1>8 DEF Merges, more

LEMMA ReadsKeepSchema ==
    ASSUME OwnerInv, SchemaClean, Reads, Errors(diagnostics') = {},
           PolicyRead \/ SchemaRead \/ LabelsRead
    PROVE  SchemaClean'
<1>1. bundle' = bundle /\ Input \in InputsOf(bundle)
  BY HistoryGrows
<1>2. CASE PolicyRead \/ LabelsRead
  <2>1. Fragments' = Fragments /\ UNCHANGED <<hasSchema, schema>>
    BY <1>2, FragmentsGrow DEF PolicyRead, LabelsRead
  <2> QED BY <1>1, <2>1 DEF SchemaClean
<1>3. CASE SchemaRead
  <2>1. Fragments' = Fragments \cup {File} /\ hasSchema' = TRUE /\ schema' = MergeSchema(schema, File)
    BY <1>3, FragmentsGrow DEF SchemaRead
  <2>2. MergeDiagnostics(schema, File) = {}
    <3>1. MergeDiagnostics(schema, File) \cap WarningCodes = {}
      BY DEF MergeDiagnostics, When, WarningCodes
    <3>2. MergeDiagnostics(schema, File) \subseteq diagnostics'
      BY <1>3 DEF SchemaRead
    <3> QED BY <3>1, <3>2 DEF Errors
  <2>3. Merges(schema', Fragments')
    BY <2>1, <2>2, MergesGrow DEF SchemaClean
  <2>4. schema' = [namespaces |-> schema'.namespaces, declarations |-> schema'.declarations,
                   fields |-> schema'.fields]
        /\ schema'.namespaces = schema.namespaces \cup File.namespaces
    BY <2>1 DEF MergeSchema
  <2>5. "schema.namespace_violation" \notin diagnostics'
    BY DEF Errors, WarningCodes
  <2>6. \A ns \in File.namespaces : NamespaceOwns(bundle[Input.module].namespace, ns)
    BY <2>5, <1>3 DEF SchemaRead, When
  <2>7. Input.module \in 1..Len(bundle)
    BY <1>1 DEF InputsOf
  <2>8. \A ns \in schema'.namespaces : OwnedBySome(bundle, ns)
    BY <2>4, <2>6, <2>7 DEF SchemaClean, OwnedBySome
  <2> QED BY <1>1, <2>1, <2>3, <2>4, <2>8 DEF SchemaClean
<1> QED BY <1>2, <1>3

LEMMA ReadsKeepLabels ==
    ASSUME OwnerInv, Typed, LabelsClean, Reads, Sound, Errors(diagnostics') = {},
           PolicyRead \/ SchemaRead \/ LabelsRead
    PROVE  LabelsClean'
<1>1. bundle' = bundle /\ Input \in InputsOf(bundle) /\ Bookkeeping /\ DiskTyped
      /\ position <= Len(queue)
  BY HistoryGrows, ReadsAre DEF OwnerInv, Inv
<1>2. CASE PolicyRead \/ SchemaRead
  BY <1>1, <1>2 DEF PolicyRead, SchemaRead, LabelsClean
<1>3. CASE LabelsRead
  <2>1. labels' = labels \o File /\ Input.kind = "label"
    BY <1>3 DEF LabelsRead
  <2>2. labels \in Seq(AnyRule) /\ File \in Seq(AnyRule)
    BY <1>1, <2>1, FileIsDocument DEF Typed
  <2>3. ElementsOf(labels') = ElementsOf(labels) \cup ElementsOf(File)
    BY <2>1, <2>2, ElementsJoined
  <2>4. "labels.namespace_violation" \notin diagnostics'
    BY DEF Errors, WarningCodes
  <2>5. \A i \in 1..Len(File) : NamespaceOwns(bundle[Input.module].namespace, File[i].target[1])
    BY <2>4, <1>3 DEF LabelsRead, When
  <2>6. \A rule \in ElementsOf(File) : OwnedBySome(bundle, rule.target[1])
    BY <1>1, <2>5 DEF InputsOf, OwnedBySome, ElementsOf
  <2> QED BY <1>1, <2>3, <2>6 DEF LabelsClean
<1> QED BY <1>2, <1>3

LEMMA ReadsKeepShip ==
    ASSUME ShipInv, Reads
    PROVE  ShipInv'
<1>1. OwnerInv' /\ Typed' /\ Gathered'
  BY ReadsKeepOwner, ReadsKeepLists DEF ShipInv
<1>2. Promises'
  <2>1. outcome = "running" /\ parts' = parts
    BY ReadsAre DEF Reads, ReadPolicies, ReadSchema, ReadLabels
  <2>2. parts' = NoParts
    BY <2>1 DEF ShipInv, OwnerInv, Counted
  <2> QED BY <2>2 DEF Promises, BuildValidates, WarningsAnnounced, ShipsWhatItRead, Built
<1>3. Clean'
  <2> SUFFICES ASSUME outcome' = "running", Errors(diagnostics') = {}
               PROVE  (InOrder /\ PoliciesClean /\ SchemaClean /\ LabelsClean)'
    BY DEF Clean
  <2>1. /\ outcome = "running" /\ Errors(diagnostics) = {} /\ Sound
        /\ diagnostics \subseteq diagnostics'
        /\ PolicyRead \/ SchemaRead \/ LabelsRead
    BY CleanRead DEF ShipInv
  <2>2. OwnerInv /\ Typed /\ Gathered /\ InOrder /\ PoliciesClean /\ SchemaClean /\ LabelsClean
    BY <2>1 DEF ShipInv, Clean
  <2> QED BY <2>1, <2>2, ReadsKeepInOrder, ReadsKeepPolicies, ReadsKeepSchema, ReadsKeepLabels
<1> QED BY <1>1, <1>2, <1>3 DEF ShipInv

LEMMA InitShip == Init => ShipInv
<1> SUFFICES ASSUME Init PROVE ShipInv
  OBVIOUS
<1>1. OwnerInv
  BY InitOwner
<1>2. Typed
  BY DEF Init, Typed
<1>3. Gathered
  BY DEF Init, Gathered, ElementsOf
<1>4. Clean /\ Promises
  BY DEF Init, Clean, Promises, BuildValidates, WarningsAnnounced, ShipsWhatItRead, Built
<1> QED BY <1>1, <1>2, <1>3, <1>4 DEF ShipInv

LEMMA StartKeepsShip ==
    ASSUME ShipInv, NEW m \in {"check", "build", "module"}, NEW d \in BOOLEAN, Start(m, d)
    PROVE  ShipInv'
<1>1. OwnerInv'
  BY StartKeepsOwner DEF ShipInv
<1>2. /\ bundle' = bundle /\ queue' = queue /\ seen' = <<>> /\ parts' = NoParts /\ position' = 1
      /\ text' = <<>> /\ aggregate' = <<>> /\ labels' = <<>>
      /\ ids' = {} /\ assigned' = [k \in 1..Len(bundle) |-> <<>>]
      /\ hasSchema' = FALSE /\ schema' = EmptySchema
  BY DEF Start, FreshPosition, FreshIds, FreshText
<1>3. Typed'
  BY <1>2 DEF Typed
<1>4. Gathered'
  BY <1>2 DEF Gathered, ElementsOf
<1>5. Promises'
  BY <1>2 DEF Promises, BuildValidates, WarningsAnnounced, ShipsWhatItRead, Built
<1>6. InOrder'
  <2>1. DocumentsOf("policy")' = <<>> /\ DocumentsOf("label")' = <<>>
    BY <1>2 DEF DocumentsOf
  <2>2. FlattenSeq(<<>>) = <<>>
    BY DEF FlattenSeq
  <2>3. Len(queue) \in Nat
    BY QueueIsLong DEF ShipInv, OwnerInv, Inv
  <2>4. position' <= Len(queue') + 1 /\ 1..Len(seen') = {}
    BY <1>2, <2>3
  <2>5. DocumentsOf("policy")' \in Seq(Seq(AnyPolicy)) /\ DocumentsOf("label")' \in Seq(Seq(AnyRule))
    <3>1. <<>> \in Seq(Seq(AnyPolicy)) /\ <<>> \in Seq(Seq(AnyRule))
      OBVIOUS
    <3> QED BY <2>1, <3>1, Zenon
  <2>6. text' = FlattenSeq(DocumentsOf("policy")') /\ labels' = FlattenSeq(DocumentsOf("label")')
    BY <1>2, <2>1, <2>2
  <2> QED BY <2>4, <2>5, <2>6 DEF InOrder
<1>7. PoliciesClean'
  BY <1>2 DEF PoliciesClean, DistinctIds, ElementsOf, HasRepeats
<1>8. SchemaClean'
  <2>1. Fragments' = {}
    BY <1>2 DEF Fragments
  <2>2. DOMAIN <<>> = {}
    OBVIOUS
  <2> QED BY <1>2, <2>1, <2>2 DEF SchemaClean, Merges, EmptySchema
<1>9. LabelsClean'
  BY <1>2 DEF LabelsClean, ElementsOf
<1> QED BY <1>1, <1>3, <1>4, <1>5, <1>6, <1>7, <1>8, <1>9 DEF ShipInv, Clean

(* A step that leaves the run alone.                                       *)
LEMMA UntouchedShip ==
    ASSUME ShipInv, OwnerInv',
           UNCHANGED <<bundle, queue, accumulators, diagnostics, outcome, parts, seen>>
    PROVE  ShipInv'
<1>1. /\ bundle' = bundle /\ queue' = queue /\ seen' = seen /\ parts' = parts
      /\ position' = position /\ diagnostics' = diagnostics /\ outcome' = outcome
      /\ text' = text /\ aggregate' = aggregate /\ labels' = labels
      /\ ids' = ids /\ assigned' = assigned /\ hasSchema' = hasSchema /\ schema' = schema
  BY DEF accumulators
<1>2. Typed' /\ Gathered'
  BY <1>1 DEF ShipInv, Typed, Gathered
<1>3. DocumentsOf("policy")' = DocumentsOf("policy") /\ DocumentsOf("label")' = DocumentsOf("label")
      /\ Fragments' = Fragments
  BY <1>1 DEF DocumentsOf, Fragments
<1>4. InOrder' <=> InOrder
  BY <1>1, <1>3 DEF InOrder
<1>5. PoliciesClean' <=> PoliciesClean
  BY <1>1 DEF PoliciesClean, Passed
<1>6. SchemaClean' <=> SchemaClean
  BY <1>1, <1>3 DEF SchemaClean
<1>7. LabelsClean' <=> LabelsClean
  BY <1>1 DEF LabelsClean
<1>8. Clean'
  BY <1>1, <1>4, <1>5, <1>6, <1>7 DEF ShipInv, Clean
<1>9. BuildValidates' /\ WarningsAnnounced'
  BY <1>1 DEF ShipInv, Promises, BuildValidates, WarningsAnnounced, Built, ManifestBuilt
<1>10. ShipsWhatItRead'
  BY <1>1, <1>3 DEF ShipInv, Promises, ShipsWhatItRead, Built
<1> QED BY <1>2, <1>8, <1>9, <1>10 DEF ShipInv, Promises

(***************************************************************************)
(* What a build makes of a run without an error.                           *)
(***************************************************************************)
LEMMA BuildIsClean ==
    ASSUME ShipInv, Finish, parts' # NoParts
    PROVE  /\ parts' = Compiled /\ bundle \in Bundles /\ Len(bundle) \in Nat \ {0}
           /\ InOrder /\ PoliciesClean /\ SchemaClean /\ LabelsClean /\ Disjoint(assigned)
           /\ diagnostics' = diagnostics \cup AggregateDiagnostics
           /\ Errors(diagnostics') = {}
           /\ Len(seen) = Len(queue) /\ Combined = labels
           /\ LabelSetDiagnostics(labels) = {}
<1>1. outcome = "running" /\ position > Len(queue) /\ Bookkeeping /\ Recorded /\ Counted
      /\ diagnostics' = diagnostics \cup AggregateDiagnostics /\ parts = NoParts
  BY DEF Finish, Running, ShipInv, OwnerInv, Inv, Counted
<1>2. parts' = Compiled /\ Errors(diagnostics') = {} /\ mode = "build"
  BY <1>1 DEF Finish
<1>3. bundle \in Bundles /\ Len(bundle) \in Nat \ {0}
  BY <1>1, <1>2, BundlesAssumption DEF Bookkeeping
<1>4. Errors(diagnostics) = {}
  BY <1>1, <1>2, ErrorsGrow
<1>5. InOrder /\ PoliciesClean /\ SchemaClean /\ LabelsClean /\ Disjoint(assigned)
  BY <1>1, <1>4 DEF ShipInv, Clean, Recorded
<1>6. Len(seen) = Len(queue)
  BY <1>1, <1>5, QueueIsLong DEF InOrder, Counted, Bookkeeping
<1>7. LabelSetDiagnostics(labels) = {}
  <2>1. LabelSetDiagnostics(labels) \subseteq diagnostics'
    BY <1>1 DEF AggregateDiagnostics
  <2>2. LabelSetDiagnostics(labels) \cap WarningCodes = {}
    BY DEF LabelSetDiagnostics, WarningCodes, When
  <2> QED BY <1>2, <2>1, <2>2 DEF Errors
<1> QED BY <1>1, <1>2, <1>3, <1>5, <1>6, <1>7 DEF Combined

LEMMA RecordsAreModules ==
    ASSUME Len(bundle) \in Nat
    PROVE  /\ Len(Records) = Len(bundle)
           /\ \A m \in 1..Len(bundle) :
                /\ Records[m].name = bundle[m].name /\ Records[m].namespace = bundle[m].namespace
                /\ Records[m].imports = bundle[m].imports /\ Records[m].role = bundle[m].role
                /\ Records[m].policyIds = assigned[m]
  BY DEF Records

LEMMA OwnedByRecords ==
    ASSUME Len(bundle) \in Nat, NEW name
    PROVE  OwnedBySome(Records, name) <=> OwnedBySome(bundle, name)
  BY RecordsAreModules DEF OwnedBySome

(* The reader looks a policy up where the compiler has passed it.          *)
LEMMA PolicyAgain ==
    ASSUME Len(bundle) \in Nat, Disjoint(assigned), NEW policy, NEW m \in 1..Len(bundle),
           policy.id \in ElementsOf(assigned[m]), NEW found, Passed(policy, m, found)
    PROVE  ArchivedPolicyDiagnostics(policy, Records) \subseteq found
<1>1. Assigning(Records, policy.id) = {m}
  <2>1. \A n \in 1..Len(bundle) : n # m => policy.id \notin ElementsOf(assigned[n])
    BY DEF Disjoint
  <2> QED BY <2>1, RecordsAreModules DEF Assigning
<1> DEFINE last == CHOOSE i \in Assigning(Records, policy.id) :
                      \A j \in Assigning(Records, policy.id) : j <= i
<1>2. last = m
  <2>1. m <= m
    OBVIOUS
  <2>2. \E i \in {m} : \A j \in {m} : j <= i
    BY <2>1
  <2>3. (CHOOSE i \in {m} : \A j \in {m} : j <= i) \in {m}
    BY <2>2
  <2> QED BY <1>1, <2>3
<1> HIDE DEF last
<1>3. PrefixDiagnostics(policy, Records[m]) = PrefixDiagnostics(policy, bundle[m])
  BY RecordsAreModules DEF PrefixDiagnostics
<1>4. OwnershipDiagnostics(policy, Records[m]) = OwnershipDiagnostics(policy, bundle[m])
  BY RecordsAreModules DEF OwnershipDiagnostics, OwnedOrImported
<1>5. ArchivedPolicyDiagnostics(policy, Records)
        = PrefixDiagnostics(policy, Records[m]) \cup OwnershipDiagnostics(policy, Records[m])
  BY <1>1, <1>2 DEF ArchivedPolicyDiagnostics, last
<1> QED BY <1>3, <1>4, <1>5 DEF Passed

LEMMA FinitelyManyIds ==
    ASSUME ShipInv, PoliciesClean
    PROVE  ids \in SUBSET Nat /\ IsFiniteSet(ids)
<1>1. text \in Seq(AnyPolicy) /\ Len(text) \in Nat /\ \A i \in 1..Len(text) : text[i] \in AnyPolicy
  BY DEF ShipInv, Typed
<1>2. ids = {text[i].id : i \in 1..Len(text)}
  BY DEF PoliciesClean, ElementsOf
<1>3. ids \subseteq Nat
  BY <1>1, <1>2 DEF AnyPolicy
<1>4. IsFiniteSet(1..Len(text))
  BY <1>1, FS_Interval
<1> DEFINE f == [i \in 1..Len(text) |-> text[i].id]
<1>5. f \in Surjection(1..Len(text), ids)
  BY <1>2 DEF Surjection
<1>6. IsFiniteSet(ids)
  BY <1>4, <1>5, FS_Surjection
<1> QED BY <1>3, <1>6

(* cedar says of the policies as a whole what it said of the aggregate.    *)
LEMMA StrictAgain ==
    ASSUME Gathered, \A policy \in ElementsOf(text) : policy.static, NEW s
    PROVE  StrictDiagnostics(text, s) = StrictDiagnostics(aggregate, s)
<1>1. ElementsOf(aggregate) = ElementsOf(text)
  BY DEF Gathered
<1> DEFINE Said(policies) == UNION {Strict(policies[i], s) : i \in 1..Len(policies)}
<1>2. ASSUME NEW policies
      PROVE  Said(policies) = UNION {Strict(policy, s) : policy \in ElementsOf(policies)}
  BY DEF ElementsOf
<1>3. Said(text) = Said(aggregate)
  BY <1>1, <1>2
<1> HIDE DEF Said
<1>4. \A policies : StrictDiagnostics(policies, s) =
         When(Said(policies) \cap {"error", "misapplied"} # {}, "policy.schema_validation")
         \cup When("warning" \in Said(policies), "policy.schema_warning")
  BY DEF StrictDiagnostics, Said
<1> QED BY <1>3, <1>4

(* Nothing that the reader finds in what a build emits is news.            *)
LEMMA NothingNew ==
    ASSUME ShipInv, Finish, parts' # NoParts
    PROVE  ArchiveDiagnostics(Compiled) \subseteq diagnostics'
<1>1. /\ Len(bundle) \in Nat /\ Combined = labels /\ Gathered /\ Typed
      /\ PoliciesClean /\ SchemaClean /\ LabelsClean /\ Disjoint(assigned)
      /\ diagnostics' = diagnostics \cup AggregateDiagnostics
      /\ Errors(diagnostics') = {}
  BY BuildIsClean DEF ShipInv
<1>2. /\ Compiled.policies = text /\ Compiled.modules = Records /\ Compiled.labels = labels
      /\ Compiled.policyIds = Ascending(ids)
      /\ Compiled.schema = IF hasSchema THEN schema ELSE NoSchema
  BY <1>1 DEF Compiled
<1>3. \A policy \in ElementsOf(text) : \E m \in 1..Len(bundle) :
         policy.id \in ElementsOf(assigned[m]) /\ Passed(policy, m, diagnostics)
  BY <1>1 DEF PoliciesClean
<1>4. \A policy \in ElementsOf(text) : policy.static /\ policy.id # MissingId
  BY <1>3 DEF Passed
<1>5. Identified(text) = 1..Len(text) /\ Statics(text) = 1..Len(text)
  BY <1>4 DEF Identified, Statics, ElementsOf
<1>6. TemplateDiagnostics(text) = {}
  BY <1>4 DEF TemplateDiagnostics, When, ElementsOf
<1>7. IdDiagnostics(text, {}) = {}
  BY <1>1, <1>5 DEF IdDiagnostics, When, PoliciesClean, DistinctIds
<1>8. ASSUME NEW i \in Identified(text)
      PROVE  ArchivedPolicyDiagnostics(text[i], Records) \subseteq diagnostics'
  <2>1. text[i] \in ElementsOf(text)
    BY <1>5 DEF ElementsOf
  <2>2. PICK m \in 1..Len(bundle) :
            text[i].id \in ElementsOf(assigned[m]) /\ Passed(text[i], m, diagnostics)
    BY <1>3, <2>1
  <2>3. ArchivedPolicyDiagnostics(text[i], Records) \subseteq diagnostics
    BY <1>1, <2>2, PolicyAgain
  <2> QED BY <1>1, <2>3
<1>9. When(IdsOf(text) # ElementsOf(Ascending(ids)), "archive.policy_ids_mismatch") = {}
  <2>1. ids \in SUBSET Nat /\ IsFiniteSet(ids)
    BY <1>1, FinitelyManyIds
  <2>2. ElementsOf(Ascending(ids)) = ids
    BY <2>1, AscendingEnumerates
  <2>3. IdsOf(text) = ids
    BY <1>1, <1>5 DEF IdsOf, PoliciesClean, ElementsOf
  <2> QED BY <2>2, <2>3 DEF When
<1>10. When(\E i \in 1..Len(labels) : ~OwnedBySome(Records, labels[i].target[1]),
            "labels.namespace_violation") = {}
  <2>1. ASSUME NEW i \in 1..Len(labels) PROVE OwnedBySome(Records, labels[i].target[1])
    <3>1. labels[i] \in ElementsOf(labels)
      BY DEF ElementsOf
    <3>2. OwnedBySome(bundle, labels[i].target[1])
      BY <1>1, <3>1 DEF LabelsClean
    <3> QED BY <3>2, <1>1, OwnedByRecords
  <2> QED BY <2>1 DEF When
<1> DEFINE OfSchema(s) ==
               IF s = NoSchema THEN {"schema.compatibility_skipped"}
               ELSE When(\E ns \in s.namespaces : ~OwnedBySome(Records, ns),
                         "schema.namespace_violation")
                    \cup (IF SchemaLoads(s)
                          THEN StrictDiagnostics(text, s) \cup LabelSchemaDiagnostics(labels, s)
                          ELSE {"schema.aggregate_invalid"})
<1>11. OfSchema(Compiled.schema) \subseteq diagnostics'
  <2>1. CASE ~hasSchema
    <3>1. OfSchema(Compiled.schema) = {"schema.compatibility_skipped"}
      BY <2>1, <1>2
    <3> QED BY <3>1, <2>1, <1>1 DEF AggregateDiagnostics
  <2>2. CASE hasSchema
    <3>1. Compiled.schema = schema
      BY <2>2, <1>2
    <3>2. schema # NoSchema
      <4>1. DOMAIN schema = {"namespaces", "declarations", "fields"}
        BY <1>1 DEF SchemaClean
      <4>2. DOMAIN <<>> = {}
        OBVIOUS
      <4> QED BY <4>1, <4>2 DEF NoSchema
    <3>3. SchemaLoads(schema)
      <4>1. ~SchemaLoads(schema) => "schema.aggregate_invalid" \in diagnostics'
        BY <2>2, <1>1 DEF AggregateDiagnostics
      <4>2. "schema.aggregate_invalid" \notin diagnostics'
        BY <1>1 DEF Errors, WarningCodes
      <4> QED BY <4>1, <4>2
    <3>4. StrictDiagnostics(aggregate, schema) \cup LabelSchemaDiagnostics(labels, schema)
            \subseteq diagnostics'
      BY <2>2, <3>3, <1>1 DEF AggregateDiagnostics
    <3>5. StrictDiagnostics(text, schema) = StrictDiagnostics(aggregate, schema)
      BY <1>1, <1>4, StrictAgain
    <3>6. When(\E ns \in schema.namespaces : ~OwnedBySome(Records, ns), "schema.namespace_violation") = {}
      <4>1. \A ns \in schema.namespaces : OwnedBySome(Records, ns)
        BY <1>1, OwnedByRecords DEF SchemaClean
      <4> QED BY <4>1 DEF When
    <3>7. OfSchema(schema) = StrictDiagnostics(text, schema) \cup LabelSchemaDiagnostics(labels, schema)
      BY <3>2, <3>3, <3>6
    <3> HIDE DEF OfSchema
    <3> QED BY <3>1, <3>4, <3>5, <3>7
  <2> QED BY <2>1, <2>2
<1> DEFINE OfPolicies == UNION {ArchivedPolicyDiagnostics(text[i], Records) : i \in Identified(text)}
<1>12. ArchiveDiagnostics(Compiled) =
         TemplateDiagnostics(text) \cup IdDiagnostics(text, {}) \cup OfPolicies
         \cup When(IdsOf(text) # ElementsOf(Ascending(ids)), "archive.policy_ids_mismatch")
         \cup OfSchema(Compiled.schema)
         \cup When(\E i \in 1..Len(labels) : ~OwnedBySome(Records, labels[i].target[1]),
                   "labels.namespace_violation")
  BY <1>2 DEF ArchiveDiagnostics
<1>13. OfPolicies \subseteq diagnostics'
  BY <1>8
<1> HIDE DEF OfPolicies, OfSchema
<1> QED BY <1>6, <1>7, <1>9, <1>10, <1>11, <1>12, <1>13

(* The manifest of what a build emits.                                     *)
LEMMA RecordsValid ==
    ASSUME Len(bundle) \in Nat \ {0}, ModulesValid(bundle)
    PROVE  ModulesValid(Records)
<1>1. Len(Records) = Len(bundle) /\ Records # <<>>
  BY RecordsAreModules
<1>2. NamespacesOf(Records) = NamespacesOf(bundle)
  BY RecordsAreModules DEF NamespacesOf
<1>3. OrderedByName(Records)
  <2>1. ASSUME NEW i \in 1..(Len(bundle) - 1)
        PROVE  Before(Records[i].name, Records[i + 1].name)
    <3>1. i \in 1..Len(bundle) /\ i + 1 \in 1..Len(bundle)
      OBVIOUS
    <3>2. Before(bundle[i].name, bundle[i + 1].name)
      BY DEF ModulesValid, OrderedByName
    <3> QED BY <3>1, <3>2, RecordsAreModules
  <2> QED BY <2>1, <1>1 DEF OrderedByName
<1>4. \A i \in 1..Len(Records) :
         ~Blank(Records[i].name) /\ Records[i].namespace \in CedarNames
  BY RecordsAreModules DEF ModulesValid
<1>5. ImportsValid(Records)
  BY <1>2, RecordsAreModules DEF ModulesValid, ImportsValid
<1>6. ~AdjacentOverlap(SortedNames(NamespacesOf(Records)))
  BY <1>2 DEF ModulesValid
<1> QED BY <1>1, <1>3, <1>4, <1>5, <1>6 DEF ModulesValid

LEMMA RecordsAssign ==
    ASSUME ShipInv, Len(bundle) \in Nat, PoliciesClean, Disjoint(assigned)
    PROVE  StrictlyIncreasing(Ascending(ids)) /\ AssignmentsValid(Records, Ascending(ids))
<1>1. StrictlyIncreasing(Ascending(ids)) /\ ElementsOf(Ascending(ids)) = ids
  BY FinitelyManyIds, AscendingEnumerates
<1>2. ASSUME NEW i \in 1..Len(bundle), NEW j \in 1..Len(bundle),
             NEW p \in 1..Len(assigned[i]), NEW q \in 1..Len(assigned[j]),
             assigned[i][p] = assigned[j][q]
      PROVE  i = j /\ p = q
  <2>1. assigned[i][p] \in ElementsOf(assigned[i]) /\ assigned[j][q] \in ElementsOf(assigned[j])
    BY DEF ElementsOf
  <2>2. i = j
    BY <2>1, <1>2 DEF Disjoint
  <2> QED BY <2>2, <1>2 DEF PoliciesClean, HasRepeats
<1>3. UNION {ElementsOf(Records[i].policyIds) : i \in 1..Len(Records)} = ids
  BY RecordsAreModules DEF ShipInv, Gathered
<1>4. ASSUME NEW i \in 1..Len(Records), NEW j \in 1..Len(Records),
             NEW p \in 1..Len(Records[i].policyIds), NEW q \in 1..Len(Records[j].policyIds),
             Records[i].policyIds[p] = Records[j].policyIds[q]
      PROVE  i = j /\ p = q
  <2>1. i \in 1..Len(bundle) /\ j \in 1..Len(bundle)
        /\ Records[i].policyIds = assigned[i] /\ Records[j].policyIds = assigned[j]
    BY RecordsAreModules
  <2> QED BY <1>2, <1>4, <2>1
<1> QED BY <1>1, <1>3, <1>4 DEF AssignmentsValid

LEMMA FinishKeepsShip ==
    ASSUME ShipInv, Finish
    PROVE  ShipInv'
<1>1. OwnerInv'
  BY FinishKeepsOwner DEF ShipInv
<1>2. /\ bundle' = bundle /\ queue' = queue /\ seen' = seen /\ outcome' # "running"
      /\ UNCHANGED <<text, aggregate, labels, ids, assigned, hasSchema, schema>>
  BY DEF Finish, accumulators
<1>3. Typed' /\ Gathered' /\ Clean'
  BY <1>2 DEF ShipInv, Typed, Gathered, Clean
<1>4. CASE parts' = NoParts
  <2>1. Promises'
    BY <1>4 DEF Promises, BuildValidates, WarningsAnnounced, ShipsWhatItRead, Built
  <2> QED BY <2>1, <1>1, <1>3 DEF ShipInv
<1>5. CASE parts' # NoParts
  <2>1. /\ parts' = Compiled /\ bundle \in Bundles /\ Len(bundle) \in Nat \ {0}
        /\ InOrder /\ PoliciesClean /\ SchemaClean /\ LabelsClean /\ Disjoint(assigned)
        /\ Errors(diagnostics') = {}
        /\ Len(seen) = Len(queue) /\ Combined = labels
        /\ LabelSetDiagnostics(labels) = {}
    BY <1>5, BuildIsClean
  <2>2. ArchiveDiagnostics(Compiled) \subseteq diagnostics'
    BY <1>5, NothingNew
  <2>3. /\ Compiled.policies = text /\ Compiled.modules = Records /\ Compiled.labels = labels
        /\ Compiled.policyIds = Ascending(ids)
        /\ Compiled.schema = IF hasSchema THEN schema ELSE NoSchema
    BY <2>1 DEF Compiled
  <2>4. WarningsAnnounced'
    BY <2>1, <2>2 DEF WarningsAnnounced, Warnings
  <2>5. ModulesValid(bundle)
    BY <2>1, BundlesAssumption
  <2>6. ManifestValid(ManifestBuilt')
    <3>1. /\ ManifestBuilt'.version = FormatVersion /\ ManifestBuilt'.generator = ThisGenerator
          /\ ManifestBuilt'.name = bundle[1].name /\ ManifestBuilt'.modules = Records
          /\ ManifestBuilt'.policyIds = Ascending(ids)
      BY <1>2, <2>1, <2>3 DEF ManifestBuilt
    <3>2. ~Blank(bundle[1].name)
      BY <2>1, <2>5 DEF ModulesValid
    <3>3. ModulesValid(Records)
      BY <2>1, <2>5, RecordsValid
    <3>4. StrictlyIncreasing(Ascending(ids)) /\ AssignmentsValid(Records, Ascending(ids))
      BY <2>1, RecordsAssign
    <3> QED BY <3>1, <3>2, <3>3, <3>4 DEF ManifestValid
  <2>7. BuildValidates'
    <3>1. Errors(ArchiveDiagnostics(Compiled)) = {}
      BY <2>1, <2>2, ErrorsGrow
    <3>2. ContentValid(ManifestBuilt', Compiled)
      BY <2>1, <2>3, <2>6, <3>1 DEF ContentValid
    <3> QED BY <2>1, <3>2 DEF BuildValidates
  <2>8. ShipsWhatItRead'
    <3>1. DocumentsOf("policy")' = DocumentsOf("policy") /\ DocumentsOf("label")' = DocumentsOf("label")
          /\ Fragments' = Fragments
      BY <1>2 DEF DocumentsOf, Fragments
    <3>2. /\ text = FlattenSeq(DocumentsOf("policy")) /\ labels = FlattenSeq(DocumentsOf("label"))
          /\ \A k \in 1..Len(seen) : seen[k] \notin {Missing, NotUtf8, Unparsable}
      BY <2>1 DEF InOrder
    <3>3. IF Fragments = {} THEN Compiled.schema = NoSchema ELSE Merges(Compiled.schema, Fragments)
      BY <2>1, <2>3 DEF SchemaClean
    <3> QED BY <1>2, <2>1, <2>3, <3>1, <3>2, <3>3 DEF ShipsWhatItRead
  <2> QED BY <2>4, <2>7, <2>8, <1>1, <1>3 DEF ShipInv, Promises
<1> QED BY <1>4, <1>5

LEMMA NextKeepsShip == ShipInv /\ [Next]_vars => ShipInv'
<1> SUFFICES ASSUME ShipInv, [Next]_vars PROVE ShipInv'
  OBVIOUS
<1>0. OwnerInv'
  BY NextKeepsOwner DEF ShipInv
<1>1. ASSUME NEW m \in {"check", "build", "module"}, NEW d \in BOOLEAN, Start(m, d)
      PROVE  ShipInv'
  BY <1>1, StartKeepsShip
<1>2. CASE Reads
  BY <1>2, ReadsKeepShip
<1>3. CASE Finish
  BY <1>3, FinishKeepsShip
<1>4. ASSUME NEW path \in DOMAIN disk, NEW content \in Documents[path], Save(path, content)
      PROVE  ShipInv'
  <2>1. UNCHANGED <<bundle, queue, accumulators, diagnostics, outcome, parts, seen>>
    BY <1>4 DEF Save
  <2> QED BY <2>1, <1>0, UntouchedShip
<1>5. CASE UNCHANGED vars
  <2>1. UNCHANGED <<bundle, queue, accumulators, diagnostics, outcome, parts, seen>>
    BY <1>5 DEF vars
  <2> QED BY <2>1, <1>0, UntouchedShip
<1> QED BY <1>1, <1>2, <1>3, <1>4, <1>5 DEF Next, Step, Reads, Idle

LEMMA AlwaysShip == Spec => []ShipInv
  BY InitShip, NextKeepsShip, PTL DEF Spec

(* Whatever a build emits, the reader accepts: the checks of one document  *)
(* against one module (compile_manifest) imply those of the aggregate      *)
(* against the recorded assignment (validate_manifest of archive.rs and    *)
(* validate_archive_parts of validation.rs).                               *)
THEOREM BuildValidatesHolds == Spec => []BuildValidates
<1>1. ShipInv => BuildValidates
  BY DEF ShipInv, Promises
<1> QED BY <1>1, AlwaysShip, PTL

(* The reader warns of nothing in an archive that its build did not report *)
(* (the warnings of compile_manifest and of validate_archive_parts), so    *)
(* what deny_warnings lets through validates without a warning.            *)
THEOREM WarningsAnnouncedHolds == Spec => []WarningsAnnounced
<1>1. ShipInv => WarningsAnnounced
  BY DEF ShipInv, Promises
<1> QED BY <1>1, AlwaysShip, PTL

(* An archive holds everything that the manifests name, once, in their     *)
(* order, as it was when compile_manifest read it; its schema declares     *)
(* what the fragments declare, and as they do (merge_schema_fragment).     *)
THEOREM ShipsWhatItReadHolds == Spec => []ShipsWhatItRead
<1>1. ShipInv => ShipsWhatItRead
  BY DEF ShipInv, Promises
<1> QED BY <1>1, AlwaysShip, PTL

(***************************************************************************)
(* What is judged document by document is judged as a whole.               *)
(***************************************************************************)
(* The input at hand, against the documents before it.                     *)
PolicyNew ==
    /\ \A p \in 1..Len(File) :
          /\ File[p].static /\ File[p].id # MissingId
          /\ OwnershipDiagnostics(File[p], bundle[Input.module]) = {}
    /\ DistinctIds(File)
    /\ \A l \in ReadOf("policy") : \A q \in 1..Len(seen[l]), p \in 1..Len(File) :
          File[p].id # seen[l][q].id

Consistent(f, g) ==
    /\ DOMAIN f.declarations \cap DOMAIN g.declarations = {}
    /\ \A key \in DOMAIN f.fields \cap DOMAIN g.fields : f.fields[key] = g.fields[key]

SchemaNew ==
    /\ \A ns \in File.namespaces : NamespaceOwns(bundle[Input.module].namespace, ns)
    /\ \A l \in ReadOf("schema") : Consistent(File, seen[l])

LabelsNew ==
    /\ LabelSetDiagnostics(File) = {}
    /\ \A i \in 1..Len(File) : NamespaceOwns(bundle[Input.module].namespace, File[i].target[1])

NewSound ==
    /\ Sound
    /\ Input.kind = "policy" => PolicyNew
    /\ Input.kind = "schema" => SchemaNew
    /\ Input.kind = "label" => LabelsNew

LEMMA ReadOfGrows ==
    ASSUME OwnerInv, Reads, NEW kind
    PROVE  /\ \A k \in ReadOf(kind)' : k \in ReadOf(kind) \/ (k = position /\ Input.kind = kind)
           /\ ReadOf(kind) \subseteq ReadOf(kind)'
           /\ Input.kind = kind => position \in ReadOf(kind)'
           /\ \A k \in ReadOf(kind) : k \in 1..(position - 1) /\ seen'[k] = seen[k]
           /\ position \notin ReadOf(kind)
<1>1. /\ Len(seen) = position - 1 /\ Len(seen') = position /\ position \in Nat \ {0}
      /\ queue' = queue /\ queue[position] = Input
      /\ \A k \in 1..(position - 1) : seen'[k] = seen[k]
      /\ \A k \in 1..position : k = position \/ k \in 1..(position - 1)
  BY HistoryGrows
<1>2. ReadOf(kind)' = {k \in 1..position : queue[k].kind = kind}
  BY <1>1 DEF ReadOf
<1>3. ReadOf(kind) = {k \in 1..(position - 1) : queue[k].kind = kind}
  BY <1>1 DEF ReadOf
<1>4. position \in 1..position /\ position \notin 1..(position - 1)
      /\ \A k \in 1..(position - 1) : k \in 1..position
  BY <1>1
<1>5. ASSUME NEW k \in ReadOf(kind)'
      PROVE  k \in ReadOf(kind) \/ (k = position /\ Input.kind = kind)
  <2>1. k \in 1..position /\ queue[k].kind = kind
    BY <1>2
  <2>2. CASE k = position
    BY <2>1, <2>2, <1>1
  <2>3. CASE k \in 1..(position - 1)
    BY <2>1, <2>3, <1>3
  <2> QED BY <2>1, <2>2, <2>3, <1>1
<1>6. ReadOf(kind) \subseteq ReadOf(kind)' /\ position \notin ReadOf(kind)
  BY <1>2, <1>3, <1>4
<1>7. Input.kind = kind => position \in ReadOf(kind)'
  BY <1>1, <1>2, <1>4
<1>8. \A k \in ReadOf(kind) : k \in 1..(position - 1) /\ seen'[k] = seen[k]
  BY <1>1, <1>3
<1> QED BY <1>5, <1>6, <1>7, <1>8

(* DocumentsSound, kind by kind.                                           *)
PoliciesSound ==
    \A k \in ReadOf("policy") : \A p \in 1..Len(seen[k]) :
        /\ seen[k][p].static /\ seen[k][p].id # MissingId
        /\ OwnershipDiagnostics(seen[k][p], bundle[queue[k].module]) = {}
        /\ \A l \in ReadOf("policy") : \A q \in 1..Len(seen[l]) :
              seen[k][p].id = seen[l][q].id => k = l /\ p = q

SchemasSound ==
    \A k \in ReadOf("schema") :
        /\ \A ns \in seen[k].namespaces : NamespaceOwns(bundle[queue[k].module].namespace, ns)
        /\ \A l \in ReadOf("schema") \ {k} : Consistent(seen[k], seen[l])

RulesSound ==
    \A k \in ReadOf("label") :
        /\ LabelSetDiagnostics(seen[k]) = {}
        /\ \A i \in 1..Len(seen[k]) :
              NamespaceOwns(bundle[queue[k].module].namespace, seen[k][i].target[1])

Readable == \A k \in 1..Len(seen) : seen[k] \notin {Missing, NotUtf8, Unparsable}

LEMMA SoundByKind ==
    DocumentsSound <=> Readable /\ PoliciesSound /\ SchemasSound /\ RulesSound
  BY DEF DocumentsSound, Readable, PoliciesSound, SchemasSound, RulesSound, Consistent

LEMMA PoliciesSoundGrow ==
    ASSUME OwnerInv, Reads, Input.kind = "policy"
    PROVE  PoliciesSound' <=> PoliciesSound /\ PolicyNew
<1>1. /\ \A k \in ReadOf("policy")' : k \in ReadOf("policy") \/ k = position
      /\ ReadOf("policy") \subseteq ReadOf("policy")'
      /\ position \in ReadOf("policy")'
      /\ \A k \in ReadOf("policy") : seen'[k] = seen[k]
      /\ position \notin ReadOf("policy")
  BY ReadOfGrows
<1>2. /\ seen'[position] = File /\ queue' = queue /\ bundle' = bundle /\ queue[position] = Input
  BY HistoryGrows
<1>0. PoliciesSound' <=>
        \A k \in ReadOf("policy")' : \A p \in 1..Len(seen'[k]) :
            /\ seen'[k][p].static /\ seen'[k][p].id # MissingId
            /\ OwnershipDiagnostics(seen'[k][p], bundle[queue[k].module]) = {}
            /\ \A l \in ReadOf("policy")' : \A q \in 1..Len(seen'[l]) :
                  seen'[k][p].id = seen'[l][q].id => k = l /\ p = q
  BY <1>2 DEF PoliciesSound
<1>3. ASSUME PoliciesSound' PROVE PoliciesSound
  <2> SUFFICES ASSUME NEW k \in ReadOf("policy"), NEW p \in 1..Len(seen[k])
               PROVE  /\ seen[k][p].static /\ seen[k][p].id # MissingId
                      /\ OwnershipDiagnostics(seen[k][p], bundle[queue[k].module]) = {}
                      /\ \A l \in ReadOf("policy") : \A q \in 1..Len(seen[l]) :
                            seen[k][p].id = seen[l][q].id => k = l /\ p = q
    BY DEF PoliciesSound
  <2>1. k \in ReadOf("policy")' /\ seen'[k] = seen[k]
    BY <1>1
  <2>2. /\ seen[k][p].static /\ seen[k][p].id # MissingId
        /\ OwnershipDiagnostics(seen[k][p], bundle[queue[k].module]) = {}
        /\ \A l \in ReadOf("policy")' : \A q \in 1..Len(seen'[l]) :
              seen[k][p].id = seen'[l][q].id => k = l /\ p = q
    BY <1>0, <1>3, <2>1
  <2> QED BY <2>2, <1>1
<1>4. ASSUME PoliciesSound' PROVE PolicyNew
  <2>1. \A p \in 1..Len(File) :
           /\ File[p].static /\ File[p].id # MissingId
           /\ OwnershipDiagnostics(File[p], bundle[Input.module]) = {}
           /\ \A l \in ReadOf("policy")' : \A q \in 1..Len(seen'[l]) :
                File[p].id = seen'[l][q].id => position = l /\ p = q
    BY <1>0, <1>1, <1>2, <1>4
  <2>2. DistinctIds(File)
    BY <2>1, <1>1, <1>2 DEF DistinctIds
  <2>3. \A l \in ReadOf("policy") : \A q \in 1..Len(seen[l]), p \in 1..Len(File) :
           File[p].id # seen[l][q].id
    BY <2>1, <1>1
  <2> QED BY <2>1, <2>2, <2>3 DEF PolicyNew
<1>5. ASSUME PoliciesSound, PolicyNew PROVE PoliciesSound'
  <2> SUFFICES ASSUME NEW k \in ReadOf("policy")', NEW p \in 1..Len(seen'[k])
               PROVE  /\ seen'[k][p].static /\ seen'[k][p].id # MissingId
                      /\ OwnershipDiagnostics(seen'[k][p], bundle[queue[k].module]) = {}
                      /\ \A l \in ReadOf("policy")' : \A q \in 1..Len(seen'[l]) :
                            seen'[k][p].id = seen'[l][q].id => k = l /\ p = q
    BY <1>0
  <2>1. CASE k = position
    <3>1. /\ seen'[k] = File
          /\ File[p].static /\ File[p].id # MissingId
          /\ OwnershipDiagnostics(File[p], bundle[queue[k].module]) = {}
      BY <2>1, <1>2, <1>5 DEF PolicyNew
    <3>2. ASSUME NEW l \in ReadOf("policy")', NEW q \in 1..Len(seen'[l]), File[p].id = seen'[l][q].id
          PROVE  k = l /\ p = q
      <4>1. CASE l = position
        BY <4>1, <3>1, <3>2, <2>1, <1>2, <1>5 DEF PolicyNew, DistinctIds
      <4>2. CASE l \in ReadOf("policy")
        BY <4>2, <3>1, <3>2, <1>1, <1>5 DEF PolicyNew
      <4> QED BY <4>1, <4>2, <1>1
    <3> QED BY <3>1, <3>2
  <2>2. CASE k \in ReadOf("policy")
    <3>1. /\ seen'[k] = seen[k] /\ k # position
          /\ seen[k][p].static /\ seen[k][p].id # MissingId
          /\ OwnershipDiagnostics(seen[k][p], bundle[queue[k].module]) = {}
      BY <2>2, <1>1, <1>5 DEF PoliciesSound
    <3>2. ASSUME NEW l \in ReadOf("policy")', NEW q \in 1..Len(seen'[l]), seen[k][p].id = seen'[l][q].id
          PROVE  k = l /\ p = q
      <4>1. CASE l = position
        <5>1. seen'[l] = File
          BY <4>1, <1>2
        <5> QED BY <5>1, <3>1, <3>2, <2>2, <1>5 DEF PolicyNew
      <4>2. CASE l \in ReadOf("policy")
        BY <4>2, <3>1, <3>2, <2>2, <1>1, <1>5 DEF PoliciesSound
      <4> QED BY <4>1, <4>2, <1>1
    <3> QED BY <3>1, <3>2
  <2> QED BY <2>1, <2>2, <1>1
<1> QED BY <1>3, <1>4, <1>5

LEMMA SchemasSoundGrow ==
    ASSUME OwnerInv, Reads, Input.kind = "schema"
    PROVE  SchemasSound' <=> SchemasSound /\ SchemaNew
<1>1. /\ \A k \in ReadOf("schema")' : k \in ReadOf("schema") \/ k = position
      /\ ReadOf("schema") \subseteq ReadOf("schema")'
      /\ position \in ReadOf("schema")'
      /\ \A k \in ReadOf("schema") : seen'[k] = seen[k]
      /\ position \notin ReadOf("schema")
  BY ReadOfGrows
<1>2. /\ seen'[position] = File /\ queue' = queue /\ bundle' = bundle /\ queue[position] = Input
  BY HistoryGrows
<1>3. \A f, g : Consistent(f, g) <=> Consistent(g, f)
  BY DEF Consistent
<1>4. SchemasSound' <=>
        \A k \in ReadOf("schema")' :
            /\ \A ns \in seen'[k].namespaces : NamespaceOwns(bundle[queue[k].module].namespace, ns)
            /\ \A l \in ReadOf("schema")' \ {k} : Consistent(seen'[k], seen'[l])
  BY <1>2 DEF SchemasSound, Consistent
<1> HIDE DEF Consistent
<1>5. ASSUME SchemasSound' PROVE SchemasSound
  BY <1>1, <1>4, <1>5 DEF SchemasSound
<1>6. ASSUME SchemasSound' PROVE SchemaNew
  BY <1>1, <1>2, <1>4, <1>6 DEF SchemaNew
<1>7. ASSUME SchemasSound, SchemaNew PROVE SchemasSound'
  <2>1. ASSUME NEW k \in ReadOf("schema")'
        PROVE  /\ \A ns \in seen'[k].namespaces : NamespaceOwns(bundle[queue[k].module].namespace, ns)
               /\ \A l \in ReadOf("schema")' \ {k} : Consistent(seen'[k], seen'[l])
    <3>1. CASE k = position
      BY <3>1, <1>1, <1>2, <1>7 DEF SchemaNew
    <3>2. CASE k \in ReadOf("schema")
      BY <3>2, <1>1, <1>2, <1>3, <1>7 DEF SchemaNew, SchemasSound
    <3> QED BY <3>1, <3>2, <1>1
  <2> QED BY <2>1, <1>4
<1> QED BY <1>5, <1>6, <1>7

LEMMA LabelsSoundGrow ==
    ASSUME OwnerInv, Reads, Input.kind = "label"
    PROVE  RulesSound' <=> RulesSound /\ LabelsNew
<1>1. /\ \A k \in ReadOf("label")' : k \in ReadOf("label") \/ k = position
      /\ ReadOf("label") \subseteq ReadOf("label")'
      /\ position \in ReadOf("label")'
      /\ \A k \in ReadOf("label") : seen'[k] = seen[k]
  BY ReadOfGrows
<1>2. /\ seen'[position] = File /\ queue' = queue /\ bundle' = bundle /\ queue[position] = Input
  BY HistoryGrows
<1>3. RulesSound' <=>
        \A k \in ReadOf("label")' :
            /\ LabelSetDiagnostics(seen'[k]) = {}
            /\ \A i \in 1..Len(seen'[k]) :
                  NamespaceOwns(bundle[queue[k].module].namespace, seen'[k][i].target[1])
  BY <1>2 DEF RulesSound
<1> QED BY <1>1, <1>2, <1>3 DEF RulesSound, LabelsNew

(* The inputs of the other kinds are what they were.                       *)
LEMMA OtherKindsStay ==
    ASSUME OwnerInv, Reads
    PROVE  /\ Input.kind # "policy" => (PoliciesSound' <=> PoliciesSound)
           /\ Input.kind # "schema" => (SchemasSound' <=> SchemasSound)
           /\ Input.kind # "label" => (RulesSound' <=> RulesSound)
<1>1. queue' = queue /\ bundle' = bundle
  BY HistoryGrows
<1>2. ASSUME NEW kind, Input.kind # kind
      PROVE  ReadOf(kind)' = ReadOf(kind) /\ \A k \in ReadOf(kind) : seen'[k] = seen[k]
  <2>1. /\ \A k \in ReadOf(kind)' : k \in ReadOf(kind)
        /\ ReadOf(kind) \subseteq ReadOf(kind)'
        /\ \A k \in ReadOf(kind) : seen'[k] = seen[k]
    BY <1>2, ReadOfGrows
  <2> QED BY <2>1
<1>3. ASSUME Input.kind # "policy" PROVE PoliciesSound' <=> PoliciesSound
  <2>1. ReadOf("policy")' = ReadOf("policy") /\ \A k \in ReadOf("policy") : seen'[k] = seen[k]
    BY <1>2, <1>3
  <2> DEFINE Alike(R, s) ==
                 \A k \in R : \A p \in 1..Len(s[k]) :
                     /\ s[k][p].static /\ s[k][p].id # MissingId
                     /\ OwnershipDiagnostics(s[k][p], bundle[queue[k].module]) = {}
                     /\ \A l \in R : \A q \in 1..Len(s[l]) :
                           s[k][p].id = s[l][q].id => k = l /\ p = q
  <2>2. PoliciesSound' <=> Alike(ReadOf("policy")', seen')
    BY <1>1 DEF PoliciesSound
  <2>3. PoliciesSound <=> Alike(ReadOf("policy"), seen)
    BY DEF PoliciesSound
  <2>4. ASSUME NEW R, NEW s, NEW t, \A k \in R : t[k] = s[k], Alike(R, s)
        PROVE  Alike(R, t)
    <3> SUFFICES ASSUME NEW k \in R, NEW p \in 1..Len(t[k])
                 PROVE  /\ t[k][p].static /\ t[k][p].id # MissingId
                        /\ OwnershipDiagnostics(t[k][p], bundle[queue[k].module]) = {}
                        /\ \A l \in R : \A q \in 1..Len(t[l]) :
                              t[k][p].id = t[l][q].id => k = l /\ p = q
      OBVIOUS
    <3>1. t[k] = s[k] /\ \A l \in R : t[l] = s[l]
      BY <2>4
    <3>2. /\ s[k][p].static /\ s[k][p].id # MissingId
          /\ OwnershipDiagnostics(s[k][p], bundle[queue[k].module]) = {}
          /\ \A l \in R : \A q \in 1..Len(s[l]) :
                s[k][p].id = s[l][q].id => k = l /\ p = q
      BY <2>4, <3>1
    <3> QED BY <3>1, <3>2
  <2> HIDE DEF Alike
  <2> QED BY <2>1, <2>2, <2>3, <2>4
<1>4. ASSUME Input.kind # "schema" PROVE SchemasSound' <=> SchemasSound
  <2>1. ReadOf("schema")' = ReadOf("schema") /\ \A k \in ReadOf("schema") : seen'[k] = seen[k]
    BY <1>2, <1>4
  <2> QED BY <1>1, <2>1 DEF SchemasSound, Consistent
<1>5. ASSUME Input.kind # "label" PROVE RulesSound' <=> RulesSound
  <2>1. ReadOf("label")' = ReadOf("label") /\ \A k \in ReadOf("label") : seen'[k] = seen[k]
    BY <1>2, <1>5
  <2> QED BY <1>1, <2>1 DEF RulesSound
<1> QED BY <1>3, <1>4, <1>5

LEMMA DocumentsSoundGrow ==
    ASSUME OwnerInv, Reads
    PROVE  DocumentsSound' <=> DocumentsSound /\ NewSound
<1>1. Input.kind \in {"policy", "schema", "label"}
  BY HistoryGrows DEF InputsOf
<1>2. Readable' <=> Readable /\ Sound
  <2>1. /\ Len(seen) = position - 1 /\ Len(seen') = position /\ seen'[position] = File
        /\ \A k \in 1..(position - 1) : seen'[k] = seen[k]
        /\ \A k \in 1..position : k = position \/ k \in 1..(position - 1)
        /\ position \in Nat \ {0}
    BY HistoryGrows
  <2>2. position \in 1..position /\ \A k \in 1..(position - 1) : k \in 1..position
    BY <2>1
  <2> QED BY <2>1, <2>2 DEF Readable, Sound
<1>3. DocumentsSound <=> Readable /\ PoliciesSound /\ SchemasSound /\ RulesSound
  BY SoundByKind
<1>4. DocumentsSound' <=> Readable' /\ PoliciesSound' /\ SchemasSound' /\ RulesSound'
  BY DEF DocumentsSound, Readable, PoliciesSound, SchemasSound, RulesSound, Consistent
<1>5. CASE Input.kind = "policy"
  BY <1>2, <1>3, <1>4, <1>5, OtherKindsStay, PoliciesSoundGrow DEF NewSound
<1>6. CASE Input.kind = "schema"
  BY <1>2, <1>3, <1>4, <1>6, OtherKindsStay, SchemasSoundGrow DEF NewSound
<1>7. CASE Input.kind = "label"
  BY <1>2, <1>3, <1>4, <1>7, OtherKindsStay, LabelsSoundGrow DEF NewSound
<1> QED BY <1>1, <1>5, <1>6, <1>7

(* A concatenation holds nothing else than what its parts hold.            *)
LEMMA FlattenHoldsOnly ==
    ASSUME NEW S, NEW seqs \in Seq(Seq(S))
    PROVE  ElementsOf(FlattenSeq(seqs)) = UNION {ElementsOf(seqs[k]) : k \in 1..Len(seqs)}
<1> DEFINE R == UNION {ElementsOf(seqs[k]) : k \in 1..Len(seqs)}
<1>1. Len(seqs) \in Nat /\ \A k \in 1..Len(seqs) : seqs[k] \in Seq(S)
  OBVIOUS
<1>2. ASSUME NEW k \in 1..Len(seqs) PROVE seqs[k] \in Seq(R)
  <2> DEFINE s == seqs[k]
  <2>1. ElementsOf(s) \subseteq R
    OBVIOUS
  <2>2. s \in Seq(S)
    BY <1>1
  <2> HIDE DEF R, s
  <2>3. \A i \in 1..Len(s) : s[i] \in R
    BY <2>1 DEF ElementsOf
  <2>4. s \in Seq(R)
    BY <2>2, <2>3
  <2> QED BY <2>4 DEF s
<1>3. Len(seqs) = 0 => seqs \in Seq(R)
  <2> HIDE DEF R
  <2> QED OBVIOUS
<1> HIDE DEF R
<1>4. FlattenSeq(seqs) \in Seq(R)
  BY <1>1, <1>2, <1>3, FlattenIsSequence
<1>5. ElementsOf(FlattenSeq(seqs)) \subseteq R
  BY <1>4 DEF ElementsOf
<1>6. \A k \in 1..Len(seqs) : ElementsOf(seqs[k]) \subseteq ElementsOf(FlattenSeq(seqs))
  BY <1>1, FlattenHoldsAll
<1> QED BY <1>5, <1>6 DEF R

(* What the documents of one kind hold, put one after the other.           *)
LEMMA DocumentsHold ==
    ASSUME OwnerInv, NEW kind, NEW S, DocumentsOf(kind) \in Seq(Seq(S))
    PROVE  \A e : e \in ElementsOf(FlattenSeq(DocumentsOf(kind))) <=>
             \E k \in ReadOf(kind) : \E q \in 1..Len(seen[k]) : e = seen[k][q]
<1> DEFINE d == DocumentsOf(kind)
<1>1. Len(seen) \in Nat
  BY DEF OwnerInv, Inv, Told
<1>2. d = [k \in 1..Len(seen) |-> IF queue[k].kind = kind THEN seen[k] ELSE <<>>]
  BY DEF DocumentsOf
<1>3. d \in Seq(Seq(S))
  OBVIOUS
<1> HIDE DEF d
<1>4. Len(d) = Len(seen) /\ \A k \in 1..Len(seen) :
        d[k] = IF queue[k].kind = kind THEN seen[k] ELSE <<>>
  BY <1>1, <1>2
<1>5. ElementsOf(FlattenSeq(d)) = UNION {ElementsOf(d[k]) : k \in 1..Len(d)}
  BY <1>3, FlattenHoldsOnly
<1>6. \A k \in 1..Len(seen) : d[k] # <<>> => k \in ReadOf(kind) /\ d[k] = seen[k]
  BY <1>4 DEF ReadOf
<1>7. \A k \in ReadOf(kind) : k \in 1..Len(seen) /\ d[k] = seen[k]
  BY <1>4 DEF ReadOf
<1>8. ASSUME NEW e, e \in ElementsOf(FlattenSeq(d))
      PROVE  \E k \in ReadOf(kind) : \E q \in 1..Len(seen[k]) : e = seen[k][q]
  <2>1. PICK k \in 1..Len(d) : e \in ElementsOf(d[k])
    BY <1>5, <1>8
  <2>2. d[k] # <<>>
    BY <2>1, EmptyElements
  <2>3. k \in ReadOf(kind) /\ e \in ElementsOf(seen[k])
    BY <2>1, <2>2, <1>4, <1>6
  <2> QED BY <2>3 DEF ElementsOf
<1>9. ASSUME NEW e, NEW k \in ReadOf(kind), NEW q \in 1..Len(seen[k]), e = seen[k][q]
      PROVE  e \in ElementsOf(FlattenSeq(d))
  <2>1. e \in ElementsOf(d[k]) /\ k \in 1..Len(d)
    BY <1>4, <1>7, <1>9 DEF ElementsOf
  <2> QED BY <2>1, <1>5
<1> QED BY <1>8, <1>9 DEF d

(* The policies and the rules of a run without an error are those of its   *)
(* documents.                                                              *)
LEMMA TextIsRead ==
    ASSUME OwnerInv, InOrder
    PROVE  /\ \A policy : policy \in ElementsOf(text) <=>
                \E k \in ReadOf("policy") : \E q \in 1..Len(seen[k]) : policy = seen[k][q]
           /\ \A rule : rule \in ElementsOf(labels) <=>
                \E k \in ReadOf("label") : \E q \in 1..Len(seen[k]) : rule = seen[k][q]
  BY DocumentsHold DEF InOrder

(* What a document is told it has no error, policy by policy.              *)
LEMMA DocumentErrors ==
    ASSUME NEW policies, Len(policies) \in Nat, NEW m, NEW known
    PROVE  Errors(DocumentDiagnostics(policies, bundle[m], known)) = {} <=>
             /\ \A p \in 1..Len(policies) :
                   /\ policies[p].static /\ policies[p].id # MissingId
                   /\ OwnershipDiagnostics(policies[p], bundle[m]) = {}
             /\ DistinctIds(policies)
             /\ \A p \in 1..Len(policies) : policies[p].id \notin known
<1> DEFINE All == DocumentDiagnostics(policies, bundle[m], known)
           Good == /\ \A p \in 1..Len(policies) :
                         /\ policies[p].static /\ policies[p].id # MissingId
                         /\ OwnershipDiagnostics(policies[p], bundle[m]) = {}
                   /\ DistinctIds(policies)
                   /\ \A p \in 1..Len(policies) : policies[p].id \notin known
<1>1. ASSUME Errors(All) = {} PROVE Good
  <2>1. /\ DistinctIds(policies)
        /\ \A policy \in ElementsOf(policies) : Passed(policy, m, All)
    BY <1>1, DocumentPasses
  <2>2. /\ Identified(policies) = 1..Len(policies)
        /\ IdsOf(policies) \cap known = {}
    BY <1>1, DocumentIsSound
  <2> HIDE DEF All
  <2>3. \A p \in 1..Len(policies) : policies[p] \in ElementsOf(policies) /\ policies[p].id \in IdsOf(policies)
    BY <2>2 DEF ElementsOf, IdsOf
  <2> QED BY <2>1, <2>2, <2>3 DEF Passed
<1>2. ASSUME Good PROVE Errors(All) = {}
  <2>1. Statics(policies) = 1..Len(policies) /\ Identified(policies) = 1..Len(policies)
    BY <1>2 DEF Statics, Identified
  <2>2. TemplateDiagnostics(policies) = {}
    BY <1>2 DEF TemplateDiagnostics, When
  <2>3. IdDiagnostics(policies, known) = {}
    <3>1. IdsOf(policies) \cap known = {}
      BY <1>2, <2>1 DEF IdsOf
    <3> QED BY <1>2, <2>1, <3>1 DEF IdDiagnostics, When, DistinctIds
  <2>4. ASSUME NEW i \in Identified(policies)
        PROVE  PrefixDiagnostics(policies[i], bundle[m]) \cup OwnershipDiagnostics(policies[i], bundle[m])
                 \subseteq WarningCodes
    <3>1. OwnershipDiagnostics(policies[i], bundle[m]) = {}
      BY <1>2, <2>1
    <3> QED BY <3>1 DEF PrefixDiagnostics, When, WarningCodes
  <2> DEFINE Rest == UNION {PrefixDiagnostics(policies[i], bundle[m])
                            \cup OwnershipDiagnostics(policies[i], bundle[m]) : i \in Identified(policies)}
  <2>5. All = TemplateDiagnostics(policies) \cup IdDiagnostics(policies, known) \cup Rest
    BY DEF DocumentDiagnostics
  <2>6. Rest \subseteq WarningCodes
    BY <2>4
  <2> HIDE DEF All, Rest
  <2> QED BY <2>2, <2>3, <2>5, <2>6 DEF Errors
<1> QED BY <1>1, <1>2

(* A new document without an error is one that is sound next to those      *)
(* before it.                                                              *)
LEMMA PolicyErrors ==
    ASSUME OwnerInv, InOrder, PoliciesClean, Reads, Input.kind = "policy", Sound
    PROVE  Errors(DocumentDiagnostics(File, bundle[Input.module], ids)) = {} <=> PolicyNew
<1>1. Len(File) \in Nat
  <2>1. Bookkeeping /\ DiskTyped /\ position <= Len(queue)
    BY ReadsAre DEF OwnerInv, Inv
  <2> QED BY <2>1, FileIsDocument
<1>2. \A id : id \in ids <=>
        \E k \in ReadOf("policy") : \E q \in 1..Len(seen[k]) : id = seen[k][q].id
  <2>1. \A id : id \in ids <=> \E policy \in ElementsOf(text) : id = policy.id
    BY DEF PoliciesClean
  <2> QED BY <2>1, TextIsRead
<1>3. (\A p \in 1..Len(File) : File[p].id \notin ids)
        <=> \A l \in ReadOf("policy") : \A q \in 1..Len(seen[l]), p \in 1..Len(File) :
              File[p].id # seen[l][q].id
  BY <1>2
<1> QED BY <1>1, <1>3, DocumentErrors DEF PolicyNew

LEMMA SchemaErrors ==
    ASSUME SchemaClean
    PROVE  MergeDiagnostics(schema, File) = {} <=>
             \A l \in ReadOf("schema") : Consistent(File, seen[l])
<1>1. Fragments = {seen[k] : k \in ReadOf("schema")}
  BY DEF Fragments, ReadOf
<1>2. MergeDiagnostics(schema, File) = {} <=>
        /\ DOMAIN schema.declarations \cap DOMAIN File.declarations = {}
        /\ \A key \in DOMAIN schema.fields \cap DOMAIN File.fields :
              schema.fields[key] = File.fields[key]
  BY DEF MergeDiagnostics, When
<1>3. /\ DOMAIN schema.declarations = UNION {DOMAIN f.declarations : f \in Fragments}
      /\ DOMAIN schema.fields = UNION {DOMAIN f.fields : f \in Fragments}
      /\ \A f \in Fragments : \A d \in DOMAIN f.fields : schema.fields[d] = f.fields[d]
  BY DEF SchemaClean, Merges
<1>4. DOMAIN schema.declarations \cap DOMAIN File.declarations = {}
        <=> \A f \in Fragments : DOMAIN File.declarations \cap DOMAIN f.declarations = {}
  BY <1>3
<1>5. (\A key \in DOMAIN schema.fields \cap DOMAIN File.fields : schema.fields[key] = File.fields[key])
        <=> \A f \in Fragments : \A key \in DOMAIN File.fields \cap DOMAIN f.fields :
              File.fields[key] = f.fields[key]
  BY <1>3
<1>6. MergeDiagnostics(schema, File) = {} <=> \A f \in Fragments : Consistent(File, f)
  BY <1>2, <1>4, <1>5 DEF Consistent
<1> QED BY <1>1, <1>6

LEMMA ErrorsOfBoth ==
    ASSUME NEW a, NEW b
    PROVE  Errors(a \cup b) = {} <=> Errors(a) = {} /\ Errors(b) = {}
  BY DEF Errors

(* An error is found in an input that can be read if and only if it is not *)
(* sound next to those before it, which were.                              *)
LEMMA NewErrors ==
    ASSUME OwnerInv, InOrder, PoliciesClean, SchemaClean, Errors(diagnostics) = {}, Reads, Sound
    PROVE  Errors(diagnostics') = {} <=> NewSound
<1>1. ~ReadFails /\ \A code : ~ReadRejected(code)
  BY DEF ReadFails, ReadRejected, Sound
<1>2. CASE ReadPolicies
  <2>1. Input.kind = "policy"
        /\ diagnostics' = diagnostics \cup DocumentDiagnostics(File, bundle[Input.module], ids)
    BY <1>1, <1>2 DEF ReadPolicies, Reading, Module
  <2>2. Errors(DocumentDiagnostics(File, bundle[Input.module], ids)) = {} <=> PolicyNew
    BY <2>1, PolicyErrors
  <2> QED BY <2>1, <2>2, ErrorsOfBoth DEF NewSound
<1>3. CASE ReadSchema
  <2> DEFINE foreign == When(\E ns \in File.namespaces : ~NamespaceOwns(bundle[Input.module].namespace, ns),
                             "schema.namespace_violation")
             warning == When(File.warns, "schema.warning")
             clash == MergeDiagnostics(schema, File)
  <2>1. Input.kind = "schema" /\ diagnostics' = ((diagnostics \cup warning) \cup foreign) \cup clash
    BY <1>1, <1>3 DEF ReadSchema, Reading, Module
  <2>2. Errors(warning) = {}
    BY DEF When, Errors, WarningCodes
  <2>3. Errors(foreign) = {} <=> \A ns \in File.namespaces : NamespaceOwns(bundle[Input.module].namespace, ns)
    BY DEF When, Errors, WarningCodes
  <2>4. Errors(clash) = {} <=> \A l \in ReadOf("schema") : Consistent(File, seen[l])
    <3>1. clash \cap WarningCodes = {}
      BY DEF MergeDiagnostics, When, WarningCodes
    <3>2. Errors(clash) = clash
      BY <3>1 DEF Errors
    <3> QED BY <3>2, SchemaErrors
  <2> HIDE DEF foreign, warning, clash
  <2>5. Errors(diagnostics') = {} <=> Errors(foreign) = {} /\ Errors(clash) = {}
    <3>1. Errors(diagnostics \cup warning) = {}
      BY <2>2, ErrorsOfBoth
    <3>2. Errors((diagnostics \cup warning) \cup foreign) = {} <=> Errors(foreign) = {}
      BY <3>1, ErrorsOfBoth
    <3> QED BY <2>1, <3>2, ErrorsOfBoth
  <2> QED BY <2>1, <2>3, <2>4, <2>5 DEF NewSound, SchemaNew
<1>4. CASE ReadLabels
  <2> DEFINE foreign == When(\E i \in 1..Len(File) :
                                ~NamespaceOwns(bundle[Input.module].namespace, File[i].target[1]),
                             "labels.namespace_violation")
  <2>1. /\ Input.kind = "label"
        /\ \/ LabelSetDiagnostics(File) # {} /\ diagnostics' = diagnostics \cup LabelSetDiagnostics(File)
           \/ LabelSetDiagnostics(File) = {} /\ diagnostics' = diagnostics \cup foreign
    BY <1>1, <1>4 DEF ReadLabels, Reading, Module
  <2>2. Errors(LabelSetDiagnostics(File)) = LabelSetDiagnostics(File)
    BY DEF LabelSetDiagnostics, When, Errors, WarningCodes
  <2>3. Errors(foreign) = {} <=>
          \A i \in 1..Len(File) : NamespaceOwns(bundle[Input.module].namespace, File[i].target[1])
    BY DEF When, Errors, WarningCodes
  <2> HIDE DEF foreign
  <2> QED BY <2>1, <2>2, <2>3, ErrorsOfBoth DEF NewSound, LabelsNew
<1> QED BY <1>2, <1>3, <1>4 DEF Reads

(***************************************************************************)
(* The schema as merged is the one the fragments make together.            *)
(***************************************************************************)
Merged ==
    /\ schema.namespaces = UNION {f.namespaces : f \in Fragments}
    /\ Fragments # {} =>
         /\ schema.declarations = [d \in DOMAIN schema.declarations |-> schema.declarations[d]]
         /\ schema.fields = [d \in DOMAIN schema.fields |-> schema.fields[d]]

LEMMA MergedIsWhole ==
    ASSUME SchemaClean, Merged, Fragments # {}
    PROVE  schema = WholeSchema
<1> DEFINE Declaring(d) == CHOOSE f \in Fragments : d \in DOMAIN f.declarations
           Having(d) == CHOOSE f \in Fragments : d \in DOMAIN f.fields
           D == UNION {DOMAIN f.declarations : f \in Fragments}
           E == UNION {DOMAIN f.fields : f \in Fragments}
<1>1. /\ DOMAIN schema.declarations = D /\ DOMAIN schema.fields = E
      /\ \A f \in Fragments :
           /\ \A d \in DOMAIN f.declarations : schema.declarations[d] = f.declarations[d]
           /\ \A d \in DOMAIN f.fields : schema.fields[d] = f.fields[d]
  BY DEF SchemaClean, Merges
<1>2. ASSUME NEW d \in D PROVE schema.declarations[d] = Declaring(d).declarations[d]
  <2>1. \E f \in Fragments : d \in DOMAIN f.declarations
    OBVIOUS
  <2>2. Declaring(d) \in Fragments /\ d \in DOMAIN Declaring(d).declarations
    BY <2>1
  <2> HIDE DEF Declaring
  <2> QED BY <2>2, <1>1
<1>3. ASSUME NEW d \in E PROVE schema.fields[d] = Having(d).fields[d]
  <2>1. \E f \in Fragments : d \in DOMAIN f.fields
    OBVIOUS
  <2>2. Having(d) \in Fragments /\ d \in DOMAIN Having(d).fields
    BY <2>1
  <2> HIDE DEF Having
  <2> QED BY <2>2, <1>1
<1>4. WholeSchema = [namespaces |-> UNION {f.namespaces : f \in Fragments},
                     declarations |-> [d \in D |-> Declaring(d).declarations[d]],
                     fields |-> [d \in E |-> Having(d).fields[d]]]
  BY DEF WholeSchema
<1> HIDE DEF D, E, Declaring, Having
<1>5. schema.declarations = [d \in D |-> Declaring(d).declarations[d]]
  BY <1>1, <1>2 DEF Merged
<1>6. schema.fields = [d \in E |-> Having(d).fields[d]]
  BY <1>1, <1>3 DEF Merged
<1>7. schema = [namespaces |-> schema.namespaces, declarations |-> schema.declarations,
                fields |-> schema.fields]
  BY DEF SchemaClean
<1>8. schema.namespaces = UNION {f.namespaces : f \in Fragments}
  BY DEF Merged
<1> QED BY <1>4, <1>5, <1>6, <1>7, <1>8

(* The aggregate checks find an error if and only if the documents do not  *)
(* go together.                                                            *)
LEMMA AggregateErrors ==
    ASSUME OwnerInv, Gathered, InOrder, PoliciesClean, SchemaClean, Merged
    PROVE  Errors(AggregateDiagnostics) = {} <=> CombinationSound
<1> DEFINE alone == LabelSetDiagnostics(labels)
           ofSchema == IF ~hasSchema THEN {"schema.compatibility_skipped"}
                       ELSE IF SchemaLoads(schema)
                            THEN StrictDiagnostics(aggregate, schema)
                                   \cup LabelSchemaDiagnostics(Combined, schema)
                            ELSE {"schema.aggregate_invalid"}
           Agreeing == /\ \A k \in ReadOf("policy") : \A p \in 1..Len(seen[k]) :
                             Strict(seen[k][p], schema) \cap {"error", "misapplied"} = {}
                       /\ \A k \in ReadOf("label") : \A i \in 1..Len(seen[k]) :
                             LabelFits(seen[k][i], schema)
<1>1. AggregateDiagnostics = alone \cup ofSchema
  BY DEF AggregateDiagnostics
<1>2. Errors(alone) = {} <=> alone = {}
  BY DEF LabelSetDiagnostics, When, Errors, WarningCodes
<1>3. labels = FlattenSeq(DocumentsOf("label")) /\ (hasSchema <=> Fragments # {})
  BY DEF InOrder, SchemaClean
<1>4. CASE alone # {}
  <2>1. ~CombinationSound
    BY <1>3, <1>4 DEF CombinationSound
  <2> HIDE DEF alone, ofSchema
  <2> QED BY <2>1, <1>1, <1>2, <1>4, ErrorsOfBoth
<1>5. ASSUME alone = {}, hasSchema
      PROVE  Errors(StrictDiagnostics(aggregate, schema) \cup LabelSchemaDiagnostics(Combined, schema)) = {}
               <=> Agreeing
  <2>1. Combined = labels
    BY <1>5 DEF Combined
  <2>2. \A policy : policy \in ElementsOf(aggregate) <=> policy \in ElementsOf(text)
    BY DEF Gathered, PoliciesClean, Passed
  <2>3. Errors(StrictDiagnostics(aggregate, schema)) = {}
          <=> \A policy \in ElementsOf(aggregate) : Strict(policy, schema) \cap {"error", "misapplied"} = {}
    <3> DEFINE said == UNION {Strict(aggregate[i], schema) : i \in 1..Len(aggregate)}
               bad == When(said \cap {"error", "misapplied"} # {}, "policy.schema_validation")
               warned == When("warning" \in said, "policy.schema_warning")
    <3>1. StrictDiagnostics(aggregate, schema) = bad \cup warned
      BY DEF StrictDiagnostics
    <3>2. said \cap {"error", "misapplied"} = {}
            <=> \A policy \in ElementsOf(aggregate) : Strict(policy, schema) \cap {"error", "misapplied"} = {}
      BY DEF ElementsOf
    <3> HIDE DEF said
    <3>3. Errors(warned) = {}
      BY DEF When, Errors, WarningCodes
    <3>4. Errors(bad) = {} <=> said \cap {"error", "misapplied"} = {}
      BY DEF When, Errors, WarningCodes
    <3> HIDE DEF bad, warned
    <3>5. Errors(bad \cup warned) = {} <=> Errors(bad) = {}
      BY <3>3, ErrorsOfBoth
    <3> QED BY <3>1, <3>2, <3>4, <3>5
  <2>4. Errors(LabelSchemaDiagnostics(labels, schema)) = {}
          <=> \A rule \in ElementsOf(labels) : LabelFits(rule, schema)
    BY DEF LabelSchemaDiagnostics, When, Errors, WarningCodes, ElementsOf
  <2>5. (\A policy \in ElementsOf(aggregate) : Strict(policy, schema) \cap {"error", "misapplied"} = {})
          <=> \A k \in ReadOf("policy") : \A p \in 1..Len(seen[k]) :
                Strict(seen[k][p], schema) \cap {"error", "misapplied"} = {}
    <3> DEFINE Fine(policy) == Strict(policy, schema) \cap {"error", "misapplied"} = {}
    <3> HIDE DEF Fine
    <3>1. (\A policy \in ElementsOf(aggregate) : Fine(policy))
            <=> \A k \in ReadOf("policy") : \A p \in 1..Len(seen[k]) : Fine(seen[k][p])
      BY <2>2, TextIsRead
    <3> QED BY <3>1 DEF Fine
  <2>6. (\A rule \in ElementsOf(labels) : LabelFits(rule, schema))
          <=> \A k \in ReadOf("label") : \A i \in 1..Len(seen[k]) : LabelFits(seen[k][i], schema)
    BY TextIsRead
  <2> QED BY <2>1, <2>3, <2>4, <2>5, <2>6, ErrorsOfBoth
<1>6. CASE alone = {} /\ ~hasSchema
  <2>1. CombinationSound
    BY <1>3, <1>6 DEF CombinationSound
  <2>2. Errors(ofSchema) = {} /\ Errors(alone) = {}
    BY <1>6 DEF Errors, WarningCodes
  <2> HIDE DEF alone, ofSchema
  <2> QED BY <2>1, <2>2, <1>1, ErrorsOfBoth
<1>7. CASE alone = {} /\ hasSchema
  <2>1. schema = WholeSchema
    BY <1>3, <1>7, MergedIsWhole
  <2>2. CombinationSound <=> SchemaLoads(schema) /\ Agreeing
    <3>1. LabelSetDiagnostics(FlattenSeq(DocumentsOf("label"))) = {} /\ Fragments # {}
      BY <1>3, <1>7
    <3> QED BY <3>1, <2>1 DEF CombinationSound
  <2>3. Errors({"schema.aggregate_invalid"}) # {}
    BY DEF Errors, WarningCodes
  <2>4. Errors(ofSchema) = {} <=> SchemaLoads(schema) /\ Agreeing
    BY <1>5, <1>7, <2>3
  <2>5. Errors(alone) = {}
    BY <1>7 DEF Errors
  <2> HIDE DEF alone, ofSchema, Agreeing
  <2> QED BY <2>2, <2>4, <2>5, <1>1, ErrorsOfBoth
<1> QED BY <1>4, <1>6, <1>7

(***************************************************************************)
(* The invariant.                                                          *)
(***************************************************************************)
JudgedSoFar == outcome = "running" => (Errors(diagnostics) = {} <=> DocumentsSound)

MergedWhileClean == outcome = "running" /\ Errors(diagnostics) = {} => Merged

WholeInv == ShipInv /\ JudgedSoFar /\ MergedWhileClean /\ JudgedAsAWhole

LEMMA ReadsKeepMerged ==
    ASSUME ShipInv, MergedWhileClean, Reads
    PROVE  MergedWhileClean'
<1> SUFFICES ASSUME outcome' = "running", Errors(diagnostics') = {} PROVE Merged'
  BY DEF MergedWhileClean
<1>1. OwnerInv
  BY DEF ShipInv
<1>2. /\ outcome = "running" /\ Errors(diagnostics) = {}
      /\ PolicyRead \/ SchemaRead \/ LabelsRead
  BY <1>1, CleanRead
<1>3. Merged
  BY <1>2 DEF MergedWhileClean
<1>4. CASE PolicyRead \/ LabelsRead
  <2>1. Fragments' = Fragments /\ schema' = schema
    BY <1>1, <1>4, FragmentsGrow DEF PolicyRead, LabelsRead
  <2> QED BY <1>3, <2>1 DEF Merged
<1>5. CASE SchemaRead
  <2>1. Fragments' = Fragments \cup {File} /\ schema' = MergeSchema(schema, File)
    BY <1>1, <1>5, FragmentsGrow DEF SchemaRead
  <2>2. schema'.namespaces = schema.namespaces \cup File.namespaces
    BY <2>1 DEF MergeSchema
  <2>3. schema'.declarations = [d \in DOMAIN schema'.declarations |-> schema'.declarations[d]]
    BY <2>1 DEF MergeSchema
  <2>4. schema'.fields = [d \in DOMAIN schema'.fields |-> schema'.fields[d]]
    BY <2>1 DEF MergeSchema
  <2>5. schema'.namespaces = UNION {f.namespaces : f \in Fragments'}
    BY <1>3, <2>1, <2>2 DEF Merged
  <2> QED BY <2>3, <2>4, <2>5 DEF Merged
<1> QED BY <1>2, <1>4, <1>5

LEMMA ReadsKeepWhole ==
    ASSUME WholeInv, Reads
    PROVE  WholeInv'
<1>1. ShipInv' /\ MergedWhileClean'
  BY ReadsKeepShip, ReadsKeepMerged DEF WholeInv
<1>2. /\ OwnerInv /\ outcome = "running"
      /\ DocumentsSound' <=> DocumentsSound /\ NewSound
      /\ Errors(diagnostics) = {} <=> DocumentsSound
  BY ReadsAre, DocumentsSoundGrow DEF WholeInv, ShipInv, JudgedSoFar
<1>3. JudgedSoFar'
  <2> SUFFICES ASSUME outcome' = "running"
               PROVE  Errors(diagnostics') = {} <=> DocumentsSound'
    BY DEF JudgedSoFar
  <2>1. CASE Errors(diagnostics) # {}
    <3>1. Errors(diagnostics') # {}
      BY <2>1, DiagnosticsGrow, ErrorsGrow
    <3> QED BY <3>1, <2>1, <1>2
  <2>2. CASE Errors(diagnostics) = {} /\ Sound
    <3>1. InOrder /\ PoliciesClean /\ SchemaClean
      BY <1>2, <2>2 DEF WholeInv, ShipInv, Clean
    <3> QED BY <3>1, <2>2, <1>2, NewErrors
  <2>3. CASE ~Sound
    <3>1. ~DocumentsSound'
      BY <1>2, <2>3 DEF NewSound
    <3>2. Errors(diagnostics') # {}
      BY <1>2, <2>3, CleanRead
    <3> QED BY <3>1, <3>2
  <2> QED BY <2>1, <2>2, <2>3
<1>4. JudgedAsAWhole'
  <2> SUFFICES ASSUME outcome' \in {"ok", "invalid"}
               PROVE  Errors(diagnostics') # {} /\ ~DocumentsSound'
    BY DEF JudgedAsAWhole
  <2>1. outcome' = "invalid" /\ File = NotUtf8 /\ File # Missing
    BY <1>2, ReadOutcome
  <2>2. ReadFails
    BY <2>1, MarkersAssumption DEF Reads, ReadPolicies, ReadSchema, ReadLabels, ReadRejected, Sound
  <2>3. diagnostics' = {"input.invalid_utf8"}
    BY <2>1, <2>2 DEF ReadFails, When
  <2>4. ~Sound
    BY <2>1 DEF Sound
  <2> QED BY <2>3, <2>4, <1>2 DEF NewSound, Errors, WarningCodes
<1> QED BY <1>1, <1>3, <1>4 DEF WholeInv

(* A state with the same sources, read as far, has the same documents.      *)
LEMMA SameDocuments ==
    ASSUME bundle' = bundle, queue' = queue, seen' = seen
    PROVE  /\ DocumentsSound' <=> DocumentsSound
           /\ CombinationSound' <=> CombinationSound
           /\ Fragments' = Fragments
<1>1. \A kind : ReadOf(kind)' = ReadOf(kind)
  BY DEF ReadOf
<1>2. Fragments' = Fragments /\ DocumentsOf("label")' = DocumentsOf("label")
  BY DEF Fragments, DocumentsOf
<1>3. WholeSchema' = WholeSchema
  BY <1>2 DEF WholeSchema
<1>4. DocumentsSound' <=> DocumentsSound
  <2> DEFINE Policies(R) ==
                 \A k \in R : \A p \in 1..Len(seen[k]) :
                     /\ seen[k][p].static /\ seen[k][p].id # MissingId
                     /\ OwnershipDiagnostics(seen[k][p], bundle[queue[k].module]) = {}
                     /\ \A l \in R : \A q \in 1..Len(seen[l]) :
                           seen[k][p].id = seen[l][q].id => k = l /\ p = q
             Schemas(R) ==
                 \A k \in R :
                     /\ \A ns \in seen[k].namespaces : NamespaceOwns(bundle[queue[k].module].namespace, ns)
                     /\ \A l \in R \ {k} : Consistent(seen[k], seen[l])
             Rules(R) ==
                 \A k \in R :
                     /\ LabelSetDiagnostics(seen[k]) = {}
                     /\ \A i \in 1..Len(seen[k]) :
                           NamespaceOwns(bundle[queue[k].module].namespace, seen[k][i].target[1])
  <2>1. (PoliciesSound <=> Policies(ReadOf("policy"))) /\ (PoliciesSound' <=> Policies(ReadOf("policy")'))
    BY DEF PoliciesSound
  <2>2. (SchemasSound <=> Schemas(ReadOf("schema"))) /\ (SchemasSound' <=> Schemas(ReadOf("schema")'))
    BY DEF SchemasSound, Consistent
  <2>3. (RulesSound <=> Rules(ReadOf("label"))) /\ (RulesSound' <=> Rules(ReadOf("label")'))
    BY DEF RulesSound
  <2>4. Readable' <=> Readable
    BY DEF Readable
  <2> HIDE DEF Policies, Schemas, Rules
  <2>5. (PoliciesSound' <=> PoliciesSound) /\ (SchemasSound' <=> SchemasSound)
        /\ (RulesSound' <=> RulesSound)
    BY <1>1, <2>1, <2>2, <2>3
  <2>6. DocumentsSound <=> Readable /\ PoliciesSound /\ SchemasSound /\ RulesSound
    BY SoundByKind
  <2>7. DocumentsSound' <=> Readable' /\ PoliciesSound' /\ SchemasSound' /\ RulesSound'
    BY DEF DocumentsSound, Readable, PoliciesSound, SchemasSound, RulesSound, Consistent
  <2> QED BY <2>4, <2>5, <2>6, <2>7
<1>5. CombinationSound' <=> CombinationSound
  <2> DEFINE Agree(R, L, whole) ==
                 /\ SchemaLoads(whole)
                 /\ \A k \in R : \A p \in 1..Len(seen[k]) :
                       Strict(seen[k][p], whole) \cap {"error", "misapplied"} = {}
                 /\ \A k \in L : \A i \in 1..Len(seen[k]) : LabelFits(seen[k][i], whole)
             Labelled(documents) == LabelSetDiagnostics(FlattenSeq(documents)) = {}
  <2>1. CombinationSound <=>
          Labelled(DocumentsOf("label"))
          /\ (Fragments # {} => Agree(ReadOf("policy"), ReadOf("label"), WholeSchema))
    BY DEF CombinationSound
  <2>2. CombinationSound' <=>
          Labelled(DocumentsOf("label")')
          /\ (Fragments' # {} => Agree(ReadOf("policy")', ReadOf("label")', WholeSchema'))
    BY DEF CombinationSound
  <2> HIDE DEF Agree, Labelled
  <2>3. /\ ReadOf("policy")' = ReadOf("policy") /\ ReadOf("label")' = ReadOf("label")
        /\ DocumentsOf("label")' = DocumentsOf("label")
        /\ Fragments' = Fragments /\ WholeSchema' = WholeSchema
    BY <1>1, <1>2, <1>3
  <2> QED BY <2>1, <2>2, <2>3
<1> QED BY <1>2, <1>4, <1>5

LEMMA FinishKeepsWhole ==
    ASSUME WholeInv, Finish
    PROVE  WholeInv'
<1>1. ShipInv'
  BY FinishKeepsShip DEF WholeInv
<1>2. /\ outcome = "running" /\ outcome' \in {"ok", "invalid"}
      /\ UNCHANGED <<bundle, queue, accumulators, seen>>
      /\ diagnostics' = diagnostics \cup AggregateDiagnostics
  BY DEF Finish, Running
<1>3. JudgedSoFar' /\ MergedWhileClean'
  BY <1>2 DEF JudgedSoFar, MergedWhileClean
<1>4. (DocumentsSound' <=> DocumentsSound) /\ (CombinationSound' <=> CombinationSound)
  BY <1>2, SameDocuments
<1>5. Errors(diagnostics') = {} <=> DocumentsSound /\ CombinationSound
  <2>1. Errors(diagnostics) = {} <=> DocumentsSound
    BY <1>2 DEF WholeInv, JudgedSoFar
  <2>2. Errors(diagnostics') = {} <=> Errors(diagnostics) = {} /\ Errors(AggregateDiagnostics) = {}
    BY <1>2, ErrorsOfBoth
  <2>3. ASSUME Errors(diagnostics) = {}
        PROVE  Errors(AggregateDiagnostics) = {} <=> CombinationSound
    <3>1. OwnerInv /\ Gathered /\ InOrder /\ PoliciesClean /\ SchemaClean /\ Merged
      BY <1>2, <2>3 DEF WholeInv, ShipInv, Clean, MergedWhileClean
    <3> QED BY <3>1, AggregateErrors
  <2> QED BY <2>1, <2>2, <2>3
<1>6. JudgedAsAWhole'
  BY <1>4, <1>5 DEF JudgedAsAWhole
<1> QED BY <1>1, <1>3, <1>6 DEF WholeInv

LEMMA UntouchedWhole ==
    ASSUME WholeInv, ShipInv', UNCHANGED <<bundle, queue, accumulators, diagnostics, outcome, seen>>
    PROVE  WholeInv'
<1>1. /\ bundle' = bundle /\ queue' = queue /\ seen' = seen /\ schema' = schema
      /\ diagnostics' = diagnostics /\ outcome' = outcome
  BY DEF accumulators
<1>2. /\ DocumentsSound' <=> DocumentsSound
      /\ CombinationSound' <=> CombinationSound
      /\ Fragments' = Fragments
  BY <1>1, SameDocuments
<1>3. Merged' <=> Merged
  BY <1>1, <1>2 DEF Merged
<1> QED BY <1>1, <1>2, <1>3 DEF WholeInv, JudgedSoFar, MergedWhileClean, JudgedAsAWhole

LEMMA NextKeepsWhole == WholeInv /\ [Next]_vars => WholeInv'
<1> SUFFICES ASSUME WholeInv, [Next]_vars PROVE WholeInv'
  OBVIOUS
<1>0. ShipInv'
  BY NextKeepsShip DEF WholeInv
<1>1. ASSUME NEW m \in {"check", "build", "module"}, NEW d \in BOOLEAN, Start(m, d)
      PROVE  WholeInv'
  <2>1. /\ outcome' = "running" /\ seen' = <<>> /\ schema' = EmptySchema /\ diagnostics' = {}
        /\ 1..Len(seen') = {}
    BY <1>1 DEF Start
  <2>2. \A kind : ReadOf(kind)' = {}
    BY <2>1 DEF ReadOf
  <2>3. DocumentsSound'
    BY <2>1, <2>2 DEF DocumentsSound
  <2>4. Fragments' = {}
    BY <2>1 DEF Fragments
  <2>5. Merged'
    BY <2>1, <2>4 DEF Merged, EmptySchema
  <2> QED BY <1>0, <2>1, <2>3, <2>5
          DEF WholeInv, JudgedSoFar, MergedWhileClean, JudgedAsAWhole, Errors
<1>2. CASE Reads
  BY <1>2, ReadsKeepWhole
<1>3. CASE Finish
  BY <1>3, FinishKeepsWhole
<1>4. ASSUME NEW path \in DOMAIN disk, NEW content \in Documents[path], Save(path, content)
      PROVE  WholeInv'
  <2>1. UNCHANGED <<bundle, queue, accumulators, diagnostics, outcome, seen>>
    BY <1>4 DEF Save
  <2> QED BY <2>1, <1>0, UntouchedWhole
<1>5. CASE UNCHANGED vars
  <2>1. UNCHANGED <<bundle, queue, accumulators, diagnostics, outcome, seen>>
    BY <1>5 DEF vars
  <2> QED BY <2>1, <1>0, UntouchedWhole
<1> QED BY <1>1, <1>2, <1>3, <1>4, <1>5 DEF Next, Step, Reads, Idle

LEMMA InitWhole == Init => WholeInv
<1> SUFFICES ASSUME Init PROVE WholeInv
  OBVIOUS
<1>1. JudgedSoFar /\ MergedWhileClean /\ JudgedAsAWhole
  BY DEF Init, JudgedSoFar, MergedWhileClean, JudgedAsAWhole
<1> QED BY <1>1, InitShip DEF WholeInv

(* compile_manifest finds an error if and only if what it read is unsound  *)
(* as a whole: judging the documents one by one, in their order, against   *)
(* what those before them left behind refuses nothing sound and passes     *)
(* nothing unsound.                                                        *)
THEOREM JudgedAsAWholeHolds == Spec => []JudgedAsAWhole
<1>1. WholeInv => JudgedAsAWhole
  BY DEF WholeInv
<1> QED BY <1>1, InitWhole, NextKeepsWhole, PTL DEF Spec

(***************************************************************************)
(* check policy, and the status of the other commands.                     *)
(***************************************************************************)
RefusedForAReason == outcome = "invalid" => Invalid(diagnostics, deny)

LEMMA NextKeepsReason == RefusedForAReason /\ [Next]_vars => RefusedForAReason'
<1> SUFFICES ASSUME RefusedForAReason, [Next]_vars PROVE RefusedForAReason'
  OBVIOUS
<1>1. ASSUME NEW m \in {"check", "build", "module"}, NEW d \in BOOLEAN, Start(m, d)
      PROVE  RefusedForAReason'
  BY <1>1 DEF Start, RefusedForAReason
<1>2. CASE Reads
  <2>1. outcome = "running" /\ deny' = deny
    BY <1>2, ReadsAre DEF Kept
  <2>2. CASE outcome' = "invalid"
    <3>1. File = NotUtf8 /\ File # Missing
      BY <1>2, <2>1, <2>2, ReadOutcome
    <3>2. ReadFails
      BY <1>2, <3>1, MarkersAssumption DEF Reads, ReadPolicies, ReadSchema, ReadLabels, ReadRejected, Sound
    <3>3. diagnostics' = {"input.invalid_utf8"}
      BY <3>1, <3>2 DEF ReadFails, When
    <3> QED BY <3>3 DEF RefusedForAReason, Invalid, Errors, WarningCodes
  <2> QED BY <2>2 DEF RefusedForAReason
<1>3. CASE Finish
  BY <1>3 DEF Finish, RefusedForAReason, Invalid
<1>4. ASSUME NEW path \in DOMAIN disk, NEW content \in Documents[path], Save(path, content)
      PROVE  RefusedForAReason'
  BY <1>4 DEF Save, RefusedForAReason
<1>5. CASE UNCHANGED vars
  BY <1>5 DEF vars, RefusedForAReason
<1> QED BY <1>1, <1>2, <1>3, <1>4, <1>5 DEF Next, Step, Reads, Idle

(* A step of the commands is a step of the builder or leaves it alone.     *)
LEMMA ChecksNextIs ==
    ASSUME [ChecksNext]_allVars
    PROVE  [Next]_vars
  BY DEF ChecksNext, Call, ReadArgument, Judge, allVars

(* What the compiler or the builder has refused is rendered as invalid and *)
(* exits with 1 (render_content_error and render_check of main.rs).        *)
THEOREM RefusalReportedHolds == ChecksSpec => []RefusalReported
<1>1. ChecksInit => RefusedForAReason
  BY DEF ChecksInit, Init, RefusedForAReason
<1>2. RefusedForAReason /\ [ChecksNext]_allVars => RefusedForAReason'
  BY NextKeepsReason, ChecksNextIs
<1>3. RefusedForAReason => RefusalReported
  BY DEF RefusedForAReason, RefusalReported, ManifestStatus
<1> QED BY <1>1, <1>2, <1>3, PTL DEF ChecksSpec

(***************************************************************************)
(* What a run without an error has made of its one schema, and what it has *)
(* found when it ends well.                                                *)
(***************************************************************************)
Exact ==
    /\ Fragments = {} => schema = EmptySchema
    /\ \A f : Fragments = {f} => schema = MergeSchema(EmptySchema, f)
    /\ \A f \in Fragments : f.warns => "schema.warning" \in diagnostics

ExactWhileClean == outcome = "running" /\ Errors(diagnostics) = {} => Exact

Approved ==
    outcome = "ok" =>
        /\ Errors(diagnostics) = {} /\ AggregateDiagnostics \subseteq diagnostics
        /\ Len(seen) = Len(queue)
        /\ InOrder /\ PoliciesClean /\ SchemaClean /\ Exact

(* With no save since it began, a run has read what the files hold.        *)
AsRead ==
    outcome # "none" /\ edits = startedAt =>
        \A k \in 1..Len(seen) : seen[k] = disk[queue[k].path]

PassInv == ShipInv /\ ExactWhileClean /\ Approved /\ AsRead

LEMMA MergesOnce ==
    ASSUME NEW f
    PROVE  MergeSchema(MergeSchema(EmptySchema, f), f) = MergeSchema(EmptySchema, f)
<1> DEFINE once == MergeSchema(EmptySchema, f)
           twice == MergeSchema(once, f)
<1>1. DOMAIN EmptySchema.declarations = {} /\ DOMAIN EmptySchema.fields = {}
      /\ EmptySchema.namespaces = {}
  BY DEF EmptySchema
<1>2. once = [namespaces |-> f.namespaces,
              declarations |-> [key \in DOMAIN f.declarations |-> f.declarations[key]],
              fields |-> [key \in DOMAIN f.fields |-> f.fields[key]]]
  <2>1. \A key \in DOMAIN f.fields : key \notin DOMAIN EmptySchema.fields
    BY <1>1
  <2> QED BY <1>1, <2>1 DEF MergeSchema
<1> HIDE DEF once
<1>3. /\ once.namespaces \cup f.namespaces = f.namespaces
      /\ DOMAIN once.declarations \cup DOMAIN f.declarations = DOMAIN f.declarations
      /\ DOMAIN once.fields \cup DOMAIN f.fields = DOMAIN f.fields
      /\ \A key \in DOMAIN f.fields : key \in DOMAIN once.fields /\ once.fields[key] = f.fields[key]
  BY <1>2
<1>4. twice = [namespaces |-> f.namespaces,
               declarations |-> [key \in DOMAIN f.declarations |-> f.declarations[key]],
               fields |-> [key \in DOMAIN f.fields |-> f.fields[key]]]
  BY <1>3 DEF MergeSchema
<1> QED BY <1>2, <1>4 DEF once

LEMMA ReadsKeepExact ==
    ASSUME ShipInv, ExactWhileClean, Reads
    PROVE  ExactWhileClean'
<1> SUFFICES ASSUME outcome' = "running", Errors(diagnostics') = {} PROVE Exact'
  BY DEF ExactWhileClean
<1>1. /\ outcome = "running" /\ Errors(diagnostics) = {}
      /\ diagnostics \subseteq diagnostics' /\ (PolicyRead \/ SchemaRead \/ LabelsRead)
  BY CleanRead DEF ShipInv
<1>2. Exact
  BY <1>1 DEF ExactWhileClean
<1>3. OwnerInv
  BY DEF ShipInv
<1>4. CASE PolicyRead \/ LabelsRead
  <2>1. Fragments' = Fragments /\ schema' = schema
    BY <1>3, <1>4, FragmentsGrow DEF PolicyRead, LabelsRead
  <2> QED BY <1>1, <1>2, <2>1 DEF Exact
<1>5. CASE SchemaRead
  <2>1. Fragments' = Fragments \cup {File} /\ schema' = MergeSchema(schema, File)
        /\ (File.warns => "schema.warning" \in diagnostics')
    BY <1>3, <1>5, FragmentsGrow DEF SchemaRead, When
  <2>2. ASSUME NEW f, Fragments' = {f} PROVE schema' = MergeSchema(EmptySchema, f)
    <3>1. f = File /\ (Fragments = {} \/ Fragments = {f})
      BY <2>1, <2>2
    <3>2. CASE Fragments = {}
      BY <3>1, <3>2, <2>1, <1>2 DEF Exact
    <3>3. CASE Fragments = {f}
      BY <3>1, <3>3, <2>1, <1>2, MergesOnce DEF Exact
    <3> QED BY <3>1, <3>2, <3>3
  <2> QED BY <1>1, <1>2, <2>1, <2>2 DEF Exact
<1> QED BY <1>1, <1>4, <1>5

LEMMA InitPass == Init => PassInv
<1> SUFFICES ASSUME Init PROVE PassInv
  OBVIOUS
<1>1. ExactWhileClean /\ Approved /\ AsRead
  BY DEF Init, ExactWhileClean, Approved, AsRead
<1> QED BY <1>1, InitShip DEF PassInv

LEMMA UntouchedPass ==
    ASSUME PassInv, ShipInv', AsRead',
           UNCHANGED <<bundle, queue, accumulators, diagnostics, outcome, parts, seen>>
    PROVE  PassInv'
<1>1. /\ bundle' = bundle /\ queue' = queue /\ seen' = seen
      /\ position' = position /\ diagnostics' = diagnostics /\ outcome' = outcome
      /\ text' = text /\ aggregate' = aggregate /\ labels' = labels
      /\ ids' = ids /\ assigned' = assigned /\ hasSchema' = hasSchema /\ schema' = schema
  BY DEF accumulators
<1>3. DocumentsOf("policy")' = DocumentsOf("policy") /\ DocumentsOf("label")' = DocumentsOf("label")
      /\ Fragments' = Fragments
  BY <1>1 DEF DocumentsOf, Fragments
<1>4. InOrder' <=> InOrder
  BY <1>1, <1>3 DEF InOrder
<1>5. PoliciesClean' <=> PoliciesClean
  BY <1>1 DEF PoliciesClean, Passed
<1>6. (SchemaClean' <=> SchemaClean) /\ (Exact' <=> Exact)
  BY <1>1, <1>3 DEF SchemaClean, Exact
<1>7. AggregateDiagnostics' = AggregateDiagnostics
  BY <1>1 DEF AggregateDiagnostics, Combined
<1>8. ExactWhileClean' /\ Approved'
  BY <1>1, <1>4, <1>5, <1>6, <1>7 DEF PassInv, ExactWhileClean, Approved
<1> QED BY <1>8 DEF PassInv

LEMMA ReadsKeepPass ==
    ASSUME PassInv, Reads
    PROVE  PassInv'
<1>1. ShipInv' /\ ExactWhileClean'
  BY ReadsKeepShip, ReadsKeepExact DEF PassInv
<1>2. /\ outcome = "running" /\ outcome' # "ok" /\ UNCHANGED <<disk, edits, startedAt>>
  BY ReadsAre, ReadOutcome DEF Kept
<1>3. AsRead'
  <2> SUFFICES ASSUME edits' = startedAt', NEW k \in 1..Len(seen')
               PROVE  seen'[k] = disk'[queue'[k].path]
    BY DEF AsRead
  <2>1. OwnerInv
    BY DEF PassInv, ShipInv
  <2>2. CASE k = position
    BY <2>1, <2>2, <1>2, HistoryGrows DEF File, Input
  <2>3. CASE k \in 1..(position - 1)
    <3>1. seen[k] = disk[queue[k].path]
      BY <2>1, <2>3, <1>2, HistoryGrows DEF PassInv, AsRead
    <3> QED BY <3>1, <2>1, <2>3, <1>2, HistoryGrows
  <2> QED BY <2>1, <2>2, <2>3, HistoryGrows
<1> QED BY <1>1, <1>2, <1>3 DEF PassInv, Approved

LEMMA FinishKeepsPass ==
    ASSUME PassInv, Finish
    PROVE  PassInv'
<1>1. ShipInv'
  BY FinishKeepsShip DEF PassInv
<1>2. /\ outcome = "running" /\ outcome' # "running" /\ position > Len(queue)
      /\ UNCHANGED <<bundle, queue, accumulators, seen, disk, edits, startedAt>>
      /\ diagnostics' = diagnostics \cup AggregateDiagnostics
      /\ (outcome' = "ok" => Errors(diagnostics') = {})
  BY DEF Finish, Running
<1>3. AsRead' /\ ExactWhileClean'
  BY <1>2 DEF PassInv, AsRead, ExactWhileClean
<1>4. Approved'
  <2> SUFFICES ASSUME outcome' = "ok"
               PROVE  /\ Errors(diagnostics') = {} /\ AggregateDiagnostics' \subseteq diagnostics'
                      /\ Len(seen') = Len(queue')
                      /\ InOrder' /\ PoliciesClean' /\ SchemaClean' /\ Exact'
    BY DEF Approved
  <2>1. /\ bundle' = bundle /\ queue' = queue /\ seen' = seen /\ position' = position
        /\ text' = text /\ aggregate' = aggregate /\ labels' = labels
        /\ ids' = ids /\ assigned' = assigned /\ hasSchema' = hasSchema /\ schema' = schema
    BY <1>2 DEF accumulators
  <2>2. Errors(diagnostics) = {} /\ diagnostics \subseteq diagnostics'
    BY <1>2, ErrorsGrow
  <2>3. InOrder /\ PoliciesClean /\ SchemaClean /\ Exact
    BY <1>2, <2>2 DEF PassInv, ShipInv, Clean, ExactWhileClean
  <2>4. DocumentsOf("policy")' = DocumentsOf("policy") /\ DocumentsOf("label")' = DocumentsOf("label")
        /\ Fragments' = Fragments
    BY <2>1 DEF DocumentsOf, Fragments
  <2>5. InOrder'
    BY <2>1, <2>3, <2>4 DEF InOrder
  <2>6. PoliciesClean'
    <3>1. ASSUME NEW policy \in ElementsOf(text)
          PROVE  \E m \in 1..Len(bundle) :
                    policy.id \in ElementsOf(assigned[m]) /\ Passed(policy, m, diagnostics')
      <4>1. PICK m \in 1..Len(bundle) :
                policy.id \in ElementsOf(assigned[m]) /\ Passed(policy, m, diagnostics)
        BY <2>3 DEF PoliciesClean
      <4>2. Passed(policy, m, diagnostics')
        BY <4>1, <2>2, PassedStays
      <4> QED BY <4>1, <4>2
    <3> QED BY <3>1, <2>1, <2>3 DEF PoliciesClean, Passed
  <2>7. SchemaClean' /\ Exact'
    BY <2>1, <2>2, <2>3, <2>4 DEF SchemaClean, Exact
  <2>8. AggregateDiagnostics' = AggregateDiagnostics
    BY <2>1 DEF AggregateDiagnostics, Combined
  <2>9. Len(seen) = Len(queue)
    BY <1>2, <2>3, QueueIsLong DEF PassInv, ShipInv, OwnerInv, Inv, InOrder, Counted, Bookkeeping
  <2> QED BY <1>2, <2>1, <2>5, <2>6, <2>7, <2>8, <2>9
<1> QED BY <1>1, <1>3, <1>4 DEF PassInv

LEMMA NextKeepsPass == PassInv /\ [Next]_vars => PassInv'
<1> SUFFICES ASSUME PassInv, [Next]_vars PROVE PassInv'
  OBVIOUS
<1>0. ShipInv'
  BY NextKeepsShip DEF PassInv
<1>1. ASSUME NEW m \in {"check", "build", "module"}, NEW d \in BOOLEAN, Start(m, d)
      PROVE  PassInv'
  <2>1. outcome' = "running" /\ seen' = <<>> /\ schema' = EmptySchema
    BY <1>1 DEF Start
  <2>2. Fragments' = {} /\ 1..Len(seen') = {}
    BY <2>1 DEF Fragments
  <2>3. Exact'
    BY <2>1, <2>2 DEF Exact
  <2> QED BY <1>0, <2>1, <2>2, <2>3 DEF PassInv, ExactWhileClean, Approved, AsRead
<1>2. CASE Reads
  BY <1>2, ReadsKeepPass
<1>3. CASE Finish
  BY <1>3, FinishKeepsPass
<1>4. ASSUME NEW path \in DOMAIN disk, NEW content \in Documents[path], Save(path, content)
      PROVE  PassInv'
  <2>1. UNCHANGED <<bundle, queue, accumulators, diagnostics, outcome, parts, seen>>
    BY <1>4 DEF Save
  <2>2. AsRead'
    <3>1. startedAt \in Nat /\ edits \in Nat /\ startedAt <= edits
          /\ startedAt' = startedAt /\ edits' = edits + 1
      BY <1>4 DEF Save, PassInv, ShipInv, OwnerInv, Inv, Bookkeeping
    <3> QED BY <3>1 DEF AsRead
  <2> QED BY <2>1, <2>2, <1>0, UntouchedPass
<1>5. CASE UNCHANGED vars
  <2>1. UNCHANGED <<bundle, queue, accumulators, diagnostics, outcome, parts, seen>>
    BY <1>5 DEF vars
  <2>2. AsRead'
    BY <1>5 DEF vars, PassInv, AsRead
  <2> QED BY <2>1, <2>2, <1>0, UntouchedPass
<1> QED BY <1>1, <1>2, <1>3, <1>4, <1>5 DEF Next, Step, Reads, Idle

(***************************************************************************)
(* check module and check policy on the same files.                        *)
(***************************************************************************)
LEMMA OnlyOneFilled ==
    ASSUME NEW S, NEW seqs \in Seq(Seq(S)), NEW k \in 1..Len(seqs),
           \A j \in 1..Len(seqs) : j # k => seqs[j] = <<>>
    PROVE  FlattenSeq(seqs) = seqs[k]
<1>1. Len(seqs) \in Nat \ {0} /\ \A j \in 1..Len(seqs) : seqs[j] \in Seq(S)
  OBVIOUS
<1>2. PICK F : /\ FlattenSeq(seqs) = F[Len(seqs)]
               /\ F[1] = seqs[1]
               /\ \A n \in 2..Len(seqs) : F[n] = F[n - 1] \o seqs[n]
               /\ \A n \in 1..Len(seqs) : F[n] \in Seq(S)
  BY <1>1, FlattenIsJoined
<1> DEFINE Right(n) == F[n] = IF n < k THEN <<>> ELSE seqs[k]
           T == {n \in 1..Len(seqs) : ~Right(n)}
<1>3. Right(1)
  BY <1>1, <1>2
<1>4. ASSUME NEW n \in 2..Len(seqs), Right(n - 1) PROVE Right(n)
  <2>0. n \in 1..Len(seqs)
    BY <1>1
  <2>1. F[n] = F[n - 1] \o seqs[n] /\ n \in 1..Len(seqs)
    BY <1>2, <2>0, Zenon
  <2>2. CASE n = k
    <3>1. F[n - 1] = <<>>
      BY <1>4, <2>2
    <3>2. <<>> \o seqs[k] = seqs[k]
      BY <1>1
    <3> QED BY <3>1, <3>2, <2>1, <2>2
  <2>3. CASE n # k
    <3>1. seqs[n] = <<>> /\ F[n - 1] \in Seq(S) /\ (n - 1 < k <=> n < k)
      BY <2>1, <2>3, <1>2
    <3>2. F[n - 1] \o <<>> = F[n - 1]
      BY <3>1
    <3> QED BY <3>1, <3>2, <2>1, <1>4
  <2> QED BY <2>2, <2>3
<1>5. T = {}
  <2> SUFFICES ASSUME T # {} PROVE FALSE
    OBVIOUS
  <2> HIDE DEF Right
  <2>0. T \in SUBSET Nat
    OBVIOUS
  <2>1. PICK n \in T : \A m \in T : n <= m
    BY <2>0, LeastNatural
  <2>2. n \in 2..Len(seqs) /\ n - 1 \in 1..Len(seqs)
    BY <1>3, <2>1
  <2>3. n - 1 \notin T
    BY <2>1, <2>2
  <2> QED BY <1>4, <2>1, <2>2, <2>3
<1>6. Right(Len(seqs))
  <2>1. Len(seqs) \in 1..Len(seqs)
    BY <1>1
  <2> HIDE DEF Right
  <2> QED BY <1>5, <2>1
<1>7. k <= Len(seqs)
  BY <1>1
<1> QED BY <1>1, <1>2, <1>6, <1>7

LEMMA TwoJoined ==
    ASSUME NEW Items, NEW s \in Seq(Items), NEW t \in Seq(Items)
    PROVE  /\ s \o t \in Seq(Items) /\ Len(s \o t) = Len(s) + Len(t)
           /\ Len(s) \in Nat /\ Len(t) \in Nat
           /\ \A j \in 1..Len(s) : (s \o t)[j] = s[j]
           /\ \A j \in 1..Len(t) : (s \o t)[Len(s) + j] = t[j]
  OBVIOUS

LEMMA ThreeJoined ==
    ASSUME NEW Items, NEW s \in Seq(Items), NEW t \in Seq(Items), NEW u \in Seq(Items)
    PROVE  /\ Len(s \o t \o u) = Len(s) + Len(t) + Len(u)
           /\ \A j \in 1..Len(s) : (s \o t \o u)[j] = s[j]
           /\ \A j \in 1..Len(t) : (s \o t \o u)[Len(s) + j] = t[j]
           /\ \A j \in 1..Len(u) : (s \o t \o u)[Len(s) + Len(t) + j] = u[j]
<1> DEFINE v == s \o t
<1>1. /\ v \in Seq(Items) /\ Len(v) = Len(s) + Len(t)
      /\ Len(s) \in Nat /\ Len(t) \in Nat /\ Len(u) \in Nat
      /\ \A j \in 1..Len(s) : v[j] = s[j]
      /\ \A j \in 1..Len(t) : v[Len(s) + j] = t[j]
  BY TwoJoined
<1> HIDE DEF v
<1>2. /\ Len(v \o u) = Len(v) + Len(u)
      /\ \A j \in 1..Len(v) : (v \o u)[j] = v[j]
      /\ \A j \in 1..Len(u) : (v \o u)[Len(v) + j] = u[j]
  <2>1. v \in Seq(Items)
    BY <1>1
  <2> QED BY <2>1, TwoJoined
<1>3. /\ Len(v \o u) = Len(s) + Len(t) + Len(u)
      /\ \A j \in 1..Len(s) : (v \o u)[j] = s[j]
      /\ \A j \in 1..Len(t) : (v \o u)[Len(s) + j] = t[j]
      /\ \A j \in 1..Len(u) : (v \o u)[Len(s) + Len(t) + j] = u[j]
  BY <1>1, <1>2
<1> QED BY <1>3 DEF v

LEMMA QueueOfOne ==
    ASSUME NEW b \in Solo
    PROVE  LET policies == b[1].policies
               schemas == b[1].schemas
               rules == b[1].labels
               As(kind, path) == [module |-> 1, kind |-> kind, path |-> path]
           IN /\ Len(policies) \in Nat /\ Len(schemas) \in Nat /\ Len(rules) \in Nat
              /\ Len(Queue(b)) = Len(policies) + Len(schemas) + Len(rules)
              /\ \A j \in 1..Len(policies) : Queue(b)[j] = As("policy", policies[j])
              /\ \A j \in 1..Len(schemas) : Queue(b)[Len(policies) + j] = As("schema", schemas[j])
              /\ \A j \in 1..Len(rules) :
                    Queue(b)[Len(policies) + Len(schemas) + j] = As("label", rules[j])
<1> DEFINE policies == b[1].policies
           schemas == b[1].schemas
           rules == b[1].labels
           As(kind, path) == [module |-> 1, kind |-> kind, path |-> path]
           P == Tagged(1, "policy", policies)
           S == Tagged(1, "schema", schemas)
           L == Tagged(1, "label", rules)
           Of(m) == Tagged(m, "policy", b[m].policies) \o Tagged(m, "schema", b[m].schemas)
                       \o Tagged(m, "label", b[m].labels)
           all == [m \in 1..Len(b) |-> Of(m)]
<1>1. Len(b) = 1 /\ 1 \in 1..Len(b) /\ Len(b) \in Nat
  BY BundlesAssumption
<1>2. /\ policies \in Seq(DOMAIN Documents) /\ schemas \in Seq(DOMAIN Documents)
      /\ rules \in Seq(DOMAIN Documents)
  BY <1>1, BundlesAssumption
<1> DEFINE Items == UNION {{As(kind, path) : kind \in {"policy", "schema", "label"}} :
                           path \in DOMAIN Documents}
<1> HIDE DEF policies, schemas, rules
<1>3. /\ P \in Seq(Items) /\ Len(P) = Len(policies)
      /\ \A j \in 1..Len(policies) : P[j] = As("policy", policies[j])
  BY <1>2 DEF Tagged
<1>4. /\ S \in Seq(Items) /\ Len(S) = Len(schemas)
      /\ \A j \in 1..Len(schemas) : S[j] = As("schema", schemas[j])
  BY <1>2 DEF Tagged
<1>5. /\ L \in Seq(Items) /\ Len(L) = Len(rules)
      /\ \A j \in 1..Len(rules) : L[j] = As("label", rules[j])
  BY <1>2 DEF Tagged
<1>6. Of(1) = P \o S \o L
  BY DEF policies, schemas, rules
<1> HIDE DEF P, S, L, Items, As, Of
<1>7. all[1] = Of(1) /\ Len(all) = 1
  BY <1>1
<1>8. P \o S \o L \in Seq(Items)
  BY <1>3, <1>4, <1>5
<1>9. FlattenSeq(all) = P \o S \o L
  <2> HIDE DEF all
  <2>1. Len(all) \in Nat \ {0} /\ \A k \in 1..Len(all) : all[k] \in Seq(Items)
    <3>1. \A k \in 1..1 : k = 1
      OBVIOUS
    <3>2. all[1] \in Seq(Items)
      BY <1>6, <1>7, <1>8, Zenon
    <3> QED BY <3>1, <3>2, <1>7
  <2>2. PICK F : /\ FlattenSeq(all) = F[Len(all)]
                 /\ F[1] = all[1]
                 /\ \A k \in 2..Len(all) : F[k] = F[k - 1] \o all[k]
                 /\ \A k \in 1..Len(all) : F[k] \in Seq(Items)
    BY <2>1, FlattenIsJoined
  <2>3. F[Len(all)] = all[1]
    BY <2>2, <1>7
  <2> QED BY <2>2, <2>3, <1>6, <1>7, Zenon
<1>10. Queue(b) = P \o S \o L
  BY <1>9 DEF Queue, Of
<1>11. /\ Len(P \o S \o L) = Len(P) + Len(S) + Len(L)
       /\ \A j \in 1..Len(P) : (P \o S \o L)[j] = P[j]
       /\ \A j \in 1..Len(S) : (P \o S \o L)[Len(P) + j] = S[j]
       /\ \A j \in 1..Len(L) : (P \o S \o L)[Len(P) + Len(S) + j] = L[j]
  <2>1. P \in Seq(Items)
    BY <1>3
  <2>2. S \in Seq(Items)
    BY <1>4
  <2>3. L \in Seq(Items)
    BY <1>5
  <2> QED BY <2>1, <2>2, <2>3, ThreeJoined
<1>12. Len(policies) \in Nat /\ Len(schemas) \in Nat /\ Len(rules) \in Nat
  BY <1>2
<1> QED BY <1>3, <1>4, <1>5, <1>10, <1>11, <1>12 DEF policies, schemas, rules, As

(* Where the file of a kind is in the queue of check module.               *)
OnlyFile(kind, path) ==
    \E k \in 1..Len(queue) :
        /\ queue[k].kind = kind /\ queue[k].path = path
        /\ \A j \in 1..Len(queue) : j # k => queue[j].kind # kind

LEMMA SameQueue ==
    ASSUME Bookkeeping, bundle \in Solo, SameFiles
    PROVE  /\ OnlyFile("policy", arguments.policy)
           /\ arguments.schema # NotGiven => OnlyFile("schema", arguments.schema)
           /\ arguments.schema = NotGiven => \A j \in 1..Len(queue) : queue[j].kind # "schema"
           /\ arguments.labels # NotGiven => OnlyFile("label", arguments.labels)
<1> DEFINE p == Len(bundle[1].policies)
           s == Len(bundle[1].schemas)
           r == Len(bundle[1].labels)
<1>1. /\ p \in Nat /\ s \in Nat /\ r \in Nat /\ Len(queue) = p + s + r
      /\ \A j \in 1..p : queue[j].kind = "policy" /\ queue[j].path = bundle[1].policies[j]
      /\ \A j \in 1..s : queue[p + j].kind = "schema" /\ queue[p + j].path = bundle[1].schemas[j]
      /\ \A j \in 1..r : queue[p + s + j].kind = "label" /\ queue[p + s + j].path = bundle[1].labels[j]
  <2>1. queue = Queue(bundle)
    BY DEF Bookkeeping
  <2>2. /\ p \in Nat /\ s \in Nat /\ r \in Nat /\ Len(queue) = p + s + r
        /\ \A j \in 1..p :
              queue[j] = [module |-> 1, kind |-> "policy", path |-> bundle[1].policies[j]]
        /\ \A j \in 1..s :
              queue[p + j] = [module |-> 1, kind |-> "schema", path |-> bundle[1].schemas[j]]
        /\ \A j \in 1..r :
              queue[p + s + j] = [module |-> 1, kind |-> "label", path |-> bundle[1].labels[j]]
    BY <2>1, QueueOfOne, Zenon
  <2> HIDE DEF p, s, r
  <2>3. ASSUME NEW j \in 1..p
       PROVE  queue[j].kind = "policy" /\ queue[j].path = bundle[1].policies[j]
    <3>1. queue[j] = [module |-> 1, kind |-> "policy", path |-> bundle[1].policies[j]]
      BY <2>2
    <3> QED BY <3>1
  <2>4. ASSUME NEW j \in 1..s
       PROVE  queue[p + j].kind = "schema" /\ queue[p + j].path = bundle[1].schemas[j]
    <3>1. queue[p + j] = [module |-> 1, kind |-> "schema", path |-> bundle[1].schemas[j]]
      BY <2>2
    <3> QED BY <3>1
  <2>5. ASSUME NEW j \in 1..r
       PROVE  queue[p + s + j].kind = "label" /\ queue[p + s + j].path = bundle[1].labels[j]
    <3>1. queue[p + s + j] = [module |-> 1, kind |-> "label", path |-> bundle[1].labels[j]]
      BY <2>2
    <3> QED BY <3>1
  <2> QED BY <2>2, <2>3, <2>4, <2>5
<1>2. /\ bundle[1].policies = <<arguments.policy>>
      /\ bundle[1].schemas = IF arguments.schema = NotGiven THEN <<>> ELSE <<arguments.schema>>
      /\ arguments.labels # NotGiven => bundle[1].labels = <<arguments.labels>>
  BY DEF SameFiles, FilesOf
<1>3. /\ p = 1 /\ s = IF arguments.schema = NotGiven THEN 0 ELSE 1
      /\ arguments.labels # NotGiven => r = 1
  BY <1>2
<1>4. /\ bundle[1].policies[1] = arguments.policy
      /\ arguments.schema # NotGiven => bundle[1].schemas[1] = arguments.schema
      /\ arguments.labels # NotGiven => bundle[1].labels[1] = arguments.labels
  BY <1>2
<1> HIDE DEF p, s, r
<1>5. ASSUME NEW j \in 1..Len(queue)
      PROVE  /\ j \in 1..p => queue[j].kind = "policy"
             /\ j \in (p + 1)..(p + s) => queue[j].kind = "schema"
             /\ j \in (p + s + 1)..(p + s + r) => queue[j].kind = "label"
             /\ j \in 1..p \/ j \in (p + 1)..(p + s) \/ j \in (p + s + 1)..(p + s + r)
  <2>1. j \in 1..p => queue[j].kind = "policy"
    BY <1>1
  <2>2. ASSUME j \in (p + 1)..(p + s) PROVE queue[j].kind = "schema"
    <3>1. j - p \in 1..s /\ p + (j - p) = j
      BY <1>1, <2>2
    <3> QED BY <3>1, <1>1
  <2>3. ASSUME j \in (p + s + 1)..(p + s + r) PROVE queue[j].kind = "label"
    <3> DEFINE k == j - (p + s)
    <3>1. k \in 1..r /\ p + s + k = j
      BY <1>1, <2>3
    <3> HIDE DEF k
    <3>2. queue[p + s + k].kind = "label"
      BY <3>1, <1>1
    <3> QED BY <3>1, <3>2
  <2> QED BY <2>1, <2>2, <2>3, <1>1
<1>6. OnlyFile("policy", arguments.policy)
  <2>1. 1 \in 1..Len(queue) /\ queue[1].kind = "policy" /\ queue[1].path = arguments.policy
    BY <1>1, <1>3, <1>4
  <2>2. \A j \in 1..Len(queue) : j # 1 => queue[j].kind # "policy"
    BY <1>1, <1>3, <1>5
  <2> QED BY <2>1, <2>2 DEF OnlyFile
<1>7. ASSUME arguments.schema # NotGiven PROVE OnlyFile("schema", arguments.schema)
  <2>1. 2 \in 1..Len(queue) /\ queue[2].kind = "schema" /\ queue[2].path = arguments.schema
    BY <1>1, <1>3, <1>4, <1>7
  <2>2. \A j \in 1..Len(queue) : j # 2 => queue[j].kind # "schema"
    BY <1>1, <1>3, <1>5, <1>7
  <2> QED BY <2>1, <2>2 DEF OnlyFile
<1>8. ASSUME arguments.schema = NotGiven, NEW j \in 1..Len(queue) PROVE queue[j].kind # "schema"
  BY <1>1, <1>3, <1>5, <1>8
<1>9. ASSUME arguments.labels # NotGiven PROVE OnlyFile("label", arguments.labels)
  <2>1. p + s + 1 \in 1..Len(queue) /\ queue[p + s + 1].kind = "label"
        /\ queue[p + s + 1].path = arguments.labels
    BY <1>1, <1>3, <1>4, <1>9
  <2>2. \A j \in 1..Len(queue) : j # p + s + 1 => queue[j].kind # "label"
    BY <1>1, <1>3, <1>5, <1>9
  <2> QED BY <2>1, <2>2 DEF OnlyFile
<1> QED BY <1>6, <1>7, <1>8, <1>9

(* What an approved run of check module has made of those files.           *)
LEMMA ApprovedContents ==
    ASSUME PassInv, outcome = "ok", edits = startedAt, bundle \in Solo, SameFiles
    PROVE  /\ text = disk[arguments.policy]
           /\ disk[arguments.policy] \notin {Missing, NotUtf8, Unparsable}
           /\ arguments.schema # NotGiven =>
                 /\ hasSchema /\ schema = MergeSchema(EmptySchema, disk[arguments.schema])
                 /\ disk[arguments.schema] \notin {Missing, NotUtf8, Unparsable, NotGiven}
                 /\ disk[arguments.schema].warns => "schema.warning" \in diagnostics
           /\ arguments.schema = NotGiven => ~hasSchema
           /\ arguments.labels # NotGiven =>
                 /\ labels = disk[arguments.labels]
                 /\ disk[arguments.labels] \notin {Missing, NotUtf8, Unparsable}
<1>1. /\ Bookkeeping /\ DiskTyped /\ InOrder /\ SchemaClean /\ Exact /\ Len(seen) = Len(queue)
      /\ queue \in Seq(InputsOf(bundle)) /\ Len(queue) \in Nat
      /\ \A k \in 1..Len(seen) : seen[k] = disk[queue[k].path]
  BY QueueIsLong DEF PassInv, ShipInv, OwnerInv, Inv, Approved, AsRead
<1>2. \A k \in 1..Len(queue) :
         seen[k] = disk[queue[k].path] /\ seen[k] \notin {Missing, NotUtf8, Unparsable}
  BY <1>1 DEF InOrder
<1>3. ASSUME NEW kind, NEW k \in 1..Len(queue), queue[k].kind = kind,
             \A j \in 1..Len(queue) : j # k => queue[j].kind # kind
      PROVE  /\ Len(DocumentsOf(kind)) = Len(queue) /\ DocumentsOf(kind)[k] = seen[k]
             /\ \A j \in 1..Len(queue) : j # k => DocumentsOf(kind)[j] = <<>>
  BY <1>1, <1>3 DEF DocumentsOf
<1>4. text = disk[arguments.policy] /\ disk[arguments.policy] \notin {Missing, NotUtf8, Unparsable}
  <2>1. PICK k \in 1..Len(queue) :
            /\ queue[k].kind = "policy" /\ queue[k].path = arguments.policy
            /\ \A j \in 1..Len(queue) : j # k => queue[j].kind # "policy"
    BY <1>1, SameQueue DEF OnlyFile
  <2> DEFINE d == DocumentsOf("policy")
  <2>2. /\ Len(d) = Len(queue) /\ d[k] = seen[k]
        /\ \A j \in 1..Len(queue) : j # k => d[j] = <<>>
    BY <2>1, <1>3
  <2>3. d \in Seq(Seq(AnyPolicy)) /\ text = FlattenSeq(d)
    BY <1>1 DEF InOrder
  <2> HIDE DEF d
  <2>4. FlattenSeq(d) = d[k]
    BY <2>2, <2>3, OnlyOneFilled
  <2> QED BY <2>1, <2>2, <2>3, <2>4, <1>2
<1>5. ASSUME arguments.labels # NotGiven
      PROVE  labels = disk[arguments.labels]
             /\ disk[arguments.labels] \notin {Missing, NotUtf8, Unparsable}
  <2>1. PICK k \in 1..Len(queue) :
            /\ queue[k].kind = "label" /\ queue[k].path = arguments.labels
            /\ \A j \in 1..Len(queue) : j # k => queue[j].kind # "label"
    BY <1>1, <1>5, SameQueue DEF OnlyFile
  <2> DEFINE d == DocumentsOf("label")
  <2>2. /\ Len(d) = Len(queue) /\ d[k] = seen[k]
        /\ \A j \in 1..Len(queue) : j # k => d[j] = <<>>
    BY <2>1, <1>3
  <2>3. d \in Seq(Seq(AnyRule)) /\ labels = FlattenSeq(d)
    BY <1>1 DEF InOrder
  <2> HIDE DEF d
  <2>4. FlattenSeq(d) = d[k]
    BY <2>2, <2>3, OnlyOneFilled
  <2> QED BY <2>1, <2>2, <2>3, <2>4, <1>2
<1>6. ASSUME arguments.schema # NotGiven
      PROVE  /\ hasSchema /\ schema = MergeSchema(EmptySchema, disk[arguments.schema])
             /\ disk[arguments.schema] \notin {Missing, NotUtf8, Unparsable, NotGiven}
             /\ disk[arguments.schema].warns => "schema.warning" \in diagnostics
  <2>1. PICK k \in 1..Len(queue) :
            /\ queue[k].kind = "schema" /\ queue[k].path = arguments.schema
            /\ \A j \in 1..Len(queue) : j # k => queue[j].kind # "schema"
    BY <1>1, <1>6, SameQueue DEF OnlyFile
  <2>2. Fragments = {seen[k]}
    BY <1>1, <2>1 DEF Fragments
  <2>3. seen[k] = disk[arguments.schema] /\ seen[k] \notin {Missing, NotUtf8, Unparsable}
    BY <1>2, <2>1
  <2>4. arguments.schema \in DOMAIN disk
    BY <1>1, <2>1 DEF InputsOf, DiskTyped
  <2>5. disk[arguments.schema] # NotGiven
    BY <1>1, <2>4, NotGivenAssumption DEF DiskTyped
  <2> QED BY <1>1, <2>2, <2>3, <2>5 DEF Exact, SchemaClean
<1>7. ASSUME arguments.schema = NotGiven PROVE ~hasSchema
  <2>1. \A j \in 1..Len(queue) : queue[j].kind # "schema"
    BY <1>1, <1>7, SameQueue
  <2>2. Fragments = {}
    BY <1>1, <2>1 DEF Fragments
  <2> QED BY <1>1, <2>2 DEF SchemaClean
<1> QED BY <1>4, <1>5, <1>6, <1>7

(* check policy finds nothing in them but what check module has found, or  *)
(* that there is no schema.                                                *)
LEMMA PolicyAgrees ==
    ASSUME PassInv, outcome = "ok", edits = startedAt, bundle \in Solo, SameFiles,
           contents.policy = disk[arguments.policy],
           contents.schema = IF arguments.schema = NotGiven THEN NotGiven ELSE disk[arguments.schema],
           contents.labels = IF arguments.labels = NotGiven THEN NotGiven ELSE disk[arguments.labels]
    PROVE  /\ PolicyDiagnostics \subseteq diagnostics \cup {"labels.schema_check_skipped"}
           /\ "labels.schema_check_skipped" \in PolicyDiagnostics => Warnings(diagnostics) # {}
<1>1. /\ text = contents.policy /\ contents.policy # Unparsable
      /\ arguments.schema # NotGiven =>
            /\ hasSchema /\ schema = TheSchema
            /\ contents.schema \notin {Unparsable, NotGiven}
            /\ contents.schema.warns => "schema.warning" \in diagnostics
      /\ arguments.schema = NotGiven => ~hasSchema /\ contents.schema = NotGiven
      /\ arguments.labels # NotGiven => labels = contents.labels /\ contents.labels # Unparsable
      /\ arguments.labels = NotGiven => contents.labels = NotGiven
  BY ApprovedContents DEF TheSchema
<1>2. /\ Errors(diagnostics) = {} /\ AggregateDiagnostics \subseteq diagnostics
      /\ Gathered /\ PoliciesClean
  BY DEF PassInv, ShipInv, Approved
<1>3. LabelSetDiagnostics(labels) = {} /\ Combined = labels
  <2>1. LabelSetDiagnostics(labels) \subseteq diagnostics
    BY <1>2 DEF AggregateDiagnostics
  <2>2. LabelSetDiagnostics(labels) \cap WarningCodes = {}
    BY DEF LabelSetDiagnostics, WarningCodes, When
  <2>3. LabelSetDiagnostics(labels) = {}
    BY <1>2, <2>1, <2>2 DEF Errors
  <2> QED BY <2>3 DEF Combined
<1>4. Parses("schema") => arguments.schema # NotGiven
  BY <1>1 DEF Parses
<1>5. Parses("labels") => arguments.labels # NotGiven
  BY <1>1 DEF Parses
<1>6. arguments.schema # NotGiven => Parses("schema") /\ SchemaSound
  <2> SUFFICES ASSUME arguments.schema # NotGiven PROVE Parses("schema") /\ SchemaSound
    OBVIOUS
  <2>1. Parses("schema") /\ hasSchema /\ schema = TheSchema
    BY <1>1 DEF Parses
  <2>2. "schema.aggregate_invalid" \notin diagnostics
    BY <1>2 DEF Errors, WarningCodes
  <2>3. SchemaLoads(schema)
    BY <1>2, <2>1, <2>2 DEF AggregateDiagnostics
  <2> QED BY <2>1, <2>3 DEF SchemaSound
<1>7. SchemaSound => arguments.schema # NotGiven
  BY <1>4 DEF SchemaSound
<1>8. When(contents.policy = Unparsable, "policy.syntax") = {}
  BY <1>1 DEF When
<1>9. When(contents.labels = Unparsable, "labels.invalid_json") = {}
  BY <1>1, NotGivenAssumption DEF When
<1>10. When(contents.schema = Unparsable, "schema.syntax") = {}
  BY <1>1, NotGivenAssumption DEF When
<1>11. (IF Parses("labels") THEN LabelSetDiagnostics(contents.labels) ELSE {}) = {}
  BY <1>1, <1>3, <1>5
<1>12. When(Parses("schema") /\ contents.schema.warns, "schema.warning") \subseteq diagnostics
  BY <1>1, <1>4 DEF When
<1>13. When(Parses("schema") /\ ~SchemaLoads(TheSchema), "schema.invalid") = {}
  BY <1>4, <1>6 DEF When, SchemaSound
<1>14. (IF Parses("policy") /\ SchemaSound THEN StrictDiagnostics(contents.policy, TheSchema) ELSE {})
         \subseteq diagnostics
  <2> SUFFICES ASSUME SchemaSound PROVE StrictDiagnostics(contents.policy, TheSchema) \subseteq diagnostics
    OBVIOUS
  <2>1. hasSchema /\ schema = TheSchema /\ SchemaLoads(schema)
    BY <1>1, <1>7 DEF SchemaSound
  <2>2. StrictDiagnostics(aggregate, schema) \subseteq diagnostics
    BY <1>2, <2>1 DEF AggregateDiagnostics
  <2>3. \A policy \in ElementsOf(text) : policy.static
    BY <1>2 DEF PoliciesClean, Passed
  <2>4. StrictDiagnostics(text, schema) = StrictDiagnostics(aggregate, schema)
    BY <1>2, <2>3, StrictAgain
  <2> QED BY <1>1, <2>1, <2>2, <2>4
<1> DEFINE OfLabels == IF ~LabelsSound THEN {}
                       ELSE IF SchemaSound THEN LabelSchemaDiagnostics(contents.labels, TheSchema)
                       ELSE {"labels.schema_check_skipped"}
<1>15. SchemaSound => OfLabels \subseteq diagnostics
  <2> SUFFICES ASSUME SchemaSound, LabelsSound
               PROVE  LabelSchemaDiagnostics(contents.labels, TheSchema) \subseteq diagnostics
    OBVIOUS
  <2>1. hasSchema /\ schema = TheSchema /\ SchemaLoads(schema) /\ labels = contents.labels
    BY <1>1, <1>5, <1>7 DEF SchemaSound, LabelsSound
  <2>2. LabelSchemaDiagnostics(Combined, schema) \subseteq diagnostics
    BY <1>2, <2>1 DEF AggregateDiagnostics
  <2> QED BY <1>3, <2>1, <2>2
<1>16. ~SchemaSound => "schema.compatibility_skipped" \in diagnostics
  <2> SUFFICES ASSUME ~SchemaSound PROVE "schema.compatibility_skipped" \in diagnostics
    OBVIOUS
  <2>1. ~hasSchema
    BY <1>1, <1>6
  <2> QED BY <1>2, <2>1 DEF AggregateDiagnostics
<1>17. OfLabels \subseteq diagnostics \cup {"labels.schema_check_skipped"}
  BY <1>15
<1>18. PolicyDiagnostics =
         When(contents.policy = Unparsable, "policy.syntax")
         \cup When(contents.labels = Unparsable, "labels.invalid_json")
         \cup (IF Parses("labels") THEN LabelSetDiagnostics(contents.labels) ELSE {})
         \cup When(contents.schema = Unparsable, "schema.syntax")
         \cup When(Parses("schema") /\ contents.schema.warns, "schema.warning")
         \cup When(Parses("schema") /\ ~SchemaLoads(TheSchema), "schema.invalid")
         \cup (IF Parses("policy") /\ SchemaSound
               THEN StrictDiagnostics(contents.policy, TheSchema) ELSE {})
         \cup OfLabels
  BY DEF PolicyDiagnostics
<1> HIDE DEF OfLabels
<1>19. PolicyDiagnostics \subseteq diagnostics \cup OfLabels
  BY <1>8, <1>9, <1>10, <1>11, <1>12, <1>13, <1>14, <1>18
<1>20. ASSUME "labels.schema_check_skipped" \in PolicyDiagnostics PROVE Warnings(diagnostics) # {}
  <2>1. CASE SchemaSound
    <3>1. "labels.schema_check_skipped" \in diagnostics
      BY <2>1, <1>15, <1>19, <1>20
    <3> QED BY <3>1 DEF Warnings, WarningCodes
  <2>2. CASE ~SchemaSound
    BY <2>2, <1>16 DEF Warnings, WarningCodes
  <2> QED BY <2>1, <2>2
<1> QED BY <1>17, <1>19, <1>20

(***************************************************************************)
(* The course of check policy.  An argument is read once pc has passed it. *)
(***************************************************************************)
Kinds == {"policy", "schema", "labels"}

Past(kind) ==
    \/ pc = "judge"
    \/ pc = "exited" /\ status # 2
    \/ kind = "policy" /\ pc \in {"schema", "labels"}
    \/ kind = "schema" /\ pc = "labels"

Held(kind) == IF arguments[kind] = NotGiven THEN NotGiven ELSE disk[arguments[kind]]
Unreadable(kind) == arguments[kind] # NotGiven /\ disk[arguments[kind]] \in {Missing, NotUtf8}

CourseInv ==
    /\ DOMAIN contents = Kinds
    /\ pc \in Kinds \cup {"idle", "judge", "exited"} /\ (pc # "exited" => status # 2)
    /\ edits \in Nat /\ began \in Nat /\ (pc # "idle" => began <= edits)
    /\ \A kind \in Kinds : ~Past(kind) /\ pc # "exited" => contents[kind] = NotGiven
    /\ pc # "idle" /\ began = edits =>
          /\ \A kind \in Kinds : Past(kind) => contents[kind] = Held(kind) /\ ~Unreadable(kind)
          /\ pc = "exited" /\ status = 2 => \E kind \in Kinds : Unreadable(kind)
    /\ pc = "exited" /\ status # 2 =>
          status = IF Invalid(PolicyDiagnostics, arguments.deny) THEN 1 ELSE 0

LEMMA InitCourse == ChecksInit => CourseInv
<1> SUFFICES ASSUME ChecksInit PROVE CourseInv
  OBVIOUS
<1>1. /\ pc = "idle" /\ status = NoStatus /\ began = 0 /\ edits = 0
      /\ contents = [policy |-> NotGiven, schema |-> NotGiven, labels |-> NotGiven]
  BY DEF ChecksInit, Init, Unread
<1>2. DOMAIN contents = Kinds /\ \A kind \in Kinds : contents[kind] = NotGiven
  BY <1>1 DEF Kinds
<1> QED BY <1>1, <1>2 DEF CourseInv, Kinds, NoStatus

LEMMA ReadKeepsCourse ==
    ASSUME CourseInv, NEW kind \in Kinds, ReadArgument(kind)
    PROVE  CourseInv'
<1>1. /\ pc = kind /\ UNCHANGED <<arguments, began, disk, edits, report>>
  BY DEF ReadArgument, vars
<1>2. After[kind] \in {"schema", "labels", "judge"} /\ \A k \in Kinds : arguments'[k] = arguments[k]
  BY <1>1 DEF After, Kinds
<1>3. \A k \in Kinds : Held(k)' = Held(k) /\ (Unreadable(k)' <=> Unreadable(k))
  BY <1>1 DEF Held, Unreadable
<1>4. CASE Unreadable(kind)
  <2>1. pc' = "exited" /\ status' = 2 /\ contents' = contents
    BY <1>4 DEF ReadArgument, Unreadable
  <2>2. \A k \in Kinds : ~Past(k)'
    BY <2>1 DEF Past, Kinds
  <2> QED BY <1>1, <1>3, <1>4, <2>1, <2>2 DEF CourseInv, Kinds
<1>5. CASE ~Unreadable(kind)
  <2>1. pc' = After[kind] /\ status' = status /\ status # 2
    BY <1>1, <1>5 DEF ReadArgument, Unreadable, CourseInv, Kinds
  <2>2. contents[kind] = NotGiven
    BY <1>1 DEF CourseInv, Past, Kinds
  <2>3. /\ DOMAIN contents' = Kinds /\ contents'[kind] = Held(kind)
        /\ \A k \in Kinds : k # kind => contents'[k] = contents[k]
    BY <1>5, <2>2 DEF ReadArgument, Unreadable, Held, CourseInv
  <2>4. \A k \in Kinds : Past(k)' <=> Past(k) \/ k = kind
    BY <1>1, <2>1 DEF Past, After, Kinds
  <2>5. \A k \in Kinds : ~Past(k)' /\ pc' # "exited" => contents'[k] = NotGiven
    BY <1>1, <2>3, <2>4 DEF CourseInv, Kinds
  <2>6. ASSUME began' = edits', NEW k \in Kinds, Past(k)'
        PROVE  contents'[k] = Held(k)' /\ ~Unreadable(k)'
    <3>1. began = edits /\ pc # "idle"
      BY <1>1, <2>6 DEF Kinds
    <3>2. CASE k = kind
      BY <3>2, <1>3, <1>5, <2>3
    <3>3. CASE k # kind
      BY <3>1, <3>3, <1>3, <2>3, <2>4, <2>6 DEF CourseInv
    <3> QED BY <3>2, <3>3
  <2>7. pc' \in Kinds \cup {"judge"} /\ pc # "idle"
    BY <1>1, <1>2, <2>1 DEF Kinds
  <2>8. pc' # "exited" /\ pc' # "idle"
    BY <2>7 DEF Kinds
  <2> QED BY <1>1, <2>1, <2>3, <2>5, <2>6, <2>7, <2>8 DEF CourseInv
<1> QED BY <1>4, <1>5

LEMMA NextKeepsCourse ==
    ASSUME CourseInv, [ChecksNext]_allVars
    PROVE  CourseInv'
<1>1. CASE UNCHANGED check /\ [Next]_vars
  <2>1. UNCHANGED <<arguments, pc, contents, report, status, began>>
    BY <1>1 DEF check
  <2>2. (edits' = edits /\ disk' = disk) \/ edits' = edits + 1
    BY <1>1 DEF Next, Start, Step, ReadPolicies, ReadSchema, ReadLabels, Finish, Save, Idle, vars
  <2>3. PolicyDiagnostics' = PolicyDiagnostics
    BY <2>1 DEF PolicyDiagnostics, Parses, LabelsSound, SchemaSound, TheSchema
  <2>4. CASE edits' = edits /\ disk' = disk
    BY <2>1, <2>3, <2>4 DEF CourseInv, Past, Held, Unreadable
  <2>5. CASE edits' = edits + 1
    BY <2>1, <2>3, <2>5 DEF CourseInv, Past
  <2> QED BY <2>2, <2>4, <2>5
<1>2. CASE Call
  <2>1. /\ pc = "idle" /\ pc' = "policy" /\ began' = edits
        /\ UNCHANGED <<arguments, contents, report, status, disk, edits>>
    BY <1>2 DEF Call, vars
  <2>2. \A k \in Kinds : ~Past(k) /\ ~Past(k)'
    BY <2>1 DEF Past, Kinds
  <2> QED BY <2>1, <2>2 DEF CourseInv, Kinds
<1>3. ASSUME NEW kind \in Kinds, ReadArgument(kind) PROVE CourseInv'
  BY <1>3, ReadKeepsCourse
<1>4. CASE Judge
  <2>1. /\ pc = "judge" /\ pc' = "exited" /\ report' = PolicyDiagnostics
        /\ status' = IF Invalid(PolicyDiagnostics, arguments.deny) THEN 1 ELSE 0
        /\ UNCHANGED <<arguments, contents, began, disk, edits>>
    BY <1>4 DEF Judge, vars
  <2>2. PolicyDiagnostics' = PolicyDiagnostics
    BY <2>1 DEF PolicyDiagnostics, Parses, LabelsSound, SchemaSound, TheSchema
  <2>3. status' # 2
    BY <2>1
  <2>4. ASSUME NEW k \in Kinds PROVE Past(k) /\ Past(k)'
    <3>1. Past(k)
      BY <2>1 DEF Past
    <3>2. Past(k)'
      BY <2>1, <2>3 DEF Past
    <3> QED BY <3>1, <3>2
  <2> QED BY <2>1, <2>2, <2>3, <2>4 DEF CourseInv, Held, Unreadable, Kinds
<1> QED BY <1>1, <1>2, <1>3, <1>4 DEF ChecksNext, allVars, check, vars, Kinds

(* With no save since either was called, a module that check module passes *)
(* has documents that check policy passes, as strictly: check_policy of    *)
(* validation.rs on the files one by one, and compile_manifest on the      *)
(* module, combine the same checks each in their own way.                  *)
THEOREM ModuleCoversPolicyHolds == ChecksSpec => []ModuleCoversPolicy
<1>1. ChecksInit => PassInv /\ CourseInv /\ RefusedForAReason
  BY InitPass, InitCourse DEF ChecksInit, Init, RefusedForAReason
<1>2. PassInv /\ CourseInv /\ RefusedForAReason /\ [ChecksNext]_allVars
        => (PassInv /\ CourseInv /\ RefusedForAReason)'
  BY NextKeepsPass, NextKeepsCourse, NextKeepsReason, ChecksNextIs
<1>3. PassInv /\ CourseInv /\ RefusedForAReason => ModuleCoversPolicy
  <2> SUFFICES ASSUME PassInv, CourseInv, RefusedForAReason, mode = "module", Ended,
                      startedAt = edits, pc = "exited", began = edits, SameFiles,
                      arguments.deny => deny, ManifestStatus = 0
               PROVE  status = 0
    BY DEF ModuleCoversPolicy
  <2>1. outcome = "ok" /\ ~Invalid(diagnostics, deny)
    BY DEF Ended, ManifestStatus, RefusedForAReason
  <2>2. bundle \in Solo
    BY <2>1 DEF PassInv, ShipInv, OwnerInv, Inv, Bookkeeping
  <2>3. /\ disk[arguments.policy] \notin {Missing, NotUtf8}
        /\ arguments.schema # NotGiven => disk[arguments.schema] \notin {Missing, NotUtf8}
        /\ arguments.labels # NotGiven => disk[arguments.labels] \notin {Missing, NotUtf8}
    BY <2>1, <2>2, ApprovedContents
  <2>4. \A kind \in Kinds : ~Unreadable(kind)
    BY <2>3 DEF Unreadable, Kinds
  <2>5. status # 2
    BY <2>4 DEF CourseInv
  <2>6. \A kind \in Kinds : contents[kind] = Held(kind)
    BY <2>5 DEF CourseInv, Past
  <2>7. CASE arguments.policy # NotGiven
    <3>1. /\ contents.policy = disk[arguments.policy]
          /\ contents.schema = IF arguments.schema = NotGiven THEN NotGiven ELSE disk[arguments.schema]
          /\ contents.labels = IF arguments.labels = NotGiven THEN NotGiven ELSE disk[arguments.labels]
      BY <2>6, <2>7 DEF Held, Kinds
    <3>2. /\ PolicyDiagnostics \subseteq diagnostics \cup {"labels.schema_check_skipped"}
          /\ "labels.schema_check_skipped" \in PolicyDiagnostics => Warnings(diagnostics) # {}
      BY <3>1, <2>1, <2>2, PolicyAgrees
    <3>3. Errors(PolicyDiagnostics) = {}
      BY <3>2, <2>1 DEF Invalid, Errors, WarningCodes
    <3>4. arguments.deny => Warnings(PolicyDiagnostics) = {}
      BY <3>2, <2>1 DEF Invalid, Warnings
    <3>5. ~Invalid(PolicyDiagnostics, arguments.deny)
      BY <3>3, <3>4 DEF Invalid
    <3> QED BY <3>5, <2>5 DEF CourseInv
  <2>8. arguments.policy # NotGiven
    <3>1. bundle[1].policies = <<arguments.policy>>
      BY DEF SameFiles, FilesOf
    <3>2. 1 \in 1..Len(bundle)
      BY <2>2, BundlesAssumption
    <3>3. bundle[1].policies \in Seq(DOMAIN Documents)
      BY <2>2, <3>2, BundlesAssumption
    <3> QED BY <3>1, <3>3, NotGivenAssumption
  <2> QED BY <2>7, <2>8
<1> QED BY <1>1, <1>2, <1>3, PTL DEF ChecksSpec
=============================================================================
