----------------------------- MODULE LabelsProofs -----------------------------
(***************************************************************************)
(* Proofs about Labels: the reader takes whatever the compiler combined,   *)
(* labels are what the other attributes justify, other attributes are left *)
(* alone, and no more is compiled than the budgets of one document allow,  *)
(* for all documents, schemas, resources and limits.                       *)
(***************************************************************************)
EXTENDS Labels, FiniteSetTheorems, NaturalsInduction, WellFoundedInduction, TLAPS

(* A rule that is built and raises nothing, but perhaps in a place where   *)
(* its destination is taken.                                               *)
Clean(rule) ==
    /\ TargetValid(rule.type, rule.attribute)
    /\ rule.field \notin Blank
    /\ rule.field # rule.attribute
    /\ rule.patterns # <<>>
    /\ ~(Len(rule.patterns) > MaxPatternsPerRule)
    /\ PatternDiagnostics(rule.patterns) = {}
    /\ Compilable(rule.patterns) => Compiles(rule.patterns)
    /\ Compilable(rule.patterns) /\ Compiles(rule.patterns) /\ Individual(rule.patterns)
         => RuntimeAccepts(rule)

AllClean(s) == \A i \in 1..Len(s) : Clean(s[i])

(***************************************************************************)
(* What the diagnostics of one rule say.                                   *)
(***************************************************************************)
LEMMA NothingFound ==
    ASSUME NEW rule, RuleDiagnostics(rule) = {}
    PROVE  Clean(rule) /\ Target(rule) \notin Destinations
<1>1. TargetValid(rule.type, rule.attribute)
  BY DEF RuleDiagnostics
<1>2. rule.field \notin Blank /\ rule.field # rule.attribute /\ Target(rule) \notin Destinations
  BY <1>1 DEF RuleDiagnostics, When
<1>3. rule.patterns # <<>> /\ ~(Len(rule.patterns) > MaxPatternsPerRule)
  BY <1>1 DEF RuleDiagnostics, When
<1>4. PatternDiagnostics(rule.patterns) = {}
  BY <1>1 DEF RuleDiagnostics
<1>5. ~(Compilable(rule.patterns) /\ ~Compiles(rule.patterns))
  BY <1>1 DEF RuleDiagnostics, When
<1>6. ~(Compilable(rule.patterns) /\ Compiles(rule.patterns)
          /\ Individual(rule.patterns) /\ ~RuntimeAccepts(rule))
  BY <1>1 DEF RuleDiagnostics, When
<1> QED
  BY <1>1, <1>2, <1>3, <1>4, <1>5, <1>6 DEF Clean

LEMMA NothingToFind ==
    ASSUME NEW rule, Clean(rule), Target(rule) \notin Destinations
    PROVE  RuleDiagnostics(rule) = {}
<1>1. When(rule.field \in Blank, "labels.empty_field") = {}
  BY DEF Clean, When
<1>2. When(rule.field = rule.attribute, "labels.input_is_output") = {}
  BY DEF Clean, When
<1>3. When(Target(rule) \in Destinations, "labels.duplicate_destination") = {}
  BY DEF When
<1>4. When(rule.patterns = <<>>, "labels.empty_patterns") = {}
  BY DEF Clean, When
<1>5. When(Len(rule.patterns) > MaxPatternsPerRule, "labels.too_many_patterns") = {}
  BY DEF Clean, When
<1>6. PatternDiagnostics(rule.patterns) = {}
  BY DEF Clean
<1>7. When(Compilable(rule.patterns) /\ ~Compiles(rule.patterns), "labels.invalid_regex") = {}
  BY DEF Clean, When
<1>8. When(Compilable(rule.patterns) /\ Compiles(rule.patterns)
             /\ Individual(rule.patterns) /\ ~RuntimeAccepts(rule), "labels.invalid_configuration") = {}
  BY DEF Clean, When
<1> QED
  BY <1>1, <1>2, <1>3, <1>4, <1>5, <1>6, <1>7, <1>8 DEF RuleDiagnostics, Clean

LEMMA CleanIsBuilt ==
    ASSUME NEW rule \in RawRules, Clean(rule)
    PROVE  Built(rule) /\ rule.attribute \in Fields /\ rule.field \in Fields
<1>1. rule.patterns \in Seq(RawPatterns) /\ rule.field \in Fields \cup Blank
  BY DocumentsAssumption
<1>2. rule.attribute \in Fields /\ rule.field \in Fields
  BY <1>1, DocumentsAssumption DEF Clean
<1>3. Len(rule.patterns) \in 1..MaxPatternsPerRule
  BY <1>1, LimitsAssumption DEF Clean
<1>4. ASSUME NEW i \in 1..Len(rule.patterns)
      PROVE  rule.patterns[i].bytes \in 1..MaxRegexBytes
  <2>1. rule.patterns[i] \in RawPatterns
    BY <1>1
  <2>2. rule.patterns[i].bytes \in Nat /\ MaxRegexBytes \in Nat
    BY <2>1, DocumentsAssumption, LimitsAssumption
  <2>3. PatternDiagnostics(rule.patterns) = {}
    BY DEF Clean
  <2>4. rule.patterns[i].bytes # 0
    BY <2>3 DEF PatternDiagnostics, When
  <2>5. ~(rule.patterns[i].bytes > MaxRegexBytes)
    BY <2>3 DEF PatternDiagnostics, When
  <2> QED
    BY <2>2, <2>4, <2>5
<1>5. Compilable(rule.patterns)
  BY <1>3, <1>4 DEF Compilable
<1> QED
  BY <1>2, <1>5 DEF Clean, Built, Attempted

(***************************************************************************)
(* Resources as the runtime sees them.                                     *)
(***************************************************************************)
IsResource(r) == r = [type |-> r.type, attributes |-> [a \in Fields |-> r.attributes[a]]]

LEMMA SetAttribute ==
    ASSUME NEW r, IsResource(r), NEW attribute \in Fields, NEW value, NEW s,
           s = [r EXCEPT !.attributes[attribute] = value]
    PROVE  /\ IsResource(s)
           /\ s.type = r.type
           /\ s.attributes[attribute] = value
           /\ \A a \in Fields : a # attribute => s.attributes[a] = r.attributes[a]
<1> DEFINE attributes == [a \in Fields |-> IF a = attribute THEN value ELSE r.attributes[a]]
<1>1. s = [type |-> r.type, attributes |-> attributes]
  BY DEF IsResource
<1> QED
  BY <1>1 DEF IsResource

LEMMA ClearedAttributes ==
    ASSUME NEW r, IsResource(r), NEW s, s = Cleared(r)
    PROVE  /\ IsResource(s)
           /\ s.type = r.type
           /\ \A a \in Fields : s.attributes[a] = IF Owned(r.type, a) THEN NoValue ELSE r.attributes[a]
<1> DEFINE attributes == [a \in Fields |-> IF Owned(r.type, a) THEN NoValue ELSE r.attributes[a]]
<1>1. s = [type |-> r.type, attributes |-> attributes]
  BY DEF IsResource, Cleared
<1> QED
  BY <1>1 DEF IsResource

(***************************************************************************)
(* The inductive invariant.                                                *)
(***************************************************************************)
SchemaCodes ==
    {"labels.unknown_kind", "labels.missing_shape", "labels.field_missing",
     "labels.field_not_string", "labels.output_missing", "labels.output_not_string_set"}

Types ==
    /\ document \in Seq(RawRules) /\ rules \in Seq(RawRules)
    /\ sets \in Seq(RawRules) /\ labels \in Seq(RawRules)
    /\ at \in Nat \ {0}
    /\ stage \in Nat
    /\ reading \in BOOLEAN

(* As long as nothing was found, every rule so far was built, none of them *)
(* with the destination of another.                                        *)
Parsing ==
    phase = "parsing" /\ found = {} =>
        /\ at <= Len(document) + 1
        /\ Len(rules) = at - 1
        /\ \A i \in 1..(at - 1) : rules[i] = document[i] /\ Clean(document[i])
        /\ \A i, j \in 1..(at - 1) : i < j => Target(document[i]) # Target(document[j])

(* The reader is given rules that were built before, of distinct           *)
(* destinations, and finds nothing.                                        *)
Reading ==
    /\ AllClean(sets)
    /\ reading /\ phase = "parsing" => found = {} /\ document = sets /\ ~Repeated(sets)
    /\ reading /\ phase = "failed" => found \subseteq SchemaCodes
    /\ reading => phase # "documents"

Ready == phase \in {"ready", "serving"} => labels = sets /\ ~Repeated(labels)

(* The attribute of a rule whose turn is over.                             *)
Right(rule, r) ==
    rule.type = r.type =>
        r.attributes[rule.attribute] =
            IF Owned(rule.type, rule.field) THEN NoValue ELSE Derived(rule, r.attributes[rule.field])

Awaited(rule, r) == rule.type = r.type => r.attributes[rule.attribute] = NoValue

Labelling ==
    /\ phase # "serving" => stage = 0 /\ ~labelled
    /\ phase = "serving" => IsResource(resource)
    /\ labelled => \A i \in 1..Len(labels) : Right(labels[i], resource)
    /\ stage # 0 =>
          /\ ~labelled
          /\ cleared.type = resource.type
          /\ \A a \in Fields : ~Owned(resource.type, a) => resource.attributes[a] = cleared.attributes[a]
          /\ \A a \in Fields : Owned(resource.type, a) =>
                ~IsString(resource.attributes[a]) /\ ~IsString(cleared.attributes[a])
          /\ \A i \in 1..Len(labels) :
                IF i < stage THEN Right(labels[i], resource) ELSE Awaited(labels[i], resource)

IInv == Types /\ Parsing /\ Reading /\ Ready /\ Labelling

LEMMA Initially == Init => IInv
<1> SUFFICES ASSUME Init PROVE IInv
  OBVIOUS
<1>1. <<>> \in Seq(RawRules)
  OBVIOUS
<1>2. Types
  <2>1. /\ document = <<>> /\ rules = <<>> /\ sets = <<>> /\ labels = <<>>
        /\ at = 1 /\ stage = 0 /\ reading = FALSE
    BY DEF Init
  <2>2. reading \in BOOLEAN
    BY <2>1
  <2>3. at \in Nat \ {0} /\ stage \in Nat
    BY <2>1
  <2>4. document \in Seq(RawRules) /\ rules \in Seq(RawRules)
    BY <1>1, <2>1
  <2>5. sets \in Seq(RawRules) /\ labels \in Seq(RawRules)
    BY <1>1, <2>1
  <2> QED
    BY <2>2, <2>3, <2>4, <2>5 DEF Types
<1>3. Parsing /\ Reading /\ Ready
  BY DEF Init, Parsing, Reading, Ready, AllClean
<1>4. Labelling
  BY DEF Init, Labelling
<1> QED
  BY <1>2, <1>3, <1>4 DEF IInv

(***************************************************************************)
(* Parsing.                                                                *)
(***************************************************************************)
LEMMA BeginTypes ==
    ASSUME IInv, NEW raw \in Seq(RawRules), Begin(raw)
    PROVE  /\ document' \in Seq(RawRules) /\ rules' \in Seq(RawRules) /\ at' = 1
           /\ Parsing'
<1>1. document' = raw /\ rules' = <<>> /\ at' = 1
  BY DEF Begin
<1>2. Len(raw) \in Nat /\ Len(rules') = 0 /\ rules' \in Seq(RawRules)
  BY <1>1
<1>3. Parsing'
  BY <1>1, <1>2 DEF Parsing
<1> QED
  BY <1>1, <1>2, <1>3

LEMMA RuntimeKept ==
    ASSUME IInv, phase # "serving", phase' # "serving", UNCHANGED <<labels, runtime>>
    PROVE  Labelling'
BY DEF IInv, Labelling, runtime

LEMMA OpenKeeps == ASSUME IInv, NEW raw \in Documents, Open(raw) PROVE IInv'
<1>1. raw \in Seq(RawRules)
  BY DocumentsAssumption
<1>2. Begin(raw) /\ ~reading /\ phase = "documents" /\ UNCHANGED <<schema, reading, sets, labels, runtime>>
  BY DEF Open
<1>3. phase' \in {"parsing", "failed"}
  BY <1>2 DEF Begin
<1>4. Types' /\ Parsing'
  BY <1>1, <1>2, BeginTypes DEF IInv, Types, runtime
<1>5. Reading' /\ Ready'
  BY <1>2, <1>3 DEF IInv, Reading, Ready, AllClean
<1>6. Labelling'
  BY <1>2, <1>3, RuntimeKept
<1> QED
  BY <1>4, <1>5, <1>6 DEF IInv

LEMMA CombineKeeps == ASSUME IInv, Combine PROVE IInv'
<1>1. phase = "documents" /\ ~reading /\ UNCHANGED <<schema, opened, sets, labels, runtime>>
  BY DEF Combine
<1>2. CASE CombineDiagnostics(sets) = {} /\ reading' = TRUE /\ Begin(sets)
  <2>1. CombinedLimits(sets) = {} /\ ~Repeated(sets)
    BY <1>2 DEF CombineDiagnostics, When
  <2>2. LimitsOnOpening(sets) = {}
    BY <2>1 DEF CombinedLimits, LimitsOnOpening
  <2>3. phase' = "parsing" /\ found' = {} /\ document' = sets
    BY <1>2, <2>2 DEF Begin
  <2>4. Types' /\ Parsing'
    BY <1>1, <1>2, BeginTypes DEF IInv, Types, runtime
  <2>5. Reading' /\ Ready'
    BY <1>1, <2>1, <2>3 DEF IInv, Reading, Ready, AllClean, Repeated
  <2>6. Labelling'
    BY <1>1, <2>3, RuntimeKept
  <2> QED
    BY <2>4, <2>5, <2>6 DEF IInv
<1>3. CASE phase' = "failed" /\ UNCHANGED <<reading, parser>>
  <2>1. Types' /\ Parsing' /\ Reading' /\ Ready'
    BY <1>1, <1>3 DEF IInv, Types, Parsing, Reading, Ready, AllClean, parser, runtime
  <2>2. Labelling'
    BY <1>1, <1>3, RuntimeKept
  <2> QED
    BY <2>1, <2>2 DEF IInv
<1> QED
  BY <1>2, <1>3 DEF Combine

LEMMA ParseRuleTypes == ASSUME IInv, ParseRule PROVE Types' /\ document[at] \in RawRules
<1>1. at \in 1..Len(document) /\ document[at] \in RawRules
  BY DEF IInv, Types, ParseRule
<1>2. rules' \in Seq(RawRules)
  <2>1. rules' = IF Built(document[at]) THEN Append(rules, document[at]) ELSE rules
    BY DEF ParseRule
  <2>2. rules \in Seq(RawRules)
    BY DEF IInv, Types
  <2> QED
    BY <1>1, <2>1, <2>2
<1>3. at' \in Nat \ {0}
  BY DEF IInv, Types, ParseRule
<1> QED
  BY <1>1, <1>2, <1>3 DEF IInv, Types, ParseRule, runtime

(* The rule at hand, when nothing was found in it and before it.           *)
LEMMA ParseRuleParses == ASSUME IInv, ParseRule PROVE Parsing'
<1> SUFFICES ASSUME found' = {} PROVE Parsing'
  BY DEF Parsing
<1> DEFINE rule == document[at]
<1>1. found = {} /\ RuleDiagnostics(rule) = {} /\ phase = "parsing"
  BY DEF ParseRule
<1>2. /\ at \in Nat \ {0} /\ Len(document) \in Nat /\ at <= Len(document)
      /\ at' = at + 1 /\ document' = document
      /\ document \in Seq(RawRules) /\ rules \in Seq(RawRules)
  BY DEF IInv, Types, ParseRule
<1>3. Clean(rule) /\ Target(rule) \notin Destinations
  BY <1>1, NothingFound
<1>4. rule \in RawRules
  BY <1>2
<1>5. rules' = Append(rules, rule)
  BY <1>3, <1>4, CleanIsBuilt DEF ParseRule
<1>6. /\ Len(rules) = at - 1
      /\ \A i \in 1..(at - 1) : rules[i] = document[i] /\ Clean(document[i])
      /\ \A i, j \in 1..(at - 1) : i < j => Target(document[i]) # Target(document[j])
  BY <1>1 DEF IInv, Parsing
<1>7. ASSUME NEW i \in 1..(at - 1) PROVE Target(document[i]) # Target(rule)
  <2>1. TargetValid(document[i].type, document[i].attribute)
    BY <1>6 DEF Clean
  <2>2. Target(document[i]) \in Destinations
    BY <2>1 DEF Destinations
  <2> QED
    BY <2>2, <1>3
<1>8. Len(rules') = at' - 1 /\ at' <= Len(document') + 1
  BY <1>2, <1>4, <1>5, <1>6
<1>9. ASSUME NEW i \in 1..(at' - 1)
      PROVE  rules'[i] = document'[i] /\ Clean(document'[i])
  <2>1. CASE i = at
    BY <2>1, <1>2, <1>3, <1>4, <1>5, <1>6
  <2>2. CASE i \in 1..(at - 1)
    BY <2>2, <1>2, <1>4, <1>5, <1>6
  <2> QED
    BY <2>1, <2>2, <1>2
<1>10. ASSUME NEW i \in 1..(at' - 1), NEW j \in 1..(at' - 1), i < j
       PROVE  Target(document'[i]) # Target(document'[j])
  <2>1. i \in 1..(at - 1) /\ j \in 1..at
    BY <1>2, <1>10
  <2>2. CASE j = at
    BY <2>1, <2>2, <1>2, <1>7
  <2>3. CASE j \in 1..(at - 1)
    BY <2>1, <2>3, <1>10, <1>2, <1>6
  <2> QED
    BY <2>1, <2>2, <2>3, <1>2
<1> QED
  BY <1>8, <1>9, <1>10 DEF Parsing

(* The reader finds nothing in what is clean and distinct.                 *)
LEMMA ParseRuleReads == ASSUME IInv, ParseRule PROVE Reading'
<1> DEFINE rule == document[at]
<1>1. phase' = phase /\ reading' = reading /\ sets' = sets /\ document' = document /\ phase = "parsing"
  BY DEF ParseRule
<1>2. CASE ~reading
  BY <1>1, <1>2 DEF IInv, Reading, AllClean
<1>3. CASE reading
  <2>1. found = {} /\ document = sets /\ ~Repeated(sets) /\ AllClean(sets)
    BY <1>1, <1>3 DEF IInv, Reading
  <2>2. at \in 1..Len(sets)
    BY <2>1 DEF ParseRule, IInv, Types
  <2>3. Clean(rule)
    BY <2>1, <2>2 DEF AllClean
  <2>4. Target(rule) \notin Destinations
    <3>1. \A i \in 1..(at - 1) : Target(document[i]) # Target(document[at])
      <4> SUFFICES ASSUME NEW i \in 1..(at - 1), Target(document[i]) = Target(document[at]) PROVE FALSE
        OBVIOUS
      <4>1. i \in 1..Len(sets) /\ i < at
        BY <2>2
      <4>2. Repeated(sets)
        BY <4>1, <2>1, <2>2 DEF Repeated
      <4> QED
        BY <4>2, <2>1
    <3> QED
      BY <3>1 DEF Destinations
  <2>5. RuleDiagnostics(rule) = {}
    BY <2>3, <2>4, NothingToFind
  <2>6. found' = {}
    BY <2>1, <2>5 DEF ParseRule
  <2> QED
    BY <1>1, <2>1, <2>6 DEF Reading, AllClean, Repeated
<1> QED
  BY <1>2, <1>3

LEMMA ParseRuleKeeps == ASSUME IInv, ParseRule PROVE IInv'
<1>1. Ready'
  BY DEF ParseRule, IInv, Ready
<1>2. Labelling'
  <2>1. phase = "parsing" /\ phase' = "parsing" /\ UNCHANGED <<labels, runtime>>
    BY DEF ParseRule
  <2> QED
    BY <2>1, RuntimeKept
<1> QED
  BY <1>1, <1>2, ParseRuleTypes, ParseRuleParses, ParseRuleReads DEF IInv

(* At the end of a document without diagnostics its rules are all there.   *)
LEMMA AllParsed ==
    ASSUME IInv, Parsed, found = {}
    PROVE  /\ rules = document
           /\ AllClean(rules)
           /\ ~Repeated(rules)
<1>1. /\ document \in Seq(RawRules) /\ rules \in Seq(RawRules) /\ at \in Nat \ {0}
  BY DEF IInv, Types
<1>2. /\ Len(rules) = at - 1 /\ at <= Len(document) + 1 /\ at > Len(document)
      /\ \A i \in 1..(at - 1) : rules[i] = document[i] /\ Clean(document[i])
      /\ \A i, j \in 1..(at - 1) : i < j => Target(document[i]) # Target(document[j])
  BY DEF IInv, Parsing, Parsed
<1>3. at - 1 = Len(document)
  BY <1>1, <1>2
<1>4. Len(rules) = Len(document) /\ \A i \in 1..Len(document) : rules[i] = document[i]
  BY <1>2, <1>3
<1>5. rules = document
  BY <1>1, <1>4
<1> QED
  BY <1>2, <1>3, <1>5 DEF AllClean, Repeated

LEMMA CloseDocumentKeeps == ASSUME IInv, CloseDocument PROVE IInv'
<1>1. /\ Parsed /\ ~reading /\ phase = "parsing" /\ phase' \in {"documents", "failed"}
      /\ UNCHANGED <<schema, reading, document, at, rules, work, found, opened, labels, runtime>>
      /\ sets' = IF found = {} THEN sets \o rules ELSE sets
  BY DEF CloseDocument, Parsed, parser
<1>2. sets' \in Seq(RawRules) /\ AllClean(sets')
  <2>1. sets \in Seq(RawRules) /\ rules \in Seq(RawRules) /\ AllClean(sets)
    BY DEF IInv, Types, Reading
  <2>2. CASE found = {}
    <3>1. AllClean(rules)
      BY <1>1, <2>2, AllParsed
    <3>2. sets' = sets \o rules
      BY <1>1, <2>2
    <3>3. sets' \in Seq(RawRules) /\ Len(sets') = Len(sets) + Len(rules)
      BY <2>1, <3>2
    <3>4. ASSUME NEW i \in 1..Len(sets') PROVE Clean(sets'[i])
      <4>1. CASE i <= Len(sets)
        <5>1. sets'[i] = sets[i] /\ i \in 1..Len(sets)
          BY <2>1, <3>2, <3>3, <4>1
        <5> QED
          BY <5>1, <2>1 DEF AllClean
      <4>2. CASE i > Len(sets)
        <5>1. sets'[i] = rules[i - Len(sets)] /\ i - Len(sets) \in 1..Len(rules)
          BY <2>1, <3>2, <3>3, <4>2
        <5> QED
          BY <5>1, <3>1 DEF AllClean
      <4> QED
        BY <4>1, <4>2, <2>1
    <3> QED
      BY <3>3, <3>4 DEF AllClean
  <2>3. CASE found # {}
    BY <2>1, <2>3, <1>1 DEF AllClean
  <2> QED
    BY <2>2, <2>3
<1>3. Types'
  BY <1>1, <1>2 DEF IInv, Types, runtime
<1>4. Parsing' /\ Ready'
  BY <1>1 DEF Parsing, Ready
<1>5. Reading'
  BY <1>1, <1>2 DEF Reading, AllClean
<1>6. Labelling'
  BY <1>1, RuntimeKept
<1> QED
  BY <1>3, <1>4, <1>5, <1>6 DEF IInv

LEMMA MisfitsAreSchemaCodes == Misfits \subseteq SchemaCodes
<1>1. ASSUME NEW rule PROVE SchemaDiagnostics(rule) \subseteq SchemaCodes
  BY DEF SchemaDiagnostics, SchemaCodes, When
<1> QED
  BY <1>1 DEF Misfits

LEMMA AcceptKeeps == ASSUME IInv, Accept PROVE IInv'
<1>1. /\ Parsed /\ reading /\ phase = "parsing"
      /\ UNCHANGED <<schema, reading, document, at, rules, work, opened, sets, runtime>>
      /\ found' = IF found = {} /\ schema # NoSchema THEN Misfits ELSE found
      /\ phase' = IF found' = {} THEN "ready" ELSE "failed"
      /\ labels' = IF found' = {} THEN rules ELSE labels
  BY DEF Accept, Parsed, parser
<1>2. found = {} /\ document = sets
  BY <1>1 DEF IInv, Reading
<1>3. rules = sets /\ ~Repeated(sets)
  BY <1>1, <1>2, AllParsed
<1>4. found' \subseteq SchemaCodes
  BY <1>1, <1>2, MisfitsAreSchemaCodes
<1>5. Types'
  BY <1>1 DEF IInv, Types, runtime
<1>6. Parsing' /\ Ready'
  BY <1>1, <1>3 DEF Parsing, Ready, Repeated
<1>7. Reading'
  BY <1>1, <1>4 DEF IInv, Reading, AllClean
<1>8. Labelling'
  <2>1. phase # "serving" /\ phase' # "serving" /\ stage = 0 /\ ~labelled
    BY <1>1 DEF IInv, Labelling
  <2>2. stage' = 0 /\ ~labelled'
    BY <1>1, <2>1 DEF runtime
  <2> QED
    BY <2>1, <2>2 DEF Labelling
<1> QED
  BY <1>5, <1>6, <1>7, <1>8 DEF IInv

(***************************************************************************)
(* Labelling.  The rules stay as they are.                                 *)
(***************************************************************************)
Settled ==
    /\ phase \in {"ready", "serving"} /\ phase' = "serving"
    /\ UNCHANGED <<schema, reading, document, at, rules, found, work, opened, sets, labels>>

LEMMA SettledKeeps ==
    ASSUME IInv, Settled, stage' \in Nat
    PROVE  Types' /\ Parsing' /\ Reading' /\ Ready'
BY DEF Settled, IInv, Types, Parsing, Reading, Ready, AllClean, Repeated

LEMMA RulesAreProper ==
    ASSUME IInv, phase = "serving", NEW i \in 1..Len(labels)
    PROVE  /\ labels[i].attribute \in Fields /\ labels[i].field \in Fields
           /\ labels[i].field # labels[i].attribute
           /\ Owned(labels[i].type, labels[i].attribute)
           /\ \A j \in 1..Len(labels) :
                 j # i /\ labels[j].type = labels[i].type => labels[j].attribute # labels[i].attribute
<1>1. labels = sets /\ ~Repeated(labels) /\ AllClean(labels) /\ labels \in Seq(RawRules)
  BY DEF IInv, Ready, Reading, Types
<1>2. labels[i] \in RawRules /\ Clean(labels[i])
  BY <1>1 DEF AllClean
<1>3. labels[i].attribute \in Fields /\ labels[i].field \in Fields
  BY <1>2, CleanIsBuilt
<1>4. ASSUME NEW j \in 1..Len(labels), j # i, labels[j].type = labels[i].type
      PROVE  labels[j].attribute # labels[i].attribute
  <2>1. i < j \/ j < i
    BY <1>1, <1>4
  <2>2. Target(labels[i]) # Target(labels[j])
    BY <1>1, <1>4, <2>1 DEF Repeated
  <2> QED
    BY <2>2, <1>4 DEF Target
<1>5. Owned(labels[i].type, labels[i].attribute)
  BY DEF Owned, Target
<1> QED
  BY <1>2, <1>3, <1>4, <1>5 DEF Clean

LEMMA SubmitKeeps == ASSUME IInv, NEW r \in Resources, Submit(r) PROVE IInv'
<1>1. Settled /\ phase = "ready" /\ resource' = r /\ UNCHANGED <<cleared, stage, labelled, changes>>
  BY DEF Submit, Settled, parser
<1>2. IsResource(resource')
  BY <1>1, ResourcesAssumption DEF IsResource
<1>3. Types' /\ Parsing' /\ Reading' /\ Ready'
  BY <1>1, SettledKeeps DEF IInv, Types
<1>4. stage' = 0 /\ ~labelled'
  BY <1>1 DEF IInv, Labelling
<1>5. Labelling'
  BY <1>1, <1>2, <1>4 DEF Labelling, Settled
<1> QED
  BY <1>3, <1>5 DEF IInv

LEMMA ClearKeeps == ASSUME IInv, Clear PROVE IInv'
<1>1. /\ Settled /\ phase = "serving" /\ UNCHANGED changes
      /\ resource' = Cleared(resource) /\ cleared' = Cleared(resource) /\ stage' = 1 /\ ~labelled'
  BY DEF Clear, Settled, parser
<1>2. /\ IsResource(resource') /\ resource'.type = resource.type
      /\ \A a \in Fields : resource'.attributes[a] =
            IF Owned(resource.type, a) THEN NoValue ELSE resource.attributes[a]
  <2>1. IsResource(resource)
    BY <1>1 DEF IInv, Labelling
  <2> QED
    BY <1>1, <2>1, ClearedAttributes
<1>3. Types' /\ Parsing' /\ Reading' /\ Ready'
  BY <1>1, SettledKeeps
<1>4. \A type, a : Owned(type, a)' <=> Owned(type, a)
  BY <1>1 DEF Settled, Owned
<1>5. ASSUME NEW a \in Fields, Owned(resource.type, a)'
      PROVE  ~IsString(resource'.attributes[a]) /\ ~IsString(cleared'.attributes[a])
  BY <1>1, <1>2, <1>4, <1>5 DEF IsString
<1>6. ASSUME NEW i \in 1..Len(labels) PROVE ~(i < 1) /\ Awaited(labels[i], resource')
  <2>1. labels[i].attribute \in Fields /\ Owned(labels[i].type, labels[i].attribute)
    BY <1>1, RulesAreProper
  <2> QED
    BY <1>2, <2>1 DEF Awaited
<1>7. Labelling'
  BY <1>1, <1>2, <1>4, <1>5, <1>6 DEF Labelling, Settled, Awaited
<1> QED
  BY <1>3, <1>7 DEF IInv

LEMMA FinishKeeps == ASSUME IInv, Finish PROVE IInv'
<1>1. /\ stage > Len(labels) /\ Settled /\ phase = "serving"
      /\ UNCHANGED <<resource, cleared, changes>> /\ stage' = 0 /\ labelled' = TRUE
  <2>1. stage > Len(labels) /\ stage # 0
    BY DEF Finish, IInv, Types
  <2>2. phase = "serving"
    BY <2>1 DEF IInv, Labelling
  <2> QED
    BY <2>1, <2>2 DEF Finish, Settled, parser
<1>2. Types' /\ Parsing' /\ Reading' /\ Ready'
  BY <1>1, SettledKeeps
<1>3. ASSUME NEW i \in 1..Len(labels) PROVE Right(labels[i], resource)
  <2>1. stage # 0 /\ i < stage
    BY <1>1 DEF IInv, Types
  <2> QED
    BY <2>1 DEF IInv, Labelling
<1>4. Labelling'
  <2>1. IsResource(resource)
    BY <1>1 DEF IInv, Labelling
  <2> QED
    BY <1>1, <1>3, <2>1 DEF Labelling, Settled, Right, Owned
<1> QED
  BY <1>2, <1>4 DEF IInv

LEMMA ChangeKeeps == ASSUME IInv, NEW a \in Fields, NEW v, Change(a, v) PROVE IInv'
<1>1. /\ Settled /\ phase = "serving" /\ stage = 0 /\ UNCHANGED <<cleared, stage>>
      /\ resource' = [resource EXCEPT !.attributes[a] = v] /\ ~labelled'
  BY DEF Change, Settled, parser, IInv, Labelling
<1>2. IsResource(resource')
  <2>1. IsResource(resource)
    BY <1>1 DEF IInv, Labelling
  <2> QED
    BY <1>1, <2>1, SetAttribute
<1>3. Types' /\ Parsing' /\ Reading' /\ Ready'
  BY <1>1, SettledKeeps DEF IInv, Types
<1>4. Labelling'
  BY <1>1, <1>2 DEF Labelling, Settled
<1> QED
  BY <1>3, <1>4 DEF IInv

LEMMA DerivedIsNoString == \A rule, value : ~IsString(Derived(rule, value))
BY DEF IsString, Derived

LEMMA DerivedOfString ==
    ASSUME NEW rule \in RawRules, NEW value, IsString(value) PROVE Derived(rule, value) # NoValue
<1>1. Matching(rule, value.value) \subseteq {p.name : p \in RawPatterns}
  BY DocumentsAssumption DEF Matching
<1> HIDE DEF IsString
<1>2. Derived(rule, value) = [kind |-> "set", value |-> Matching(rule, value.value)]
  BY DEF Derived
<1> QED BY <1>1, <1>2, ValuesAssumption

(* One labeler: its attribute becomes what the field justifies, whichever  *)
(* of the two resources it reads, and nothing else changes.                *)
LEMMA DeriveDoes ==
    ASSUME IInv, Derive
    PROVE  LET rule == labels[stage] IN
           /\ IsResource(resource') /\ resource'.type = resource.type
           /\ rule.type # resource.type => resource' = resource
           /\ rule.type = resource.type =>
                /\ \A a \in Fields : a # rule.attribute => resource'.attributes[a] = resource.attributes[a]
                /\ resource'.attributes[rule.attribute] =
                      IF Owned(rule.type, rule.field) THEN NoValue
                      ELSE Derived(rule, resource.attributes[rule.field])
<1> DEFINE rule == labels[stage]
<1> SUFFICES /\ IsResource(resource') /\ resource'.type = resource.type
             /\ rule.type # resource.type => resource' = resource
             /\ rule.type = resource.type =>
                  /\ \A a \in Fields : a # rule.attribute => resource'.attributes[a] = resource.attributes[a]
                  /\ resource'.attributes[rule.attribute] =
                        IF Owned(rule.type, rule.field) THEN NoValue
                        ELSE Derived(rule, resource.attributes[rule.field])
  OBVIOUS
<1>1. stage \in 1..Len(labels) /\ stage # 0 /\ phase = "serving" /\ IsResource(resource)
  BY DEF Derive, IInv, Types, Labelling
<1>2. CASE ~Concerns(rule) /\ UNCHANGED resource
  BY <1>1, <1>2 DEF Concerns
<1>3. ASSUME NEW view \in {cleared, resource}, Concerns(rule),
             resource' = IF Derived(rule, view.attributes[rule.field]) = NoValue THEN resource
                         ELSE [resource EXCEPT !.attributes[rule.attribute] =
                                                   Derived(rule, view.attributes[rule.field])]
      PROVE  /\ IsResource(resource') /\ resource'.type = resource.type
             /\ rule.type = resource.type
             /\ \A a \in Fields : a # rule.attribute => resource'.attributes[a] = resource.attributes[a]
             /\ resource'.attributes[rule.attribute] =
                   IF Owned(rule.type, rule.field) THEN NoValue
                   ELSE Derived(rule, resource.attributes[rule.field])
  <2> DEFINE value == Derived(rule, view.attributes[rule.field])
  <2>1. rule.type = resource.type
    BY <1>3 DEF Concerns
  <2>2. rule.attribute \in Fields /\ rule.field \in Fields
    BY <1>1, RulesAreProper
  <2>3. resource.attributes[rule.attribute] = NoValue
    <3>1. ~(stage < stage)
      BY <1>1
    <3>2. Awaited(rule, resource)
      BY <1>1, <3>1 DEF IInv, Labelling
    <3> QED
      BY <3>2, <2>1 DEF Awaited
  <2>4. value = IF Owned(rule.type, rule.field) THEN NoValue ELSE Derived(rule, resource.attributes[rule.field])
    <3>1. CASE Owned(rule.type, rule.field)
      <4>1. ~IsString(view.attributes[rule.field])
        BY <1>1, <1>3, <2>1, <2>2, <3>1 DEF IInv, Labelling
      <4> QED
        BY <4>1, <3>1 DEF Derived
    <3>2. CASE ~Owned(rule.type, rule.field)
      <4>1. view.attributes[rule.field] = resource.attributes[rule.field]
        BY <1>1, <1>3, <2>1, <2>2, <3>2 DEF IInv, Labelling
      <4> QED
        BY <4>1, <3>2
    <3> QED
      BY <3>1, <3>2
  <2>5. CASE value = NoValue
    <3>1. resource' = resource
      BY <1>3, <2>5
    <3> QED
      BY <3>1, <2>1, <2>3, <2>4, <2>5, <1>1
  <2>6. CASE value # NoValue
    <3>1. resource' = [resource EXCEPT !.attributes[rule.attribute] = value]
      BY <1>3, <2>6
    <3>2. /\ IsResource(resource') /\ resource'.type = resource.type
          /\ resource'.attributes[rule.attribute] = value
          /\ \A a \in Fields : a # rule.attribute => resource'.attributes[a] = resource.attributes[a]
      <4> HIDE DEF rule, value
      <4>1. rule.attribute \in Fields /\ IsResource(resource)
        BY <1>1, <2>2
      <4>2. PICK s : s = resource'
        OBVIOUS
      <4>3. PICK r : r = resource
        OBVIOUS
      <4>4. PICK attribute : attribute = rule.attribute
        OBVIOUS
      <4>5. PICK v : v = value
        OBVIOUS
      <4>6. attribute \in Fields /\ IsResource(r) /\ s = [r EXCEPT !.attributes[attribute] = v]
        BY <3>1, <4>1, <4>2, <4>3, <4>4, <4>5
      <4>7. /\ IsResource(s) /\ s.type = r.type /\ s.attributes[attribute] = v
            /\ \A a \in Fields : a # attribute => s.attributes[a] = r.attributes[a]
        BY <4>6, SetAttribute
      <4> QED
        BY <4>2, <4>3, <4>4, <4>5, <4>7
    <3> QED
      BY <3>2, <2>1, <2>4
  <2> QED
    BY <2>5, <2>6
<1> QED
  BY <1>2, <1>3 DEF Derive

LEMMA DeriveKeeps == ASSUME IInv, Derive PROVE IInv'
<1> DEFINE rule == labels[stage]
<1>1. stage \in 1..Len(labels) /\ stage # 0 /\ stage \in Nat /\ phase = "serving"
  BY DEF Derive, IInv, Types, Labelling
<1>2. Settled /\ UNCHANGED <<cleared, labelled, changes>> /\ stage' = stage + 1
  BY <1>1 DEF Derive, Settled, parser
<1>3. Types' /\ Parsing' /\ Reading' /\ Ready'
  BY <1>1, <1>2, SettledKeeps
<1>4. \A type, a : Owned(type, a)' <=> Owned(type, a)
  BY <1>2 DEF Settled, Owned
<1>5. labels' = labels /\ phase' = "serving"
  BY <1>2 DEF Settled
<1>6. /\ IsResource(resource') /\ resource'.type = resource.type
      /\ rule.type # resource.type => resource' = resource
      /\ rule.type = resource.type =>
           /\ \A a \in Fields : a # rule.attribute => resource'.attributes[a] = resource.attributes[a]
           /\ resource'.attributes[rule.attribute] =
                 IF Owned(rule.type, rule.field) THEN NoValue
                 ELSE Derived(rule, resource.attributes[rule.field])
  BY DeriveDoes
<1>7. /\ cleared.type = resource.type
      /\ \A a \in Fields : ~Owned(resource.type, a) => resource.attributes[a] = cleared.attributes[a]
      /\ \A a \in Fields : Owned(resource.type, a) =>
            ~IsString(resource.attributes[a]) /\ ~IsString(cleared.attributes[a])
      /\ \A i \in 1..Len(labels) :
            IF i < stage THEN Right(labels[i], resource) ELSE Awaited(labels[i], resource)
  BY <1>1 DEF IInv, Labelling
<1>8. Owned(rule.type, rule.attribute) /\ rule.attribute \in Fields
  BY <1>1, RulesAreProper
<1>9. \A a \in Fields : ~Owned(resource.type, a) => resource'.attributes[a] = resource.attributes[a]
  BY <1>6, <1>8
<1>10. \A a \in Fields : Owned(resource.type, a) => ~IsString(resource'.attributes[a])
  <2>1. ~IsString(NoValue)
    BY DEF IsString
  <2>2. rule.type = resource.type => ~IsString(resource'.attributes[rule.attribute])
    BY <1>6, <2>1, DerivedIsNoString
  <2> QED
    BY <1>6, <1>7, <2>2
<1>11. ASSUME NEW i \in 1..Len(labels), i < stage + 1, labels[i].type = resource.type
       PROVE  resource'.attributes[labels[i].attribute] =
                  IF Owned(labels[i].type, labels[i].field) THEN NoValue
                  ELSE Derived(labels[i], resource'.attributes[labels[i].field])
  <2>1. labels[i].field \in Fields /\ labels[i].attribute \in Fields
    BY <1>1, RulesAreProper
  <2>2. ~Owned(labels[i].type, labels[i].field) =>
            resource'.attributes[labels[i].field] = resource.attributes[labels[i].field]
    BY <2>1, <1>9, <1>11
  <2>3. CASE i = stage
    BY <2>2, <2>3, <1>6, <1>11
  <2>4. CASE i # stage
    <3>1. i < stage
      BY <2>4, <1>11, <1>1
    <3>2. Right(labels[i], resource)
      BY <3>1, <1>7
    <3>3. rule.type = resource.type => labels[i].attribute # rule.attribute
      BY <2>4, <1>1, <1>11, RulesAreProper
    <3>4. resource'.attributes[labels[i].attribute] = resource.attributes[labels[i].attribute]
      BY <3>3, <2>1, <1>6
    <3> QED
      BY <3>2, <3>4, <2>2, <1>11 DEF Right
  <2> QED
    BY <2>3, <2>4
<1>12. ASSUME NEW i \in 1..Len(labels), ~(i < stage + 1), labels[i].type = resource.type
       PROVE  resource'.attributes[labels[i].attribute] = NoValue
  <2>1. i # stage /\ ~(i < stage)
    BY <1>1, <1>12
  <2>2. Awaited(labels[i], resource)
    BY <2>1, <1>7
  <2>3. labels[i].attribute \in Fields
    BY <1>1, RulesAreProper
  <2>4. rule.type = resource.type => labels[i].attribute # rule.attribute
    BY <2>1, <1>1, <1>12, RulesAreProper
  <2> QED
    BY <2>2, <2>3, <2>4, <1>6, <1>12 DEF Awaited
<1>13. \A i \in 1..Len(labels') :
          IF i < stage' THEN Right(labels[i], resource)' ELSE Awaited(labels[i], resource)'
  <2> SUFFICES ASSUME NEW i \in 1..Len(labels')
               PROVE  IF i < stage' THEN Right(labels[i], resource)' ELSE Awaited(labels[i], resource)'
    OBVIOUS
  <2>1. CASE i < stage'
    BY <2>1, <1>2, <1>4, <1>5, <1>6, <1>11 DEF Right
  <2>2. CASE ~(i < stage')
    BY <2>2, <1>2, <1>5, <1>6, <1>12 DEF Awaited
  <2> QED
    BY <2>1, <2>2
<1>14. ~labelled'
  BY <1>2, <1>1 DEF IInv, Labelling
<1>15. Labelling'
  BY <1>2, <1>4, <1>5, <1>6, <1>7, <1>9, <1>10, <1>13, <1>14 DEF Labelling
<1> QED
  BY <1>3, <1>15 DEF IInv

(***************************************************************************)
(* Theorems.                                                               *)
(***************************************************************************)
LEMMA StepKeeps == IInv /\ [Next]_vars => IInv'
<1> SUFFICES ASSUME IInv, [Next]_vars PROVE IInv'
  OBVIOUS
<1>1. CASE \E raw \in Documents : Open(raw)
  BY <1>1, OpenKeeps
<1>2. CASE ParseRule
  BY <1>2, ParseRuleKeeps
<1>3. CASE CloseDocument
  BY <1>3, CloseDocumentKeeps
<1>4. CASE Combine
  BY <1>4, CombineKeeps
<1>5. CASE Accept
  BY <1>5, AcceptKeeps
<1>6. CASE \E r \in Resources : Submit(r)
  BY <1>6, SubmitKeeps
<1>7. CASE Clear
  BY <1>7, ClearKeeps
<1>8. CASE Derive
  BY <1>8, DeriveKeeps
<1>9. CASE Finish
  BY <1>9, FinishKeeps
<1>10. CASE \E a \in Fields, v \in AttributeValues : Change(a, v)
  BY <1>10, ChangeKeeps
<1>11. CASE UNCHANGED vars
  BY <1>11 DEF vars, parser, runtime, IInv, Types, Parsing, Reading, Ready, Labelling,
               AllClean, Repeated, Right, Awaited, Owned
<1> QED
  BY <1>1, <1>2, <1>3, <1>4, <1>5, <1>6, <1>7, <1>8, <1>9, <1>10, <1>11 DEF Next

(* What parsing, reading and labelling keep, at every moment.              *)
THEOREM Invariance == Spec => []IInv
<1>1. Init => IInv
  BY Initially
<1>2. IInv /\ [Next]_vars => IInv'
  BY StepKeeps
<1> QED
  BY <1>1, <1>2, PTL DEF Spec

(* labels.json as combined from valid label documents is refused by the    *)
(* reader for the schema only, and yields the rules of the modules.        *)
THEOREM ReaderAcceptsHolds == Spec => []ReaderAccepts
<1>1. IInv => ReaderAccepts
  BY DEF IInv, Reading, Ready, ReaderAccepts, SchemaCodes
<1> QED
  BY <1>1, Invariance, PTL

(* Labels on a labelled resource are what its other attributes justify,    *)
(* whatever was submitted under their names and in whatever order, chains  *)
(* of rules included.                                                      *)
THEOREM LabelsTrueHolds == Spec => []LabelsTrue
<1>1. IInv => LabelsTrue
  BY DEF IInv, Labelling, Right, LabelsTrue
<1> QED
  BY <1>1, Invariance, PTL

(* No step of labelling touches an attribute that no rule owns on the type *)
(* of the resource.                                                        *)
THEOREM OthersUntouchedHolds == Spec => OthersUntouched
<1> DEFINE Kept == \A a \in Fields :
                      Owned(resource.type, a) \/ resource'.attributes[a] = resource.attributes[a]
<1>1. ASSUME IInv, [Next]_vars, stage' # stage PROVE Kept
  <2>1. CASE Clear
    <3>1. phase = "serving" /\ IsResource(resource) /\ resource' = Cleared(resource)
      BY <2>1, <1>1 DEF Clear, IInv, Labelling
    <3> QED
      BY <3>1, ClearedAttributes
  <2>2. CASE Derive
    <3>1. stage \in 1..Len(labels) /\ phase = "serving"
      BY <2>2, <1>1 DEF Derive, IInv, Types, Labelling
    <3>2. Owned(labels[stage].type, labels[stage].attribute)
      BY <3>1, <1>1, RulesAreProper
    <3> QED
      BY <2>2, <3>2, <1>1, DeriveDoes
  <2>3. CASE Finish
    BY <2>3 DEF Finish
  <2> QED
    BY <2>1, <2>2, <2>3, <1>1
       DEF Next, Open, ParseRule, CloseDocument, Combine, Accept, Submit, Change, vars, runtime
<1>2. IInv /\ [Next]_vars => (stage' # stage => Kept)
  BY <1>1
<1>3. IInv /\ [Next]_vars => [stage' # stage => Kept]_vars
  BY <1>2
<1> QED
  BY <1>3, Invariance, PTL DEF Spec, OthersUntouched

(***************************************************************************)
(* Sums of sequences of naturals.  What holds of each partial sum is shown *)
(* of the least that might violate it.                                     *)
(***************************************************************************)
LEMMA LeastNatural ==
    ASSUME NEW T \in SUBSET Nat, T # {}
    PROVE  \E x \in T : \A y \in T : x <= y
<1>1. PICK x \in T : \A y \in T : ~ (<<y, x>> \in OpToRel(<, Nat))
  BY NatLessThanWellFounded, WFMin, Zenon
<1>2. ASSUME NEW y \in T PROVE x <= y
  <2>1. ~(y < x)
    BY <1>1 DEF OpToRel
  <2> QED BY <2>1
<1> QED BY <1>2

(* The recursive definition has a solution, by extension of partial ones.  *)
AreSums(f, sizes, n) ==
    f = [k \in 0..n |-> IF k = 0 THEN 0 ELSE f[k - 1] + sizes[k]]

LEMMA SumsExist ==
    ASSUME NEW sizes \in Seq(Nat)
    PROVE  \E f : AreSums(f, sizes, Len(sizes))
<1> DEFINE Has(n) == \E f \in [0..n -> Nat] : AreSums(f, sizes, n)
           T == {n \in 0..Len(sizes) : ~Has(n)}
<1>1. Has(0)
  <2> DEFINE f == [k \in 0..0 |-> 0]
  <2>1. f \in [0..0 -> Nat] /\ AreSums(f, sizes, 0)
    BY DEF AreSums
  <2> QED BY <2>1
<1>2. ASSUME NEW n \in 1..Len(sizes), Has(n - 1) PROVE Has(n)
  <2>1. PICK f \in [0..(n - 1) -> Nat] : AreSums(f, sizes, n - 1)
    BY <1>2
  <2> DEFINE g == [k \in 0..n |-> IF k = n THEN f[n - 1] + sizes[n] ELSE f[k]]
  <2>2. Len(sizes) \in Nat /\ sizes[n] \in Nat /\ n \in Nat /\ n - 1 \in 0..(n - 1)
    OBVIOUS
  <2>3. f[n - 1] + sizes[n] \in Nat
    BY <2>2
  <2>4. g \in [0..n -> Nat]
    BY <2>2, <2>3
  <2>5. AreSums(g, sizes, n)
    <3>1. ASSUME NEW k \in 0..n PROVE g[k] = IF k = 0 THEN 0 ELSE g[k - 1] + sizes[k]
      <4>1. CASE k = n
        BY <4>1, <2>2
      <4>2. CASE k # n
        <5>1. k \in 0..(n - 1) /\ (k # 0 => k - 1 \in 0..(n - 1))
          BY <4>2, <2>2
        <5>2. g[k] = f[k] /\ (k # 0 => g[k - 1] = f[k - 1])
          BY <5>1, <2>2
        <5>3. f[k] = IF k = 0 THEN 0 ELSE f[k - 1] + sizes[k]
          BY <5>1, <2>1 DEF AreSums
        <5> QED BY <5>2, <5>3
      <4> QED BY <4>1, <4>2
    <3> QED BY <3>1 DEF AreSums
  <2> QED BY <2>4, <2>5
<1>3. T = {}
  <2> SUFFICES ASSUME T # {} PROVE FALSE
    OBVIOUS
  <2>0. T \in SUBSET Nat
    OBVIOUS
  <2> HIDE DEF Has
  <2>1. PICK n \in T : \A m \in T : n <= m
    BY <2>0, LeastNatural
  <2>2. n \in 0..Len(sizes) /\ ~Has(n) /\ Len(sizes) \in Nat
    OBVIOUS
  <2>3. n # 0
    BY <2>2, <1>1
  <2>4. n \in 1..Len(sizes) /\ n - 1 \in 0..Len(sizes)
    BY <2>2, <2>3
  <2>5. n - 1 \notin T
    BY <2>1, <2>2
  <2>6. Has(n - 1)
    BY <2>4, <2>5
  <2> QED BY <1>2, <2>2, <2>4, <2>6
<1>4. Len(sizes) \in 0..Len(sizes)
  OBVIOUS
<1>5. Has(Len(sizes))
  BY <1>3, <1>4
<1> QED BY <1>5

LEMMA SumsAre ==
    ASSUME NEW sizes \in Seq(Nat)
    PROVE  AreSums(Sums(sizes), sizes, Len(sizes))
  BY SumsExist DEF Sums, AreSums

LEMMA SumsSteps ==
    ASSUME NEW sizes \in Seq(Nat)
    PROVE  /\ Sums(sizes)[0] = 0
           /\ \A n \in 1..Len(sizes) : Sums(sizes)[n] = Sums(sizes)[n - 1] + sizes[n]
<1> DEFINE f == Sums(sizes)
<1>1. f = [k \in 0..Len(sizes) |-> IF k = 0 THEN 0 ELSE f[k - 1] + sizes[k]]
  BY SumsAre DEF AreSums
<1> HIDE DEF f
<1>2. f[0] = 0
  BY <1>1
<1>3. ASSUME NEW n \in 1..Len(sizes) PROVE f[n] = f[n - 1] + sizes[n]
  BY <1>1
<1> QED BY <1>2, <1>3 DEF f


LEMMA SumsNatural ==
    ASSUME NEW sizes \in Seq(Nat)
    PROVE  \A n \in 0..Len(sizes) : Sums(sizes)[n] \in Nat
<1> DEFINE f == Sums(sizes)
           T == {n \in 0..Len(sizes) : f[n] \notin Nat}
<1>1. f[0] = 0 /\ \A n \in 1..Len(sizes) : f[n] = f[n - 1] + sizes[n]
  BY SumsSteps
<1> HIDE DEF f
<1> SUFFICES ASSUME T # {} PROVE FALSE
  BY DEF f
<1>0. T \in SUBSET Nat
  OBVIOUS
<1>2. PICK n \in T : \A m \in T : n <= m
  BY <1>0, LeastNatural
<1>3. n \in 1..Len(sizes) /\ n - 1 \in 0..Len(sizes)
  BY <1>1
<1>4. f[n - 1] \in Nat
  BY <1>2, <1>3
<1>5. sizes[n] \in Nat /\ f[n] = f[n - 1] + sizes[n]
  BY <1>1, <1>3
<1>6. f[n] \in Nat
  BY <1>4, <1>5
<1> QED
  BY <1>6

LEMMA SumsGrow ==
    ASSUME NEW sizes \in Seq(Nat), NEW m \in 0..Len(sizes), NEW n \in m..Len(sizes)
    PROVE  Sums(sizes)[m] <= Sums(sizes)[n]
<1> DEFINE f == Sums(sizes)
           T == {k \in m..Len(sizes) : ~(f[m] <= f[k])}
<1>1. \A k \in 1..Len(sizes) : f[k] = f[k - 1] + sizes[k]
  BY SumsSteps
<1>2. \A k \in 0..Len(sizes) : f[k] \in Nat
  BY SumsNatural
<1> HIDE DEF f
<1> SUFFICES ASSUME T # {} PROVE FALSE
  BY DEF f
<1>0. T \in SUBSET Nat
  OBVIOUS
<1>3. PICK k \in T : \A j \in T : k <= j
  BY <1>0, LeastNatural
<1>4. k # m
  BY <1>2
<1>5. k \in 1..Len(sizes) /\ k - 1 \in m..Len(sizes) /\ k - 1 \in 0..Len(sizes)
  BY <1>4
<1>6. f[m] <= f[k - 1]
  BY <1>3, <1>5
<1>7. f[k] = f[k - 1] + sizes[k] /\ sizes[k] \in Nat
  BY <1>1, <1>5
<1>8. f[m] \in Nat /\ f[k - 1] \in Nat
  BY <1>2, <1>5
<1>9. f[m] <= f[k]
  BY <1>6, <1>7, <1>8
<1> QED
  BY <1>9

(* Sizes within a limit have a sum within so many times the limit.         *)
LEMMA SumsBounded ==
    ASSUME NEW sizes \in Seq(Nat), NEW limit \in Nat, \A n \in 1..Len(sizes) : sizes[n] <= limit
    PROVE  Total(sizes) <= Len(sizes) * limit
<1> DEFINE f == Sums(sizes)
           T == {k \in 0..Len(sizes) : ~(f[k] <= k * limit)}
<1>1. f[0] = 0 /\ \A k \in 1..Len(sizes) : f[k] = f[k - 1] + sizes[k]
  BY SumsSteps
<1>2. \A k \in 0..Len(sizes) : f[k] \in Nat
  BY SumsNatural
<1> HIDE DEF f
<1>3. T = {}
  <2> SUFFICES ASSUME T # {} PROVE FALSE
    OBVIOUS
  <2>0. T \in SUBSET Nat
    OBVIOUS
  <2>1. PICK k \in T : \A j \in T : k <= j
    BY <2>0, LeastNatural
  <2>2. k # 0
    BY <1>1
  <2>3. k \in 1..Len(sizes) /\ k - 1 \in 0..Len(sizes)
    BY <2>2
  <2>4. f[k - 1] <= (k - 1) * limit
    BY <2>1, <2>3
  <2>5. f[k] = f[k - 1] + sizes[k] /\ sizes[k] \in Nat /\ sizes[k] <= limit
    BY <1>1, <2>3
  <2>6. (k - 1) * limit + limit = k * limit
    BY <2>3
  <2>7. (k - 1) * limit \in Nat /\ k * limit \in Nat
    BY <2>3
  <2>8. f[k] <= k * limit
    <3> DEFINE before == (k - 1) * limit
               now == k * limit
    <3>1. f[k - 1] <= before /\ before + limit = now /\ before \in Nat /\ now \in Nat
      BY <2>4, <2>6, <2>7
    <3>2. f[k - 1] \in Nat
      BY <1>2, <2>3
    <3> HIDE DEF before, now
    <3>3. f[k] <= now
      BY <2>5, <3>1, <3>2
    <3> QED
      BY <3>3 DEF now
  <2> QED
    BY <2>8
<1>4. Len(sizes) \in 0..Len(sizes)
  OBVIOUS
<1> QED
  BY <1>3, <1>4 DEF Total, f

(* So many parts of a whole, or fewer, do not exceed it.                   *)
LEMMA PartsOfWhole ==
    ASSUME NEW whole \in Nat, NEW parts \in Nat \ {0}, NEW n \in 0..parts
    PROVE  n * (whole \div parts) <= whole /\ whole \div parts \in Nat
<1> DEFINE q == whole \div parts
<1>1. q \in Nat /\ parts * q <= whole
  OBVIOUS
<1> HIDE DEF q
<1>2. n * q <= parts * q
  BY <1>1
<1>3. n * q \in Nat /\ parts * q \in Nat
  BY <1>1
<1> QED
  BY <1>1, <1>2, <1>3 DEF q

LEMMA SizesTyped ==
    ASSUME NEW rule \in RawRules
    PROVE  /\ rule.patterns \in Seq(RawPatterns) /\ Len(rule.patterns) \in Nat
           /\ RegexBytes(rule.patterns) \in Nat
           /\ [i \in 1..Len(rule.patterns) |-> rule.patterns[i].program] \in Seq(Nat)
<1> DEFINE bytes == [i \in 1..Len(rule.patterns) |-> rule.patterns[i].bytes]
           programs == [i \in 1..Len(rule.patterns) |-> rule.patterns[i].program]
<1>1. rule.patterns \in Seq(RawPatterns) /\ Len(rule.patterns) \in Nat
  BY DocumentsAssumption
<1>2. \A i \in 1..Len(rule.patterns) : rule.patterns[i].bytes \in Nat /\ rule.patterns[i].program \in Nat
  <2>1. \A i \in 1..Len(rule.patterns) : rule.patterns[i] \in RawPatterns
    BY <1>1
  <2> QED
    BY <2>1, DocumentsAssumption
<1>3. bytes \in Seq(Nat) /\ programs \in Seq(Nat) /\ Len(bytes) = Len(rule.patterns)
  BY <1>1, <1>2
<1> HIDE DEF bytes
<1>4. Len(bytes) \in 0..Len(bytes)
  BY <1>3
<1>5. Total(bytes) \in Nat
  BY <1>3, <1>4, SumsNatural DEF Total
<1> QED
  BY <1>1, <1>3, <1>5 DEF RegexBytes, bytes

LEMMA DocumentSizes ==
    ASSUME NEW raw \in Seq(RawRules)
    PROVE  /\ PatternSizes(raw) \in Seq(Nat) /\ Len(PatternSizes(raw)) = Len(raw)
           /\ ByteSizes(raw) \in Seq(Nat) /\ Len(ByteSizes(raw)) = Len(raw)
<1>1. \A i \in 1..Len(raw) : Len(raw[i].patterns) \in Nat /\ RegexBytes(raw[i].patterns) \in Nat
  <2>1. \A i \in 1..Len(raw) : raw[i] \in RawRules
    OBVIOUS
  <2> QED
    BY <2>1, SizesTyped
<1>2. Len(raw) \in Nat
  OBVIOUS
<1> QED
  BY <1>1, <1>2 DEF PatternSizes, ByteSizes

(* Patterns that compile one by one have programs that fit into one set.   *)
LEMMA CompiledFits ==
    ASSUME NEW rule \in RawRules, Compiles(rule.patterns)
    PROVE  ProgramSize(rule.patterns) <= RegexSetSize
<1> DEFINE programs == [i \in 1..Len(rule.patterns) |-> rule.patterns[i].program]
           n == Len(rule.patterns)
<1>1. programs \in Seq(Nat) /\ n \in Nat /\ Len(programs) = n
  BY SizesTyped
<1>2. CASE ~Individual(rule.patterns)
  BY <1>2 DEF Compiles
<1>3. CASE Individual(rule.patterns)
  <2>1. n \in 0..IndividualThreshold
    BY <1>1, <1>3, LimitsAssumption DEF Individual
  <2>2. RegexSetSize \in Nat /\ IndividualThreshold \in Nat \ {0}
    BY LimitsAssumption
  <2>3. n * IndividualLimit <= RegexSetSize /\ IndividualLimit \in Nat
    BY <2>1, <2>2, PartsOfWhole DEF IndividualLimit
  <2>4. \A i \in 1..Len(programs) : programs[i] <= IndividualLimit
    BY <1>1, <1>3 DEF Compiles
  <2> HIDE DEF programs, n
  <2>5. Total(programs) <= Len(programs) * IndividualLimit
    BY <1>1, <2>3, <2>4, SumsBounded
  <2>6. Total(programs) \in Nat /\ n * IndividualLimit \in Nat
    <3>1. Len(programs) \in 0..Len(programs)
      BY <1>1
    <3> QED
      BY <1>1, <2>3, <3>1, SumsNatural DEF Total
  <2>7. Total(programs) <= RegexSetSize
    BY <1>1, <2>2, <2>3, <2>5, <2>6
  <2> QED
    BY <2>7 DEF ProgramSize, programs
<1> QED
  BY <1>2, <1>3

(***************************************************************************)
(* What has been compiled of a document is part of what was measured when  *)
(* it was opened.                                                          *)
(***************************************************************************)
Budget ==
    /\ work.patterns \in Nat /\ work.bytes \in Nat
    /\ work.patterns <= MaxTotalPatterns /\ work.bytes <= MaxTotalRegexBytes
    /\ phase = "parsing" =>
          /\ DocumentLimits(document) = {}
          /\ work.patterns <= Sums(PatternSizes(document))[at - 1]
          /\ work.bytes <= Sums(ByteSizes(document))[at - 1]
    /\ \A i \in 1..Len(rules) : ProgramSize(rules[i].patterns) <= RegexSetSize

LEMMA WithinLimits ==
    ASSUME NEW raw \in Seq(RawRules), DocumentLimits(raw) = {}, NEW n \in 0..Len(raw)
    PROVE  /\ Sums(PatternSizes(raw))[n] \in Nat /\ Sums(PatternSizes(raw))[n] <= MaxTotalPatterns
           /\ Sums(ByteSizes(raw))[n] \in Nat /\ Sums(ByteSizes(raw))[n] <= MaxTotalRegexBytes
<1>1. /\ PatternSizes(raw) \in Seq(Nat) /\ Len(PatternSizes(raw)) = Len(raw)
      /\ ByteSizes(raw) \in Seq(Nat) /\ Len(ByteSizes(raw)) = Len(raw)
  BY DocumentSizes
<1>2. ~(Total(PatternSizes(raw)) > MaxTotalPatterns) /\ ~(Total(ByteSizes(raw)) > MaxTotalRegexBytes)
  BY DEF DocumentLimits, When
<1>3. Len(raw) \in n..Len(raw) /\ Len(raw) \in 0..Len(raw)
  OBVIOUS
<1>4. MaxTotalPatterns \in Nat /\ MaxTotalRegexBytes \in Nat
  BY LimitsAssumption
<1>5. /\ Sums(PatternSizes(raw))[n] \in Nat /\ Sums(ByteSizes(raw))[n] \in Nat
      /\ Total(PatternSizes(raw)) \in Nat /\ Total(ByteSizes(raw)) \in Nat
  BY <1>1, <1>3, SumsNatural DEF Total
<1>6. Sums(PatternSizes(raw))[n] <= Total(PatternSizes(raw))
  BY <1>1, <1>3, SumsGrow DEF Total
<1>7. Sums(ByteSizes(raw))[n] <= Total(ByteSizes(raw))
  BY <1>1, <1>3, SumsGrow DEF Total
<1> QED
  BY <1>2, <1>4, <1>5, <1>6, <1>7

LEMMA BeginInBudget == ASSUME NEW raw \in Seq(RawRules), Begin(raw) PROVE Budget'
<1>1. document' = raw /\ at' = 1 /\ rules' = <<>> /\ work' = NoWork
  BY DEF Begin
<1>2. phase' = "parsing" => DocumentLimits(raw) = {}
  BY DEF Begin, LimitsOnOpening
<1>3. work'.patterns = 0 /\ work'.bytes = 0
  BY <1>1 DEF NoWork
<1>4. PatternSizes(raw) \in Seq(Nat) /\ ByteSizes(raw) \in Seq(Nat)
  BY DocumentSizes
<1>5. Sums(PatternSizes(raw))[0] = 0 /\ Sums(ByteSizes(raw))[0] = 0
  BY <1>4, SumsSteps
<1>6. MaxTotalPatterns \in Nat /\ MaxTotalRegexBytes \in Nat
  BY LimitsAssumption
<1>7. at' - 1 = 0 /\ Len(rules') = 0
  BY <1>1
<1> QED
  BY <1>1, <1>2, <1>3, <1>5, <1>6, <1>7 DEF Budget

LEMMA ParseRuleInBudget == ASSUME Types, Budget, ParseRule PROVE Budget'
<1> DEFINE rule == document[at]
           counts == PatternSizes(document)
           bytes == ByteSizes(document)
<1>1. /\ phase = "parsing" /\ at \in 1..Len(document) /\ at - 1 \in 0..Len(document) /\ at \in 0..Len(document)
      /\ document \in Seq(RawRules) /\ rules \in Seq(RawRules) /\ rule \in RawRules
  BY DEF ParseRule, Types
<1>2. phase' = phase /\ document' = document /\ at' = at + 1
  BY DEF ParseRule
<1>3. /\ counts \in Seq(Nat) /\ Len(counts) = Len(document) /\ counts[at] = Len(rule.patterns)
      /\ bytes \in Seq(Nat) /\ Len(bytes) = Len(document) /\ bytes[at] = RegexBytes(rule.patterns)
  BY <1>1, DocumentSizes DEF PatternSizes, ByteSizes
<1>4. DocumentLimits(document) = {}
  BY <1>1 DEF Budget
<1> HIDE DEF counts, bytes
<1>5. Sums(counts)[at] = Sums(counts)[at - 1] + counts[at] /\ Sums(bytes)[at] = Sums(bytes)[at - 1] + bytes[at]
  BY <1>1, <1>3, SumsSteps
<1>6. /\ Sums(counts)[at] \in Nat /\ Sums(counts)[at] <= MaxTotalPatterns
      /\ Sums(bytes)[at] \in Nat /\ Sums(bytes)[at] <= MaxTotalRegexBytes
      /\ Sums(counts)[at - 1] \in Nat /\ Sums(bytes)[at - 1] \in Nat
  BY <1>1, <1>4, WithinLimits DEF counts, bytes
<1>7. /\ work.patterns \in Nat /\ work.patterns <= Sums(counts)[at - 1]
      /\ work.bytes \in Nat /\ work.bytes <= Sums(bytes)[at - 1]
  BY <1>1 DEF Budget, counts, bytes
<1>8. /\ work'.patterns \in {work.patterns, work.patterns + counts[at]}
      /\ work'.bytes \in {work.bytes, work.bytes + bytes[at]}
  BY <1>3 DEF ParseRule
<1>9. counts[at] \in Nat /\ bytes[at] \in Nat
  BY <1>1, <1>3
<1>10. MaxTotalPatterns \in Nat /\ MaxTotalRegexBytes \in Nat
  BY LimitsAssumption
<1>11. work'.patterns \in Nat /\ work'.patterns <= Sums(counts)[at] /\ work'.patterns <= MaxTotalPatterns
  BY <1>5, <1>6, <1>7, <1>8, <1>9, <1>10
<1>12. work'.bytes \in Nat /\ work'.bytes <= Sums(bytes)[at] /\ work'.bytes <= MaxTotalRegexBytes
  BY <1>5, <1>6, <1>7, <1>8, <1>9, <1>10
<1>13. \A i \in 1..Len(rules') : ProgramSize(rules'[i].patterns) <= RegexSetSize
  <2>1. \A i \in 1..Len(rules) : ProgramSize(rules[i].patterns) <= RegexSetSize
    BY DEF Budget
  <2>2. CASE Built(rule)
    <3>1. rules' = Append(rules, rule) /\ Compiles(rule.patterns)
      BY <2>2 DEF ParseRule, Built
    <3>2. ProgramSize(rule.patterns) <= RegexSetSize
      BY <1>1, <3>1, CompiledFits
    <3>3. ASSUME NEW i \in 1..Len(rules') PROVE rules'[i] = rule \/ (i \in 1..Len(rules) /\ rules'[i] = rules[i])
      BY <1>1, <3>1
    <3> QED
      BY <2>1, <3>2, <3>3
  <2>3. CASE ~Built(rule)
    BY <2>1, <2>3 DEF ParseRule
  <2> QED
    BY <2>2, <2>3
<1>14. at' - 1 = at
  BY <1>1, <1>2
<1> QED
  BY <1>2, <1>4, <1>11, <1>12, <1>13, <1>14 DEF Budget, counts, bytes

LEMMA ParserLeftInBudget ==
    ASSUME Budget, UNCHANGED parser, phase' = phase \/ phase' # "parsing"
    PROVE  Budget'
<1>1. document' = document /\ at' = at /\ rules' = rules /\ work' = work
  BY DEF parser
<1> QED
  BY <1>1 DEF Budget

(* Parsing never costs more than the limits of one document, whatever is   *)
(* found in it, and the programs of a rule fit into one RegexSet.          *)
THEOREM WorkBoundedHolds == Spec => []WorkBounded
<1>1. Init => Budget
  <2> SUFFICES ASSUME Init PROVE Budget
    OBVIOUS
  <2>1. work.patterns = 0 /\ work.bytes = 0 /\ Len(rules) = 0 /\ phase = "documents"
    BY DEF Init, NoWork
  <2>2. MaxTotalPatterns \in Nat /\ MaxTotalRegexBytes \in Nat
    BY LimitsAssumption
  <2> QED
    BY <2>1, <2>2 DEF Budget
<1>2. IInv /\ Budget /\ [Next]_vars => Budget'
  <2> SUFFICES ASSUME IInv, Budget, [Next]_vars PROVE Budget'
    OBVIOUS
  <2>1. Types
    BY DEF IInv
  <2>2. CASE \E raw \in Documents : Open(raw)
    <3>1. PICK raw \in Documents : Begin(raw)
      BY <2>2 DEF Open
    <3>2. raw \in Seq(RawRules)
      BY DocumentsAssumption
    <3> QED
      BY <3>1, <3>2, BeginInBudget
  <2>3. CASE ParseRule
    BY <2>1, <2>3, ParseRuleInBudget
  <2>4. CASE Combine
    <3>1. PICK raw \in Seq(RawRules) : raw = sets
      BY <2>1 DEF Types
    <3>2. CASE Begin(sets)
      BY <3>1, <3>2, BeginInBudget
    <3>3. CASE ~Begin(sets)
      BY <2>4, <3>3, ParserLeftInBudget DEF Combine
    <3> QED
      BY <3>2, <3>3
  <2>5. CASE CloseDocument \/ Accept
    BY <2>5, ParserLeftInBudget DEF CloseDocument, Accept
  <2>6. CASE (\E r \in Resources : Submit(r)) \/ Clear \/ Derive \/ Finish
    BY <2>6, ParserLeftInBudget DEF Submit, Clear, Derive, Finish
  <2>7. CASE \E a \in Fields, v \in AttributeValues : Change(a, v)
    BY <2>7, ParserLeftInBudget DEF Change
  <2>8. CASE UNCHANGED vars
    <3>1. document' = document /\ at' = at /\ rules' = rules /\ work' = work /\ phase' = phase
      BY <2>8 DEF vars, parser, runtime
    <3> QED
      BY <3>1, ParserLeftInBudget DEF parser
  <2> QED
    BY <2>2, <2>3, <2>4, <2>5, <2>6, <2>7, <2>8 DEF Next
<1>3. Spec => []Budget
  BY <1>1, <1>2, Invariance, PTL DEF Spec
<1>4. Budget => WorkBounded
  BY DEF Budget, WorkBounded
<1> QED
  BY <1>3, <1>4, PTL

(***************************************************************************)
(* The walk of entity_attributes along common types is Cedar's reading of  *)
(* the schema, wherever it ends in a record.                               *)
(***************************************************************************)
StartOf(type) == [namespace |-> type[1], shape |-> schema.entityTypes[type], visited |-> {}]

Walks(w, type, n) == w = [k \in 0..n |-> IF k = 0 THEN StartOf(type) ELSE Follow(w[k - 1])]

LEMMA WalkExists ==
    ASSUME NEW type, NEW steps \in Nat
    PROVE  \E w : Walks(w, type, steps)
<1> DEFINE Has(n) == \E w : Walks(w, type, n)
           T == {n \in 0..steps : ~Has(n)}
<1>1. Has(0)
  <2> DEFINE w == [k \in 0..0 |-> StartOf(type)]
  <2>1. Walks(w, type, 0)
    BY DEF Walks
  <2> QED BY <2>1
<1>2. ASSUME NEW n \in 1..steps, Has(n - 1) PROVE Has(n)
  <2>1. PICK w : Walks(w, type, n - 1)
    BY <1>2
  <2> DEFINE g == [k \in 0..n |-> IF k = n THEN Follow(w[n - 1]) ELSE w[k]]
  <2>2. n \in Nat /\ n # 0 /\ n - 1 \in 0..(n - 1)
    OBVIOUS
  <2>3. Walks(g, type, n)
    <3>1. ASSUME NEW k \in 0..n PROVE g[k] = IF k = 0 THEN StartOf(type) ELSE Follow(g[k - 1])
      <4>1. CASE k = n
        <5>1. g[k] = Follow(w[n - 1]) /\ g[k - 1] = w[n - 1]
          BY <4>1, <2>2
        <5> QED BY <5>1, <4>1, <2>2
      <4>2. CASE k # n
        <5>1. k \in 0..(n - 1) /\ (k # 0 => k - 1 \in 0..(n - 1))
          BY <4>2, <2>2
        <5>2. g[k] = w[k] /\ (k # 0 => g[k - 1] = w[k - 1])
          BY <5>1, <2>2
        <5>3. w[k] = IF k = 0 THEN StartOf(type) ELSE Follow(w[k - 1])
          BY <5>1, <2>1 DEF Walks
        <5> QED BY <5>2, <5>3
      <4> QED BY <4>1, <4>2
    <3> QED BY <3>1 DEF Walks
  <2> QED BY <2>3
<1>3. T = {}
  <2> SUFFICES ASSUME T # {} PROVE FALSE
    OBVIOUS
  <2>0. T \in SUBSET Nat
    OBVIOUS
  <2> HIDE DEF Has
  <2>1. PICK n \in T : \A m \in T : n <= m
    BY <2>0, LeastNatural
  <2>2. n \in 0..steps /\ ~Has(n)
    OBVIOUS
  <2>3. n # 0
    BY <2>2, <1>1
  <2>4. n \in 1..steps /\ n - 1 \in 0..steps
    BY <2>2, <2>3
  <2>5. n - 1 \notin T
    BY <2>1, <2>2
  <2>6. Has(n - 1)
    BY <2>4, <2>5
  <2> QED BY <1>2, <2>2, <2>4, <2>6
<1>4. steps \in 0..steps
  OBVIOUS
<1>5. Has(steps)
  BY <1>3, <1>4
<1> QED BY <1>5

IsPlace(where) ==
    where = [namespace |-> where.namespace, shape |-> where.shape, visited |-> where.visited]

LEMMA FollowIsPlace == ASSUME NEW where, IsPlace(where) PROVE IsPlace(Follow(where))
<1> DEFINE key == <<IF where.shape.namespace = NoNamespace THEN where.namespace
                    ELSE where.shape.namespace, where.shape.base>>
<1>1. CASE where.shape.kind # "EntityOrCommon"
  BY <1>1 DEF Follow
<1>2. CASE where.shape.kind = "EntityOrCommon" /\ (key \in where.visited \/ key \notin DOMAIN schema.commonTypes)
  <2>1. Follow(where) = [where EXCEPT !.shape = NoShape]
    BY <1>2 DEF Follow
  <2>2. Follow(where) = [namespace |-> where.namespace, shape |-> NoShape, visited |-> where.visited]
    BY <2>1 DEF IsPlace
  <2> QED BY <2>2 DEF IsPlace
<1>3. CASE where.shape.kind = "EntityOrCommon" /\ ~(key \in where.visited \/ key \notin DOMAIN schema.commonTypes)
  <2>1. Follow(where) = [namespace |-> key[1], shape |-> schema.commonTypes[key],
                         visited |-> where.visited \cup {key}]
    BY <1>3 DEF Follow
  <2> HIDE DEF key
  <2> QED BY <2>1 DEF IsPlace
<1> QED BY <1>1, <1>2, <1>3

(* A step that does not end nowhere takes the reference that Cedar takes.  *)
LEMMA FollowsReference ==
    ASSUME NEW where, IsPlace(where), NEW key \in Referents(where.namespace, where.shape),
           Follow(where).shape # NoShape
    PROVE  Follow(where).shape = schema.commonTypes[key] /\ Follow(where).namespace = key[1]
<1> DEFINE own == <<IF where.shape.namespace = NoNamespace THEN where.namespace
                    ELSE where.shape.namespace, where.shape.base>>
<1>1. where.shape.kind = "EntityOrCommon"
  BY DEF Referents
<1>2. ~(own \in where.visited \/ own \notin DOMAIN schema.commonTypes)
  <2> SUFFICES ASSUME own \in where.visited \/ own \notin DOMAIN schema.commonTypes PROVE FALSE
    OBVIOUS
  <2>1. Follow(where) = [where EXCEPT !.shape = NoShape]
    BY <1>1 DEF Follow
  <2>2. Follow(where) = [namespace |-> where.namespace, shape |-> NoShape, visited |-> where.visited]
    BY <2>1 DEF IsPlace
  <2> QED BY <2>2
<1>3. Follow(where) = [namespace |-> own[1], shape |-> schema.commonTypes[own],
                       visited |-> where.visited \cup {own}]
  BY <1>1, <1>2 DEF Follow
<1>4. key = own
  <2>1. CASE where.shape.namespace # NoNamespace
    BY <1>1, <2>1 DEF Referents
  <2>2. CASE where.shape.namespace = NoNamespace
    <3>1. own = <<where.namespace, where.shape.base>>
      BY <2>2
    <3> QED BY <1>1, <1>2, <2>2, <3>1 DEF Referents
  <2> QED BY <2>1, <2>2
<1> HIDE DEF own
<1> QED BY <1>3, <1>4

LEMMA StepsNatural ==
    ASSUME schema \in Schemas, schema # NoSchema PROVE MaxSteps \in Nat
  BY SchemasAssumption, FS_CardinalityType DEF MaxSteps

(* The shapes that a rule was checked against are all the shapes there are.*)
LEMMA AttributesAreTheRecords ==
    ASSUME schema \in Schemas, schema # NoSchema, NEW type, EntityAttributes(type) # NoAttributes
    PROVE  \A record \in Records(type) : record = EntityAttributes(type)
<1> DEFINE w == Walk(type)
           N == MaxSteps
<1>1. N \in Nat
  BY StepsNatural
<1>2. w = [k \in 0..N |-> IF k = 0 THEN StartOf(type) ELSE Follow(w[k - 1])]
  <2>1. w = CHOOSE v : Walks(v, type, N)
    BY DEF Walk, Walks, StartOf
  <2>2. \E v : Walks(v, type, N)
    BY <1>1, WalkExists
  <2> HIDE DEF w
  <2> QED BY <2>1, <2>2 DEF Walks
<1>3. w[N].shape.kind = "Record" /\ EntityAttributes(type) = w[N].shape.attributes
  BY DEF EntityAttributes
<1> HIDE DEF w, N
<1>4. w[0] = StartOf(type)
  BY <1>1, <1>2
<1>5. \A n \in 1..N : w[n] = Follow(w[n - 1])
  <2> SUFFICES ASSUME NEW n \in 1..N PROVE w[n] = Follow(w[n - 1])
    OBVIOUS
  <2>1. n \in 0..N /\ n # 0
    BY <1>1
  <2> QED BY <1>2, <2>1
<1>6. \A n \in 0..N : IsPlace(w[n])
  <2> DEFINE T == {n \in 0..N : ~IsPlace(w[n])}
  <2> SUFFICES ASSUME T # {} PROVE FALSE
    OBVIOUS
  <2>0. T \in SUBSET Nat
    OBVIOUS
  <2>1. PICK n \in T : \A m \in T : n <= m
    BY <2>0, LeastNatural
  <2>2. n # 0
    BY <1>4 DEF StartOf, IsPlace
  <2>3. n \in 1..N /\ n - 1 \in 0..N
    BY <2>2, <1>1
  <2>4. IsPlace(w[n - 1])
    BY <2>1, <2>3
  <2> QED BY <1>5, <2>3, <2>4, FollowIsPlace
<1>7. ASSUME NEW n \in 0..N, w[n].shape.kind # "EntityOrCommon" PROVE w[N] = w[n]
  <2> DEFINE T == {m \in n..N : w[m] # w[n]}
  <2> SUFFICES ASSUME T # {} PROVE FALSE
    BY <1>1
  <2>0. T \in SUBSET Nat
    BY <1>1
  <2>1. PICK m \in T : \A k \in T : m <= k
    BY <2>0, LeastNatural
  <2>2. m \in (n + 1)..N /\ m - 1 \in n..N /\ m - 1 \notin T
    BY <2>1, <1>1
  <2>3. w[m - 1] = w[n] /\ m \in 1..N
    BY <2>2, <1>1
  <2>4. w[m] = w[m - 1]
    BY <1>5, <1>7, <2>3 DEF Follow
  <2> QED BY <2>3, <2>4
<1>8. \A n \in 0..N : w[n].shape # NoShape
  BY <1>3, <1>7, SchemasAssumption
<1>9. CASE schema.entityTypes[type].kind = "Record"
  <2>1. w[0].shape = schema.entityTypes[type] /\ 0 \in 0..N
    BY <1>1, <1>4 DEF StartOf
  <2>2. w[N] = w[0]
    BY <1>7, <1>9, <2>1
  <2> QED BY <1>3, <1>9, <2>1, <2>2 DEF Records
<1>10. CASE schema.entityTypes[type].kind # "Record"
  <2> SUFFICES ASSUME NEW chain \in Chains,
                      chain[1] \in Referents(type[1], schema.entityTypes[type]),
                      \A i \in 1..(Len(chain) - 1) :
                          chain[i + 1] \in Referents(chain[i][1], schema.commonTypes[chain[i]]),
                      schema.commonTypes[chain[Len(chain)]].kind = "Record"
               PROVE  schema.commonTypes[chain[Len(chain)]].attributes = EntityAttributes(type)
    BY <1>10 DEF Records
  <2>1. Len(chain) \in 1..N
    BY <1>1 DEF Chains, N
  <2> DEFINE Along(i) == w[i].shape = schema.commonTypes[chain[i]] /\ w[i].namespace = chain[i][1]
             T == {i \in 1..Len(chain) : ~Along(i)}
  <2>2. T = {}
    <3> SUFFICES ASSUME T # {} PROVE FALSE
      OBVIOUS
    <3>0. T \in SUBSET Nat
      BY <2>1
    <3>1. PICK i \in T : \A k \in T : i <= k
      BY <3>0, LeastNatural
    <3>2. i \in 1..N /\ i - 1 \in 0..N /\ i \in 1..Len(chain)
      BY <2>1, <1>1
    <3>3. w[i] = Follow(w[i - 1]) /\ IsPlace(w[i - 1]) /\ Follow(w[i - 1]).shape # NoShape
      BY <1>5, <1>6, <1>8, <3>2
    <3>4. chain[i] \in Referents(w[i - 1].namespace, w[i - 1].shape)
      <4>1. CASE i = 1
        <5>1. w[i - 1].namespace = type[1] /\ w[i - 1].shape = schema.entityTypes[type]
          BY <4>1, <1>4 DEF StartOf
        <5> QED BY <4>1, <5>1
      <4>2. CASE i # 1
        <5>1. i - 1 \in 1..(Len(chain) - 1) /\ i - 1 \in 1..Len(chain) /\ (i - 1) + 1 = i
          BY <4>2, <3>2, <2>1
        <5>2. Along(i - 1)
          BY <3>1, <3>2, <5>1
        <5>3. chain[(i - 1) + 1] \in Referents(chain[i - 1][1], schema.commonTypes[chain[i - 1]])
          BY <5>1
        <5> QED BY <5>1, <5>2, <5>3
      <4> QED BY <4>1, <4>2
    <3>5. Along(i)
      BY <3>3, <3>4, FollowsReference
    <3> QED BY <3>5
  <2>3. Along(Len(chain)) /\ Len(chain) \in 0..N
    BY <2>1, <2>2, <1>1
  <2>4. w[N] = w[Len(chain)]
    BY <1>7, <2>3
  <2> QED BY <1>3, <2>3, <2>4
<1> QED BY <1>9, <1>10

(***************************************************************************)
(* Labels fit the schema that their rules were checked against.            *)
(***************************************************************************)
Checked ==
    /\ schema \in Schemas
    /\ phase \in {"ready", "serving"} /\ schema # NoSchema =>
         \A i \in 1..Len(labels) : SchemaDiagnostics(labels[i]) = {}

LEMMA CheckedInit == Init => Checked
  BY DEF Init, Checked

LEMMA CheckedStep == Checked /\ [Next]_vars => Checked'
<1> SUFFICES ASSUME Checked, [Next]_vars PROVE Checked'
  OBVIOUS
<1>1. CASE Accept
  <2>1. schema' = schema
    BY <1>1 DEF Accept
  <2>2. ASSUME phase' \in {"ready", "serving"}, schema # NoSchema
        PROVE  labels' = rules /\ Misfits = {}
    BY <1>1, <2>2 DEF Accept
  <2>3. Misfits = {} => \A i \in 1..Len(rules) : SchemaDiagnostics(rules[i]) = {}
    BY DEF Misfits
  <2>4. \A rule : SchemaDiagnostics(rule)' = SchemaDiagnostics(rule)
    BY <2>1 DEF SchemaDiagnostics, EntityAttributes, Walk, MaxSteps, Follow
  <2> QED BY <2>1, <2>2, <2>3, <2>4 DEF Checked
<1>2. ASSUME schema' = schema, labels' = labels,
             phase' \in {"ready", "serving"} => phase \in {"ready", "serving"}
      PROVE  Checked'
  <2>1. \A rule : SchemaDiagnostics(rule)' = SchemaDiagnostics(rule)
    BY <1>2 DEF SchemaDiagnostics, EntityAttributes, Walk, MaxSteps, Follow
  <2> QED BY <1>2, <2>1 DEF Checked
<1>3. CASE ~Accept
  <2>1. schema' = schema /\ labels' = labels
        /\ (phase' \in {"ready", "serving"} => phase \in {"ready", "serving"})
    BY <1>3 DEF Next, Open, Begin, ParseRule, CloseDocument, Combine, Submit, Clear, Derive, Finish,
                Change, runtime, parser, vars
  <2> QED BY <1>2, <2>1
<1> QED BY <1>1, <1>3

LEMMA CheckedHolds == Spec => []Checked
  BY CheckedInit, CheckedStep, PTL DEF Spec

(* Rules that were checked against the schema, walked as labels.rs walks   *)
(* it, label a resource that fits the schema, read as Cedar reads it, only *)
(* with what the schema declares; a required label is missing only when    *)
(* its rule reads a field that is optional or another rule's label.        *)
THEOREM LabelledConformsHolds == Spec => []LabelledConforms
<1>1. IInv /\ Checked => LabelledConforms
  <2> SUFFICES ASSUME IInv, Checked, labelled, schema # NoSchema,
                      \A a \in Fields : ~Owned(resource.type, a) => Fits(a),
                      NEW a \in Fields, Owned(resource.type, a), ~Fits(a)
               PROVE  resource.attributes[a] = NoValue /\ MayLackField(a)
    BY DEF LabelledConforms
  <2>1. PICK i \in 1..Len(labels) : Target(labels[i]) = <<resource.type, a>>
    BY DEF Owned
  <2> DEFINE rule == labels[i]
             attributes == EntityAttributes(rule.type)
             value == resource.attributes[a]
             source == resource.attributes[rule.field]
  <2>2. rule.type = resource.type /\ rule.attribute = a
    BY <2>1 DEF Target
  <2>3. /\ SchemaDiagnostics(rule) = {} /\ schema \in Schemas
        /\ rule \in RawRules /\ rule.field \in Fields
    <3>1. phase = "serving" /\ labels \in Seq(RawRules)
      BY DEF IInv, Labelling, Types
    <3>2. rule \in RawRules
      BY <3>1
    <3>3. rule.field \in Fields
      BY <3>1, RulesAreProper
    <3>4. SchemaDiagnostics(rule) = {} /\ schema \in Schemas
      BY <3>1 DEF Checked
    <3> QED BY <3>2, <3>3, <3>4
  <2>4. /\ attributes # NoAttributes
        /\ a \in DOMAIN attributes /\ IsStringSetType(attributes[a].type)
        /\ rule.field \in DOMAIN attributes /\ IsStringType(attributes[rule.field].type)
    BY <2>2, <2>3 DEF SchemaDiagnostics, When
  <2>5. \A record \in Records(resource.type) : record = attributes
    BY <2>2, <2>3, <2>4, AttributesAreTheRecords
  <2>6. attributes \in Records(resource.type)
    BY <2>5 DEF Fits
  <2>7. value = IF Owned(resource.type, rule.field) THEN NoValue ELSE Derived(rule, source)
    <3>1. Right(rule, resource)
      BY DEF IInv, Labelling
    <3> QED BY <2>2, <3>1 DEF Right
  <2>8. value = NoValue
    <3> SUFFICES ASSUME value # NoValue PROVE FALSE
      OBVIOUS
    <3>1. value.kind = "set"
      BY <2>7 DEF Derived
    <3>2. HasType(value, attributes[a].type)
      BY <2>4, <3>1 DEF HasType, IsStringSetType
    <3> QED BY <2>4, <2>5, <3>2 DEF Fits
  <2>9. CASE Owned(resource.type, rule.field)
    BY <2>1, <2>8, <2>9 DEF MayLackField
  <2>10. CASE ~Owned(resource.type, rule.field)
    <3>1. ~IsString(source)
      BY <2>3, <2>7, <2>8, <2>10, DerivedOfString
    <3>2. source = NoValue
      <4>1. source # NoValue => HasType(source, attributes[rule.field].type)
        BY <2>3, <2>6, <2>10 DEF Fits
      <4> QED BY <2>4, <3>1, <4>1 DEF HasType, IsString, IsStringType
    <3>3. ~attributes[rule.field].required
      BY <2>3, <2>4, <2>6, <2>10, <3>2 DEF Fits
    <3> QED BY <2>1, <2>4, <2>6, <2>8, <3>3 DEF MayLackField
  <2> QED BY <2>9, <2>10
<1> QED BY <1>1, Invariance, CheckedHolds, PTL
=============================================================================
