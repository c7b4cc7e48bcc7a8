----------------------------- MODULE EngineProofs -----------------------------
(***************************************************************************)
(* Proofs about Engine: dividing the policies among stores changes no      *)
(* decision on an action whose groups are at home, a schema is never lost  *)
(* and no decision is older than a version read before it, through any     *)
(* number of reloads, clients and requests.                                *)
(***************************************************************************)
EXTENDS Engine, TLAPS

(***************************************************************************)
(* One store decides what all policies decide: a policy that applies to a  *)
(* routed request is global, or it acts in a root that owns the action of  *)
(* the request or one of its groups.  Unless the action strays that root   *)
(* owns the action itself, and the route is the only such root.            *)
(***************************************************************************)
NamedOrGrouped(policy, request) ==
    policy.constrained
        => ({request.action} \cup GroupsOf(request.action, bundle.schema)) \cap policy.actions # {}

LEMMA StoreHoldsWhatApplies ==
    ASSUME NEW policies, NEW layout, NEW request,
           Independent(policies, layout),
           ~Strays(request.action, layout),
           NEW root \in Routes(request, layout),
           NEW policy \in policies,
           NamedOrGrouped(policy, request)
    PROVE  policy \in InStore(policies, root, layout)
<1>1. CASE IsGlobal(policy, layout)
  BY <1>1 DEF InStore
<1>2. CASE ~IsGlobal(policy, layout)
  <2>1. PICK other \in layout.roots : Belongs(policy, other, layout)
    BY <1>2 DEF Independent
  <2>2. PICK action \in policy.actions :
          action = request.action \/ action \in GroupsOf(request.action, bundle.schema)
    BY <2>1 DEF Belongs, NamedOrGrouped
  <2>3. NamespaceOwns(other, action)
    BY <2>1, <2>2 DEF Belongs
  <2>4. NamespaceOwns(other, request.action)
    BY <2>2, <2>3 DEF Strays
  <2>5. other \in Candidates(request, layout)
    BY <2>1, <2>4 DEF Candidates
  <2>6. Candidates(request, layout) = {root}
    BY DEF Routes
  <2>7. other = root
    BY <2>5, <2>6
  <2> QED
    BY <2>1, <2>7 DEF InStore
<1> QED
  BY <1>1, <1>2

LEMMA StoreDecides ==
    ASSUME NEW policies, NEW layout, NEW request, NEW labels, NEW schema,
           Independent(policies, layout),
           ~Strays(request.action, layout),
           NEW root \in Routes(request, layout),
           \A policy \in policies :
               Matches(policy, request, labels, schema) => NamedOrGrouped(policy, request)
    PROVE  Decide(InStore(policies, root, layout), request, labels, schema)
             = Decide(policies, request, labels, schema)
<1>1. InStore(policies, root, layout) \subseteq policies
  BY DEF InStore
<1>2. \A policy \in policies :
        Matches(policy, request, labels, schema) => policy \in InStore(policies, root, layout)
  BY StoreHoldsWhatApplies
<1>3. \A effect : Applies(InStore(policies, root, layout), effect, request, labels, schema)
                    <=> Applies(policies, effect, request, labels, schema)
  BY <1>1, <1>2 DEF Applies
<1> QED
  BY <1>3 DEF Decide

LEMMA DecideIsADecision ==
    ASSUME NEW policies, NEW request, NEW labels, NEW schema
    PROVE  Decide(policies, request, labels, schema) \in {"allow", "deny"}
BY DEF Decide

(***************************************************************************)
(* The invariant: every generation keeps the schema, the labels and the    *)
(* layout of the first and has loaded under them; every answer is one that *)
(* the generation of its version may give.                                 *)
(***************************************************************************)
Snapshots ==
    [policies : PolicyTexts, schema : {bundle.schema}, layout : {NoLayout, Layout}, labels : {bundle.labels}]

Loaded ==
    /\ bundle \in Contents
    /\ generations \in Seq(Snapshots)
    /\ \A g \in 1..Len(generations) : Loads(generations[g].policies, generations[g].layout)

Justified(answer) ==
    /\ answer.request \in Requests
    /\ \E g \in 1..Len(generations) :
         answer.version = Version(g) /\ answer.result \in Results(g, answer.request)

Held ==
    \A c \in Clients :
        /\ sessions[c] \in {NoSession} \cup 1..Len(generations)
        /\ noted[c] = NoVersion \/ \E g \in 1..Len(generations) : noted[c] = Version(g)
        /\ answers[c] = NoAnswer \/ Justified(answers[c])

Domains ==
    /\ sessions = [c \in Clients |-> sessions[c]]
    /\ noted = [c \in Clients |-> noted[c]]
    /\ answers = [c \in Clients |-> answers[c]]
    /\ refused \subseteq {"policy.engine_prepare"}

Inv == Loaded /\ Held /\ Domains

(***************************************************************************)
(* What a version says and which results a generation may give.            *)
(***************************************************************************)
LEMMA VersionGeneration ==
    ASSUME NEW g
    PROVE  Version(g).generation = g
BY DEF Version

LEMMA ResultsRange ==
    ASSUME NEW g, NEW request
    PROVE  Results(g, request) \subseteq {"allow", "deny", "invalid", "unrouted"}
BY DecideIsADecision, Zenon DEF Results, When

LEMMA AppliedPolicy ==
    ASSUME bundle \in Contents, NEW text \in PolicyTexts, NEW request \in Requests,
           NEW policy \in ElementsOf(text),
           Matches(policy, request, bundle.labels, bundle.schema)
    PROVE  NamedOrGrouped(policy, request)
<1>1. PICK i \in 1..Len(text) : policy = text[i]
  BY DEF ElementsOf
<1> QED
  BY <1>1, MatchesAssumption DEF NamedOrGrouped

AtHome(request, layout) == layout = NoLayout \/ ~Strays(request.action, layout)

LEMMA DecidedAsOne ==
    ASSUME Loaded, NEW g \in 1..Len(generations), NEW request \in Requests,
           NEW result \in Results(g, request), result \in {"allow", "deny"}
    PROVE  /\ AtHome(request, generations[g].layout) =>
                result = Decide(ElementsOf(generations[g].policies), request, bundle.labels, bundle.schema)
           /\ bundle.schema # NoSchema => Conforms(bundle.schema, request)
<1> DEFINE now == generations[g]
           policies == ElementsOf(now.policies)
<1>1. now \in Snapshots
  BY DEF Loaded
<1>2. now.schema = bundle.schema /\ now.labels = bundle.labels /\ now.policies \in PolicyTexts
  BY <1>1 DEF Snapshots
<1>3. result # "invalid" /\ result # "unrouted"
  OBVIOUS
<1>4. bundle.schema # NoSchema => Conforms(bundle.schema, request)
  BY <1>2, <1>3 DEF Results
<1>5. CASE now.layout = NoLayout
  BY <1>2, <1>4, <1>5 DEF Results
<1>6. CASE now.layout # NoLayout
  <2> SUFFICES ASSUME ~Strays(request.action, now.layout)
               PROVE  result = Decide(policies, request, bundle.labels, bundle.schema)
    BY <1>4, <1>6 DEF AtHome
  <2>1. Independent(policies, now.layout)
    BY <1>6 DEF Loaded, Loads
  <2>2. \A policy \in policies :
          Matches(policy, request, bundle.labels, bundle.schema) => NamedOrGrouped(policy, request)
    BY <1>2, AppliedPolicy DEF Loaded
  <2>3. PICK root \in Routes(request, now.layout) :
          result = Decide(InStore(policies, root, now.layout), request, bundle.labels, bundle.schema)
    BY <1>2, <1>3, <1>4, <1>6 DEF Results, When
  <2> QED
    BY <2>1, <2>2, <2>3, StoreDecides
<1> QED
  BY <1>5, <1>6

(***************************************************************************)
(* Generations are only ever added.                                        *)
(***************************************************************************)
Extends ==
    \A g \in 1..Len(generations) : g \in 1..Len(generations') /\ generations'[g] = generations[g]

LEMMA StaysJustified ==
    ASSUME Extends, NEW answer, Justified(answer)
    PROVE  Justified(answer)'
<1>1. PICK g \in 1..Len(generations) :
        answer.version = Version(g) /\ answer.result \in Results(g, answer.request)
  BY DEF Justified
<1>2. g \in 1..Len(generations') /\ generations'[g] = generations[g]
  BY DEF Extends
<1>3. answer.version = Version(g)'
  BY <1>1, <1>2 DEF Version
<1>4. answer.result \in Results(g, answer.request)'
  BY <1>1, <1>2 DEF Results
<1> QED
  BY <1>2, <1>3, <1>4 DEF Justified

LEMMA StaysHeld ==
    ASSUME Extends, Held,
           \A c \in Clients :
               /\ sessions'[c] = sessions[c] \/ sessions'[c] \in 1..Len(generations)
               /\ noted'[c] = noted[c] \/ \E g \in 1..Len(generations) : noted'[c] = Version(g)
               /\ answers'[c] = answers[c] \/ \E answer : Justified(answer) /\ answers'[c] = answer
    PROVE  Held'
<1> SUFFICES ASSUME NEW c \in Clients
             PROVE  /\ sessions'[c] \in {NoSession} \cup 1..Len(generations')
                    /\ noted'[c] = NoVersion \/ \E g \in 1..Len(generations') : noted'[c] = Version(g)'
                    /\ answers'[c] = NoAnswer \/ Justified(answers[c])'
  BY DEF Held, Justified
<1>1. sessions'[c] \in {NoSession} \cup 1..Len(generations')
  BY DEF Held, Extends
<1>2. noted'[c] = NoVersion \/ \E g \in 1..Len(generations') : noted'[c] = Version(g)'
  <2>1. CASE noted'[c] = noted[c] /\ noted[c] = NoVersion
    BY <2>1
  <2>2. CASE \E g \in 1..Len(generations) : noted'[c] = Version(g)
    <3>1. PICK g \in 1..Len(generations) : noted'[c] = Version(g)
      BY <2>2
    <3>2. g \in 1..Len(generations') /\ generations'[g] = generations[g]
      BY DEF Extends
    <3>3. Version(g)' = Version(g)
      BY <3>2 DEF Version
    <3> QED BY <3>1, <3>2, <3>3
  <2>3. noted[c] = NoVersion \/ \E g \in 1..Len(generations) : noted[c] = Version(g)
    BY DEF Held
  <2> QED BY <2>1, <2>2, <2>3
<1>3. answers'[c] = NoAnswer \/ Justified(answers[c])'
  <2>1. PICK answer : answer = answers'[c]
    OBVIOUS
  <2>2. answer = NoAnswer \/ Justified(answer)
    BY <2>1 DEF Held
  <2>3. Justified(answer) => Justified(answer)'
    BY StaysJustified
  <2>4. Justified(answer)' => Justified(answers[c])'
    BY <2>1 DEF Justified
  <2> QED
    BY <2>1, <2>2, <2>3, <2>4
<1> QED
  BY <1>1, <1>2, <1>3

LEMMA SnapshotsUnchanged ==
    ASSUME bundle' = bundle
    PROVE  Snapshots' = Snapshots
BY DEF Snapshots, Layout, OrdinaryModules, GlobalModules, ModulesOf

(***************************************************************************)
(* Every step keeps the invariant.                                         *)
(***************************************************************************)
LEMMA InvInit == Init => Inv
<1> SUFFICES ASSUME Init PROVE Inv
  OBVIOUS
<1>1. Loaded
  BY DEF Init, Loaded
<1>2. Held
  BY DEF Init, Held
<1>3. Domains
  BY DEF Init, Domains
<1> QED
  BY <1>1, <1>2, <1>3 DEF Inv

LEMMA PrepareKeeps ==
    ASSUME Inv, NEW scoped \in BOOLEAN, Prepare(scoped)
    PROVE  Inv'
<1> DEFINE layout == IF scoped THEN Layout ELSE NoLayout
           snapshot == [policies |-> bundle.policies, schema |-> EngineSchema(scoped),
                        layout |-> layout, labels |-> EngineLabels(scoped)]
<1>1. bundle' = bundle /\ generations = <<>> /\ UNCHANGED <<sessions, noted, answers>>
  BY DEF Prepare, Prepared
<1>2. Extends
  BY <1>1 DEF Extends
<1>3. Held'
  BY <1>1, <1>2, StaysHeld DEF Inv
<1>4. Domains'
  BY <1>1 DEF Prepare, Domains, Inv
<1>5. CASE UNCHANGED generations
  BY <1>1, <1>3, <1>4, <1>5, SnapshotsUnchanged DEF Inv, Loaded, Loads
<1>6. CASE generations' = <<snapshot>> /\ Loads(bundle.policies, layout)
  <2>1. snapshot \in Snapshots
    BY DEF Inv, Loaded, Snapshots, PolicyTexts, EngineSchema, EngineLabels
  <2>2. generations' \in Seq(Snapshots) /\ Len(generations') = 1 /\ generations'[1] = snapshot
    BY <1>6, <2>1
  <2>3. Loads(generations'[1].policies, generations'[1].layout)
    BY <1>6, <2>2
  <2>4. Loaded'
    BY <1>1, <2>2, <2>3, SnapshotsUnchanged DEF Inv, Loaded, Loads
  <2> QED
    BY <1>3, <1>4, <2>4 DEF Inv
<1> QED
  BY <1>5, <1>6 DEF Prepare

LEMMA ReloadKeeps ==
    ASSUME Inv, NEW policies \in Reloads, Reload(policies)
    PROVE  Inv'
<1> DEFINE n == Len(generations)
           snapshot == [generations[n] EXCEPT !.policies = policies]
<1>1. bundle' = bundle /\ UNCHANGED <<refused, sessions, noted, answers>>
  BY DEF Reload
<1>2. generations \in Seq(Snapshots) /\ n \in Nat /\ n \in 1..n
  BY DEF Inv, Loaded, Reload, Prepared
<1>3. generations[n] \in Snapshots
  BY <1>2
<1>4. snapshot \in Snapshots /\ snapshot.layout = generations[n].layout /\ snapshot.policies = policies
  BY <1>3 DEF Snapshots, PolicyTexts
<1>5. generations' = Append(generations, snapshot) /\ Loads(policies, generations[n].layout)
  BY DEF Reload, Current
<1> HIDE DEF snapshot
<1>6. /\ generations' \in Seq(Snapshots) /\ Len(generations') = n + 1
      /\ generations'[n + 1] = snapshot
      /\ \A g \in 1..n : generations'[g] = generations[g]
  BY <1>2, <1>4, <1>5
<1>7. Extends
  BY <1>2, <1>6 DEF Extends
<1>8. Held'
  BY <1>1, <1>7, StaysHeld DEF Inv
<1>9. \A g \in 1..Len(generations') : Loads(generations'[g].policies, generations'[g].layout)
  BY <1>2, <1>4, <1>5, <1>6 DEF Inv, Loaded
<1>10. Loaded'
  BY <1>1, <1>6, <1>9, SnapshotsUnchanged DEF Inv, Loaded, Loads
<1> QED
  BY <1>1, <1>8, <1>10 DEF Inv, Domains

LEMMA UnchangedLoaded ==
    ASSUME Loaded, UNCHANGED <<bundle, generations>>
    PROVE  Loaded' /\ Extends
BY SnapshotsUnchanged DEF Loaded, Loads, Extends

LEMMA CurrentIsThere ==
    ASSUME Loaded, Prepared
    PROVE  Current \in 1..Len(generations)
BY DEF Loaded, Prepared, Current

LEMMA VersionKeeps ==
    ASSUME Inv, NEW c \in Clients, CurrentVersion(c)
    PROVE  Inv'
<1>1. UNCHANGED <<bundle, generations, refused, sessions, answers>> /\ Prepared
  BY DEF CurrentVersion
<1>2. Loaded' /\ Extends
  BY <1>1, UnchangedLoaded DEF Inv
<1>3. \A d \in Clients : noted'[d] = noted[d] \/ noted'[d] = Version(Current)
  BY DEF CurrentVersion, Inv, Domains
<1>4. Held'
  BY <1>1, <1>2, <1>3, CurrentIsThere, StaysHeld DEF Inv
<1> QED
  BY <1>1, <1>2, <1>4 DEF CurrentVersion, Inv, Domains

LEMMA SessionKeeps ==
    ASSUME Inv, NEW c \in Clients, Session(c)
    PROVE  Inv'
<1>1. UNCHANGED <<bundle, generations, refused, noted, answers>> /\ Prepared
  BY DEF Session
<1>2. Loaded' /\ Extends
  BY <1>1, UnchangedLoaded DEF Inv
<1>3. \A d \in Clients : sessions'[d] = sessions[d] \/ sessions'[d] = Current
  BY DEF Session, Inv, Domains
<1>4. Held'
  BY <1>1, <1>2, <1>3, CurrentIsThere, StaysHeld DEF Inv
<1> QED
  BY <1>1, <1>2, <1>4 DEF Session, Inv, Domains

LEMMA DecisionIsJustified ==
    ASSUME NEW g \in 1..Len(generations), NEW request \in Requests, NEW inSession,
           NEW answer \in Decision(g, request, inSession)
    PROVE  Justified(answer) /\ answer.version = Version(g) /\ answer.inSession = inSession
BY DEF Decision, Justified

LEMMA AnswerKeeps ==
    ASSUME Inv, NEW c \in Clients, UNCHANGED <<bundle, generations, refused, sessions, noted>>,
           NEW answer, Justified(answer), answers' = [answers EXCEPT ![c] = answer]
    PROVE  Inv'
<1>1. Loaded' /\ Extends
  BY UnchangedLoaded DEF Inv
<1>2. \A d \in Clients : answers'[d] = answers[d] \/ answers'[d] = answer
  BY DEF Inv, Domains
<1>3. Held'
  BY <1>1, <1>2, StaysHeld DEF Inv
<1> QED
  BY <1>1, <1>3 DEF Inv, Domains

LEMMA EvaluateKeeps ==
    ASSUME Inv, NEW c \in Clients, NEW request \in Requests, Evaluate(c, request)
    PROVE  Inv'
<1>1. PICK answer \in Decision(Current, request, FALSE) : answers' = [answers EXCEPT ![c] = answer]
  BY DEF Evaluate
<1>2. Justified(answer)
  BY CurrentIsThere, DecisionIsJustified DEF Evaluate, Inv
<1> QED
  BY <1>1, <1>2, AnswerKeeps DEF Evaluate

LEMMA SessionEvaluateKeeps ==
    ASSUME Inv, NEW c \in Clients, NEW request \in Requests, SessionEvaluate(c, request)
    PROVE  Inv'
<1>1. PICK answer \in Decision(sessions[c], request, TRUE) : answers' = [answers EXCEPT ![c] = answer]
  BY DEF SessionEvaluate
<1>2. sessions[c] \in 1..Len(generations)
  BY DEF SessionEvaluate, Inv, Held
<1>3. Justified(answer)
  BY <1>2, DecisionIsJustified
<1> QED
  BY <1>1, <1>3, AnswerKeeps DEF SessionEvaluate

LEMMA InvStep == Inv /\ [Next]_vars => Inv'
<1> SUFFICES ASSUME Inv, [Next]_vars PROVE Inv'
  OBVIOUS
<1>1. ASSUME NEW scoped \in BOOLEAN, Prepare(scoped) PROVE Inv'
  BY <1>1, PrepareKeeps
<1>2. ASSUME NEW policies \in Reloads, Reload(policies) PROVE Inv'
  BY <1>2, ReloadKeeps
<1>3. ASSUME NEW c \in Clients, CurrentVersion(c) \/ Session(c) PROVE Inv'
  BY <1>3, VersionKeeps, SessionKeeps
<1>4. ASSUME NEW c \in Clients, NEW request \in Requests,
             Evaluate(c, request) \/ SessionEvaluate(c, request)
      PROVE Inv'
  BY <1>4, EvaluateKeeps, SessionEvaluateKeeps
<1>5. CASE UNCHANGED vars
  <2>1. Loaded'
    BY <1>5, UnchangedLoaded DEF vars, Inv
  <2>2. Held' /\ Domains'
    BY <1>5, UnchangedLoaded, StaysHeld DEF vars, Inv, Domains
  <2> QED
    BY <2>1, <2>2 DEF Inv
<1> QED
  BY <1>1, <1>2, <1>3, <1>4, <1>5 DEF Next

(* The invariant holds through any number of reloads, clients and requests.*)
THEOREM Invariance == Spec => []Inv
  BY InvInit, InvStep, PTL DEF Spec

(***************************************************************************)
(* The properties.                                                         *)
(***************************************************************************)
(* Type correctness of the engine and of what its clients hold.            *)
THEOREM TypeCorrect == Spec => []TypeOK
<1>1. Inv => TypeOK
  <2> SUFFICES ASSUME Inv PROVE TypeOK
    OBVIOUS
  <2>1. ASSUME NEW c \in Clients
        PROVE  /\ sessions[c] \in {NoSession} \cup 1..Current
               /\ noted[c] \in {NoVersion} \cup Versions
               /\ answers[c] = NoAnswer \/
                    /\ answers[c].request \in Requests
                    /\ answers[c].version \in Versions
                    /\ answers[c].result \in {"allow", "deny", "invalid", "unrouted"}
    BY <2>1, ResultsRange DEF Inv, Held, Justified, Versions, Current
  <2> QED
    BY <2>1 DEF TypeOK, Inv, Loaded, Domains
<1> QED
  BY <1>1, Invariance, PTL

(* What a decided answer is, in every state of the invariant.              *)
LEMMA DecidedAnswer ==
    ASSUME Inv, NEW c \in Clients, Decided(c)
    PROVE  LET answer == answers[c] IN
           /\ AtHome(answer.request, generations[answer.version.generation].layout) =>
                answer.result = Decide(ElementsOf(generations[answer.version.generation].policies),
                                       answer.request, bundle.labels, bundle.schema)
           /\ bundle.schema # NoSchema => Conforms(bundle.schema, answer.request)
<1> DEFINE answer == answers[c]
<1>1. answer.result \in {"allow", "deny"} /\ Justified(answer)
  BY DEF Decided, Answered, Inv, Held
<1>2. PICK g \in 1..Len(generations) :
        answer.version = Version(g) /\ answer.result \in Results(g, answer.request)
  BY <1>1 DEF Justified
<1>3. answer.version.generation = g
  BY <1>2, VersionGeneration
<1>4. answer.request \in Requests
  BY <1>1 DEF Justified
<1> QED
  BY <1>1, <1>2, <1>3, <1>4, DecidedAsOne DEF Inv

(* Whatever the stores, a decision on an action that is in no group of     *)
(* another root is the one of all policies together.                       *)
THEOREM PartitionAgreesHolds == Spec => []PartitionAgrees
<1>1. Inv => PartitionAgrees
  BY DecidedAnswer DEF PartitionAgrees, AtHome
<1> QED
  BY <1>1, Invariance, PTL

(* A schema, once enforced, is enforced for every decision.                *)
THEOREM SchemaKeptHolds == Spec => []SchemaKept
<1>1. Inv => SchemaKept
  BY DecidedAnswer DEF SchemaKept
<1> QED
  BY <1>1, Invariance, PTL

(***************************************************************************)
(* Which generation a step may decide on.                                  *)
(***************************************************************************)
LEMMA WhoAnswers ==
    ASSUME Inv, [Next]_vars, NEW c \in Clients, answers'[c] # answers[c]
    PROVE  /\ UNCHANGED <<generations, sessions, noted>>
           /\ \E request \in Requests :
                \/ Prepared /\ answers'[c] \in Decision(Current, request, FALSE)
                \/ sessions[c] # NoSession /\ answers'[c] \in Decision(sessions[c], request, TRUE)
<1>1. CASE UNCHANGED vars
  BY <1>1 DEF vars
<1>2. ASSUME NEW scoped \in BOOLEAN, Prepare(scoped) PROVE FALSE
  BY <1>2 DEF Prepare
<1>3. ASSUME NEW policies \in Reloads, Reload(policies) PROVE FALSE
  BY <1>3 DEF Reload
<1>4. ASSUME NEW d \in Clients, CurrentVersion(d) \/ Session(d) PROVE FALSE
  BY <1>4 DEF CurrentVersion, Session
<1>5. ASSUME NEW d \in Clients, NEW request \in Requests, Evaluate(d, request)
      PROVE  Prepared /\ UNCHANGED <<generations, sessions, noted>>
             /\ answers'[c] \in Decision(Current, request, FALSE)
  BY <1>5 DEF Evaluate, Inv, Domains
<1>6. ASSUME NEW d \in Clients, NEW request \in Requests, SessionEvaluate(d, request)
      PROVE  sessions[c] # NoSession /\ UNCHANGED <<generations, sessions, noted>>
             /\ answers'[c] \in Decision(sessions[c], request, TRUE)
  BY <1>6 DEF SessionEvaluate, Inv, Domains
<1> QED
  BY <1>1, <1>2, <1>3, <1>4, <1>5, <1>6 DEF Next

(* Outside a session a decision is at least as new as the version that its *)
(* client read before it.                                                  *)
THEOREM NeverOlderHolds == Spec => NeverOlder
<1> DEFINE Newer(c) ==
             answers'[c] # answers[c] /\ ~answers'[c].inSession /\ noted[c] # NoVersion
             => answers'[c].version.generation >= noted[c].generation
<1>1. ASSUME Inv, [Next]_vars, NEW c \in Clients PROVE Newer(c)
  <2> SUFFICES ASSUME answers'[c] # answers[c], ~answers'[c].inSession, noted[c] # NoVersion
               PROVE  answers'[c].version.generation >= noted[c].generation
    OBVIOUS
  <2>1. PICK answer : answer = answers'[c]
    OBVIOUS
  <2>2. PICK request \in Requests :
          \/ Prepared /\ answer \in Decision(Current, request, FALSE)
          \/ sessions[c] # NoSession /\ answer \in Decision(sessions[c], request, TRUE)
    BY <1>1, <2>1, WhoAnswers
  <2>3. answer.version = Version(Current)
    BY <2>1, <2>2 DEF Decision
  <2>4. answer.version.generation = Len(generations)
    BY <2>3, VersionGeneration DEF Current
  <2>5. PICK g \in 1..Len(generations) : noted[c] = Version(g)
    BY <1>1 DEF Inv, Held
  <2>6. noted[c].generation = g
    BY <2>5, VersionGeneration
  <2>7. Len(generations) \in Nat
    BY <1>1 DEF Inv, Loaded
  <2> QED
    BY <2>1, <2>4, <2>6, <2>7
<1>2. Inv /\ [Next]_vars => [\A c \in Clients : Newer(c)]_vars
  BY <1>1
<1>3. Spec => [][\A c \in Clients : Newer(c)]_vars
  BY <1>2, Invariance, PTL DEF Spec
<1> QED
  BY <1>3 DEF NeverOlder

(***************************************************************************)
(* Why a validated bundle is refused stores: what the validation of its    *)
(* policies has established of each of them is all that a store asks for,  *)
(* but for references to another root.                                     *)
(***************************************************************************)
LEMMA ErrorFree ==
    ASSUME NEW diagnostics, Errors(diagnostics) = {}, NEW code \in diagnostics
    PROVE  code \in WarningCodes
BY DEF Errors

LEMMA ValidatedPolicy ==
    ASSUME bundle \in Contents, Validated(bundle), NEW p \in 1..Len(bundle.policies)
    PROVE  \E m \in 1..Len(bundle.modules) :
             /\ m \in Assigning(bundle.modules, bundle.policies[p].id)
             /\ Errors(OwnershipDiagnostics(bundle.policies[p], bundle.modules[m])) = {}
<1> DEFINE policy == bundle.policies[p]
           owners == Assigning(bundle.modules, policy.id)
           last == CHOOSE i \in owners : \A j \in owners : j <= i
           found == ArchiveDiagnostics(bundle)
<1>1. Errors(found) = {} /\ AssignmentsValid(bundle.modules, bundle.policyIds)
  BY DEF Validated, ContentValid, ManifestValid
<1>2. TemplateDiagnostics(bundle.policies) \subseteq found
      /\ IdDiagnostics(bundle.policies, {}) \subseteq found
      /\ \A i \in Identified(bundle.policies) :
           ArchivedPolicyDiagnostics(bundle.policies[i], bundle.modules) \subseteq found
  BY Zenon DEF ArchiveDiagnostics
<1> HIDE DEF found
<1>3. "policy.templates_unsupported" \notin found /\ "policy.missing_id" \notin found
      /\ "archive.policy_module_missing" \notin found
  BY <1>1, ErrorFree DEF WarningCodes
<1>4. p \in Identified(bundle.policies)
  <2>1. policy.static
    BY <1>2, <1>3 DEF TemplateDiagnostics, When
  <2>2. Identified(bundle.policies) = Statics(bundle.policies)
    BY <1>2, <1>3 DEF IdDiagnostics, When
  <2> QED
    BY <2>1, <2>2 DEF Statics
<1>5. ArchivedPolicyDiagnostics(policy, bundle.modules) \subseteq found
  BY <1>2, <1>4
<1>6. owners # {}
  BY <1>3, <1>5 DEF ArchivedPolicyDiagnostics
<1>7. PICK m \in owners : TRUE
  BY <1>6
<1>8. m \in 1..Len(bundle.modules)
  BY <1>7 DEF Assigning
<1>9. \A j \in owners : j = m
  <2> SUFFICES ASSUME NEW j \in owners PROVE j = m
    OBVIOUS
  <2>1. /\ j \in 1..Len(bundle.modules)
        /\ policy.id \in ElementsOf(bundle.modules[j].policyIds)
        /\ policy.id \in ElementsOf(bundle.modules[m].policyIds)
    BY <1>7 DEF Assigning
  <2>2. PICK q \in 1..Len(bundle.modules[j].policyIds) : bundle.modules[j].policyIds[q] = policy.id
    BY <2>1 DEF ElementsOf
  <2>3. PICK r \in 1..Len(bundle.modules[m].policyIds) : bundle.modules[m].policyIds[r] = policy.id
    BY <2>1 DEF ElementsOf
  <2> QED
    BY <1>1, <1>8, <2>1, <2>2, <2>3 DEF AssignmentsValid
<1>10. last = m
  <2>1. \A j \in owners : j <= m
    BY <1>8, <1>9
  <2> QED
    BY <1>7, <1>9, <2>1
<1>11. OwnershipDiagnostics(policy, bundle.modules[m]) \subseteq found
  BY <1>5, <1>6, <1>10 DEF ArchivedPolicyDiagnostics
<1>12. Errors(OwnershipDiagnostics(policy, bundle.modules[m])) = {}
  BY <1>1, <1>11 DEF Errors
<1> QED
  BY <1>7, <1>8, <1>12

LEMMA ValidatedDivides ==
    ASSUME bundle \in Contents, Validated(bundle),
           NEW policy \in ElementsOf(bundle.policies),
           ~IsGlobal(policy, Layout),
           \A root \in Layout.roots : ~Belongs(policy, root, Layout)
    PROVE  \E m \in OrdinaryModules :
             m \in Assigning(bundle.modules, policy.id) /\ Foreign(policy, m)
<1>1. PICK p \in 1..Len(bundle.policies) : policy = bundle.policies[p]
  BY DEF ElementsOf
<1>2. PICK m \in 1..Len(bundle.modules) :
        /\ m \in Assigning(bundle.modules, policy.id)
        /\ Errors(OwnershipDiagnostics(policy, bundle.modules[m])) = {}
  BY <1>1, ValidatedPolicy
<1> DEFINE module == bundle.modules[m]
<1>3. m \notin GlobalModules
  BY <1>2 DEF IsGlobal, Layout, Assigning
<1>4. m \in OrdinaryModules /\ module.role # "global"
  BY <1>2, <1>3, RolesAssumption DEF OrdinaryModules, GlobalModules, ModulesOf
<1>5. policy.constrained /\ \A type \in policy.actions : NamespaceOwns(module.namespace, type)
  <2>1. OwnershipDiagnostics(policy, module) \cap
          {"policy.structured_representation", "policy.action_unconstrained",
           "policy.action_namespace_violation"} = {}
    BY <1>2, ErrorFree DEF WarningCodes
  <2> QED
    BY <1>4, <2>1 DEF OwnershipDiagnostics, When
<1>6. module.namespace \in Layout.roots
  BY <1>4 DEF Layout
<1>7. ~Belongs(policy, module.namespace, Layout)
  BY <1>6
<1>8. PICK other \in Layout.roots \ {module.namespace} :
        \E type \in policy.references : NamespaceOwns(other, type)
  BY <1>5, <1>7 DEF Belongs
<1>9. PICK k \in OrdinaryModules : other = bundle.modules[k].namespace
  BY <1>8 DEF Layout
<1>10. k # m
  BY <1>8, <1>9
<1> QED
  BY <1>2, <1>4, <1>8, <1>9, <1>10 DEF Foreign

Refusal ==
    /\ bundle \in Contents /\ Validated(bundle)
    /\ refused # {} => ~Independent(ElementsOf(bundle.policies), Layout) \/ Spans(Layout)

LEMMA RefusalStep == Refusal /\ [Next]_vars => Refusal'
<1> SUFFICES ASSUME Refusal, [Next]_vars PROVE Refusal'
  OBVIOUS
<1>1. bundle' = bundle
  BY DEF Next, vars, Prepare, Reload, CurrentVersion, Session, Evaluate, SessionEvaluate
<1>2. Layout' = Layout /\ (Validated(bundle))' = Validated(bundle)
  BY <1>1 DEF Layout, OrdinaryModules, GlobalModules, ModulesOf, Validated
<1>3. refused' # {} => ~Independent(ElementsOf(bundle.policies), Layout) \/ Spans(Layout)
  <2>1. ASSUME NEW scoped \in BOOLEAN, Prepare(scoped), refused' # {}
        PROVE  ~Independent(ElementsOf(bundle.policies), Layout) \/ Spans(Layout)
    <3> DEFINE layout == IF scoped THEN Layout ELSE NoLayout
    <3>1. Loads(bundle.policies, layout) => Spans(layout)
      BY <2>1 DEF Prepare
    <3>2. layout # NoLayout
      BY <3>1 DEF Loads, Spans
    <3> QED
      BY <3>1, <3>2 DEF Loads
  <2>2. CASE refused' = refused
    BY <2>2 DEF Refusal
  <2> QED
    BY <2>1, <2>2 DEF Next, vars, Reload, CurrentVersion, Session, Evaluate, SessionEvaluate
<1>4. Independent(ElementsOf(bundle.policies), Layout)' = Independent(ElementsOf(bundle.policies), Layout)
  BY <1>1, <1>2 DEF Independent, IsGlobal, Belongs, ElementsOf
<1>5. Spans(Layout)' = Spans(Layout)
  BY <1>1, <1>2 DEF Spans, Strays
<1> QED
  BY <1>1, <1>2, <1>3, <1>4, <1>5 DEF Refusal

(* Of the bundles that validation accepts, only those whose ordinary roots *)
(* overlap, whose policies name another root, or whose actions are in      *)
(* groups of another root, are refused stores.                             *)
THEOREM RefusedOnlyWhenDependentHolds == Spec => []RefusedOnlyWhenDependent
<1>1. Init => Refusal
  BY DEF Init, Refusal
<1>2. Refusal => RefusedOnlyWhenDependent
  <2> SUFFICES ASSUME Refusal, refused # {} PROVE RefusedOnlyWhenDependent
    BY DEF RefusedOnlyWhenDependent
  <2>1. ~Independent(ElementsOf(bundle.policies), Layout) \/ Spans(Layout)
    BY DEF Refusal
  <2>2. CASE \E left, right \in Layout.roots : left # right /\ NamespacesOverlap(left, right)
    BY <2>2 DEF Layout, RefusedOnlyWhenDependent
  <2>3. CASE \E policy \in ElementsOf(bundle.policies) :
               ~IsGlobal(policy, Layout) /\ \A root \in Layout.roots : ~Belongs(policy, root, Layout)
    <3>1. PICK policy \in ElementsOf(bundle.policies) :
            \E m \in OrdinaryModules : m \in Assigning(bundle.modules, policy.id) /\ Foreign(policy, m)
      BY <2>3, ValidatedDivides DEF Refusal
    <3> QED
      BY <3>1 DEF ElementsOf, RefusedOnlyWhenDependent
  <2>4. CASE Spans(Layout)
    BY <2>4 DEF RefusedOnlyWhenDependent
  <2> QED
    BY <2>1, <2>2, <2>3, <2>4 DEF Independent
<1> QED
  BY <1>1, <1>2, RefusalStep, PTL DEF Spec
=============================================================================
