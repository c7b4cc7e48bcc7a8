-------------------------------- MODULE Engine --------------------------------
(***************************************************************************)
(* Engines prepared from a validated bundle (archive.rs 200-285) and the   *)
(* PreparedEngine of engine.rs: one engine over all policies, or one store *)
(* a module; clients that ask for versions and decisions while the         *)
(* application reloads the policies, directly or through a session frozen  *)
(* on one generation.  treetop-core is external: what is said of it here   *)
(* is what the doc comments and the tests of the repository rely on.       *)
(***************************************************************************)
EXTENDS Validation

CONSTANTS
    Contents,          \* BundleParts that archives may hold
    Reloads,           \* policies that the application may load into the engine
    Requests,          \* [action, resource: type names, ...]
    Clients,
    Matches(_, _, _, _), \* cedar: a policy applies to a request, with these labels and schema
    Conforms(_, _),      \* cedar: a request fits a schema
    Memberships(_),      \* cedar: <<type of an action, type of an action it is in>> by memberOf
    LabelDigest(_),      \* sha256_hex of labels.json
    NoLayout,            \* a monolithic engine
    NoSession, NoVersion, NoAnswer,
    MaxReloads         \* bound

PolicyTexts == Reloads \cup {parts.policies : parts \in Contents}

(* Nothing in the repository looks at memberOf: the action groups of a     *)
(* schema may reach from one namespace into another.                       *)
GroupsOf(action, schema) ==
    IF schema = NoSchema THEN {}
    ELSE {member[2] : member \in {m \in Memberships(schema) : m[1] = action}}

(* A constrained action clause names every action the policy applies to,   *)
(* or a group that the action is in.                                       *)
ASSUME MatchesAssumption ==
    \A text \in PolicyTexts, request \in Requests, parts \in Contents :
        \A i \in 1..Len(text) :
            Matches(text[i], request, parts.labels, parts.schema) /\ text[i].constrained
                => ({request.action} \cup GroupsOf(request.action, parts.schema)) \cap text[i].actions # {}

(* ModuleRole has two variants.                                            *)
ASSUME RolesAssumption ==
    \A parts \in Contents : \A i \in 1..Len(parts.modules) :
        parts.modules[i].role \in {"ordinary", "global"}

VARIABLES
    bundle,       \* the ValidatedBundle
    generations,  \* every complete state the engine has had; the last one is current
    refused,      \* diagnostics of a failed preparation
    sessions,     \* [client -> the generation its session froze, or NoSession]
    noted,        \* [client -> what current_version returned last]
    answers       \* [client -> its last request with what evaluate returned]

vars == <<bundle, generations, refused, sessions, noted, answers>>

(***************************************************************************)
(* Preparation.                                                            *)
(***************************************************************************)
ModulesOf(role) == {i \in 1..Len(bundle.modules) : bundle.modules[i].role = role}

OrdinaryModules == ModulesOf("ordinary")
GlobalModules == ModulesOf("global")

(* Fault: the filter on the role is forgotten.                             *)
LayoutOfAll ==
    [roots   |-> {bundle.modules[i].namespace : i \in 1..Len(bundle.modules)},
     globals |-> {}]

(* One store for each ordinary module, rooted at its namespace; the        *)
(* policies of the others go to every store.                               *)
Layout ==
    [roots   |-> {bundle.modules[i].namespace : i \in OrdinaryModules},
     globals |-> UNION {ElementsOf(bundle.modules[i].policyIds) : i \in GlobalModules}]

IsGlobal(policy, layout) == policy.id \in layout.globals

(* treetop-core: the stores stand alone.  Roots do not overlap, and every  *)
(* policy that is not global acts within one root and names no other.      *)
Belongs(policy, root, layout) ==
    /\ policy.constrained
    /\ \A type \in policy.actions : NamespaceOwns(root, type)
    /\ \A other \in layout.roots \ {root} :
         \A type \in policy.references : ~NamespaceOwns(other, type)

Independent(policies, layout) ==
    /\ \A left, right \in layout.roots : left # right => ~NamespacesOverlap(left, right)
    /\ \A policy \in policies :
         IsGlobal(policy, layout) \/ \E root \in layout.roots : Belongs(policy, root, layout)

Loads(policies, layout) == layout # NoLayout => Independent(ElementsOf(policies), layout)

(* An action is in a group of another root: a policy that one store holds  *)
(* applies to requests that are routed to another.                         *)
Strays(action, layout) ==
    \E group \in GroupsOf(action, bundle.schema), root \in layout.roots :
        NamespaceOwns(root, group) /\ ~NamespaceOwns(root, action)

Spans(layout) ==
    /\ layout # NoLayout /\ bundle.schema # NoSchema
    /\ \E member \in Memberships(bundle.schema) : Strays(member[1], layout)

(* Fault: the constructor with stores is the one without a schema.         *)
SchemaOfMonolith(scoped) == IF scoped THEN NoSchema ELSE bundle.schema

EngineSchema(scoped) == bundle.schema

(* Fault: labels are installed on the monolithic path only.                *)
LabelsOfMonolith(scoped) == IF scoped THEN <<>> ELSE bundle.labels

(* An empty label set installs no registry, like no label set at all.      *)
EngineLabels(scoped) == bundle.labels

(* BundleArchive::validate has returned this bundle.                       *)
Validated(parts) ==
    ContentValid([version |-> FormatVersion, name |-> parts.modules[1].name,
                  generator |-> ThisGenerator, modules |-> parts.modules,
                  policyIds |-> parts.policyIds], parts)

Init ==
    /\ bundle \in {parts \in Contents : Validated(parts)}
    /\ generations = <<>>
    /\ refused = {}
    /\ sessions = [c \in Clients |-> NoSession]
    /\ noted = [c \in Clients |-> NoVersion]
    /\ answers = [c \in Clients |-> NoAnswer]

Prepared == generations # <<>>

(* prepare_engine and prepare_engine_with_policy_stores.  A failure leaves *)
(* everything as it was, and the other layout can be tried.  Whether       *)
(* treetop-core objects to groups that span roots is left open.            *)
Prepare(scoped) ==
    /\ ~Prepared
    /\ LET layout == IF scoped THEN Layout ELSE NoLayout IN
       \/ /\ Loads(bundle.policies, layout)
          /\ generations' = <<[policies |-> bundle.policies, schema |-> EngineSchema(scoped),
                               layout |-> layout, labels |-> EngineLabels(scoped)]>>
          /\ refused' = {}
       \/ /\ Loads(bundle.policies, layout) => Spans(layout)
          /\ refused' = {"policy.engine_prepare"}
          /\ UNCHANGED generations
    /\ UNCHANGED <<bundle, sessions, noted, answers>>

(***************************************************************************)
(* The engine in use.                                                      *)
(***************************************************************************)
Current == Len(generations)

(* The application reloads through its clone of the engine; what does not  *)
(* load changes nothing.                                                   *)
Reload(policies) ==
    /\ Prepared
    /\ Current <= MaxReloads
    /\ Loads(policies, generations[Current].layout)
    /\ generations' = Append(generations, [generations[Current] EXCEPT !.policies = policies])
    /\ UNCHANGED <<bundle, refused, sessions, noted, answers>>

Version(g) ==
    [generation |-> g,
     label_set  |-> IF generations[g].labels = <<>> THEN NoVersion
                    ELSE LabelDigest(generations[g].labels)]

CurrentVersion(c) ==
    /\ Prepared
    /\ noted' = [noted EXCEPT ![c] = Version(Current)]
    /\ UNCHANGED <<bundle, generations, refused, sessions, answers>>

Applies(policies, effect, request, labels, schema) ==
    \E policy \in policies : policy.effect = effect /\ Matches(policy, request, labels, schema)

(* cedar: a forbid overrides, and nothing is permitted by default.         *)
Decide(policies, request, labels, schema) ==
    IF /\ Applies(policies, "permit", request, labels, schema)
       /\ ~Applies(policies, "forbid", request, labels, schema)
    THEN "allow" ELSE "deny"

(* treetop-core: the stores that a request may be routed to.  A root that  *)
(* owns both types is the one; roots that disagree, or none, are an error; *)
(* when only one of the types lies under a root the tests leave it open.   *)
Candidates(request, layout) ==
    {root \in layout.roots : NamespaceOwns(root, request.action) \/ NamespaceOwns(root, request.resource)}

Routes(request, layout) ==
    {root \in Candidates(request, layout) : Candidates(request, layout) = {root}}

InStore(policies, root, layout) ==
    {policy \in policies : IsGlobal(policy, layout) \/ Belongs(policy, root, layout)}

Unroutable(request, layout) ==
    \A root \in layout.roots :
        ~(NamespaceOwns(root, request.action) /\ NamespaceOwns(root, request.resource))

(* What evaluate may return of a generation.                               *)
Results(g, request) ==
    LET now == generations[g]
        Among(policies) == Decide(policies, request, now.labels, now.schema)
    IN
    IF now.schema # NoSchema /\ ~Conforms(now.schema, request) THEN {"invalid"}
    ELSE IF now.layout = NoLayout THEN {Among(ElementsOf(now.policies))}
    ELSE {Among(InStore(ElementsOf(now.policies), root, now.layout))
              : root \in Routes(request, now.layout)}
         \cup When(Unroutable(request, now.layout), "unrouted")

Decision(g, request, inSession) ==
    {[request |-> request, result |-> result, version |-> Version(g), inSession |-> inSession]
        : result \in Results(g, request)}

Evaluate(c, request) ==
    /\ Prepared
    /\ \E answer \in Decision(Current, request, FALSE) :
         answers' = [answers EXCEPT ![c] = answer]
    /\ UNCHANGED <<bundle, generations, refused, sessions, noted>>

Session(c) ==
    /\ Prepared
    /\ sessions' = [sessions EXCEPT ![c] = Current]
    /\ UNCHANGED <<bundle, generations, refused, noted, answers>>

SessionEvaluate(c, request) ==
    /\ sessions[c] # NoSession
    /\ \E answer \in Decision(sessions[c], request, TRUE) : answers' = [answers EXCEPT ![c] = answer]
    /\ UNCHANGED <<bundle, generations, refused, sessions, noted>>

Next ==
    \/ \E scoped \in BOOLEAN : Prepare(scoped)
    \/ \E policies \in Reloads : Reload(policies)
    \/ \E c \in Clients : CurrentVersion(c) \/ Session(c)
    \/ \E c \in Clients, request \in Requests : Evaluate(c, request) \/ SessionEvaluate(c, request)

Spec == Init /\ [][Next]_vars

(***************************************************************************)
(* Properties.                                                             *)
(***************************************************************************)
Versions == {Version(g) : g \in 1..Current}

(* The variables have their types. *)
TypeOK ==
    /\ bundle \in Contents
    /\ refused \subseteq {"policy.engine_prepare"}
    /\ \A c \in Clients :
        /\ sessions[c] \in {NoSession} \cup 1..Current
        /\ noted[c] \in {NoVersion} \cup Versions
        /\ answers[c] = NoAnswer \/
             /\ answers[c].request \in Requests
             /\ answers[c].version \in Versions
             /\ answers[c].result \in {"allow", "deny", "invalid", "unrouted"}

Answered(c) == answers[c] # NoAnswer
Decided(c) == Answered(c) /\ answers[c].result \in {"allow", "deny"}

(* Dividing the policies among stores loses nothing: a decision is the one *)
(* that all the policies of its version give together, with the labels of  *)
(* the bundle, whichever store has made it.  Excepted are actions whose    *)
(* groups lie in another root: there a forbid of the other store is lost.  *)
PartitionAgrees ==
    \A c \in Clients : Decided(c) =>
        LET now == generations[answers[c].version.generation]
            request == answers[c].request
        IN
        now.layout = NoLayout \/ ~Strays(request.action, now.layout)
            => answers[c].result = Decide(ElementsOf(now.policies), request, bundle.labels, bundle.schema)

(* A bundle that passed validation divides into stores unless an ordinary  *)
(* policy names a type of another ordinary module, their roots overlap, or *)
(* the schema puts an action into a group of another root.                 *)
Foreign(policy, m) ==
    \E other \in OrdinaryModules \ {m} : \E type \in policy.references :
        NamespaceOwns(bundle.modules[other].namespace, type)

RefusedOnlyWhenDependent ==
    refused # {} =>
        \/ \E i, j \in OrdinaryModules : i # j /\
             NamespacesOverlap(bundle.modules[i].namespace, bundle.modules[j].namespace)
        \/ \E m \in OrdinaryModules, p \in 1..Len(bundle.policies) :
             m \in Assigning(bundle.modules, bundle.policies[p].id) /\ Foreign(bundle.policies[p], m)
        \/ Spans(Layout)

(* A decision is never older than a version its client read before it: it  *)
(* may be newer, for there is a reload between the two calls, unless both  *)
(* are made in a session.                                                  *)
NeverOlder ==
    [][\A c \in Clients :
          answers'[c] # answers[c] /\ ~answers'[c].inSession /\ noted[c] # NoVersion
          => answers'[c].version.generation >= noted[c].generation]_vars

(* An engine prepared with a schema decides no request that does not fit   *)
(* it, through any layout, reload or session.                              *)
SchemaKept ==
    bundle.schema # NoSchema =>
        \A c \in Clients : Decided(c) => Conforms(bundle.schema, answers[c].request)
=============================================================================
