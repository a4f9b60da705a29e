------------------------------ MODULE Admission -----------------------------
(***************************************************************************)
(* Admission of pods (cwii-core/src/admission.rs with the cluster calls of *)
(* cwii-core/src/k8s.rs), in the cluster it runs in.                       *)
(*                                                                         *)
(* Several reviews are handled at once, by any number of replicas of the   *)
(* stateless webhook.  Every await of the handler is a point where other   *)
(* reviews, users of the cluster and the API server's timeout can act, so  *)
(* a handler is a program counter with one action per cluster call.  The   *)
(* providers are parameters: EnabledFor and PlanFor are the two methods of *)
(* the Provider trait (cwii-core/src/provider.rs).                         *)
(*                                                                         *)
(* One namespace is modelled: reviews of different namespaces share        *)
(* nothing that the handler writes.                                        *)
(***************************************************************************)
EXTENDS OwnerWalk, Decision

CONSTANTS
  Requests,             \* slots for reviews in flight
  Maps,                 \* the annotation maps that occur
  Pods,                 \* the pods that are submitted
  Objects,              \* keys of workloads, ServiceAccounts and the Namespace
  OwnerLists,           \* the ownerReferences workloads have
  CmNames, CmData,      \* names and credentials.json contents of ConfigMaps
  FailurePolicy,        \* of the MutatingWebhookConfiguration
  InitialObjects,       \* the clusters the behaviours start in
  EditAllowed(_, _, _), \* EditAllowed(objects, o, new): users may make o new
  ForeignMayWrite       \* whether others write the ConfigMaps cwii names

AnnotationSets == [Scopes -> Maps]
ObjectStates == [exists : BOOLEAN, annos : Maps, owners : OwnerLists]
Walks == [ref : Nat, deployment : Nat, rs : ObjectStates]
Upserts == [name : CmNames, data : CmData]

\* handle: the ServiceAccount a pod runs as, and its Namespace.
ServiceAccountOf(q) ==
  [kind |-> "ServiceAccount", name |-> UnwrapOr(q.service_account, "default")]
NamespaceKey == [kind |-> "Namespace", name |-> "ns"]

ASSUME MapsAssumption == NoAnnotations \in Maps

ASSUME ObjectsAssumption ==
  /\ NamespaceKey \in Objects
  /\ OwnerLists \subseteq Seq(Objects)
  /\ << >> \in OwnerLists
  /\ InitialObjects \subseteq [Objects -> ObjectStates]

ASSUME PodsAssumption ==
  /\ Pods # {}
  /\ \A q \in Pods : /\ q.annos \in Maps
                     /\ q.owners \in Seq(Objects)
                     /\ ServiceAccountOf(q) \in Objects

ASSUME ProviderAssumption ==
  /\ ProviderOrder \in Seq(STRING)
  /\ \A k \in DOMAIN ProviderOrder, a \in AnnotationSets :
       /\ EnabledFor(ProviderOrder[k], a) \in BOOLEAN
       /\ LET outcome == PlanFor(ProviderOrder[k], a)
          IN  /\ outcome.status \in {"planned", "unconfigured", "invalid"}
              /\ outcome.status = "planned" =>
                   /\ outcome.plan.configmap_upsert \subseteq Upserts
                   /\ \A u, v \in outcome.plan.configmap_upsert : u = v

\* A ConfigMap's name is a hash of what its contents are built from
\* (credentials.rs configmap_name), for one mount root.
PlannedConfigMaps == UNION {ReferencedConfigMaps(a) : a \in AnnotationSets}

ASSUME ConfigMapsAssumption ==
  /\ CmData # {}
  /\ \A u, v \in PlannedConfigMaps : u.name = v.name => u.data = v.data

ASSUME FailurePolicyAssumption == FailurePolicy \in {"Ignore", "Fail"}

-----------------------------------------------------------------------------
VARIABLES
  objects,    \* the cluster's objects: do they exist, annotations, owners
  cms,        \* its ConfigMaps: credentials.json and the managers of that key
  pod, dry,   \* per request: the pod under review, and dryRun
  pc,         \* where its handler is: the call it awaits, or how it ended
  walk,       \* the owner walk, while pc = "owner"
  read,       \* the annotation set the handler has gathered
  todo,       \* providers whose ConfigMap is still to be upserted
  answer,     \* the handler's answer
  verdict,    \* what the API server did with the pod
  quiet,      \* history: no object was edited since the review arrived
  standing,   \* history: providers the cluster asked for all that time
  drift       \* history: ConfigMaps changed by others since cwii's last apply

handler == <<pod, dry, pc, walk, read, todo, answer>>
vars == <<objects, cms, handler, verdict, quiet, standing, drift>>

NoConfigMap == [exists |-> FALSE, data |-> CHOOSE d \in CmData : TRUE, managers |-> {}]
ConfigMapStates ==
  [exists : BOOLEAN, data : CmData, managers : SUBSET {"cwii", "foreign"}]

TypeOK ==
  /\ objects \in [Objects -> ObjectStates]
  /\ cms \in [CmNames -> ConfigMapStates]
  /\ pod \in [Requests -> Pods]
  /\ dry \in [Requests -> BOOLEAN]
  /\ pc \in [Requests -> {"idle", "owner", "sa", "ns", "upsert", "done", "dropped"}]
  /\ walk \in [Requests -> Walks]
  /\ \A r \in Requests : pc[r] = "owner" => Wanted(pod[r].owners, walk[r]) \in Objects
  /\ read \in [Requests -> AnnotationSets]
  /\ todo \in [Requests -> SUBSET DOMAIN ProviderOrder]
  /\ answer \in [Requests -> {"none", "skip", "patch", "deny", "http_400"}]
  /\ verdict \in [Requests -> {"pending", "admitted", "bypassed", "rejected"}]
  /\ quiet \in [Requests -> BOOLEAN]
  /\ standing \in [Requests -> SUBSET DOMAIN ProviderOrder]
  /\ drift \subseteq CmNames

Init ==
  /\ objects \in InitialObjects
  /\ cms = [c \in CmNames |-> NoConfigMap]
  /\ pod = [r \in Requests |-> CHOOSE q \in Pods : TRUE]
  /\ dry = [r \in Requests |-> FALSE]
  /\ pc = [r \in Requests |-> "idle"]
  /\ walk = [r \in Requests |-> NoWalk]
  /\ read = [r \in Requests |-> [s \in Scopes |-> NoAnnotations]]
  /\ todo = [r \in Requests |-> {}]
  /\ answer = [r \in Requests |-> "none"]
  /\ verdict = [r \in Requests |-> "rejected"]
  /\ quiet = [r \in Requests |-> TRUE]
  /\ standing = [r \in Requests |-> {}]
  /\ drift = {}

-----------------------------------------------------------------------------
(* The handler.                                                            *)

\* The four scopes of a pod in a cluster, and as they are now.
ScopesOf(q, objs) ==
  << q.annos,
     OwnerAnnotations(q.owners, objs),
     objs[ServiceAccountOf(q)].annos,
     objs[NamespaceKey].annos >>
Snapshot(q) == ScopesOf(q, objects)

Running(r) == pc[r] \in {"owner", "sa", "ns", "upsert"}

\* A slot is reused once its review was decided and its handler has ended.
Free(r) == ~ Running(r) /\ verdict[r] # "pending"

Finish(r, a) ==
  /\ pc' = [pc EXCEPT ![r] = "done"]
  /\ answer' = [answer EXCEPT ![r] = a]

\* A review arrives: of pod q, in dry-run or not, its handler at position at.
Arrive(r, q, d) ==
  /\ Free(r)
  /\ pod' = [pod EXCEPT ![r] = q]
  /\ dry' = [dry EXCEPT ![r] = d]
  /\ read' = [read EXCEPT ![r] = <<q.annos, NoAnnotations, NoAnnotations, NoAnnotations>>]
  /\ todo' = [todo EXCEPT ![r] = {}]
  /\ verdict' = [verdict EXCEPT ![r] = "pending"]
  /\ quiet' = [quiet EXCEPT ![r] = TRUE]
  /\ standing' = [standing EXCEPT ![r] = Injected(Snapshot(q))]
  /\ UNCHANGED <<objects, cms, drift>>

\* mutate and handle up to the first cluster read.
Receive(r) ==
  \E q \in Pods, d \in BOOLEAN :
    /\ Arrive(r, q, d)
    /\ walk' = [walk EXCEPT ![r] = WalkStart(q.owners).walk]
    /\ pc' = [pc EXCEPT ![r] = IF WalkStart(q.owners).done THEN "sa" ELSE "owner"]
    /\ answer' = [answer EXCEPT ![r] = "none"]

\* A body that is no review at all (HTTP 400), or a review without an object.
ReceiveUnusable(r) ==
  \E q \in Pods, a \in {"http_400", "deny"} :
    /\ Arrive(r, q, FALSE)
    /\ Finish(r, a)
    /\ UNCHANGED walk

\* One GET of owner_annotations.
GetOwner(r) ==
  /\ pc[r] = "owner"
  /\ LET next == WalkReply(pod[r].owners, walk[r],
                           objects[Wanted(pod[r].owners, walk[r])])
     IN  /\ walk' = [walk EXCEPT ![r] = next.walk]
         /\ read' = [read EXCEPT ![r][2] = next.annos]
         /\ pc' = [pc EXCEPT ![r] = IF next.done THEN "sa" ELSE "owner"]
  /\ UNCHANGED <<objects, cms, pod, dry, todo, answer, verdict, quiet, standing, drift>>

\* The scopes still to be read after the owner: the ServiceAccount, then the
\* Namespace.
ScopeRead_broad_first(place) == IF place = "sa" THEN 4 ELSE 3     \* seeded fault
ScopeRead(place) == IF place = "sa" THEN 3 ELSE 4

ScopeObject(q, s) == IF s = 3 THEN ServiceAccountOf(q) ELSE NamespaceKey

ReadScope(r, s) ==
  read' = [read EXCEPT ![r][s] = objects[ScopeObject(pod[r], s)].annos]

GetServiceAccount(r) ==
  /\ pc[r] = "sa"
  /\ ReadScope(r, ScopeRead("sa"))
  /\ pc' = [pc EXCEPT ![r] = "ns"]
  /\ UNCHANGED <<objects, cms, pod, dry, walk, todo, answer, verdict, quiet, standing, drift>>

\* Seeded fault: the upserts are made in dry runs too.
Decide_dry_run_ignored(r, a) ==
  /\ Failing(a) = {}
  /\ IF NeedsUpsert(a) = {}
     THEN /\ Finish(r, IF Injected(a) = {} THEN "skip" ELSE "patch")
          /\ UNCHANGED todo
     ELSE /\ todo' = [todo EXCEPT ![r] = NeedsUpsert(a)]
          /\ pc' = [pc EXCEPT ![r] = "upsert"]
          /\ UNCHANGED answer

\* Seeded fault: the patch is answered while the upserts are still being made.
Decide_upserts_in_background(r, a) ==
  /\ Failing(a) = {}
  /\ IF dry[r] \/ NeedsUpsert(a) = {}
     THEN /\ Finish(r, IF Injected(a) = {} THEN "skip" ELSE "patch")
          /\ UNCHANGED todo
     ELSE /\ todo' = [todo EXCEPT ![r] = NeedsUpsert(a)]
          /\ pc' = [pc EXCEPT ![r] = "upsert"]
          /\ answer' = [answer EXCEPT ![r] = "patch"]

\* Everything the handler does once the annotation set a is complete, up to
\* its answer or the first upsert: a provider in error denies the pod before
\* anything is written, and a dry run writes nothing.
Decide(r, a) ==
  LET upserts == IF dry[r] THEN {} ELSE NeedsUpsert(a)
  IN  \/ /\ Failing(a) # {}
         /\ Finish(r, "deny")
         /\ UNCHANGED todo
      \/ /\ Failing(a) = {}
         /\ Injected(a) = {}
         /\ Finish(r, "skip")
         /\ UNCHANGED todo
      \/ /\ Failing(a) = {}
         /\ Injected(a) # {}
         /\ upserts = {}
         /\ Finish(r, "patch")
         /\ UNCHANGED todo
      \/ /\ Failing(a) = {}
         /\ upserts # {}
         /\ todo' = [todo EXCEPT ![r] = upserts]
         /\ pc' = [pc EXCEPT ![r] = "upsert"]
         /\ UNCHANGED answer

GetNamespaceAndDecide(r) ==
  /\ pc[r] = "ns"
  /\ ReadScope(r, ScopeRead("ns"))
  /\ Decide(r, read'[r])
  /\ UNCHANGED <<objects, cms, pod, dry, walk, verdict, quiet, standing, drift>>

\* Seeded fault: a failed read of the Namespace passes for no annotations.
ReadFails_open(r) ==
  /\ pc[r] = "ns"
  /\ Decide(r, read[r])
  /\ UNCHANGED <<objects, cms, pod, dry, walk, read, verdict, quiet, standing, drift>>

\* A cluster read returns an error: fail closed.
ReadFails(r) ==
  /\ pc[r] \in {"owner", "sa", "ns"}
  /\ Finish(r, "deny")
  /\ UNCHANGED <<objects, cms, pod, dry, walk, read, todo, verdict, quiet, standing, drift>>

-----------------------------------------------------------------------------
(* upsert_configmap: server-side apply by the field manager cwii, without  *)
(* force.  It conflicts when another manager holds the key with a          *)
(* different value, and replaces what cwii alone holds.                    *)

CanApply_forced(cm, u) == TRUE       \* seeded fault: .force()
CanApply(cm, u) == ~ cm.exists \/ cm.data = u.data \/ "foreign" \notin cm.managers

\* Seeded fault: the apply is made under a manager of another name.
Apply_renamed_manager(u) ==
  /\ cms' = [cms EXCEPT ![u.name] =
       [exists |-> TRUE, data |-> u.data, managers |-> @.managers \union {"webhook"}]]
  /\ drift' = drift \ {u.name}

Apply(u) ==
  /\ cms' = [cms EXCEPT ![u.name] =
       [exists |-> TRUE, data |-> u.data, managers |-> @.managers \union {"cwii"}]]
  /\ drift' = drift \ {u.name}

\* The upsert the handler awaits: plans are applied in registry order.
NextUpsert(r) == Min(todo[r])
PendingUpserts(r) == UpsertOf(NextUpsert(r), read[r])

UpsertConfigMap(r) ==
  /\ pc[r] = "upsert"
  /\ \E u \in PendingUpserts(r) : CanApply(cms[u.name], u) /\ Apply(u)
  /\ todo' = [todo EXCEPT ![r] = @ \ {NextUpsert(r)}]
  /\ IF todo'[r] = {} THEN Finish(r, "patch") ELSE UNCHANGED <<pc, answer>>
  /\ UNCHANGED <<objects, pod, dry, walk, read, verdict, quiet, standing>>

\* Seeded fault: a failed upsert is logged and the review goes on.
UpsertFails_swallowed(r) ==
  /\ pc[r] = "upsert"
  /\ Finish(r, "patch")
  /\ UNCHANGED <<objects, cms, pod, dry, walk, read, todo, verdict, quiet, standing, drift>>

\* The apply conflicts, or its call fails without having had an effect.
UpsertFails(r) ==
  /\ pc[r] = "upsert"
  /\ Finish(r, "deny")
  /\ UNCHANGED <<objects, cms, pod, dry, walk, read, todo, verdict, quiet, standing, drift>>

\* The apply takes effect, but its reply is an error.
UpsertReplyLost(r) ==
  /\ pc[r] = "upsert"
  /\ \E u \in PendingUpserts(r) : CanApply(cms[u.name], u) /\ Apply(u)
  /\ Finish(r, "deny")
  /\ UNCHANGED <<objects, pod, dry, walk, read, todo, verdict, quiet, standing>>

\* The replica stops, or the server drops the handler of a closed connection;
\* an apply it had already sent may still take effect.
Drop(r) ==
  /\ Running(r)
  /\ pc' = [pc EXCEPT ![r] = "dropped"]
  /\ \/ UNCHANGED <<cms, drift>>
     \/ /\ pc[r] = "upsert"
        /\ \E u \in PendingUpserts(r) : CanApply(cms[u.name], u) /\ Apply(u)
  /\ UNCHANGED <<objects, pod, dry, walk, read, todo, answer, verdict, quiet, standing>>

HandlerStep(r) ==
  \/ GetOwner(r) \/ GetServiceAccount(r) \/ GetNamespaceAndDecide(r)
  \/ ReadFails(r)
  \/ UpsertConfigMap(r) \/ UpsertFails(r) \/ UpsertReplyLost(r)

-----------------------------------------------------------------------------
(* The API server, as the caller of the webhook.                           *)

\* What happens to a pod whose webhook call has failed.
ByFailurePolicy == IF FailurePolicy = "Ignore" THEN "bypassed" ELSE "rejected"

\* An answer arrives in time.  A pod that is admitted is stored, unless the
\* request is a dry run, with the patch if the answer carries one.
Deliver(r) ==
  /\ verdict[r] = "pending"
  /\ answer[r] # "none"
  /\ verdict' = [verdict EXCEPT ![r] =
       CASE answer[r] \in {"skip", "patch"} -> "admitted"
         [] answer[r] = "deny" -> "rejected"
         [] answer[r] = "http_400" -> ByFailurePolicy]
  /\ UNCHANGED <<objects, cms, handler, quiet, standing, drift>>

\* timeoutSeconds elapse, or the connection breaks.  The handler is not told.
CallFails(r) ==
  /\ verdict[r] = "pending"
  /\ verdict' = [verdict EXCEPT ![r] = ByFailurePolicy]
  /\ UNCHANGED <<objects, cms, handler, quiet, standing, drift>>

-----------------------------------------------------------------------------
(* Everybody else in the cluster.                                          *)

\* Users create, annotate and delete objects.
EditObject(o) ==
  /\ \E new \in ObjectStates :
       /\ new # objects[o]
       /\ EditAllowed(objects, o, new)
       /\ objects' = [objects EXCEPT ![o] = new]
  /\ UNCHANGED <<cms, handler, verdict, drift>>
  /\ quiet' = [r \in Requests |-> FALSE]
  /\ standing' = [r \in Requests |-> standing[r] \intersect Injected(Snapshot(pod[r])')]

\* Another manager writes a ConfigMap of one of cwii's names: it becomes the
\* only owner of what it changes and shares what it leaves as it is.  Or it
\* deletes the ConfigMap.
ForeignWrite(c) ==
  /\ ForeignMayWrite
  /\ \E d \in CmData :
       LET same == cms[c].exists /\ cms[c].data = d
       IN  /\ cms' = [cms EXCEPT ![c] =
                [exists |-> TRUE, data |-> d,
                 managers |-> {"foreign"} \union (IF same THEN @.managers ELSE {})]]
           /\ drift' = IF same THEN drift ELSE drift \union {c}
  /\ UNCHANGED <<objects, handler, verdict, quiet, standing>>

ForeignDelete(c) ==
  /\ ForeignMayWrite
  /\ cms[c].exists
  /\ cms' = [cms EXCEPT ![c] = NoConfigMap]
  /\ drift' = drift \union {c}
  /\ UNCHANGED <<objects, handler, verdict, quiet, standing>>

Environment ==
  \/ \E o \in Objects : EditObject(o)
  \/ \E c \in CmNames : ForeignWrite(c) \/ ForeignDelete(c)

Next ==
  \/ \E r \in Requests :
       \/ Receive(r) \/ ReceiveUnusable(r)
       \/ HandlerStep(r) \/ Drop(r)
       \/ Deliver(r) \/ CallFails(r)
  \/ Environment

Spec == Init /\ [][Next]_vars

\* The runtime schedules every handler, and the API server replies to each of
\* its calls or fails it.  Nothing is assumed of users or of timeouts.
Fairness == \A r \in Requests : WF_vars(HandlerStep(r))

FairSpec == Spec /\ Fairness

-----------------------------------------------------------------------------
(* Properties.                                                             *)

\* A review during which nobody edits an object is answered by the decision on
\* the four scopes of the cluster as it is: the walk, one GET at a time, finds
\* the workload the documentation promises, and a failed read never passes for
\* an object without annotations (admission.rs:111-116, k8s.rs:16-68).
DecisionExact ==
  \A r \in Requests :
    quiet[r] /\ answer[r] \in {"skip", "patch"} =>
      /\ Failing(Snapshot(pod[r])) = {}
      /\ Injected(read[r]) = Injected(Snapshot(pod[r]))
      /\ (answer[r] = "patch") = (Injected(Snapshot(pod[r])) # {})

\* When a patch that mounts ConfigMaps is answered outside dry-run, each of
\* them holds exactly the credentials planned for this pod, unless others have
\* changed it since cwii applied it: concurrent reviews, lost replies and
\* partial failures never let a pod through before its credentials
\* (plan.rs:164-165, admission.rs:182-190).
CredsInPlace ==
  \A r \in Requests :
    answer[r] = "patch" /\ ~ dry[r] =>
      \A u \in ReferencedConfigMaps(read[r]) :
        u.name \in drift \/ (cms[u.name].exists /\ cms[u.name].data = u.data)

\* No step of a handler changes or deletes credentials another manager holds
\* (k8s.rs:118-119).
ForeignKept ==
  [][ (\E r \in Requests : HandlerStep(r) \/ Drop(r)) =>
        \A c \in CmNames :
          "foreign" \in cms[c].managers =>
            /\ cms'[c].exists
            /\ cms'[c].data = cms[c].data
            /\ "foreign" \in cms'[c].managers ]_vars

\* A ConfigMap changes only by others, or for a review that is no dry run and
\* in which no enabled provider is in error: nothing is written for a pod that
\* the providers already deny (admission.rs:144-190, sideEffects NoneOnDryRun).
WritesAreIntended ==
  [][ cms' # cms =>
        \/ Environment
        \/ \E r \in Requests :
             /\ ~ dry[r]
             /\ Failing(read[r]) = {}
             /\ \E u \in ReferencedConfigMaps(read[r]) :
                  cms' = [cms EXCEPT ![u.name] = cms'[u.name]] ]_vars

\* A pod stored from a review during which nobody edited an object carries the
\* identities its cluster asks for, whatever failed on the way.  Holds where
\* the webhook is required, failurePolicy Fail (values.yaml:74-76).
RequiredIdentity ==
  \A r \in Requests :
    verdict[r] \in {"admitted", "bypassed"} /\ quiet[r] =>
      IF answer[r] = "patch" /\ verdict[r] = "admitted"
      THEN Injected(read[r]) = Injected(Snapshot(pod[r]))
      ELSE Injected(Snapshot(pod[r])) = {}

\* A provider the cluster asks for all the time a review is handled is
\* injected, though the scopes are read at different times.  Holds as long as
\* an opt-in only moves to broader scopes and is added there before it is
\* removed (OptInsMoveBroader), because the handler reads narrow scopes first
\* (admission.rs:114-116).
StandingOptIn ==
  \A r \in Requests :
    answer[r] \in {"skip", "patch"} => standing[r] \subseteq Injected(read[r])

\* The annotation maps on are those that opt in to provider k: one of them, in
\* any scope, is what it takes.
OptsInWith(k, on) ==
  /\ NoAnnotations \notin on
  /\ \A a \in AnnotationSets : k \in Injected(a) <=> \E s \in Scopes : a[s] \in on

\* The workload that counts, and the Deployment above it, are the same ones.
SameOwner(refs, objs, later) ==
  LET workload == FirstExisting(refs, WorkloadKinds, objs)
  IN  /\ FirstExisting(refs, WorkloadKinds, later) = workload
      /\ \A x \in workload : x.kind = "ReplicaSet" =>
           /\ later[x] = objs[x]
           /\ FirstExisting(objs[x].owners, {"Deployment"}, later)
                = FirstExisting(objs[x].owners, {"Deployment"}, objs)

\* An edit takes an opt-in from a scope, if at all, only while a broader one has
\* it too; and it changes no owner while the owner's is the broadest.
MovesBroader(on, objs, later) ==
  \A q \in Pods :
    LET before == {s \in Scopes : ScopesOf(q, objs)[s] \in on}
        after == {s \in Scopes : ScopesOf(q, later)[s] \in on}
    IN  /\ after # {} => \A s \in before : \E t \in after : s =< t
        /\ 2 \in before /\ 2 \in after /\ 3 \notin after /\ 4 \notin after =>
             SameOwner(q.owners, objs, later)

\* In all clusters users make of the initial ones, opt-ins to the providers,
\* by the maps on[k], only move to broader scopes.
OptInsMoveBroader(on, clusters) ==
  /\ InitialObjects \subseteq clusters
  /\ \A k \in DOMAIN ProviderOrder : OptsInWith(k, on[k])
  /\ \A objs \in clusters, o \in Objects, new \in ObjectStates :
       EditAllowed(objs, o, new) =>
         LET later == [objs EXCEPT ![o] = new]
         IN  /\ later \in clusters
             /\ \A k \in DOMAIN ProviderOrder : MovesBroader(on[k], objs, later)

\* Every review that is being handled comes to an end, whatever is edited
\* or deleted while it walks the owners (k8s.rs:27-67).
HandlerEnds ==
  \A r \in Requests : Running(r) ~> ~ Running(r)

-----------------------------------------------------------------------------
(* The contract the handler implements.  The reads are one decision, taken *)
(* when the last of them returns, on the credentials of the annotation set *)
(* that was read; the upserts are made in any order.                       *)

StatusOf(r) ==
  CASE pc[r] = "done" -> answer[r]
    [] pc[r] \in {"owner", "sa", "ns"} -> "reading"
    [] OTHER -> pc[r]

CredentialsOf(r) ==
  IF StatusOf(r) \in {"upsert", "patch"} /\ ~ dry[r]
  THEN ReferencedConfigMaps(read[r]) ELSE {}

CredentialSets == {ReferencedConfigMaps(a) : a \in AnnotationSets}

Contract == INSTANCE AdmissionContract WITH
  Plans <- CredentialSets,
  Unusable <- {"http_400", "deny"},
  OnFailure <- ByFailurePolicy,
  status <- [r \in Requests |-> StatusOf(r)],
  creds <- [r \in Requests |-> CredentialsOf(r)]

\* Seen from outside, a review is one decision followed by the writes it asks
\* for, and a patch is answered once, after the last of them: no answer overtakes
\* a write, no write outlives a denial, no review is answered twice
\* (admission.rs:144-193).
ImplementsContract == Contract!Spec
=============================================================================
