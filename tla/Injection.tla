------------------------------ MODULE Injection -----------------------------
(***************************************************************************)
(* One pod through any number of mutation passes: the API server reinvokes *)
(* the webhook after another webhook has changed the pod, and a pod that   *)
(* was already mutated is submitted again (a copy, a restored backup),     *)
(* possibly under other annotations.  What the passes add up to is decided *)
(* by patch::build, which looks at nothing but the names already there.    *)
(***************************************************************************)
EXTENDS Patch, Decision

CONSTANTS
  AnnotationSetsOffered,   \* the annotation sets the pod is reviewed under
  InitialPods,             \* the pods as users submit them
  Sidecars,                \* the containers other webhooks add
  MaxContainers,           \* bound on the containers of the pod
  MayReannotate            \* whether annotations change between passes

ContainerShape(c) ==
  /\ c = [volume_mounts |-> c.volume_mounts, env |-> c.env]
  /\ IsVecOption(c.volume_mounts) /\ IsVecOption(c.env)

PodShape(q) ==
  /\ q = [volumes |-> q.volumes, init_containers |-> q.init_containers,
          containers |-> q.containers, annotated |-> q.annotated, marker |-> q.marker]
  /\ IsVecOption(q.volumes) /\ IsVecOption(q.init_containers)
  /\ IsVec(q.containers) /\ \A i \in DOMAIN q.containers : ContainerShape(q.containers[i])
  /\ q.annotated \in BOOLEAN

ContainerNamesUnique(c) == Unique(c.volume_mounts) /\ Unique(c.env)
PodNamesUnique(q) ==
  /\ Unique(q.volumes)
  /\ Unique(q.init_containers)
  /\ \A i \in DOMAIN q.containers : ContainerNamesUnique(q.containers[i])

\* The providers whose token volume is among the volumes.
WithToken(volumes) ==
  {p \in ToSet(ProviderOrder) : \E v \in volumes : v.name = <<p, "token">>}

\* What users and other webhooks write has unique names, and no token volume
\* that the marker does not list.
ASSUME UsersAssumption ==
  /\ \A c \in Sidecars : ContainerShape(c) /\ ContainerNamesUnique(c)
  /\ \A q \in InitialPods :
       PodShape(q) /\ PodNamesUnique(q) /\ q.marker = WithToken(Elements(q.volumes))

\* The lists of a plan whose items have names.
NamedParts == {"volumes", "container_mounts", "container_env", "init_containers"}

\* A plan names its own provider and has the token volume of no other; its init
\* containers are writers and verifiers.
PlanShape(plan, p) ==
  /\ plan.provider = p
  /\ \A part \in NamedParts : IsVec(plan[part])
  /\ WithToken(ToSet(plan.volumes)) = {p}
  /\ \A c \in ToSet(plan.init_containers) : c.order \in {0, 10}

\* No name is in two places of a part of the plans for one annotation set: names
\* carry their provider (plan.rs:108-110), variables are those of its cloud.
PlansApart(mine, other, same) ==
  \A part \in NamedParts : \A i \in DOMAIN mine[part], j \in DOMAIN other[part] :
    mine[part][i].name = other[part][j].name => same /\ i = j

ASSUME RegistryAssumption == ProviderOrder \in Seq(STRING)

ASSUME PlansAssumption ==
  \A a \in AnnotationSetsOffered : \A k \in Injected(a) :
    /\ PlanShape(Outcome(k, a).plan, ProviderOrder[k])
    /\ \A l \in Injected(a) : PlansApart(Outcome(k, a).plan, Outcome(l, a).plan, k = l)

-----------------------------------------------------------------------------
VARIABLES
  pod,       \* the pod, as of the last pass
  annos,     \* the annotation set in force
  settled    \* history: the set of the last pass, if nothing happened since

vars == <<pod, annos, settled>>

\* The plans of the injected providers, in registry order.
Plans(a) ==
  LET order == Filtered([k \in DOMAIN ProviderOrder |-> k], Injected(a))
  IN  [i \in DOMAIN order |-> Outcome(order[i], a).plan]

Init ==
  /\ pod \in InitialPods
  /\ annos \in AnnotationSetsOffered
  /\ settled = {}

\* A review whose answer is a patch.  A denied or a skipped review leaves the
\* pod as it is.
Mutate ==
  /\ Failing(annos) = {}
  /\ Injected(annos) # {}
  /\ pod' = Applied(pod, build(pod, merge(Plans(annos))))
  /\ settled' = {annos}
  /\ UNCHANGED annos

AddSidecar ==
  /\ Len(pod.containers) < MaxContainers
  /\ \E c \in Sidecars : pod' = [pod EXCEPT !.containers = Append(@, c)]
  /\ settled' = {}
  /\ UNCHANGED annos

Reannotate ==
  /\ MayReannotate
  /\ annos' \in AnnotationSetsOffered \ {annos}
  /\ settled' = {}
  /\ UNCHANGED pod

Next == Mutate \/ AddSidecar \/ Reannotate

Spec == Init /\ [][Next]_vars

-----------------------------------------------------------------------------
(* Properties.                                                             *)

\* However often and under whatever annotations a pod is reviewed, no two of
\* its volumes or init containers, and no two mounts or variables of one
\* container, have the same name: the API server would reject the pod, or the
\* later variable would silently win (patch.rs:22-83).
NamesUnique == PodNamesUnique(pod)

\* The init containers that run before position k.
Before(k) == {Items(pod.init_containers)[i] : i \in 1 .. k - 1}

\* A file of a volume is there once the init containers ran have ended: the
\* kubelet projects tokens and ConfigMaps, a writer fills an emptyDir.
FileReady(v, file, ran) ==
  \/ v.source.kind = "projected" /\ v.source.path = file
  \/ v.source.kind = "configMap" /\ file = "credentials.json"
  \/ /\ v.source.kind = "emptyDir"
     /\ \E c \in ran : c.role = "write" /\ \E m \in ToSet(c.mounts) : m.name = v.name

\* The variables of a container that hold a path below the mount root.
PathVariables(env) ==
  {e \in env : e.name \in {"GOOGLE_APPLICATION_CREDENTIALS",
                           "AWS_WEB_IDENTITY_TOKEN_FILE",
                           "AZURE_FEDERATED_TOKEN_FILE"} /\ e.value[1] = MountRoot}

\* A container finds every file its variables name: in a mount it has, of a
\* volume the pod has, in place when the container starts.
FindsFiles(env, mounts, ran) ==
  \A e \in PathVariables(env) :
    \E m \in mounts, v \in Elements(pod.volumes) :
      /\ v.name = m.name
      /\ m.mount_path = Front(e.value)
      /\ FileReady(v, Last(e.value), ran)

\* Every token and credentials path handed to a container, and to a verifier
\* at its place in the order of init containers, leads to a file that is there
\* when it starts, even if mounts, volumes and writers come from different
\* passes (plan.rs:88-90, patch.rs:22-85).
FilesProvided ==
  /\ \A i \in DOMAIN pod.containers :
       FindsFiles(Elements(pod.containers[i].env),
                  Elements(pod.containers[i].volume_mounts),
                  Elements(pod.init_containers))
  /\ \A k \in DOMAIN Items(pod.init_containers) :
       LET c == Items(pod.init_containers)[k]
       IN  FindsFiles(ToSet(c.env), ToSet(c.mounts), Before(k))

\* The marker lists exactly the providers whose token volume is on the pod,
\* over any sequence of passes (annotations.rs:12-14, patch.rs:128-148).
MarkerTruthful == pod.marker = WithToken(Elements(pod.volumes))

\* A pass only adds: what users, other webhooks and earlier passes put into
\* the pod stays where it is (patch.rs:3-6, 113-126).
ContentKept ==
  [][ settled' # {} =>
        /\ IsPrefix(Items(pod.volumes), Items(pod'.volumes))
        /\ IsPrefix(Items(pod.init_containers), Items(pod'.init_containers))
        /\ DOMAIN pod'.containers = DOMAIN pod.containers
        /\ \A i \in DOMAIN pod.containers :
             LET old == pod.containers[i]
                 new == pod'.containers[i]
             IN  /\ IsPrefix(Items(old.volume_mounts), Items(new.volume_mounts))
                 /\ IsPrefix(Items(old.env), Items(new.env)) ]_vars

\* A second pass under the same annotations is a no-op
\* (docs/architecture.md:363-374, patch.rs:5).
SecondPassNoOp == [][ settled # {} /\ settled' # {} => pod' = pod ]_vars

\* A pass leaves no container without the variables and mounts of a provider
\* it injects, sidecars added since the last pass included (patch.rs:54-85).
EveryContainerInjected ==
  \A a \in settled : \A k \in Injected(a) : \A i \in DOMAIN pod.containers :
    LET plan == Outcome(k, a).plan
        c == pod.containers[i]
    IN  /\ {m.name : m \in ToSet(plan.container_mounts)} \subseteq names(c.volume_mounts)
        /\ {e.name : e \in ToSet(plan.container_env)} \subseteq names(c.env)

\* "The webhook is safe to re-run against an already-mutated pod": every
\* credentials writer on the pod mounts a volume it can write to
\* (docs/architecture.md:363).
WritersCanWrite ==
  \A c \in Elements(pod.init_containers) :
    c.role = "write" =>
      \A m \in ToSet(c.mounts) : \A v \in Elements(pod.volumes) :
        v.name = m.name => v.source.kind = "emptyDir"
=============================================================================
