# A verification project for cwii

cwii (Cluster Workload Identity Injector) is a Kubernetes mutating admission
webhook. For every pod that is created it reads annotations from the pod, its
owning workload, its ServiceAccount and its Namespace, asks each cloud provider
what to inject, stores GCP credentials in a ConfigMap when a plan wants one, and
answers with a JSON patch. This directory holds TLA+ modules translated from that
code, configurations that check them with TLC, and theorems checked with TLAPS.
`PROJECT.json` maps every definition to the lines it models and every property to
the run that checks it.

Paths below are relative to `crates/` unless they say otherwise.

## The system

| Component | State | Operations | Hard about it |
|---|---|---|---|
| Annotation resolution (`cwii-core/src/annotations.rs`, `resolve.rs`) | none; pure over four maps | `first_explicit_bool`, `first_non_empty`, `first_i64`, `enabled_with_native`, `native_or` | precedence per key, words that are almost booleans or numbers, native fallbacks against explicit switches |
| Plans (`cwii-core/src/plan.rs`) | none | token specs, verify containers, `merge` | order of init containers across providers |
| Providers (`cwii-provider-{gcp,aws,az}`) | configuration | `enabled`, `plan` | three outcomes: a plan, not configured, error |
| Registry (`cwii/src/config.rs`) | fixed order of enabled providers | `providers` | |
| Cluster reads (`cwii-core/src/k8s.rs`) | none; the cluster has it | `owner_annotations`, `service_account_annotations`, `namespace_annotations` | one GET after the other in a cluster that changes |
| ConfigMap upsert (`cwii-core/src/k8s.rs`) | ConfigMaps of the namespace | `upsert_configmap` | server-side apply: concurrent, conflicting, lost replies |
| Admission handler (`cwii-core/src/admission.rs`) | a review in flight | `mutate`, `handle` | every await lets others act; errors must deny; dry runs must not write |
| Patch builder (`cwii-core/src/patch.rs`) | none; the pod has it | `build` | several passes over one pod, guarded by names alone |
| Injected containers (`plan.rs`, the providers) | volumes of the pod, outcome of checks | writers, verifiers | they run at pod start, in sequence, from several providers and passes |
| Server (`cwii/src/main.rs`, `webhook.rs`) | TLS material read at start | routes | handlers dropped, replicas, renewed certificates |
| Chart (`charts/cwii`, not under `crates/`) | webhook registration, Deployment, certificate, RBAC | | failure policy, timeout, selection of namespaces, upgrades |
| Telemetry | counters | | nothing reads it |

The handler calls the reads, then the providers (synchronously), then the
upserts, then the patch builder. Reviews share no memory: they interact only
through the API server, that is through the objects they read and the ConfigMaps
they apply. The API server calls the webhook, gives up after `timeoutSeconds`
without telling the handler, treats a failed call by `failurePolicy`, and may call
the webhook again for a pod that was already mutated. Users edit the annotated
objects, and other managers may write the ConfigMaps, at any time.

What makes the components correct: a decision agrees with one state of the
cluster when the cluster is quiet, and misses no standing opt-in when it is not;
an error never passes for an absent annotation; a pod never gets a patch whose
credentials are not in place; nobody else's ConfigMap is overwritten; nothing is
written without need; every handler ends; passes over one pod add up to a pod
whose names are unique and whose paths lead to files; a pod runs only after the
checks that are enforced, and always after the others; precedence and isolation of
keys are what the documentation says; and the webhook never needs itself to come
back. `PROJECT.json` lists the hazards behind
each, with the line at which it bites.

## Modules

```
Resolve --- Plan --- Providers ------------- the real providers, for MC* and Rollout
   |          |
   |          +----- Patch --- Injection (with Decision) --- Startup
   |
   +------ OwnerWalk --- Admission (with Decision) ----- Rollout (two instances)
   |                         :
   |                         : implements AdmissionContract
   |
   +------ Annotating (with Decision)               Serving (stands alone)

ResolveProofs --- AnnotatingProofs
            +---- AdmissionProofs --- AdmissionRefinement
            |                   +---- DecisionProofs
            +---- ListProofs --- InjectionProofs --- StartupProofs
```

* **Resolve** models `annotations.rs` and `resolve.rs`. An annotation map is a
  function from keys to raw values; a raw value is a word with the two accidents
  that `trim` and `to_ascii_lowercase` remove. An `Option` is a set of at most one
  element. Each `first_*` is the value in the least scope that passes the test of
  its loop.
* **Plan** models `plan.rs`: token specs, volumes, mounts, variables, init
  containers and `merge`. Names and paths are tuples of their parts. Images,
  resources and security contexts are left out, and the shell command of a
  verifier is represented by whether it enforces. `Filtered` and `SortByOrder` are
  recursive functions, so that proofs can unfold them position by position.
* **Providers** models `enabled` and `plan` of the three providers and the
  registry. `plan` yields `Planned`, `Unconfigured` or `Invalid` for `Ok(Some)`,
  `Ok(None)` and `Err`. The digest in a ConfigMap's name is the tuple of what it
  digests, so two configurations have one name only when they are equal.
* **Decision** is what `handle` makes of one annotation set: the loop over the
  registry. It has the two methods of the `Provider` trait as parameters.
* **OwnerWalk** is `owner_annotations` as the continuation that runs on the reply
  of each GET, and, as the reference, the same walk on one snapshot.
* **Admission** composes the handler with the cluster, the API server and everybody
  else. `pc[r]` says which call the handler of review `r` awaits; `GetOwner`,
  `GetServiceAccount`, `GetNamespaceAndDecide` and `UpsertConfigMap` are the steps
  from one await to the next; `ReadFails`, `UpsertFails` and `UpsertReplyLost` are
  their errors; `Drop` is the end of a replica or of a connection, with the apply
  it had sent perhaps still taking effect. `Deliver` and `CallFails` are the API
  server; `EditObject`, `ForeignWrite` and `ForeignDelete` are users and other
  managers. Replicas need no model of their own: the handler keeps no state
  between reviews, so two reviews at one replica or at two are the same.
  A ConfigMap has contents and a set of managers that own its key, which is what
  decides a conflict of a server-side apply without force. `quiet`, `standing` and
  `drift` are history variables that only properties and other history read.
* **Patch** is `build` and, as the external part (`Applied`, `AddTo`), what the API
  server does with the operations. A pod has optional sequences, because the code
  tells a missing array from an empty one. The patch is a record with what happens to
  each array: nothing, one `add` of the whole array, or one `add` of each item at its
  end. No two arrays of a pod have one path, so that their order in the list of
  operations does not matter, and the order within an array is kept.
* **Injection** runs any number of passes over one pod. Between passes other
  webhooks add containers and users change annotations.
* **Annotating** lets users set and remove annotations one at a time and compares
  the effect a review would have before and after.
* **AdmissionContract** says what a cluster may rely on, without owners, scopes,
  providers or awaits: a review is decided in one step on a set of ConfigMaps, these
  are put in place in any order and never against another manager, and the patch is
  answered once nothing is missing. `ImplementsContract` in Admission is the
  refinement: `StatusOf` maps the program counter and the answer, `CredentialsOf` the
  annotation set that was read, and the reads of the scopes are hidden.
* **Startup** extends Injection to the start of the pod: the kubelet runs the init
  containers in their order, one at a time. `ExitsZero` is what the code decides
  about each: a writer needs a volume it can write to, a verifier blocks exactly when
  it enforces and its check fails. Whether a cloud accepts the token is chosen anew at
  every check (`InitEnds(accepted)`, `InitFails(accepted)`).
* **Serving** is the life of the replicas: the Deployment creates pods that the
  webhook may itself have to admit, the kubelet starts them once their Secret is
  there, `Listen` loads the certificate once, the probes do not look at it, and
  cert-manager issues and renews it. Crashes, evictions and renewals come at any time.
* **Rollout** is two instances of Admission over the same objects and ConfigMaps, one
  per release, whose providers differ in the mount root only.
* **MCAdmission, MCMigration, MCInjection, MCStartup, MCAnnotating, MCRollout,
  MCServing** give the constants values. They use the real providers; the two methods
  of the trait are tabulated once.
* **ResolveProofs, AnnotatingProofs, AdmissionProofs, AdmissionRefinement,
  DecisionProofs, ListProofs, InjectionProofs, StartupProofs** hold the lemmas and
  theorems.

A definition named `X_<what goes wrong>` is a seeded fault of `X`: the form `X`
would have with a plausible mistake in the code. None is used by a specification;
`PROJECT.json` pairs each with the property that it breaks.

## Runs

| Run | Checks | Bounds |
|---|---|---|
| `configmaps` | `TypeOK`, `CredsInPlace`, `RequiredIdentity`, `ForeignKept`, `WritesAreIntended`, `ImplementsContract` | 2 reviews, 1 ConfigMap name with 2 contents, 3 maps on the Namespace, every failure, failure policy Fail |
| `decisions` | `DecisionExact` | 1 review, 3 pods, 6 objects that come and go, ReplicaSets with two Deployments behind an owner of another kind |
| `migration` | `StandingOptIn`, `HandlerEnds` | 1 review, an opt-in on the Deployment, the ServiceAccount or the Namespace that only moves in this direction, owners that come and go, a foreign manager |
| `passes` | `NamesUnique`, `FilesProvided`, `MarkerTruthful`, `EveryContainerInjected`, `ContentKept`, `SecondPassNoOp`, `EnforcedBeforeRunning`, `VerifiedIsWhatRuns`, `NonEnforcingNeverBlocks` | 3 pods, 6 annotation sets of 3 providers, up to 2 containers, any number of passes, every answer of the clouds |
| `precedence` | `ExplicitBeatsNative`, `NarrowerWins` | 2 keys, 3 spellings, 4 scopes |
| `serving` | `ComesBack` | 3 replicas, 4 crashes or evictions, 1 renewal, failure policy Fail |
| `isolation` | `ProvidersAreIsolated`, violated | 4 keys of 2 providers |
| `first_scope` | `FirstScopeThatSetsWins`, violated | 1 switch, 2 words |
| `first_parsed` | `FirstThatParsesWins`, violated | 1 key, 3 words |
| `resubmitted` | `WritersCanWrite`, violated | as `passes`, without the start |
| `rollout` | `OldPodsKeepCredentials`, violated | 1 review of each of 2 releases, 1 ConfigMap name |
| `certificate` | `AnsweredAfterRotation`, violated | 2 replicas, 1 renewal, no faults |

Why these bounds are enough. Handlers interact only through ConfigMaps, one name
at a time, and each upsert is one step, so two reviews and one name already have
every order of two applies, an interference by others and a verdict; the theorems
below cover the rest for all six properties of that run. The
walk looks at each reference once: two owners and two Deployments, with a kind it
skips in front of them, exercise every branch and every "next one" of the two
loops. Precedence compares scopes pairwise and all four scopes are there. A pass
depends on the pod through names alone, and three pods have missing, empty and
filled arrays, an own volume and a variable that cwii also sets; the number of
passes is not bounded, because passes reach a fixed point. The annotation sets have
writers, verifiers that enforce and that do not, and configurations of one provider
that differ in one variable. In `serving`, four faults take all three replicas at
once and one of them again, in any state, and a renewal falls before, between or
after them. `MaxContainers`, `MaxFaults` and `MaxRenewals` are the only bounds on
otherwise unbounded counters.

Which clusters are edited how is given by `EditAllowed`. `StandingOptIn` is about
edits that add an opt-in to a scope only while a narrower one has it, and remove it
from a scope only while a broader one has it. An opt-in that has left the Deployment
does not come back to it, though one on the ServiceAccount may be removed and added
again while the Deployment and the Namespace still have it; the pod's own annotations
are fixed when it is submitted. The handler reads narrow scopes first, and in the
other direction it can miss an opt-in, so that the order of the three reads in
`handle` matters. The ReplicaSet and the StatefulSet of `migration` come and go
freely: when the way to the Deployment disappears while the Deployment alone has the
opt-in, the cluster stops asking for it and nothing is owed. The condition is
`OptInsMoveBroader`; TLC confirms it for the clusters of the run (`MoveAssumption`).
`RequiredIdentity` is about the failure policy Fail; with the default, Ignore,
a timeout admits the pod without identities by design.
`EnforcedBeforeRunning`, `NonEnforcingNeverBlocks` and `VerifiedIsWhatRuns` are about
pods patched under one annotation set, any number of times: patches of different sets
are guarded by name and leave the older container in (`resubmitted` shows what that
leads to).

Deadlock is checked in every run but three, where the system may stop: a pod that
runs or has failed takes no further step (`passes`), and replicas that serve come to
rest once faults and renewals are used up (`serving`, `certificate`).

Fairness. `HandlerEnds` is checked under weak fairness of the steps of each
handler: the async runtime polls a task that was woken, and each call to the API
server gets a reply or fails. Nothing is assumed about users, other managers, the
delivery of answers or timeouts, and no step of a handler is required to succeed.
`NonEnforcingNeverBlocks` assumes that the kubelet runs the next init container and
starts the main ones; only `InitEnds(FALSE)` is fair, so that no cloud is assumed ever
to accept a token. `ComesBack` and `AnsweredAfterRotation` assume that controllers and
kubelets do their work (weak fairness of `ReplicaStep`, `Issue` and `Supersede`);
crashes, evictions and renewals are never forced, and never prevented within their
bounds.

## Findings

The six runs that expect a violation state a promise of the documentation or of a
comment that the code does not keep.

* `isolation`: an invalid `cwii.dev/gcp-delivery` denies the pod, and so decides
  about its AWS identity ("One provider never affects another", and in
  `docs/architecture.md` "Enabling GCP has no bearing on whether AWS or Azure are
  injected").
* `first_scope`: a switch with a value like `yes` is passed over, and a broader
  scope answers ("the first scope that sets a key wins for that key"). This is the
  weakest of the six: the heading of that rule says "explicit" and the comment of
  `first_explicit_bool` says that such values are skipped; only the sentence for the
  users does not.
* `first_parsed`: `first_i64` parses the first non-empty value only ("First value
  for `key` that parses as an `i64`").
* `resubmitted`: a pod mutated for ConfigMap delivery and submitted again under
  init-container delivery keeps its ConfigMap volume and gets a writer that cannot
  write there ("safe to re-run against an already-mutated pod").
* `rollout`: an upgrade that changes `--mount-root` lets a review of the new release
  replace the credentials under pods of the old one, because the name of a ConfigMap
  digests the audience and the account and not the path in its contents
  ("Already-running injected pods are not re-mutated", "the API server deduplicates by
  name + content").
* `certificate`: the certificate is read once. After a renewal every replica is ready
  and none is trusted, with the chart's default issuer at once, with any other when
  the old certificate expires ("Use cert-manager to issue and rotate the webhook
  certificate").

Two further disagreements have no run of their own. `docs/verification.md:187-188`
calls the verify containers of several providers independent, but init containers run
in sequence, so an enforcing verifier that fails keeps those after it from running at
all. `docs/install.md:135` and `:196` say that `helm upgrade` regenerates the
self-signed certificate, but `charts/cwii/templates/webhook-tls.yaml:17-21` looks up
the existing Secret and keeps it.

## Proofs

For all values of the constants, TLAPS proves:

| Module | Theorem | States |
|---|---|---|
| `AdmissionProofs` | `TypeCorrect` | `Spec => []TypeOK` |
| | `CredsInPlaceCorrect` | `Spec => []CredsInPlace` |
| | `WritesAreIntendedCorrect` | `Spec => WritesAreIntended` |
| | `ForeignKeptCorrect` | `Spec => ForeignKept` |
| `AdmissionRefinement` | `ContractImplemented` | `Spec => ImplementsContract` |
| `DecisionProofs` | `DecisionExactCorrect` | `Spec => []DecisionExact` |
| | `RequiredIdentityCorrect` | `Spec => []RequiredIdentity`, where `FailurePolicy = "Fail"` |
| | `StandingOptInCorrect` | `Spec => []StandingOptIn`, where `OptInsMoveBroader` |
| `AnnotatingProofs` | `NarrowerWinsCorrect` | `Spec => NarrowerWins` |
| | `ExplicitBeatsNativeCorrect` | `Spec => []ExplicitBeatsNative`, where switches decide |
| `InjectionProofs` | `NamesUniqueCorrect` | `Spec => []NamesUnique` |
| | `MarkerTruthfulCorrect` | `Spec => []MarkerTruthful` |
| | `EveryContainerInjectedCorrect` | `Spec => []EveryContainerInjected` |
| | `ContentKeptCorrect` | `Spec => ContentKept` |
| | `SecondPassNoOpCorrect` | `Spec => SecondPassNoOp` |
| | `ProvidersMeetAssumption` | `plan_of` of the three providers meets `PlansAssumption` |
| `StartupProofs` | `EnforcedBeforeRunningCorrect` | `StartupSpec => []EnforcedBeforeRunning`, where `RepositoryProviders` |
| | `VerifiedIsWhatRunsCorrect` | `StartupSpec => []VerifiedIsWhatRuns`, where `RepositoryProviders` |
| | `FilesProvidedCorrect` | `StartupSpec => []FilesProvided`, where `RepositoryProviders` |

The assumptions about the handler are those `Admission` and `Resolve` name: the maps,
objects and pods fit together; a provider's outcome has one of three forms and at most
one ConfigMap; and **ConfigMaps of one name have one contents**, which is what the
digest in the name is for. That last one holds for one mount root and without
collisions of the 48 bits that are kept of the digest; `rollout` shows what happens
where it does not. TLC evaluates every assumption for the real providers in each run
of `MCAdmission`.

The assumptions about passes are named in `Injection` and `Startup`, and TLC evaluates
them in the runs of `MCInjection` and `MCStartup`. `UsersAssumption`: users submit
pods and add sidecars that have their shape and no name twice, with a marker that is
true. `PlansAssumption`: a plan has no name twice, shares none with another
provider's, has the token volume of its provider alone, and init containers of order 0
or 10; `ProvidersMeetAssumption` proves that of the three providers for all
annotations. `UserNamesAssumption` and
`UserPathsAssumption`: names and paths of cwii are not used by users, which the
prefix of the names and the mount root are for. `RepositoryProviders`, the hypothesis
of the theorems on the start of pods, says that the registry consists of the three
providers of the repository, in any order and with any configuration: what a path
leads to depends on the plans they make.

*The invariant of the handler.* The theorems of `AdmissionProofs` follow from one
inductive invariant `IInv`, with four parts. `TypeOK` is
not inductive, because the upsert a handler makes has its type only if it belongs
to an injected provider. `HandlerInv` adds that: a handler that awaits an upsert
has upserts to do, all planned for its annotation set, in a review that is no dry
run and that no provider denies; and a handler that runs has not answered.
`CredsSoFar` says of each upsert that it is still to do or in place; it survives
the applies of other handlers because equal names have equal contents, and foreign
writes because `drift` records them. `AbsentUnmanaged` (a ConfigMap that does not
exist has no managers) is what the absence of conflicts with foreign managers
rests on. There is one lemma per action. The lemmas about the owner walk show that
every GET is of an object that a reference names; they rest on `MinInSet`, the
fact that a non-empty set of naturals has a minimum.

*The refinement.* Each action of Admission maps to one of the contract or to a
stutter: `ReceiveOpens`, `ReadsHidden`, `DecideDecides`, `UpsertWrites`, `EndWrites`,
`EndGivesUp`, `VerdictJudges`, `ForeignInterferes`. The step that needs the invariant
is the last upsert: that it may answer at once, as the contract allows only when
nothing is missing, is `CredsSoFar`. `AnsweredInv` (a review is answered exactly when
its handler has ended with an answer) makes the status a function of the state.

*The decision.* `DecisionExact` needs `ExactInv`: what was read without an edit is what
the cluster holds, scope by scope as far as the handler has come, and a walk in
progress is where no existing workload comes before (`Walking`). `WalkReplyExact`
shows that every reply keeps that promise, so that the walk ends with what
`OwnerAnnotations` finds on the snapshot; an edit ends the quiet period and with it
the obligation. `RequiredIdentity` adds only that a verdict "admitted" rests on an
answer "skip" or "patch".

*The standing opt-in.* `StandingOptIn` is about reads at different times, in a cluster
that is edited between them, so that no snapshot helps. `MovingInv` says instead what
becomes of an opt-in that stands: a scope that has been read has it, or a scope still
to be read has it now (`AwaitedBy`), and if that scope is the owner's, the walk in
progress leads to that owner (`Walking`). An edit may take the opt-in from a scope
ahead only while a broader one has it, and a broader one is further ahead; that is
where the order of the reads is needed. `OptInsMoveBroader` also keeps the owner that
counts in its place while the opt-in is the owner's alone (`SameOwner`), because the
walk has passed the references before it. The clusters are a parameter of the theorem,
and so are the maps that opt in.

*Precedence.* `FirstBoolIs` and `SomeBoolDecides` say what the loop of
`first_explicit_bool` returns; both theorems are about the scope that decides.
`ProvidersSwitch` shows that the three real providers meet the hypothesis of
`ExplicitBeatsNativeCorrect`.

*Lists.* `ListProofs` has what the passes are built from. A vector is a sequence of
its own elements (`IsVec`). What a recursive function over a list returns is said by
the positions its items come from: `Traces` for `Filtered`, `Locates` for
`FlattenSeq`. Both follow by unfolding the function from one position to the next
(`Unfolding`), by induction over the positions as a set (`SetInduction`). `ExtendedIs`
says what adding the missing items (`Missing`, `add_array`, `AddTo`) makes of an array:
it keeps what it had where it was, has every wanted name, and no name twice. Sorting
init containers keeps all of them (`SortIs`) and puts writers first (`WritersFirst`).

*The passes.* `InjInv` is inductive: the pod has its shape, unique names and a true
marker, and while nothing has happened since the last pass it is complete for that
pass's annotations. The shape is needed because `add_array` must find in the pod's
array what the API server will find there. The completeness makes `Missing` empty for
every array of a second pass, which is `SecondPassNoOp`; `EveryContainerInjected` is
part of it. `PassKeeps` is the lemma about one pass; sidecars and edits of annotations
end the completeness and disturb nothing else.

*The start of pods.* `StartInv` adds that the items of the pod are the user's or come
from the plans of the sets it was reviewed under, that all init containers of such a
set are there, and that an enforced verifier that has ended has been verified. The
first two are what the prefix of ended containers is compared with; without them
nothing relates the container called `<p>-verify` in the pod to the annotations that
ask for it. `FilesProvided` needs `FilesInv` as well, about pods patched under any
sets: a path variable of cwii's comes with its mount and the mount with its volume,
which passes add under one guard by name each but never one without the other
(`PathsMounted`, `InitsMounted`); and where the pod has cwii's `emptyDir`, the
container that fills it comes before every verifier that mounts it, though they may
have been added by different passes (`WriterFirst`).

Only model-checked: liveness (`HandlerEnds`, `NonEnforcingNeverBlocks`, `ComesBack`),
which is out of reach of the prover. Every safety property of a passing run is a
theorem. What the expected violations show is on instances, as it must be.

## Not modelled

Metrics and traces (nothing reads them); the rendering of JSON, names and
credentials; images, resources and security contexts; responses that cannot be
serialised, which `build` never produces; parsing of the command line, which ends the
process when it fails; permissions of the ServiceAccount, whose
lack is an `UpsertFails`; several namespaces, which share nothing a handler writes;
mount paths that users choose; the marker a user sets in a manifest; garbage of
ConfigMaps, which the code never collects; the self-signed fallback, the disruption
budget and the network policy of the chart; cert-manager's own pods, which may need
the webhook where its namespace is not excluded.

## Plan

Done: resolution, plans, providers, owner walk, handler, patches, pod start, serving,
upgrades, the contract of the handler, and the theorems above. What would add most:

1. Permissions as the chart grants them, with pods that ask for ConfigMap delivery
   where only init-container delivery is set up.
2. Mount paths of users, and which patched pods the API server rejects for them.
3. `StandingOptIn` for providers whose settings are spread over several scopes: an
   opt-in is one map now, which holds all a provider needs.
