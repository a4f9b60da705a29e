---------------------------- MODULE StartupProofs ---------------------------
(***************************************************************************)
(* Theorems of Startup: an enforced check stands before every start of a   *)
(* pod, what a check was run with is what the main containers run with,    *)
(* and every path handed out leads to a file that is there when it is      *)
(* read; for the providers of the repository and for all pods, sidecars    *)
(* and annotation sets.                                                    *)
(***************************************************************************)
EXTENDS Startup, InjectionProofs

\* The registry holds providers of the repository (config.rs:119-152).
RepositoryProviders ==
  /\ ToSet(ProviderOrder) \subseteq Clouds
  /\ \A p \in ToSet(ProviderOrder), a \in AnnotationSetsOffered : PlanFor(p, a) = plan_of(p, a)

-----------------------------------------------------------------------------
(* The verify container of a plan.                                         *)

\* The container <p>-verify asks for, with the plan's own variables and mounts.
VerifierOf(p, a, plan) ==
  verify_init_container(p, UnwrapOr(first_explicit_bool(a, verify_enforce_key(p)), FALSE),
                        plan.container_env, plan.container_mounts)
AsksToVerify(p, a) == UnwrapOr(first_explicit_bool(a, verify_key(p)), FALSE)

\* AwsProvider::plan has the verify container the annotations ask for
\* (aws lib.rs:109-131).
LEMMA AwsVerifies ==
  ASSUME NEW a, aws_plan(a).status = "planned", AsksToVerify("aws", a)
  PROVE  VerifierOf("aws", a, aws_plan(a).plan) \in ToSet(aws_plan(a).plan.init_containers)
<1>1. aws_plan(a).plan.init_containers = <<VerifierOf("aws", a, aws_plan(a).plan)>>
  BY DEF aws_plan, Unconfigured, Planned, ProviderPlan, Verifier, AsksToVerify, VerifierOf
<1> QED BY <1>1 DEF ToSet

\* AzProvider::plan has it (az lib.rs:108-134).
LEMMA AzVerifies ==
  ASSUME NEW a, az_plan(a).status = "planned", AsksToVerify("az", a)
  PROVE  VerifierOf("az", a, az_plan(a).plan) \in ToSet(az_plan(a).plan.init_containers)
<1>1. az_plan(a).plan.init_containers = <<VerifierOf("az", a, az_plan(a).plan)>>
  BY DEF az_plan, Unconfigured, Planned, ProviderPlan, Verifier, AsksToVerify, VerifierOf
<1> QED BY <1>1 DEF ToSet

\* GcpProvider::plan has it, after the writer if there is one
\* (gcp lib.rs:197-226).
LEMMA GcpVerifies ==
  ASSUME NEW a, gcp_plan(a).status = "planned", AsksToVerify("gcp", a)
  PROVE  VerifierOf("gcp", a, gcp_plan(a).plan) \in ToSet(gcp_plan(a).plan.init_containers)
<1> DEFINE plan == gcp_plan(a).plan
           c == VerifierOf("gcp", a, plan)
<1>1. \/ plan.init_containers = <<c>>
      \/ \E w : plan.init_containers = <<w>> \o <<c>>
  BY DEF gcp_plan, Unconfigured, Invalid, Planned, ProviderPlan, Verifier, AsksToVerify, VerifierOf
<1> HIDE DEF plan, c
<1>2. c \in ToSet(<<c>>)
  BY DEF ToSet
<1>3. ASSUME NEW w PROVE c \in ToSet(<<w>> \o <<c>>)
  <2>1. <<w>> \in Seq({w}) /\ <<c>> \in Seq({c})
    OBVIOUS
  <2>2. ToSet(<<w>> \o <<c>>) = ToSet(<<w>>) \union ToSet(<<c>>)
    BY <2>1, VecIs, VecJoin
  <2> QED BY <1>2, <2>2
<1> QED BY <1>1, <1>2, <1>3 DEF plan, c

\* So has every plan of the registry.
LEMMA PlanVerifies ==
  ASSUME RepositoryProviders, NEW a \in AnnotationSetsOffered, NEW k \in Injected(a),
         AsksToVerify(ProviderOrder[k], a)
  PROVE  VerifierOf(ProviderOrder[k], a, Outcome(k, a).plan)
           \in ToSet(Outcome(k, a).plan.init_containers)
<1>1. k \in DOMAIN ProviderOrder /\ Outcome(k, a).status = "planned"
  BY DEF Injected, Consulted
<1>2. ProviderOrder[k] \in ToSet(ProviderOrder)
  BY <1>1 DEF ToSet
<1>3. ProviderOrder[k] \in Clouds /\ Outcome(k, a) = plan_of(ProviderOrder[k], a)
  BY <1>2 DEF RepositoryProviders, Outcome
<1>4. ASSUME NEW p \in Clouds, plan_of(p, a).status = "planned", AsksToVerify(p, a)
      PROVE  VerifierOf(p, a, plan_of(p, a).plan) \in ToSet(plan_of(p, a).plan.init_containers)
  <2>1. /\ plan_of("aws", a) = aws_plan(a) /\ plan_of("az", a) = az_plan(a)
        /\ plan_of("gcp", a) = gcp_plan(a)
    BY DEF plan_of
  <2>2. CASE p = "aws"
    BY <1>4, <2>1, <2>2, AwsVerifies
  <2>3. CASE p = "az"
    BY <1>4, <2>1, <2>3, AzVerifies
  <2>4. CASE p = "gcp"
    BY <1>4, <2>1, <2>4, GcpVerifies
  <2> QED BY <2>2, <2>3, <2>4 DEF Clouds
<1> HIDE DEF Clouds
<1> QED BY <1>1, <1>3, <1>4

-----------------------------------------------------------------------------
(* Where the contents of a pod come from.                                  *)

\* All that is in a pod was put there by users, or is asked for under one of
\* the annotation sets.
FromSets(q, sets) ==
  /\ Elements(q.volumes)
       \subseteq UserVolumes \union UNION {Wanted(a, "volumes") : a \in sets}
  /\ Elements(q.init_containers)
       \subseteq UserInits \union UNION {Wanted(a, "init_containers") : a \in sets}
  /\ \A i \in DOMAIN q.containers :
       /\ Elements(q.containers[i].env)
            \subseteq UserVariables \union UNION {Wanted(a, "container_env") : a \in sets}
       /\ Elements(q.containers[i].volume_mounts)
            \subseteq UserMounts \union UNION {Wanted(a, "container_mounts") : a \in sets}

\* A pass brings only what its annotation set asks for (patch.rs:22-109).
LEMMA PassBrings ==
  ASSUME NEW q, PodShape(q), NEW a \in AnnotationSetsOffered
  PROVE  LET new == PassOver(q, a)
         IN  /\ Elements(new.volumes) \subseteq Elements(q.volumes) \union Wanted(a, "volumes")
             /\ Elements(new.init_containers)
                  \subseteq Elements(q.init_containers) \union Wanted(a, "init_containers")
             /\ DOMAIN new.containers = DOMAIN q.containers
             /\ \A i \in DOMAIN q.containers :
                  /\ Elements(new.containers[i].env)
                       \subseteq Elements(q.containers[i].env) \union Wanted(a, "container_env")
                  /\ Elements(new.containers[i].volume_mounts)
                       \subseteq Elements(q.containers[i].volume_mounts)
                                   \union Wanted(a, "container_mounts")
<1> DEFINE m == merge(Plans(a))
           new == PassOver(q, a)
<1>1. /\ new.volumes = Extended(q.volumes, m.volumes)
      /\ new.init_containers = Extended(q.init_containers, m.init_containers)
      /\ DOMAIN new.containers = DOMAIN q.containers
      /\ \A i \in DOMAIN q.containers :
           /\ new.containers[i].volume_mounts
                = Extended(q.containers[i].volume_mounts, m.container_mounts)
           /\ new.containers[i].env = Extended(q.containers[i].env, m.container_env)
  BY PassIs
<1>2. \A part \in NamedParts : IsVec(m[part]) /\ ToSet(m[part]) = Wanted(a, part)
  BY MergedHas
<1>3. /\ IsVecOption(q.volumes) /\ IsVecOption(q.init_containers)
      /\ \A i \in DOMAIN q.containers :
           IsVecOption(q.containers[i].volume_mounts) /\ IsVecOption(q.containers[i].env)
  BY DEF PodShape, ContainerShape
<1> HIDE DEF m, new
<1>4. ASSUME NEW list, IsVecOption(list), NEW part \in NamedParts
      PROVE  Elements(Extended(list, m[part])) \subseteq Elements(list) \union Wanted(a, part)
  <2>1. Elements(Extended(list, m[part])) = Elements(list) \union
          {x \in ToSet(m[part]) : x.name \notin names(list)}
    BY <1>2, <1>4, ExtendedIs
  <2> QED BY <1>2, <2>1
<1>5. "volumes" \in NamedParts /\ "init_containers" \in NamedParts
      /\ "container_env" \in NamedParts /\ "container_mounts" \in NamedParts
  BY DEF NamedParts
<1> QED BY <1>1, <1>3, <1>4, <1>5 DEF new

\* What a plan asks for, by name: at most one item has it.
LEMMA WantedUnique ==
  ASSUME NEW a \in AnnotationSetsOffered, NEW part \in NamedParts,
         NEW x \in Wanted(a, part), NEW y \in Wanted(a, part), x.name = y.name
  PROVE  x = y
<1>1. ToSet(PartOf(a, part)) = Wanted(a, part) /\ UniqueIn(PartOf(a, part))
  BY PartIs
<1> QED BY <1>1 DEF ToSet, UniqueIn

-----------------------------------------------------------------------------
(* The inductive invariant.                                                *)

\* Every enforcing verify container that has ended well has succeeded.
EndedVerified ==
  \A i \in 1 .. ended :
    LET c == InitContainers[i]
    IN  c.role = "verify" /\ c.enforce = TRUE => c.name \in verified

\* A pod patched under one set has the init containers of that set.
ReviewedInits ==
  \A a \in reviewed : reviewed = {a} =>
    NamesIn(merge(Plans(a)).init_containers) \subseteq names(pod.init_containers)

PhaseInv ==
  /\ ended \in 0 .. Len(InitContainers)
  /\ phase = "admission" => ended = 0
  /\ phase = "running" => ended = Len(InitContainers)

StartInv ==
  /\ InjInv
  /\ reviewed \subseteq AnnotationSetsOffered
  /\ FromSets(pod, reviewed)
  /\ ReviewedInits
  /\ PhaseInv
  /\ EndedVerified

\* A pod is submitted before anything of cwii is in it and before anything has run.
LEMMA InitStart == StartupInit => StartInv
<1> SUFFICES ASSUME StartupInit PROVE StartInv
  OBVIOUS
<1>1. Init /\ phase = "admission" /\ ended = 0 /\ verified = {} /\ reviewed = {}
  BY DEF StartupInit
<1>2. InjInv
  BY <1>1, InitInj
<1>3. FromSets(pod, reviewed)
  <2>1. pod \in InitialPods
    BY <1>1 DEF Init
  <2>2. Elements(pod.init_containers) \subseteq UserInits /\ Elements(pod.volumes) \subseteq UserVolumes
    BY <2>1 DEF UserInits, UserVolumes
  <2>3. \A i \in DOMAIN pod.containers : pod.containers[i] \in UserContainers
    BY <2>1 DEF UserContainers, ToSet
  <2>4. \A c \in UserContainers :
          Elements(c.env) \subseteq UserVariables /\ Elements(c.volume_mounts) \subseteq UserMounts
    BY DEF UserVariables, UserMounts
  <2> HIDE DEF UserContainers
  <2> QED BY <2>2, <2>3, <2>4 DEF FromSets
<1>4. Len(InitContainers) \in Nat
  BY <1>2, ItemsAre, VecFacts DEF InjInv, PodShape, InitContainers
<1>5. PhaseInv
  BY <1>1, <1>4 DEF PhaseInv
<1>6. EndedVerified /\ ReviewedInits
  BY <1>1 DEF EndedVerified, ReviewedInits
<1> QED BY <1>1, <1>2, <1>3, <1>5, <1>6 DEF StartInv

\* A pass before the pod is stored (admission.rs:97-196).
LEMMA ReviewStart ==
  ASSUME StartInv, Review
  PROVE  StartInv'
<1>1. /\ phase = "admission" /\ phase' = phase /\ ended' = ended /\ ended = 0
      /\ verified' = verified
  BY DEF Review, StartInv, PhaseInv
<1>2. Next
  BY DEF Review, Next
<1>3. InjInv'
  BY <1>2, NextInj DEF StartInv
<1>4. Len(InitContainers') \in Nat
  BY <1>3, ItemsAre, VecFacts DEF InjInv, PodShape, InitContainers
<1>5. PhaseInv' /\ EndedVerified'
  BY <1>1, <1>4 DEF PhaseInv, EndedVerified
<1>6. CASE Mutate
  <2>0. InjInv /\ PodShape(pod) /\ annos \in AnnotationSetsOffered
    BY DEF StartInv, InjInv
  <2>1. /\ pod' = PassOver(pod, annos) /\ annos' = annos /\ settled' = {annos}
        /\ PodComplete(pod', annos)
    BY <1>6, <2>0, MutateInj DEF Mutate, InjInv
  <2>2. reviewed' = IF reviewed \subseteq {annos} THEN {annos} ELSE AnnotationSetsOffered
    <3>1. ~ (AddSidecar \/ Reannotate)
      BY <2>1 DEF AddSidecar, Reannotate
    <3> QED BY <3>1 DEF Review
  <2>3. reviewed' \subseteq AnnotationSetsOffered /\ reviewed \union {annos} \subseteq reviewed'
    BY <2>0, <2>2 DEF StartInv
  <2>4. FromSets(pod', reviewed')
    <3>1. FromSets(pod, reviewed')
      BY <2>3 DEF StartInv, FromSets
    <3>2. \A part : Wanted(annos, part) \subseteq UNION {Wanted(a, part) : a \in reviewed'}
      <4> HIDE DEF Wanted
      <4> QED BY <2>3
    <3> DEFINE new == PassOver(pod, annos)
    <3>3. /\ Elements(new.volumes) \subseteq Elements(pod.volumes) \union Wanted(annos, "volumes")
          /\ Elements(new.init_containers)
               \subseteq Elements(pod.init_containers) \union Wanted(annos, "init_containers")
          /\ DOMAIN new.containers = DOMAIN pod.containers
          /\ \A i \in DOMAIN pod.containers :
               /\ Elements(new.containers[i].env)
                    \subseteq Elements(pod.containers[i].env) \union Wanted(annos, "container_env")
               /\ Elements(new.containers[i].volume_mounts)
                    \subseteq Elements(pod.containers[i].volume_mounts)
                                \union Wanted(annos, "container_mounts")
      BY <2>0, PassBrings
    <3> HIDE DEF new, Wanted, Elements
    <3>4. FromSets(new, reviewed')
      BY <3>1, <3>2, <3>3 DEF FromSets
    <3> QED BY <2>1, <3>4 DEF new
  <2>5. ReviewedInits'
    <3> SUFFICES ASSUME NEW a \in reviewed', reviewed' = {a}
                 PROVE  NamesIn(merge(Plans(a)).init_containers) \subseteq names(pod'.init_containers)
      BY DEF ReviewedInits
    <3>1. a = annos
      BY <2>3
    <3> QED BY <2>1, <3>1 DEF PodComplete
  <2> QED BY <1>3, <1>5, <2>3, <2>4, <2>5 DEF StartInv
<1>7. CASE (AddSidecar \/ Reannotate) /\ UNCHANGED reviewed
  <2>1. \/ pod' = pod
        \/ \E c \in Sidecars : pod' = [pod EXCEPT !.containers = Append(@, c)]
    BY <1>7 DEF AddSidecar, Reannotate
  <2>2. FromSets(pod, reviewed) /\ ReviewedInits /\ PodShape(pod)
    BY DEF StartInv, InjInv
  <2>3. CASE pod' = pod
    BY <1>3, <1>5, <1>7, <2>2, <2>3 DEF StartInv, ReviewedInits
  <2>4. ASSUME NEW c \in Sidecars, pod' = [pod EXCEPT !.containers = Append(@, c)]
        PROVE  StartInv'
    <3> DEFINE s == pod.containers
               t == Append(s, c)
    <3>1. /\ pod = [volumes |-> pod.volumes, init_containers |-> pod.init_containers,
                    containers |-> s, annotated |-> pod.annotated, marker |-> pod.marker]
          /\ s \in Seq(ToSet(s))
      BY <2>2 DEF PodShape, IsVec
    <3>2. pod'.containers = t /\ pod'.init_containers = pod.init_containers
          /\ pod'.volumes = pod.volumes
      BY <2>4, <3>1
    <3>3. DOMAIN t = 1 .. Len(s) + 1 /\ Len(s) \in Nat /\ DOMAIN s = 1 .. Len(s)
          /\ t[Len(s) + 1] = c /\ \A i \in DOMAIN s : t[i] = s[i]
      BY <3>1
    <3>4. \A i \in DOMAIN t : (i \in DOMAIN s /\ t[i] = s[i]) \/ t[i] = c
      BY <3>3
    <3> HIDE DEF t
    <3>5. Elements(c.env) \subseteq UserVariables /\ Elements(c.volume_mounts) \subseteq UserMounts
      BY DEF UserVariables, UserMounts, UserContainers
    <3>6. FromSets(pod', reviewed')
      <4> HIDE DEF Elements, Wanted, UserVariables, UserMounts
      <4> QED BY <1>7, <2>2, <3>2, <3>4, <3>5 DEF FromSets
    <3>7. ReviewedInits'
      BY <1>7, <2>2, <3>2 DEF ReviewedInits
    <3> QED BY <1>3, <1>5, <1>7, <3>6, <3>7 DEF StartInv
  <2> QED BY <2>1, <2>3, <2>4
<1> QED BY <1>6, <1>7 DEF Review

\* The pod is stored, runs its init containers, and starts (the kubelet).
LEMMA KubeletStart ==
  ASSUME StartInv, UNCHANGED <<vars, reviewed>>, PhaseInv', EndedVerified'
  PROVE  StartInv'
BY DEF StartInv, InjInv, NamesUnique, MarkerTruthful, FromSets, ReviewedInits, vars

\* An enforced verify container that ends well has made its check
\* (plan.rs:220-246); the kubelet goes through them in their order.
LEMMA InitEndsStart ==
  ASSUME StartInv, NEW accepted \in BOOLEAN, InitEnds(accepted)
  PROVE  StartInv'
<1> DEFINE n == Len(InitContainers)
           c == InitContainers[ended + 1]
<1>1. /\ phase = "init" /\ ended < n /\ ExitsZero(c, accepted)
      /\ verified' = verified \union
           {d.name : d \in {d \in {c} : d.role = "verify" /\ Check(d, accepted)}}
      /\ ended' = ended + 1 /\ UNCHANGED <<vars, phase, reviewed>>
  BY DEF InitEnds
<1>2. n \in Nat /\ ended \in 0 .. n
  BY ItemsAre, VecFacts DEF StartInv, PhaseInv, InjInv, PodShape, InitContainers
<1>3. InitContainers' = InitContainers
  BY <1>1 DEF InitContainers, vars
<1>4. PhaseInv'
  BY <1>1, <1>2, <1>3 DEF PhaseInv
<1>5. c.role = "verify" /\ c.enforce = TRUE => c.name \in verified'
  <2>1. c.role = "verify" => c.role # "write"
    OBVIOUS
  <2>2. c.role = "verify" /\ c.enforce = TRUE => Check(c, accepted)
    BY <1>1, <2>1 DEF ExitsZero
  <2> QED BY <1>1, <2>2
<1>6. EndedVerified'
  <2> SUFFICES ASSUME NEW i \in 1 .. ended + 1
               PROVE  InitContainers[i].role = "verify" /\ InitContainers[i].enforce = TRUE
                        => InitContainers[i].name \in verified'
    BY <1>1, <1>3 DEF EndedVerified
  <2>1. i \in 1 .. ended \/ i = ended + 1
    BY <1>2
  <2>2. verified \subseteq verified'
    BY <1>1
  <2> HIDE DEF c
  <2> QED BY <1>5, <2>1, <2>2 DEF StartInv, EndedVerified, c
<1> QED BY <1>1, <1>4, <1>6, KubeletStart

\* Passes, other webhooks and the kubelet keep the invariant.
LEMMA StartNext == StartInv /\ [StartupNext]_startupVars => StartInv'
<1> SUFFICES ASSUME StartInv, [StartupNext]_startupVars PROVE StartInv'
  OBVIOUS
<1>1. CASE Review
  BY <1>1, ReviewStart
<1>2. CASE Bind
  <2>1. PhaseInv' /\ EndedVerified'
    BY <1>2 DEF Bind, StartInv, PhaseInv, EndedVerified, InitContainers, vars
  <2> QED BY <1>2, <2>1, KubeletStart DEF Bind
<1>3. CASE StartMain
  <2>1. PhaseInv' /\ EndedVerified'
    BY <1>3 DEF StartMain, StartInv, PhaseInv, EndedVerified, InitContainers, vars
  <2> QED BY <1>3, <2>1, KubeletStart DEF StartMain
<1>4. ASSUME NEW accepted \in BOOLEAN, InitEnds(accepted) PROVE StartInv'
  BY <1>4, InitEndsStart
<1>5. ASSUME NEW accepted \in BOOLEAN, InitFails(accepted) PROVE StartInv'
  <2>1. PhaseInv' /\ EndedVerified'
    BY <1>5 DEF InitFails, StartInv, PhaseInv, EndedVerified, InitContainers, vars
  <2> QED BY <1>5, <2>1, KubeletStart DEF InitFails
<1>6. CASE UNCHANGED startupVars
  <2>1. PhaseInv' /\ EndedVerified'
    BY <1>6 DEF startupVars, StartInv, PhaseInv, EndedVerified, InitContainers, vars
  <2> QED BY <1>6, <2>1, KubeletStart DEF startupVars
<1> QED BY <1>1, <1>2, <1>3, <1>4, <1>5, <1>6 DEF StartupNext

\* Every init container that has ended was checked if it is enforced, whatever
\* happens before and after the pod is bound.
LEMMA StartInvariant == StartupSpec => []StartInv
BY InitStart, StartNext, PTL DEF StartupSpec

-----------------------------------------------------------------------------
(* Theorems.                                                               *)

\* The verify container of a provider, in a pod patched under one set: it is the
\* one the plan asks for.
LEMMA VerifierInPod ==
  ASSUME RepositoryProviders, StartInv, NEW a \in reviewed, reviewed = {a}, NEW k \in Verified(a)
  PROVE  \E i \in 1 .. Len(InitContainers) :
           InitContainers[i] = VerifierOf(ProviderOrder[k], a, Outcome(k, a).plan)
<1> DEFINE c == VerifierOf(ProviderOrder[k], a, Outcome(k, a).plan)
<1>1. a \in AnnotationSetsOffered /\ k \in Injected(a) /\ AsksToVerify(ProviderOrder[k], a)
  BY DEF StartInv, Verified, AsksToVerify
<1>2. c \in ToSet(Outcome(k, a).plan.init_containers)
  BY <1>1, PlanVerifies
<1> HIDE DEF c
<1>3. c \in Wanted(a, "init_containers")
  BY <1>1, <1>2 DEF Wanted
<1>4. ToSet(merge(Plans(a)).init_containers) = Wanted(a, "init_containers")
  BY <1>1, MergedHas DEF NamedParts
<1>5. c.name \in names(pod.init_containers)
  BY <1>3, <1>4 DEF StartInv, ReviewedInits, NamesIn, ToSet
<1>6. IsVec(InitContainers) /\ InitContainers = Items(pod.init_containers)
  BY ItemsAre DEF StartInv, InjInv, PodShape, InitContainers
<1>7. PICK i \in 1 .. Len(InitContainers) : InitContainers[i].name = c.name
  BY <1>5, <1>6, VecFacts DEF names
<1> DEFINE x == InitContainers[i]
<1>8. x \in Elements(pod.init_containers)
  BY <1>6, VecFacts DEF Elements
<1>9. x \notin UserInits
  BY <1>1, <1>2, <1>7, UserNamesAssumption
<1>10. x \in Wanted(a, "init_containers")
  <2> HIDE DEF x, Wanted
  <2>1. Elements(pod.init_containers) \subseteq UserInits
          \union UNION {Wanted(b, "init_containers") : b \in reviewed}
    BY DEF StartInv, FromSets
  <2> QED BY <1>8, <1>9, <2>1
<1>11. x = c
  BY <1>1, <1>3, <1>7, <1>10, WantedUnique DEF NamedParts
<1> QED BY <1>11 DEF c

\* A switch with a default is a Boolean (resolve.rs:52-65).
LEMMA SwitchIsBoolean ==
  ASSUME NEW a, NEW key
  PROVE  UnwrapOr(first_explicit_bool(a, key), FALSE) \in BOOLEAN
<1>1. CASE first_explicit_bool(a, key) = {}
  BY <1>1 DEF UnwrapOr
<1>2. CASE first_explicit_bool(a, key) # {}
  <2>1. PICK b \in BOOLEAN : first_explicit_bool(a, key) = {b}
    BY <1>2 DEF first_explicit_bool
  <2>2. UnwrapOr({b}, FALSE) = b
    BY DEF UnwrapOr
  <2> QED BY <2>1, <2>2
<1> QED BY <1>1, <1>2

\* What verify_init_container makes of its arguments (plan.rs:220-246).
LEMMA VerifierFields ==
  \A p, a, plan :
    /\ VerifierOf(p, a, plan).role = "verify"
    /\ VerifierOf(p, a, plan).name = <<p, "verify">>
    /\ VerifierOf(p, a, plan).env = plan.container_env
    /\ VerifierOf(p, a, plan).mounts = plan.container_mounts
BY DEF VerifierOf, verify_init_container, InitContainer

\* It enforces exactly if the annotations say so.
LEMMA VerifierEnforces ==
  \A p, a, plan : VerifierOf(p, a, plan).enforce
                    = UnwrapOr(first_explicit_bool(a, verify_enforce_key(p)), FALSE)
BY DEF VerifierOf, verify_init_container, InitContainer

\* No main container of a pod starts before every enforced check has succeeded
\* (docs/verification.md:90-94, plan.rs:216-219).
THEOREM EnforcedBeforeRunningCorrect ==
  ASSUME RepositoryProviders
  PROVE  StartupSpec => []EnforcedBeforeRunning
<1>1. ASSUME StartInv PROVE EnforcedBeforeRunning
  <2> SUFFICES ASSUME phase = "running", NEW a \in reviewed, reviewed = {a}, NEW k \in Enforced(a)
               PROVE  <<ProviderOrder[k], "verify">> \in verified
    BY DEF EnforcedBeforeRunning
  <2>1. k \in Verified(a)
        /\ UnwrapOr(first_explicit_bool(a, verify_enforce_key(ProviderOrder[k])), FALSE)
    BY DEF Enforced
  <2>2. PICK i \in 1 .. Len(InitContainers) :
          InitContainers[i] = VerifierOf(ProviderOrder[k], a, Outcome(k, a).plan)
    BY <1>1, <2>1, VerifierInPod
  <2>3. /\ InitContainers[i].role = "verify"
        /\ InitContainers[i].name = <<ProviderOrder[k], "verify">>
        /\ InitContainers[i].enforce = TRUE
    <3> DEFINE enforce == UnwrapOr(first_explicit_bool(a, verify_enforce_key(ProviderOrder[k])), FALSE)
    <3>1. enforce = TRUE
      BY <2>1, SwitchIsBoolean
    <3> DEFINE c == VerifierOf(ProviderOrder[k], a, Outcome(k, a).plan)
    <3>2. c.role = "verify" /\ c.name = <<ProviderOrder[k], "verify">> /\ c.enforce = enforce
      BY VerifierFields, VerifierEnforces
    <3> HIDE DEF enforce, c
    <3>3. InitContainers[i] = c
      BY <2>2 DEF c
    <3> QED BY <3>1, <3>2, <3>3
  <2>4. ended = Len(InitContainers)
    BY <1>1 DEF StartInv, PhaseInv
  <2> QED BY <1>1, <2>3, <2>4 DEF StartInv, EndedVerified
<1> QED BY <1>1, StartInvariant, PTL

\* What a provider's plan asks of a container, in a pod patched under its set:
\* an item with a wanted name that users did not bring is the wanted one.
LEMMA WantedInContainer ==
  ASSUME NEW a \in AnnotationSetsOffered, NEW part \in NamedParts, NEW k \in Injected(a),
         NEW items, NEW users, items \subseteq users \union Wanted(a, part),
         NEW w \in ToSet(Outcome(k, a).plan[part]), NEW x \in items, x.name = w.name,
         x \notin users
  PROVE  x = w
<1>1. w \in Wanted(a, part) /\ x \in Wanted(a, part)
  BY DEF Wanted
<1> QED BY <1>1, WantedUnique

\* What a check was run with is what every main container runs with that left
\* the provider's variables to cwii (docs/verification.md:133-135).
THEOREM VerifiedIsWhatRunsCorrect ==
  ASSUME RepositoryProviders
  PROVE  StartupSpec => []VerifiedIsWhatRuns
<1>1. ASSUME StartInv PROVE VerifiedIsWhatRuns
  <2> SUFFICES ASSUME NEW a \in reviewed, reviewed = {a}, settled = {a}, NEW k \in Verified(a)
               PROVE  \E c \in Elements(pod.init_containers) :
                 /\ c.name = <<ProviderOrder[k], "verify">>
                 /\ \A i \in DOMAIN pod.containers :
                      LET env == {e \in Elements(pod.containers[i].env) :
                                    \E w \in ToSet(Outcome(k, a).plan.container_env) : w.name = e.name}
                      IN  env \intersect UserVariables = {} =>
                            /\ env = ToSet(c.env)
                            /\ ToSet(c.mounts) \subseteq Elements(pod.containers[i].volume_mounts)
    BY DEF VerifiedIsWhatRuns
  <2> DEFINE plan == Outcome(k, a).plan
             c == VerifierOf(ProviderOrder[k], a, plan)
  <2>1. PICK n \in 1 .. Len(InitContainers) : InitContainers[n] = c
    BY <1>1, VerifierInPod
  <2>2. c \in Elements(pod.init_containers)
    <3>1. IsVec(Items(pod.init_containers))
      BY <1>1, ItemsAre DEF StartInv, InjInv, PodShape
    <3> QED BY <2>1, <3>1, VecFacts DEF InitContainers, Elements
  <2>3. /\ c.name = <<ProviderOrder[k], "verify">>
        /\ c.env = plan.container_env /\ c.mounts = plan.container_mounts
    BY VerifierFields
  <2>4. a \in AnnotationSetsOffered /\ a = annos /\ k \in Injected(a)
    BY <1>1 DEF StartInv, InjInv, Verified
  <2> HIDE DEF c
  <2>5. ASSUME NEW i \in DOMAIN pod.containers,
               NEW env, env = {e \in Elements(pod.containers[i].env) :
                                 \E w \in ToSet(plan.container_env) : w.name = e.name},
               env \intersect UserVariables = {}
        PROVE  /\ env = ToSet(plan.container_env)
               /\ ToSet(plan.container_mounts) \subseteq Elements(pod.containers[i].volume_mounts)
    <3> DEFINE mine == pod.containers[i]
    <3>1. /\ Elements(mine.env) \subseteq UserVariables \union Wanted(a, "container_env")
          /\ Elements(mine.volume_mounts) \subseteq UserMounts \union Wanted(a, "container_mounts")
      <4> HIDE DEF Wanted
      <4> QED BY <1>1 DEF StartInv, FromSets
    <3>2. /\ {m.name : m \in ToSet(plan.container_mounts)} \subseteq names(mine.volume_mounts)
          /\ {e.name : e \in ToSet(plan.container_env)} \subseteq names(mine.env)
      BY <1>1, <2>4, InjInjects DEF StartInv, EveryContainerInjected
    <3>3. \A list : names(list) = {x.name : x \in Elements(list)}
      BY DEF names, Elements, ToSet
    <3>4. "container_env" \in NamedParts /\ "container_mounts" \in NamedParts
      BY DEF NamedParts
    <3> HIDE DEF mine, plan
    <3>5. ASSUME NEW e \in env PROVE e \in ToSet(plan.container_env)
      <4>1. PICK w \in ToSet(plan.container_env) : w.name = e.name
        BY <2>5, <3>5
      <4>2. e \in Elements(mine.env) /\ e \notin UserVariables
        BY <2>5, <3>5 DEF mine
      <4>3. e = w
        BY <2>4, <3>1, <3>4, <4>1, <4>2, WantedInContainer DEF plan
      <4> QED BY <4>3
    <3>6. ASSUME NEW w \in ToSet(plan.container_env) PROVE w \in env
      <4>1. PICK e \in Elements(mine.env) : e.name = w.name
        <5>1. names(mine.env) = {x.name : x \in Elements(mine.env)}
          BY <3>3
        <5>2. w.name \in names(mine.env)
          BY <3>2
        <5> QED BY <5>1, <5>2
      <4>2. e \in env
        BY <2>5, <4>1 DEF mine
      <4>3. e \notin UserVariables
        BY <2>5, <4>2
      <4>4. e = w
        BY <2>4, <3>1, <3>4, <4>1, <4>3, WantedInContainer DEF plan
      <4> QED BY <4>2, <4>4
    <3>7. ASSUME NEW w \in ToSet(plan.container_mounts) PROVE w \in Elements(mine.volume_mounts)
      <4>1. PICK m \in Elements(mine.volume_mounts) : m.name = w.name
        BY <3>2, <3>3
      <4>2. m \notin UserMounts
        BY <2>4, <4>1, UserNamesAssumption DEF plan
      <4>3. m = w
        BY <2>4, <3>1, <3>4, <4>1, <4>2, WantedInContainer DEF plan
      <4> QED BY <4>1, <4>3
    <3> QED BY <3>5, <3>6, <3>7 DEF mine
  <2> QED BY <2>2, <2>3, <2>5
<1> QED BY <1>1, StartInvariant, PTL

-----------------------------------------------------------------------------
(* The files: what the plans of the repository provide.                    *)

\* A provider's token mount, the mounts there are, and the file in each.
TokenMount(p) == VolumeMount(<<p, "token">>, <<MountRoot, p>>, TRUE)
FixedMounts == {TokenMount(p) : p \in Clouds} \union {creds_mount}
FileOf(v) == IF v = creds_volume THEN CREDS_FILENAME ELSE "token"

\* A variable holds the path of the file of a mount.
Leads(e, m) == m.mount_path = Front(e.value) /\ Last(e.value) = FileOf(m.name)

\* What the volumes of plans are.
VolumeHolds(v) ==
  \/ v.name # creds_volume /\ v.source.kind = "projected" /\ v.source.path = "token"
  \/ v.name = creds_volume /\ v.source.kind \in {"configMap", "emptyDir"}

\* What the init containers of plans are, between the plan's volumes.
CredsWriter == <<"gcp", "creds-writer">>
MountNames(c) == {m.name : m \in ToSet(c.mounts)}
IsWriter(c) ==
  /\ c.name = CredsWriter /\ c.role = "write" /\ c.order = 0
  /\ PathVariables(ToSet(c.env)) = {}
  /\ MountNames(c) = {creds_volume}
IsVerifier(c) ==
  /\ c.name # CredsWriter /\ c.role = "verify" /\ c.order = 10
  /\ ToSet(c.mounts) \subseteq FixedMounts
  /\ \A e \in PathVariables(ToSet(c.env)) : \E m \in ToSet(c.mounts) : Leads(e, m)

\* A plan, or several, given by their parts: every path a container or a verifier
\* gets is that of a file of a mount it gets, every mount is of a volume there
\* is, and an emptyDir has a writer.
PartsProvide(volumes, mounts, env, inits) ==
  /\ \A m \in mounts : m \in FixedMounts /\ \E v \in volumes : v.name = m.name
  /\ \A e \in PathVariables(env) : \E m \in mounts : Leads(e, m)
  /\ \A v \in volumes :
       /\ VolumeHolds(v)
       /\ v.source.kind = "emptyDir" => \E c \in inits : IsWriter(c)
  /\ \A c \in inits :
       /\ IsWriter(c) \/ IsVerifier(c)
       /\ \A n \in MountNames(c) : \E v \in volumes : v.name = n

PlanProvides(plan) ==
  PartsProvide(ToSet(plan.volumes), ToSet(plan.container_mounts),
               ToSet(plan.container_env), ToSet(plan.init_containers))

\* Sequences with the same items are equal.
LEMMA SameItems ==
  ASSUME NEW S, NEW s \in Seq(S), NEW t \in Seq(S), Len(s) = Len(t),
         \A i \in 1 .. Len(s) : s[i] = t[i]
  PROVE  s = t
<1>1. s = [i \in 1 .. Len(s) |-> s[i]] /\ t = [i \in 1 .. Len(s) |-> t[i]]
  OBVIOUS
<1> QED BY <1>1

\* A sequence with one more item.
LEMMA Appended ==
  ASSUME NEW S, NEW u \in Seq(S), NEW z \in S
  PROVE  \A s \in Seq(S) :
           Len(s) = Len(u) + 1 /\ (\A i \in 1 .. Len(u) : u[i] = s[i]) /\ s[Len(u) + 1] = z =>
             Append(u, z) = s
<1> DEFINE t == Append(u, z)
<1>1. t \in Seq(S)
  OBVIOUS
<1>2. Len(t) = Len(u) + 1
  OBVIOUS
<1>3. \A i \in 1 .. Len(u) : t[i] = u[i]
  OBVIOUS
<1>4. t[Len(u) + 1] = z
  OBVIOUS
<1> HIDE DEF t
<1>5. \A i \in 1 .. Len(t) : i \in 1 .. Len(u) \/ i = Len(u) + 1
  BY <1>2
<1>6. ASSUME NEW s \in Seq(S), Len(s) = Len(u) + 1, \A i \in 1 .. Len(u) : u[i] = s[i],
             s[Len(u) + 1] = z
      PROVE  t = s
  <2>1. \A i \in 1 .. Len(t) : t[i] = s[i]
    BY <1>3, <1>4, <1>5, <1>6
  <2> QED BY <1>1, <1>2, <1>6, <2>1, SameItems
<1> QED BY <1>6 DEF t

\* The path of a token, or of the credentials, is its directory and its file
\* (plan.rs:127-134).
LEMMA PathParts ==
  ASSUME NEW x, NEW y, NEW z
  PROVE  /\ Front(<<x, y, z>>) = <<x, y>> /\ Last(<<x, y, z>>) = z
         /\ Append(<<x, y>>, z) = <<x, y, z>>
<1>1. Len(<<x, y, z>>) = 3
  OBVIOUS
<1> DEFINE S == {x, y, z}
<1>2. SubSeq(<<x, y, z>>, 1, 2) = <<x, y>>
  <2> DEFINE s == <<x, y, z>>
             t == SubSeq(s, 1, 2)
             u == <<x, y>>
  <2>1. s \in Seq(S) /\ u \in Seq(S) /\ Len(u) = 2
    OBVIOUS
  <2>2. /\ s[1] = x /\ s[2] = y /\ u[1] = x /\ u[2] = y
    OBVIOUS
  <2> HIDE DEF s, u
  <2>3. t \in Seq(S) /\ Len(t) = 2 /\ t[1] = s[1] /\ t[2] = s[2]
    BY <1>1, <2>1 DEF s
  <2> HIDE DEF t
  <2>4. \A i \in 1 .. 2 : t[i] = u[i]
    BY <2>2, <2>3
  <2>5. t = u
    BY <2>1, <2>3, <2>4, SameItems
  <2> QED BY <2>5 DEF s, u, t
<1>3. Append(<<x, y>>, z) = <<x, y, z>>
  <2> DEFINE u == <<x, y>>
             s == <<x, y, z>>
  <2>1. /\ s \in Seq(S) /\ u \in Seq(S) /\ z \in S
        /\ Len(u) = 2 /\ Len(s) = 3
        /\ s[1] = x /\ s[2] = y /\ s[3] = z /\ u[1] = x /\ u[2] = y
    OBVIOUS
  <2> HIDE DEF S, s, u
  <2>2. Len(s) = Len(u) + 1 /\ s[Len(u) + 1] = z
    BY <2>1
  <2>3. \A i \in 1 .. Len(u) : u[i] = s[i]
    <3>1. \A i \in 1 .. Len(u) : i = 1 \/ i = 2
      BY <2>1
    <3> QED BY <2>1, <3>1
  <2>4. u \in Seq(S) /\ s \in Seq(S) /\ z \in S
    BY <2>1
  <2>5. Append(u, z) = s
    BY <2>2, <2>3, <2>4, Appended
  <2> QED BY <2>5 DEF u, s
<1> QED BY <1>1, <1>2, <1>3 DEF Front, Last

\* The token of a provider: its volume, its mount and the path of its file
\* (plan.rs:107-161).
LEMMA TokenProvides ==
  ASSUME NEW a, NEW p \in Clouds, NEW audience, NEW name
  PROVE  LET token == projected_token(a, p, audience)
         IN  /\ mount(token) = TokenMount(p) /\ mount(token) \in FixedMounts
             /\ volume(token).name = mount(token).name
             /\ VolumeHolds(volume(token)) /\ volume(token).source.kind = "projected"
             /\ Leads(EnvVar(name, token_file_path(token)), mount(token))
<1> DEFINE token == projected_token(a, p, audience)
<1>1. /\ token.provider = p /\ token.mount_dir = <<MountRoot, p>> /\ token.file_name = "token"
  BY DEF projected_token
<1> HIDE DEF token
<1>2. mount(token) = TokenMount(p)
  BY <1>1 DEF mount, volume_name, TokenMount
<1>3. /\ volume(token).name = <<p, "token">> /\ volume(token).source.kind = "projected"
      /\ volume(token).source.path = "token"
  BY <1>1 DEF volume, volume_name, VolumeSpec
<1>4. <<p, "token">> # creds_volume
  BY DEF creds_volume
<1>5. mount(token).name = <<p, "token">> /\ mount(token).mount_path = <<MountRoot, p>>
  BY <1>2 DEF TokenMount, VolumeMount
<1>6. EnvVar(name, token_file_path(token)).value = <<MountRoot, p, "token">>
  <2>1. token_file_path(token) = Append(<<MountRoot, p>>, "token")
    BY <1>1 DEF token_file_path
  <2> QED BY <2>1, PathParts DEF EnvVar
<1>7. Leads(EnvVar(name, token_file_path(token)), mount(token))
  BY <1>4, <1>5, <1>6, PathParts DEF Leads, FileOf
<1> QED BY <1>2, <1>3, <1>4, <1>5, <1>7 DEF VolumeHolds, FixedMounts, token

\* The verify container of a plan, with the plan's own variables and mounts
\* (plan.rs:216-246).
LEMMA VerifierProvides ==
  ASSUME NEW a, NEW p, NEW env, NEW mounts, NEW c \in ToSet(Verifier(a, p, env, mounts)),
         ToSet(mounts) \subseteq FixedMounts,
         \A e \in PathVariables(ToSet(env)) : \E m \in ToSet(mounts) : Leads(e, m)
  PROVE  IsVerifier(c) /\ MountNames(c) = {m.name : m \in ToSet(mounts)}
<1> DEFINE v == verify_init_container(p,
                  UnwrapOr(first_explicit_bool(a, verify_enforce_key(p)), FALSE), env, mounts)
<1>1. Verifier(a, p, env, mounts) = << >> \/ Verifier(a, p, env, mounts) = <<v>>
  BY DEF Verifier
<1>2. /\ v.name = <<p, "verify">> /\ v.role = "verify" /\ v.order = 10
      /\ v.env = env /\ v.mounts = mounts
  BY DEF verify_init_container, InitContainer
<1> HIDE DEF v
<1>3. c = v
  BY <1>1 DEF ToSet
<1>4. <<p, "verify">> # CredsWriter
  BY DEF CredsWriter
<1> QED BY <1>2, <1>3, <1>4 DEF IsVerifier, MountNames

\* The one path a provider hands out.
LEMMA OnePath ==
  ASSUME NEW p \in Clouds, NEW env, Names(env, VariablesOf(p)), NEW x \in ToSet(env),
         x.name \in {"GOOGLE_APPLICATION_CREDENTIALS", "AWS_WEB_IDENTITY_TOKEN_FILE",
                     "AZURE_FEDERATED_TOKEN_FILE"},
         NEW mounts, NEW m \in mounts, Leads(x, m)
  PROVE  \A e \in PathVariables(ToSet(env)) : \E n \in mounts : Leads(e, n)
<1> SUFFICES ASSUME NEW e \in PathVariables(ToSet(env)) PROVE e = x
  OBVIOUS
<1>1. /\ e \in ToSet(env)
      /\ e.name \in {"GOOGLE_APPLICATION_CREDENTIALS", "AWS_WEB_IDENTITY_TOKEN_FILE",
                    "AZURE_FEDERATED_TOKEN_FILE"}
  BY DEF PathVariables
<1>2. e.name \in VariablesOf(p) /\ x.name \in VariablesOf(p)
  BY <1>1 DEF Names, NamesIn, ToSet
<1>3. e.name = x.name
  BY <1>1, <1>2 DEF VariablesOf, Clouds
<1> QED BY <1>1, <1>3 DEF Names, UniqueIn, ToSet

\* A plan of one token, without writers: its files are projected.
LEMMA TokenPlanProvides ==
  ASSUME NEW a, NEW p \in Clouds, NEW audience, NEW name,
         name \in {"GOOGLE_APPLICATION_CREDENTIALS", "AWS_WEB_IDENTITY_TOKEN_FILE",
                  "AZURE_FEDERATED_TOKEN_FILE"},
         NEW token, token = projected_token(a, p, audience),
         NEW env, Names(env, VariablesOf(p)), EnvVar(name, token_file_path(token)) \in ToSet(env)
  PROVE  PartsProvide(ToSet(<<volume(token)>>), ToSet(<<mount(token)>>), ToSet(env),
                      ToSet(Verifier(a, p, env, <<mount(token)>>)))
<1> DEFINE x == EnvVar(name, token_file_path(token))
           mounts == <<mount(token)>>
           inits == Verifier(a, p, env, mounts)
<1>1. /\ mount(token) \in FixedMounts /\ volume(token).name = mount(token).name
      /\ VolumeHolds(volume(token)) /\ volume(token).source.kind = "projected"
      /\ Leads(x, mount(token))
  BY TokenProvides
<1>2. ToSet(mounts) = {mount(token)} /\ ToSet(<<volume(token)>>) = {volume(token)}
  BY DEF ToSet
<1>3. \A e \in PathVariables(ToSet(env)) : \E n \in ToSet(mounts) : Leads(e, n)
  <2>1. x.name = name
    BY DEF EnvVar
  <2> HIDE DEF x, mounts
  <2> QED BY <1>1, <1>2, <2>1, OnePath DEF x
<1> HIDE DEF x, mounts
<1>4. \A c \in ToSet(inits) : IsVerifier(c) /\ MountNames(c) = {m.name : m \in ToSet(mounts)}
  BY <1>1, <1>2, <1>3, VerifierProvides
<1> HIDE DEF inits
<1>5. "projected" # "emptyDir"
  OBVIOUS
<1> QED BY <1>1, <1>2, <1>3, <1>4, <1>5 DEF PartsProvide, mounts, inits

\* AwsProvider::plan: a token.
LEMMA AwsProvides ==
  ASSUME NEW a, aws_plan(a).status = "planned"
  PROVE  PlanProvides(aws_plan(a).plan)
<1> DEFINE role == native_or(a, <<"aws", "role-arn">>, native_key("aws"), NativeAnnotations)
           audience == UnwrapOr(first_non_empty(a, audience_key("aws")), Plain("sts.amazonaws.com"))
           token == projected_token(a, "aws", audience)
           e1 == EnvVar("AWS_ROLE_ARN", UnwrapOr(role, Plain("")))
           e2 == EnvVar("AWS_WEB_IDENTITY_TOKEN_FILE", token_file_path(token))
           region == OptionalEnv(a, <<"aws", "region">>, "AWS_REGION")
           session == OptionalEnv(a, <<"aws", "role-session-name">>, "AWS_ROLE_SESSION_NAME")
           env == <<e1, e2>> \o region \o session
           verifier == Verifier(a, "aws", env, <<mount(token)>>)
           plan == ProviderPlan("aws", <<volume(token)>>, <<mount(token)>>, env, verifier, {})
<1>1. aws_plan(a) = Planned(plan)
  BY DEF aws_plan, Unconfigured
<1>2. e2 \in ToSet(env)
  <2>1. IsVec(region) /\ IsVec(session)
    BY OptionalEnvFits DEF Names
  <2> HIDE DEF region, session, e1, e2
  <2>2. IsVec(<<e1, e2>>) /\ e2 \in ToSet(<<e1, e2>>)
    <3>1. <<e1, e2>> \in Seq({e1, e2})
      OBVIOUS
    <3>2. e2 \in ToSet(<<e1, e2>>)
      BY DEF ToSet
    <3> QED BY <3>1, <3>2, VecIs
  <2>3. IsVec(<<e1, e2>> \o region) /\ e2 \in ToSet(<<e1, e2>> \o region)
    BY <2>1, <2>2, VecJoin
  <2> QED BY <2>1, <2>3, VecJoin
<1>3. Names(env, VariablesOf("aws"))
  <2> HIDE DEF env, verifier, token
  <2>1. plan.container_env = env
    BY DEF ProviderPlan
  <2> HIDE DEF plan
  <2>2. aws_plan(a).plan = plan
    BY <1>1 DEF Planned
  <2>3. PlanFits(plan, "aws")
    BY <2>2, AwsFits
  <2> QED BY <2>1, <2>3 DEF PlanFits
<1>4. "aws" \in Clouds
  BY DEF Clouds
<1> HIDE DEF env, audience
<1>5. PartsProvide(ToSet(<<volume(token)>>), ToSet(<<mount(token)>>), ToSet(env), ToSet(verifier))
  <2> DEFINE t == token
  <2>1. t = projected_token(a, "aws", audience)
        /\ EnvVar("AWS_WEB_IDENTITY_TOKEN_FILE", token_file_path(t)) \in ToSet(env)
    BY <1>2
  <2> HIDE DEF t
  <2> QED BY <1>3, <1>4, <2>1, TokenPlanProvides DEF t
<1> QED BY <1>1, <1>5 DEF PlanProvides, Planned, ProviderPlan

\* AzProvider::plan: a token.
LEMMA AzProvides ==
  ASSUME NEW a, az_plan(a).status = "planned"
  PROVE  PlanProvides(az_plan(a).plan)
<1> DEFINE client == native_or(a, <<"az", "client-id">>, native_key("az"), NativeAnnotations)
           tenant == native_or(a, <<"az", "tenant-id">>, native_az_tenant, NativeAnnotations)
           audience == UnwrapOr(first_non_empty(a, audience_key("az")),
                                Plain("api://AzureADTokenExchange"))
           token == projected_token(a, "az", audience)
           e1 == EnvVar("AZURE_CLIENT_ID", UnwrapOr(client, Plain("")))
           e2 == EnvVar("AZURE_TENANT_ID", UnwrapOr(tenant, Plain("")))
           e3 == EnvVar("AZURE_FEDERATED_TOKEN_FILE", token_file_path(token))
           host == OptionalEnv(a, <<"az", "authority-host">>, "AZURE_AUTHORITY_HOST")
           env == <<e1, e2, e3>> \o host
           verifier == Verifier(a, "az", env, <<mount(token)>>)
           plan == ProviderPlan("az", <<volume(token)>>, <<mount(token)>>, env, verifier, {})
<1>1. az_plan(a) = Planned(plan)
  BY DEF az_plan, Unconfigured
<1>2. e3 \in ToSet(env)
  <2>1. IsVec(host)
    BY OptionalEnvFits DEF Names
  <2> HIDE DEF host, e1, e2, e3
  <2>2. IsVec(<<e1, e2, e3>>) /\ e3 \in ToSet(<<e1, e2, e3>>)
    <3>1. <<e1, e2, e3>> \in Seq({e1, e2, e3})
      OBVIOUS
    <3>2. e3 \in ToSet(<<e1, e2, e3>>)
      BY DEF ToSet
    <3> QED BY <3>1, <3>2, VecIs
  <2> QED BY <2>1, <2>2, VecJoin
<1>3. Names(env, VariablesOf("az"))
  <2> HIDE DEF env, verifier, token
  <2>1. plan.container_env = env
    BY DEF ProviderPlan
  <2> HIDE DEF plan
  <2>2. az_plan(a).plan = plan
    BY <1>1 DEF Planned
  <2>3. PlanFits(plan, "az")
    BY <2>2, AzFits
  <2> QED BY <2>1, <2>3 DEF PlanFits
<1>4. "az" \in Clouds
  BY DEF Clouds
<1> HIDE DEF env, audience
<1>5. PartsProvide(ToSet(<<volume(token)>>), ToSet(<<mount(token)>>), ToSet(env), ToSet(verifier))
  <2> DEFINE t == token
  <2>1. t = projected_token(a, "az", audience)
        /\ EnvVar("AZURE_FEDERATED_TOKEN_FILE", token_file_path(t)) \in ToSet(env)
    BY <1>2
  <2> HIDE DEF t
  <2> QED BY <1>3, <1>4, <2>1, TokenPlanProvides DEF t
<1> QED BY <1>1, <1>5 DEF PlanProvides, Planned, ProviderPlan

\* GcpProvider::plan: a token, and a credentials file from a ConfigMap or from a
\* writer.
LEMMA GcpProvides ==
  ASSUME NEW a, gcp_plan(a).status = "planned"
  PROVE  PlanProvides(gcp_plan(a).plan)
<1> DEFINE audience == UnwrapOr(first_non_empty(a, audience_key("gcp")),
                                UnwrapOr(GcpDefaultAudience, Plain("")))
           token == projected_token(a, "gcp", audience)
           sa_email == native_or(a, <<"gcp", "service-account">>, native_key("gcp"),
                                 NativeAnnotations)
           creds_json == build_credentials_json(audience, token_file_path(token), sa_email)
           name == configmap_name(audience, sa_email)
           e1 == EnvVar("GOOGLE_APPLICATION_CREDENTIALS",
                        <<MountRoot, "gcp-creds", CREDS_FILENAME>>)
           mounts == <<mount(token), creds_mount>>
           verifier == Verifier(a, "gcp", <<e1>>, mounts)
           w == writer(creds_json)
           cm == VolumeSpec(creds_volume, [kind |-> "configMap", name |-> name])
           dir == VolumeSpec(creds_volume, [kind |-> "emptyDir"])
           delivered == ProviderPlan("gcp", <<volume(token), cm>>, mounts, <<e1>>, verifier,
                                     {[name |-> name, data |-> creds_json]})
           written == ProviderPlan("gcp", <<volume(token), dir>>, mounts, <<e1>>,
                                   <<w>> \o verifier, {})
<1>1. gcp_plan(a) = Planned(delivered) \/ gcp_plan(a) = Planned(written)
  BY DEF gcp_plan, Unconfigured, Invalid
<1>2. /\ mount(token) \in FixedMounts /\ volume(token).name = mount(token).name
      /\ VolumeHolds(volume(token)) /\ volume(token).source.kind = "projected"
  BY TokenProvides DEF Clouds
<1>3. /\ cm.name = creds_volume /\ cm.source.kind = "configMap"
      /\ dir.name = creds_volume /\ dir.source.kind = "emptyDir"
      /\ creds_mount.name = creds_volume /\ creds_mount.mount_path = <<MountRoot, "gcp-creds">>
      /\ creds_mount \in FixedMounts
  BY DEF VolumeSpec, creds_mount, VolumeMount, FixedMounts
<1>4. Leads(e1, creds_mount)
  <2>1. e1.value = <<MountRoot, "gcp-creds", CREDS_FILENAME>>
    BY DEF EnvVar
  <2> HIDE DEF e1
  <2>2. Front(e1.value) = <<MountRoot, "gcp-creds">> /\ Last(e1.value) = CREDS_FILENAME
    <3>1. \A x, y, z : Front(<<x, y, z>>) = <<x, y>> /\ Last(<<x, y, z>>) = z
      BY PathParts
    <3> QED BY <2>1, <3>1
  <2>3. FileOf(creds_mount.name) = CREDS_FILENAME
    BY <1>3 DEF FileOf
  <2> QED BY <1>3, <2>2, <2>3 DEF Leads
<1>5. IsWriter(w) /\ MountNames(w) = {creds_volume}
  <2> DEFINE x == EnvVar("CWII_GCP_CREDS_JSON", creds_json)
             n == VolumeMount(creds_volume, WRITER_DIR, FALSE)
  <2>1. /\ w.name = CredsWriter /\ w.role = "write" /\ w.order = 0
        /\ w.env = <<x>> /\ w.mounts = <<n>>
    BY DEF writer, InitContainer, CredsWriter
  <2>2. x.name = "CWII_GCP_CREDS_JSON" /\ n.name = creds_volume
    BY DEF EnvVar, VolumeMount
  <2> HIDE DEF w, x, n
  <2>3. ToSet(w.env) = {x} /\ ToSet(w.mounts) = {n}
    <3>1. \A y : ToSet(<<y>>) = {y}
      BY DEF ToSet
    <3> QED BY <2>1, <3>1
  <2>4. PathVariables(ToSet(w.env)) = {}
    BY <2>2, <2>3 DEF PathVariables
  <2>5. MountNames(w) = {creds_volume}
    BY <2>2, <2>3 DEF MountNames
  <2> QED BY <2>1, <2>4, <2>5 DEF IsWriter
<1>6. Names(<<e1>>, VariablesOf("gcp")) /\ e1.name = "GOOGLE_APPLICATION_CREDENTIALS"
      /\ e1 \in ToSet(<<e1>>)
  <2>1. e1.name = "GOOGLE_APPLICATION_CREDENTIALS"
    BY DEF EnvVar
  <2> HIDE DEF e1
  <2> QED BY <2>1, OneOf DEF VariablesOf
<1> HIDE DEF token, e1, w, cm, dir, name, creds_json, audience, sa_email
<1>7. /\ ToSet(mounts) = {mount(token), creds_mount}
      /\ ToSet(<<volume(token), cm>>) = {volume(token), cm}
      /\ ToSet(<<volume(token), dir>>) = {volume(token), dir}
  BY DEF ToSet
<1>8. \A e \in PathVariables(ToSet(<<e1>>)) : \E m \in ToSet(mounts) : Leads(e, m)
  <2> HIDE DEF mounts
  <2> QED BY <1>4, <1>6, <1>7, OnePath DEF Clouds
<1>9. \A c \in ToSet(verifier) : IsVerifier(c) /\ MountNames(c) = {m.name : m \in ToSet(mounts)}
  <2> HIDE DEF mounts
  <2> QED BY <1>2, <1>3, <1>7, <1>8, VerifierProvides
<1>10. ToSet(<<w>> \o verifier) = {w} \union ToSet(verifier)
  <2>1. IsVec(verifier)
    BY VerifierFits DEF Names
  <2> HIDE DEF verifier
  <2>2. <<w>> \in Seq({w}) /\ ToSet(<<w>>) = {w}
    BY DEF ToSet
  <2> QED BY <2>1, <2>2, VecIs, VecJoin
<1> HIDE DEF mounts, verifier
<1>11. PartsProvide({volume(token), cm}, ToSet(mounts), ToSet(<<e1>>), ToSet(verifier))
  <2>1. VolumeHolds(cm) /\ cm.source.kind # "emptyDir"
    BY <1>3 DEF VolumeHolds
  <2> QED BY <1>2, <1>3, <1>7, <1>8, <1>9, <2>1 DEF PartsProvide
<1>12. PartsProvide({volume(token), dir}, ToSet(mounts), ToSet(<<e1>>), {w} \union ToSet(verifier))
  <2>1. VolumeHolds(dir)
    BY <1>3 DEF VolumeHolds
  <2> QED BY <1>2, <1>3, <1>5, <1>7, <1>8, <1>9, <2>1 DEF PartsProvide
<1>13. PlanProvides(delivered) /\ PlanProvides(written)
  BY <1>7, <1>10, <1>11, <1>12 DEF PlanProvides, ProviderPlan
<1> HIDE DEF delivered, written
<1> QED BY <1>1, <1>13 DEF Planned

\* Every plan of the repository's providers.
LEMMA PlansProvide ==
  ASSUME RepositoryProviders, NEW a \in AnnotationSetsOffered, NEW k \in Injected(a)
  PROVE  PlanProvides(Outcome(k, a).plan)
<1>1. k \in DOMAIN ProviderOrder /\ Outcome(k, a).status = "planned"
  BY DEF Injected, Consulted
<1>2. ProviderOrder[k] \in ToSet(ProviderOrder)
  BY <1>1 DEF ToSet
<1>3. ProviderOrder[k] \in Clouds /\ Outcome(k, a) = plan_of(ProviderOrder[k], a)
  BY <1>2 DEF RepositoryProviders, Outcome
<1>4. \A p \in Clouds : plan_of(p, a).status = "planned" => PlanProvides(plan_of(p, a).plan)
  BY AwsProvides, AzProvides, GcpProvides DEF Clouds, plan_of
<1> HIDE DEF Clouds
<1> QED BY <1>1, <1>3, <1>4

\* What the plans for one set ask for, taken together.
LEMMA WantedProvides ==
  ASSUME RepositoryProviders, NEW a \in AnnotationSetsOffered
  PROVE  PartsProvide(Wanted(a, "volumes"), Wanted(a, "container_mounts"),
                      Wanted(a, "container_env"), Wanted(a, "init_containers"))
<1> DEFINE Of(k, part) == ToSet(Outcome(k, a).plan[part])
<1>1. \A k \in Injected(a) : PartsProvide(Of(k, "volumes"), Of(k, "container_mounts"),
                                         Of(k, "container_env"), Of(k, "init_containers"))
  BY PlansProvide DEF PlanProvides
<1>2. \A part, x : x \in Wanted(a, part) <=> \E k \in Injected(a) : x \in Of(k, part)
  BY DEF Wanted
<1> HIDE DEF Of, Wanted
<1>3. \A e, part : e \in PathVariables(Wanted(a, part))
                    <=> \E k \in Injected(a) : e \in PathVariables(Of(k, part))
  BY <1>2 DEF PathVariables
<1> QED BY <1>1, <1>2, <1>3 DEF PartsProvide

-----------------------------------------------------------------------------
(* The files: the inductive invariant.                                     *)

\* What is in a pod comes from users and from the sets offered.
EverWanted(part) == UNION {Wanted(a, part) : a \in AnnotationSetsOffered}
AnySets(q) == FromSets(q, AnnotationSetsOffered)

\* Every path of a container is that of a file of a mount cwii gave it, of a
\* volume the pod has.
PathsMounted(q) ==
  \A i \in DOMAIN q.containers : \A e \in PathVariables(Elements(q.containers[i].env)) :
    \E m \in Elements(q.containers[i].volume_mounts) \intersect EverWanted("container_mounts") :
      Leads(e, m) /\ m.name \in names(q.volumes)

\* cwii's init containers mount volumes of the pod.
InitsMounted(q) ==
  \A c \in Elements(q.init_containers) \ UserInits : MountNames(c) \subseteq names(q.volumes)

\* An emptyDir has its writer, before every verifier that mounts it.
WriterFirst(q) ==
  (\E v \in Elements(q.volumes) \ UserVolumes : v.source.kind = "emptyDir") =>
    \E j \in DOMAIN Items(q.init_containers) :
      /\ Items(q.init_containers)[j].name = CredsWriter
      /\ \A k \in DOMAIN Items(q.init_containers) :
           LET c == Items(q.init_containers)[k]
           IN  c \notin UserInits /\ c.role = "verify" /\ creds_volume \in MountNames(c) => j < k

FilesInv(q) == PathsMounted(q) /\ InitsMounted(q) /\ WriterFirst(q)

\* A name among those of an optional array is that of one of its elements.
LEMMA NamesOf ==
  ASSUME NEW list
  PROVE  names(list) = {x.name : x \in Elements(list)}
BY DEF names, Elements, ToSet

\* No name of a plan's volume, mount or init container is a user's.
LEMMA NotUsers ==
  ASSUME NEW a \in AnnotationSetsOffered
  PROVE  /\ \A v \in Wanted(a, "volumes") : \A w \in UserVolumes : v.name # w.name
         /\ \A m \in Wanted(a, "container_mounts") : \A n \in UserMounts : m.name # n.name
         /\ \A c \in Wanted(a, "init_containers") : \A d \in UserInits : c.name # d.name
BY UserNamesAssumption DEF Wanted

\* Mounts of one name are the same, whichever plans they come from
\* (plan.rs:107-161).
LEMMA MountsFixed ==
  ASSUME NEW m \in FixedMounts, NEW n \in FixedMounts, m.name = n.name
  PROVE  m = n
<1>1. \A p : TokenMount(p).name = <<p, "token">> /\ <<p, "token">> # creds_volume
  BY DEF TokenMount, VolumeMount, creds_volume
<1>2. creds_mount.name = creds_volume
  BY DEF creds_mount, VolumeMount
<1>3. \A p, q : <<p, "token">> = <<q, "token">> => p = q
  OBVIOUS
<1> QED BY <1>1, <1>2, <1>3 DEF FixedMounts

\* A wanted mount that a container has by name is the one it has.
LEMMA MountIsThere ==
  ASSUME RepositoryProviders,
         NEW mounts, mounts \subseteq UserMounts \union EverWanted("container_mounts"),
         NEW w \in EverWanted("container_mounts"), \E m \in mounts : m.name = w.name
  PROVE  w \in mounts
<1>1. PICK m \in mounts : m.name = w.name
  OBVIOUS
<1>2. \A x \in EverWanted("container_mounts") :
        x \in FixedMounts /\ \A n \in UserMounts : x.name # n.name
  BY WantedProvides, NotUsers DEF EverWanted, PartsProvide
<1>3. m \in EverWanted("container_mounts")
  BY <1>1, <1>2
<1>4. m = w
  BY <1>1, <1>2, <1>3, MountsFixed
<1> QED BY <1>1, <1>4

\* A pass keeps and hands out paths of mounted volumes (patch.rs:22-85).
LEMMA PassMounts ==
  ASSUME RepositoryProviders, NEW q, PodShape(q), AnySets(q), PathsMounted(q),
         NEW a \in AnnotationSetsOffered
  PROVE  PathsMounted(PassOver(q, a))
<1> DEFINE new == PassOver(q, a)
           m == merge(Plans(a))
<1>1. /\ new.volumes = Extended(q.volumes, m.volumes)
      /\ DOMAIN new.containers = DOMAIN q.containers
      /\ \A i \in DOMAIN q.containers :
           /\ new.containers[i].volume_mounts
                = Extended(q.containers[i].volume_mounts, m.container_mounts)
           /\ new.containers[i].env = Extended(q.containers[i].env, m.container_env)
  BY PassIs
<1>2. \A part \in NamedParts : IsVec(m[part]) /\ ToSet(m[part]) = Wanted(a, part)
  BY MergedHas
<1>3. \A part \in NamedParts : NamesIn(m[part]) = {x.name : x \in Wanted(a, part)}
  BY <1>2 DEF NamesIn, ToSet
<1>4. /\ IsVecOption(q.volumes)
      /\ \A i \in DOMAIN q.containers :
           IsVecOption(q.containers[i].volume_mounts) /\ IsVecOption(q.containers[i].env)
  BY DEF PodShape, ContainerShape
<1> HIDE DEF m, new
<1>5. ASSUME NEW list, IsVecOption(list), NEW part \in NamedParts
      PROVE  /\ names(Extended(list, m[part])) = names(list) \union {x.name : x \in Wanted(a, part)}
             /\ Elements(list) \subseteq Elements(Extended(list, m[part]))
             /\ Elements(Extended(list, m[part])) \subseteq Elements(list) \union Wanted(a, part)
  <2>1. /\ Elements(Extended(list, m[part])) = Elements(list) \union
             {x \in ToSet(m[part]) : x.name \notin names(list)}
        /\ names(Extended(list, m[part])) = names(list) \union NamesIn(m[part])
    BY <1>2, <1>5, ExtendedIs
  <2> QED BY <1>2, <1>3, <2>1
<1>6. "volumes" \in NamedParts /\ "container_env" \in NamedParts /\ "container_mounts" \in NamedParts
  BY DEF NamedParts
<1>7. names(new.volumes) = names(q.volumes) \union {v.name : v \in Wanted(a, "volumes")}
  BY <1>1, <1>4, <1>5, <1>6
<1>8. ASSUME NEW i \in DOMAIN new.containers, NEW e \in PathVariables(Elements(new.containers[i].env))
      PROVE  \E n \in Elements(new.containers[i].volume_mounts)
                   \intersect EverWanted("container_mounts") :
               Leads(e, n) /\ n.name \in names(new.volumes)
  <2> DEFINE old == q.containers[i]
             c == new.containers[i]
  <2>1. /\ Elements(old.volume_mounts) \subseteq Elements(c.volume_mounts)
        /\ Elements(c.volume_mounts) \subseteq Elements(old.volume_mounts) \union Wanted(a, "container_mounts")
        /\ Elements(c.env) \subseteq Elements(old.env) \union Wanted(a, "container_env")
        /\ names(c.volume_mounts) = names(old.volume_mounts)
             \union {x.name : x \in Wanted(a, "container_mounts")}
    BY <1>1, <1>4, <1>5, <1>6, <1>8
  <2>2. e \in PathVariables(Elements(old.env)) \/ e \in PathVariables(Wanted(a, "container_env"))
    BY <1>8, <2>1 DEF PathVariables
  <2> HIDE DEF old, c
  <2>3. CASE e \in PathVariables(Elements(old.env))
    <3>1. PICK n \in Elements(old.volume_mounts) \intersect EverWanted("container_mounts") :
            Leads(e, n) /\ n.name \in names(q.volumes)
      BY <1>1, <1>8, <2>3 DEF PathsMounted, old
    <3> QED BY <1>7, <2>1, <3>1 DEF c
  <2>4. CASE e \in PathVariables(Wanted(a, "container_env"))
    <3>1. PICK n \in Wanted(a, "container_mounts") : Leads(e, n)
      BY <2>4, WantedProvides DEF PartsProvide
    <3>2. \E v \in Wanted(a, "volumes") : v.name = n.name
      BY WantedProvides DEF PartsProvide
    <3>3. Elements(c.volume_mounts) \subseteq UserMounts \union EverWanted("container_mounts")
      <4>1. Elements(old.volume_mounts) \subseteq UserMounts \union EverWanted("container_mounts")
        BY <1>1, <1>8 DEF AnySets, FromSets, EverWanted, old
      <4>2. Wanted(a, "container_mounts") \subseteq EverWanted("container_mounts")
        BY DEF EverWanted
      <4> QED BY <2>1, <4>1, <4>2
    <3>4. \E x \in Elements(c.volume_mounts) : x.name = n.name
      BY <2>1, NamesOf
    <3>5. n \in EverWanted("container_mounts")
      BY DEF EverWanted
    <3>6. n \in Elements(c.volume_mounts)
      BY <3>3, <3>4, <3>5, MountIsThere
    <3> QED BY <1>7, <3>1, <3>2, <3>5, <3>6 DEF c
  <2> QED BY <2>2, <2>3, <2>4
<1> QED BY <1>8 DEF PathsMounted, new

\* What a pass makes of the volumes and the init containers of a pod.
LEMMA PassLists ==
  ASSUME NEW q, PodShape(q), NEW a \in AnnotationSetsOffered
  PROVE  LET new == PassOver(q, a)
             old == Items(q.init_containers)
             inits == Items(new.init_containers)
         IN  /\ names(new.volumes) = names(q.volumes) \union {v.name : v \in Wanted(a, "volumes")}
             /\ Elements(new.volumes) = Elements(q.volumes)
                  \union {v \in Wanted(a, "volumes") : v.name \notin names(q.volumes)}
             /\ names(new.init_containers) = names(q.init_containers)
                  \union {c.name : c \in Wanted(a, "init_containers")}
             /\ Elements(new.init_containers)
                  \subseteq Elements(q.init_containers) \union Wanted(a, "init_containers")
             /\ IsVec(old) /\ IsVec(inits) /\ Len(old) =< Len(inits)
             /\ \A i \in 1 .. Len(old) : inits[i] = old[i]
             /\ \A j, k \in 1 .. Len(inits) :
                  j > Len(old) /\ k > Len(old) /\ inits[j].order = 0 /\ inits[k].order = 10 => j < k
<1> DEFINE m == merge(Plans(a))
           new == PassOver(q, a)
           s == PartOf(a, "init_containers")
<1>1. /\ new.volumes = Extended(q.volumes, m.volumes)
      /\ new.init_containers = Extended(q.init_containers, m.init_containers)
  BY PassIs
<1>2. IsVecOption(q.volumes) /\ IsVecOption(q.init_containers)
  BY DEF PodShape
<1>3. /\ IsVec(m.volumes) /\ ToSet(m.volumes) = Wanted(a, "volumes")
      /\ IsVec(m.init_containers) /\ ToSet(m.init_containers) = Wanted(a, "init_containers")
  BY MergedHas DEF NamedParts
<1>4. m.init_containers = SortByOrder(s) /\ IsVec(s) /\ \A x \in ToSet(s) : x.order \in {0, 10}
  <2>1. IsVec(s) /\ ToSet(s) = Wanted(a, "init_containers")
    BY PartIs DEF NamedParts
  <2>2. m.init_containers = SortByOrder(s)
    BY MergedAre
  <2> HIDE DEF s, m
  <2> QED BY <2>1, <2>2, PlansAssumption DEF Wanted, PlanShape
<1> HIDE DEF m, new, s
<1>5. \A l : NamesIn(l) = {x.name : x \in ToSet(l)}
  BY DEF NamesIn, ToSet
<1>6. /\ Elements(new.volumes) = Elements(q.volumes)
           \union {v \in Wanted(a, "volumes") : v.name \notin names(q.volumes)}
      /\ names(new.volumes) = names(q.volumes) \union {v.name : v \in Wanted(a, "volumes")}
  BY <1>1, <1>2, <1>3, <1>5, ExtendedIs
<1>7. /\ Elements(new.init_containers)
           \subseteq Elements(q.init_containers) \union Wanted(a, "init_containers")
      /\ names(new.init_containers) = names(q.init_containers)
           \union {c.name : c \in Wanted(a, "init_containers")}
      /\ IsVecOption(new.init_containers)
  BY <1>1, <1>2, <1>3, <1>5, ExtendedIs
<1>8. IsVec(Items(q.init_containers)) /\ IsVec(Items(new.init_containers))
  BY <1>2, <1>7, ItemsAre
<1>9. LET old == Items(q.init_containers)
          inits == Items(new.init_containers)
      IN  /\ Len(old) =< Len(inits)
          /\ \A i \in 1 .. Len(old) : inits[i] = old[i]
          /\ \A j, k \in 1 .. Len(inits) :
               j > Len(old) /\ k > Len(old) /\ inits[j].order = 0 /\ inits[k].order = 10 => j < k
  BY <1>1, <1>2, <1>4, WritersFirst
<1> QED BY <1>6, <1>7, <1>8, <1>9 DEF new

\* A pass brings an init container together with the volumes it mounts.
LEMMA PassInits ==
  ASSUME RepositoryProviders, NEW q, PodShape(q), InitsMounted(q),
         NEW a \in AnnotationSetsOffered
  PROVE  InitsMounted(PassOver(q, a))
<1> DEFINE new == PassOver(q, a)
<1>1. /\ names(new.volumes) = names(q.volumes) \union {v.name : v \in Wanted(a, "volumes")}
      /\ Elements(new.init_containers)
           \subseteq Elements(q.init_containers) \union Wanted(a, "init_containers")
  BY PassLists
<1>2. \A c \in Wanted(a, "init_containers") :
        MountNames(c) \subseteq {v.name : v \in Wanted(a, "volumes")}
  BY WantedProvides DEF PartsProvide
<1> HIDE DEF new
<1> QED BY <1>1, <1>2 DEF InitsMounted, new

\* An init container in a pod that is not a user's is a writer or a verifier.
LEMMA InitsAre ==
  ASSUME RepositoryProviders, NEW q, AnySets(q),
         NEW c \in Elements(q.init_containers) \ UserInits
  PROVE  IsWriter(c) \/ IsVerifier(c)
<1>1. PICK a \in AnnotationSetsOffered : c \in Wanted(a, "init_containers")
  BY DEF AnySets, FromSets
<1> QED BY <1>1, WantedProvides DEF PartsProvide

\* What a pass brings to a pod comes from its set.
LEMMA PassAnySets ==
  ASSUME NEW q, PodShape(q), AnySets(q), NEW a \in AnnotationSetsOffered
  PROVE  AnySets(PassOver(q, a))
<1> DEFINE new == PassOver(q, a)
<1>1. \A part : Wanted(a, part) \subseteq EverWanted(part)
  BY DEF EverWanted
<1>2. /\ Elements(new.volumes) \subseteq Elements(q.volumes) \union Wanted(a, "volumes")
      /\ Elements(new.init_containers)
           \subseteq Elements(q.init_containers) \union Wanted(a, "init_containers")
      /\ DOMAIN new.containers = DOMAIN q.containers
      /\ \A i \in DOMAIN q.containers :
           /\ Elements(new.containers[i].env)
                \subseteq Elements(q.containers[i].env) \union Wanted(a, "container_env")
           /\ Elements(new.containers[i].volume_mounts)
                \subseteq Elements(q.containers[i].volume_mounts) \union Wanted(a, "container_mounts")
  BY PassBrings
<1> HIDE DEF new
<1>3. \A p : AnySets(p) <=>
        /\ Elements(p.volumes) \subseteq UserVolumes \union EverWanted("volumes")
        /\ Elements(p.init_containers) \subseteq UserInits \union EverWanted("init_containers")
        /\ \A i \in DOMAIN p.containers :
             /\ Elements(p.containers[i].env) \subseteq UserVariables \union EverWanted("container_env")
             /\ Elements(p.containers[i].volume_mounts)
                  \subseteq UserMounts \union EverWanted("container_mounts")
  BY DEF AnySets, FromSets, EverWanted
<1> QED BY <1>1, <1>2, <1>3 DEF new

\* A pass that brings an emptyDir brings its writer, and before the verifiers; it
\* puts nothing before the writer of an emptyDir that is there (plan.rs:212,
\* patch.rs:32-52).
LEMMA PassWriter ==
  ASSUME RepositoryProviders, NEW q, PodShape(q), AnySets(q), InitsMounted(q), WriterFirst(q),
         NEW a \in AnnotationSetsOffered
  PROVE  WriterFirst(PassOver(q, a))
<1> DEFINE new == PassOver(q, a)
           old == Items(q.init_containers)
           inits == Items(new.init_containers)
           Checks(c) == c \notin UserInits /\ c.role = "verify" /\ creds_volume \in MountNames(c)
<1>1. /\ names(new.volumes) = names(q.volumes) \union {v.name : v \in Wanted(a, "volumes")}
      /\ Elements(new.volumes) = Elements(q.volumes)
           \union {v \in Wanted(a, "volumes") : v.name \notin names(q.volumes)}
      /\ names(new.init_containers) = names(q.init_containers)
           \union {c.name : c \in Wanted(a, "init_containers")}
      /\ IsVec(old) /\ IsVec(inits) /\ Len(old) =< Len(inits)
      /\ \A i \in 1 .. Len(old) : inits[i] = old[i]
      /\ \A j, k \in 1 .. Len(inits) :
           j > Len(old) /\ k > Len(old) /\ inits[j].order = 0 /\ inits[k].order = 10 => j < k
  BY PassLists
<1>2. AnySets(new)
  BY PassAnySets
<1> HIDE DEF new
<1>3. /\ Len(old) \in Nat /\ DOMAIN old = 1 .. Len(old)
      /\ Len(inits) \in Nat /\ DOMAIN inits = 1 .. Len(inits)
      /\ \A i \in 1 .. Len(old) : old[i] \in Elements(q.init_containers)
      /\ \A i \in 1 .. Len(inits) : inits[i] \in Elements(new.init_containers)
  BY <1>1, VecFacts DEF Elements
<1> HIDE DEF old, inits
<1>4. \A i \in 1 .. Len(inits) : inits[i] \notin UserInits => IsWriter(inits[i]) \/ IsVerifier(inits[i])
  BY <1>2, <1>3, InitsAre
<1>5. \A i \in 1 .. Len(inits) : i =< Len(old) /\ inits[i] \notin UserInits
        => MountNames(inits[i]) \subseteq names(q.volumes)
  BY <1>1, <1>3 DEF InitsMounted
<1> SUFFICES ASSUME NEW v \in Elements(new.volumes) \ UserVolumes, v.source.kind = "emptyDir"
             PROVE  \E j \in 1 .. Len(inits) :
                      /\ inits[j].name = CredsWriter
                      /\ \A k \in 1 .. Len(inits) : Checks(inits[k]) => j < k
  BY <1>3 DEF WriterFirst, new, inits
<1>6. CASE \E x \in Elements(q.volumes) \ UserVolumes : x.source.kind = "emptyDir"
  <2>1. PICK j \in 1 .. Len(old) :
          old[j].name = CredsWriter /\ \A k \in 1 .. Len(old) : Checks(old[k]) => j < k
    BY <1>3, <1>6 DEF WriterFirst, old
  <2> HIDE DEF Checks
  <2>2. j \in 1 .. Len(inits) /\ inits[j].name = CredsWriter
    BY <1>1, <1>3, <2>1
  <2>3. ASSUME NEW k \in 1 .. Len(inits), Checks(inits[k]) PROVE j < k
    <3>1. CASE k \in 1 .. Len(old)
      BY <1>1, <2>1, <2>3, <3>1
    <3>2. CASE k > Len(old)
      BY <1>3, <2>1, <3>2
    <3> QED BY <1>3, <3>1, <3>2
  <2> QED BY <2>2, <2>3
<1>7. CASE ~ \E x \in Elements(q.volumes) \ UserVolumes : x.source.kind = "emptyDir"
  <2>1. v \in Wanted(a, "volumes") /\ v.name \notin names(q.volumes)
    BY <1>1, <1>7
  <2>2. v.name = creds_volume
    <3>1. VolumeHolds(v)
      BY <2>1, WantedProvides DEF PartsProvide
    <3>2. "emptyDir" # "projected"
      OBVIOUS
    <3> QED BY <3>1, <3>2 DEF VolumeHolds
  <2>3. PICK w \in Wanted(a, "init_containers") : IsWriter(w)
    BY <2>1, WantedProvides DEF PartsProvide
  <2>4. PICK j \in 1 .. Len(inits) : inits[j].name = CredsWriter
    <3>1. CredsWriter \in names(new.init_containers)
      BY <1>1, <2>3 DEF IsWriter
    <3> QED BY <1>3, <3>1 DEF names, inits
  <2>5. inits[j] \notin UserInits
    BY <2>3, <2>4, NotUsers DEF IsWriter
  <2>6. IsWriter(inits[j])
    BY <1>4, <2>4, <2>5 DEF IsVerifier
  <2>7. j > Len(old)
    <3>1. creds_volume \in MountNames(inits[j])
      BY <2>6 DEF IsWriter
    <3> QED BY <1>3, <1>5, <2>1, <2>2, <2>5, <3>1
  <2>8. ASSUME NEW k \in 1 .. Len(inits), Checks(inits[k]) PROVE j < k
    <3>1. k > Len(old)
      BY <1>3, <1>5, <2>1, <2>2, <2>8
    <3>2. IsVerifier(inits[k])
      <4>1. "verify" # "write"
        OBVIOUS
      <4> QED BY <1>4, <2>8, <4>1 DEF IsWriter
    <3>3. inits[j].order = 0 /\ inits[k].order = 10
      BY <2>6, <3>2 DEF IsWriter, IsVerifier
    <3> QED BY <1>1, <2>7, <3>1, <3>3
  <2> HIDE DEF Checks
  <2> QED BY <2>4, <2>8
<1> QED BY <1>6, <1>7

-----------------------------------------------------------------------------
(* The files: from the start of the pod to its containers.                 *)

\* All of a pod is from users or from the sets offered.
LEMMA AlwaysAnySets == StartInv => AnySets(pod)
<1> SUFFICES ASSUME StartInv PROVE AnySets(pod)
  OBVIOUS
<1>1. \A part : UNION {Wanted(a, part) : a \in reviewed}
                  \subseteq UNION {Wanted(a, part) : a \in AnnotationSetsOffered}
  <2> HIDE DEF Wanted
  <2> QED BY DEF StartInv
<1> HIDE DEF Wanted
<1> QED BY <1>1 DEF StartInv, FromSets, AnySets

\* Users hand out no paths of cwii's, and mount none of its volumes.
LEMMA FilesInit == StartupInit => FilesInv(pod)
<1> SUFFICES ASSUME StartupInit PROVE FilesInv(pod)
  OBVIOUS
<1>1. pod \in InitialPods
  BY DEF StartupInit, Init
<1>2. PathsMounted(pod)
  <2> SUFFICES ASSUME NEW i \in DOMAIN pod.containers PROVE PathVariables(Elements(pod.containers[i].env)) = {}
    BY DEF PathsMounted
  <2>1. pod.containers[i] \in UserContainers
    BY <1>1 DEF UserContainers, ToSet
  <2>2. Elements(pod.containers[i].env) \subseteq UserVariables
    BY <2>1 DEF UserVariables
  <2> QED BY <2>2, UserPathsAssumption DEF PathVariables
<1>3. InitsMounted(pod)
  BY <1>1 DEF InitsMounted, UserInits
<1>4. WriterFirst(pod)
  BY <1>1 DEF WriterFirst, UserVolumes
<1> QED BY <1>2, <1>3, <1>4 DEF FilesInv

\* A container that another webhook adds has no path of cwii's yet.
LEMMA SidecarFiles ==
  ASSUME StartInv, FilesInv(pod), NEW c \in Sidecars,
         pod' = [pod EXCEPT !.containers = Append(@, c)]
  PROVE  FilesInv(pod')
<1> DEFINE s == pod.containers
           t == Append(s, c)
<1>1. /\ pod = [volumes |-> pod.volumes, init_containers |-> pod.init_containers,
                containers |-> s, annotated |-> pod.annotated, marker |-> pod.marker]
      /\ s \in Seq(ToSet(s))
  BY DEF StartInv, InjInv, PodShape, IsVec
<1>2. pod'.containers = t /\ pod'.init_containers = pod.init_containers
      /\ pod'.volumes = pod.volumes
  BY <1>1
<1>3. DOMAIN t = 1 .. Len(s) + 1 /\ Len(s) \in Nat /\ DOMAIN s = 1 .. Len(s)
      /\ t[Len(s) + 1] = c /\ \A i \in DOMAIN s : t[i] = s[i]
  BY <1>1
<1>4. \A i \in DOMAIN t : (i \in DOMAIN s /\ t[i] = s[i]) \/ t[i] = c
  BY <1>3
<1> HIDE DEF t
<1>5. PathVariables(Elements(c.env)) = {}
  <2>1. Elements(c.env) \subseteq UserVariables
    BY DEF UserVariables, UserContainers
  <2> QED BY <2>1, UserPathsAssumption DEF PathVariables
<1>6. PathsMounted(pod')
  BY <1>2, <1>4, <1>5 DEF FilesInv, PathsMounted
<1> QED BY <1>2, <1>6 DEF FilesInv, InitsMounted, WriterFirst

\* Only passes and other webhooks change the pod.
LEMMA FilesNext ==
  ASSUME RepositoryProviders, StartInv, FilesInv(pod), [StartupNext]_startupVars
  PROVE  FilesInv(pod')
<1>1. CASE Mutate
  <2>1. InjInv /\ PodShape(pod) /\ annos \in AnnotationSetsOffered
    BY DEF StartInv, InjInv
  <2>2. pod' = PassOver(pod, annos)
    BY <1>1, <2>1, MutateInj
  <2>3. PathsMounted(pod') /\ InitsMounted(pod') /\ WriterFirst(pod')
    BY <2>1, <2>2, AlwaysAnySets, PassMounts, PassInits, PassWriter DEF FilesInv
  <2> QED BY <2>3 DEF FilesInv
<1>2. CASE AddSidecar
  BY <1>2, SidecarFiles DEF AddSidecar
<1>3. CASE pod' = pod
  BY <1>3
<1>4. Mutate \/ AddSidecar \/ pod' = pod
  BY DEF StartupNext, Review, Reannotate, Bind, StartMain, InitEnds, InitFails, startupVars, vars
<1> QED BY <1>1, <1>2, <1>3, <1>4

\* Paths stay mounted, mounts stay backed and writers stay first.
LEMMA FilesInvariant ==
  ASSUME RepositoryProviders
  PROVE  StartupSpec => []FilesInv(pod)
<1>1. StartInv /\ FilesInv(pod) /\ [StartupNext]_startupVars => FilesInv(pod)'
  BY FilesNext
<1> QED BY <1>1, FilesInit, StartInvariant, PTL DEF StartupSpec

\* The file of a volume is there once its writer has run, if it has one.
LEMMA VolumeReady ==
  ASSUME RepositoryProviders, StartInv,
         NEW m \in FixedMounts, m.name \in names(pod.volumes),
         m.name \in {v.name : v \in EverWanted("volumes")}, NEW ran,
         m.name = creds_volume =>
           \A v \in Elements(pod.volumes) \ UserVolumes : v.source.kind = "emptyDir" =>
             \E c \in ran : IsWriter(c)
  PROVE  \E v \in Elements(pod.volumes) : v.name = m.name /\ FileReady(v, FileOf(m.name), ran)
<1>1. PICK v \in Elements(pod.volumes) : v.name = m.name
  BY NamesOf
<1>2. v \notin UserVolumes
  BY <1>1, NotUsers DEF EverWanted
<1>3. v \in EverWanted("volumes")
  BY <1>2, AlwaysAnySets DEF AnySets, FromSets, EverWanted
<1>4. VolumeHolds(v)
  BY <1>3, WantedProvides DEF PartsProvide, EverWanted
<1>5. CASE v.name # creds_volume
  BY <1>1, <1>4, <1>5 DEF VolumeHolds, FileReady, FileOf
<1>6. CASE v.name = creds_volume /\ v.source.kind = "configMap"
  BY <1>1, <1>6 DEF FileReady, FileOf, CREDS_FILENAME
<1>7. CASE v.name = creds_volume /\ v.source.kind = "emptyDir"
  <2>1. PICK c \in ran : IsWriter(c)
    BY <1>1, <1>2, <1>7
  <2>2. \E n \in ToSet(c.mounts) : n.name = v.name
    BY <1>7, <2>1 DEF IsWriter, MountNames
  <2> QED BY <1>1, <1>7, <2>1, <2>2 DEF FileReady, IsWriter
<1> QED BY <1>4, <1>5, <1>6, <1>7 DEF VolumeHolds

\* The invariant has what FilesProvided says.
LEMMA FilesFollow ==
  ASSUME RepositoryProviders, StartInv, FilesInv(pod)
  PROVE  FilesProvided
<1> DEFINE inits == Items(pod.init_containers)
<1>1. /\ IsVec(inits) /\ Len(inits) \in Nat /\ DOMAIN inits = 1 .. Len(inits)
      /\ \A k \in 1 .. Len(inits) : inits[k] \in Elements(pod.init_containers)
  BY ItemsAre, VecFacts DEF StartInv, InjInv, PodShape, Elements
<1>2. AnySets(pod)
  BY AlwaysAnySets
<1>3. \A x \in EverWanted("container_mounts") :
        x \in FixedMounts /\ x.name \in {v.name : v \in EverWanted("volumes")}
  BY WantedProvides DEF EverWanted, PartsProvide
<1> HIDE DEF inits
<1>4. ASSUME NEW v \in Elements(pod.volumes) \ UserVolumes, v.source.kind = "emptyDir"
      PROVE  \E j \in 1 .. Len(inits) :
               /\ IsWriter(inits[j])
               /\ \A k \in 1 .. Len(inits) :
                    inits[k] \notin UserInits /\ inits[k].role = "verify"
                      /\ creds_volume \in MountNames(inits[k]) => j < k
  <2>1. PICK j \in 1 .. Len(inits) :
          /\ inits[j].name = CredsWriter
          /\ \A k \in 1 .. Len(inits) :
               inits[k] \notin UserInits /\ inits[k].role = "verify"
                 /\ creds_volume \in MountNames(inits[k]) => j < k
    BY <1>1, <1>4 DEF FilesInv, WriterFirst, inits
  <2>2. inits[j] \notin UserInits
    <3>1. PICK w \in EverWanted("init_containers") : IsWriter(w)
      <4>1. v \in EverWanted("volumes")
        BY <1>2, <1>4 DEF AnySets, FromSets, EverWanted
      <4> QED BY <1>4, <4>1, WantedProvides DEF PartsProvide, EverWanted
    <3> QED BY <2>1, <3>1, NotUsers DEF IsWriter, EverWanted
  <2>3. IsWriter(inits[j])
    BY <1>1, <1>2, <2>1, <2>2, InitsAre DEF IsVerifier
  <2> QED BY <2>1, <2>3
<1>5. ASSUME NEW i \in DOMAIN pod.containers
      PROVE  FindsFiles(Elements(pod.containers[i].env), Elements(pod.containers[i].volume_mounts),
                        Elements(pod.init_containers))
  <2> SUFFICES ASSUME NEW e \in PathVariables(Elements(pod.containers[i].env))
               PROVE  \E m \in Elements(pod.containers[i].volume_mounts), v \in Elements(pod.volumes) :
                        /\ v.name = m.name
                        /\ m.mount_path = Front(e.value)
                        /\ FileReady(v, Last(e.value), Elements(pod.init_containers))
    BY DEF FindsFiles
  <2>1. PICK m \in Elements(pod.containers[i].volume_mounts) \intersect EverWanted("container_mounts") :
          Leads(e, m) /\ m.name \in names(pod.volumes)
    BY <1>5 DEF FilesInv, PathsMounted
  <2>2. \A v \in Elements(pod.volumes) \ UserVolumes : v.source.kind = "emptyDir" =>
          \E c \in Elements(pod.init_containers) : IsWriter(c)
    BY <1>1, <1>4
  <2>3. PICK v \in Elements(pod.volumes) :
          v.name = m.name /\ FileReady(v, FileOf(m.name), Elements(pod.init_containers))
    BY <1>3, <2>1, <2>2, VolumeReady
  <2> QED BY <2>1, <2>3 DEF Leads
<1>6. ASSUME NEW k \in 1 .. Len(inits)
      PROVE  FindsFiles(ToSet(inits[k].env), ToSet(inits[k].mounts), Before(k))
  <2> DEFINE c == inits[k]
  <2> SUFFICES ASSUME NEW e \in PathVariables(ToSet(c.env))
               PROVE  \E m \in ToSet(c.mounts), v \in Elements(pod.volumes) :
                        /\ v.name = m.name
                        /\ m.mount_path = Front(e.value)
                        /\ FileReady(v, Last(e.value), Before(k))
    BY DEF FindsFiles
  <2>1. c \in Elements(pod.init_containers) \ UserInits
    BY <1>1, UserPathsAssumption
  <2>2. IsVerifier(c)
    BY <1>2, <2>1, InitsAre DEF IsWriter
  <2>3. PICK m \in ToSet(c.mounts) : m \in FixedMounts /\ Leads(e, m)
    BY <2>2 DEF IsVerifier
  <2>4. m.name \in MountNames(c)
    BY DEF MountNames
  <2>5. m.name \in names(pod.volumes)
    BY <2>1, <2>4 DEF FilesInv, InitsMounted
  <2>6. m.name \in {v.name : v \in EverWanted("volumes")}
    <3>1. PICK a \in AnnotationSetsOffered : c \in Wanted(a, "init_containers")
      BY <1>2, <2>1 DEF AnySets, FromSets
    <3>2. \E v \in Wanted(a, "volumes") : v.name = m.name
      BY <2>4, <3>1, WantedProvides DEF PartsProvide
    <3> QED BY <3>2 DEF EverWanted
  <2>7. ASSUME m.name = creds_volume, NEW v \in Elements(pod.volumes) \ UserVolumes,
               v.source.kind = "emptyDir"
        PROVE  \E d \in Before(k) : IsWriter(d)
    <3>1. PICK j \in 1 .. Len(inits) : IsWriter(inits[j]) /\ j < k
      BY <1>4, <2>1, <2>2, <2>4, <2>7 DEF IsVerifier
    <3>2. inits[j] \in Before(k)
      BY <1>1, <3>1 DEF Before, inits
    <3> QED BY <3>1, <3>2
  <2> HIDE DEF c
  <2>8. PICK v \in Elements(pod.volumes) : v.name = m.name /\ FileReady(v, FileOf(m.name), Before(k))
    BY <2>3, <2>5, <2>6, <2>7, VolumeReady
  <2> QED BY <2>3, <2>8 DEF Leads
<1> QED BY <1>1, <1>5, <1>6 DEF FilesProvided, inits

\* Every token and credentials path handed to a container, and to a verifier at
\* its place in the order of init containers, leads to a file that is there when
\* it starts, whichever passes brought the mount, the volume and the writer
\* (plan.rs:88-90, patch.rs:22-85).
THEOREM FilesProvidedCorrect ==
  ASSUME RepositoryProviders
  PROVE  StartupSpec => []FilesProvided
<1>1. StartInv /\ FilesInv(pod) => FilesProvided
  BY FilesFollow
<1> QED BY <1>1, FilesInvariant, StartInvariant, PTL
=============================================================================
