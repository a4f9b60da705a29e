--------------------------- MODULE InjectionProofs ---------------------------
(***************************************************************************)
(* Theorems of Injection: what any number of passes adds up to, for every  *)
(* registry of providers whose plans have names of their own, and for all  *)
(* pods, sidecars and annotation sets.                                     *)
(***************************************************************************)
EXTENDS Injection, Providers, ListProofs

-----------------------------------------------------------------------------
(* The merged plan.                                                        *)

\* The registry positions of the plans, in order.
OrderOf(a) == Filtered([k \in DOMAIN ProviderOrder |-> k], Injected(a))

\* The plans are those of the injected providers (admission.rs:130-166).
LEMMA PlansAre ==
  ASSUME NEW a
  PROVE  /\ IsVec(OrderOf(a)) /\ ToSet(OrderOf(a)) = Injected(a)
         /\ \A i, j \in DOMAIN OrderOf(a) : OrderOf(a)[i] = OrderOf(a)[j] => i = j
         /\ Plans(a) = [i \in DOMAIN OrderOf(a) |-> Outcome(OrderOf(a)[i], a).plan]
<1> DEFINE positions == [k \in DOMAIN ProviderOrder |-> k]
           r == Filtered(positions, Injected(a))
<1>1. positions \in Seq(Nat) /\ DOMAIN positions = DOMAIN ProviderOrder
  BY RegistryAssumption
<1>2. \A k \in DOMAIN ProviderOrder : positions[k] = k
  OBVIOUS
<1>3. Injected(a) \subseteq DOMAIN ProviderOrder
  BY DEF Injected, Consulted
<1> HIDE DEF positions
<1>4. r \in Seq(Nat) /\ \E h : Traces(h, r, positions, Injected(a))
  BY <1>1, FilteredTraces
<1> HIDE DEF r
<1>5. PICK h : Traces(h, r, positions, Injected(a))
  BY <1>4
<1>6. IsVec(r) /\ Len(r) \in Nat /\ DOMAIN r = 1 .. Len(r)
  BY <1>4, VecIs
<1>7. \A j \in 1 .. Len(r) : r[j] = h[j] /\ h[j] \in Injected(a) /\ h[j] \in Nat
  BY <1>1, <1>2, <1>3, <1>5 DEF Traces
<1>8. ToSet(r) = Injected(a)
  <2>1. \A k \in Injected(a) : \E j \in 1 .. Len(r) : r[j] = k
    BY <1>1, <1>3, <1>5, <1>7 DEF Traces
  <2>2. \A j \in 1 .. Len(r) : r[j] \in Injected(a)
    BY <1>7
  <2> QED BY <1>6, <2>1, <2>2, VecFacts
<1>9. \A i, j \in DOMAIN r : r[i] = r[j] => i = j
  <2> SUFFICES ASSUME NEW i \in 1 .. Len(r), NEW j \in 1 .. Len(r), r[i] = r[j] PROVE i = j
    BY <1>6
  <2>1. ~ (i < j) /\ ~ (j < i)
    BY <1>5, <1>7 DEF Traces
  <2> QED BY <1>6, <2>1
<1>10. r = OrderOf(a)
  BY DEF r, positions, OrderOf
<1> QED BY <1>6, <1>8, <1>9, <1>10 DEF Plans, OrderOf

\* One part of the merged plan, before init containers are sorted, and what it
\* has: the items of the plans.
PartOf(a, part) == FlattenSeq([i \in DOMAIN Plans(a) |-> Plans(a)[i][part]])
Wanted(a, part) == UNION {ToSet(Outcome(k, a).plan[part]) : k \in Injected(a)}

\* It has every item of the plans, and no name twice (plan.rs:331-347).
LEMMA PartIs ==
  ASSUME NEW a \in AnnotationSetsOffered, NEW part \in NamedParts
  PROVE  /\ IsVec(PartOf(a, part))
         /\ ToSet(PartOf(a, part)) = Wanted(a, part)
         /\ UniqueIn(PartOf(a, part))
<1> DEFINE order == OrderOf(a)
           PlanPart(k) == Outcome(k, a).plan[part]
           lists == [i \in DOMAIN order |-> PlanPart(order[i])]
           S == Wanted(a, part)
           r == PartOf(a, part)
<1>1. /\ Len(order) \in Nat /\ DOMAIN order = 1 .. Len(order)
      /\ \A i \in DOMAIN order : order[i] \in Injected(a)
      /\ \A k \in Injected(a) : \E i \in DOMAIN order : order[i] = k
      /\ \A i, j \in DOMAIN order : order[i] = order[j] => i = j
  BY PlansAre, VecFacts
<1>2. r = FlattenSeq(lists)
  <2>1. [i \in DOMAIN Plans(a) |-> Plans(a)[i][part]] = lists
    BY PlansAre
  <2> QED BY <2>1 DEF PartOf
<1>3. \A k \in Injected(a) : IsVec(PlanPart(k)) /\ ToSet(PlanPart(k)) \subseteq S
  <2> SUFFICES ASSUME NEW k \in Injected(a) PROVE IsVec(PlanPart(k)) /\ ToSet(PlanPart(k)) \subseteq S
    OBVIOUS
  <2>1. IsVec(PlanPart(k))
    BY PlansAssumption DEF PlanShape
  <2> QED BY <2>1 DEF Wanted
<1>4. \A k, l \in Injected(a) : \A i \in DOMAIN PlanPart(k), j \in DOMAIN PlanPart(l) :
        PlanPart(k)[i].name = PlanPart(l)[j].name => k = l /\ i = j
  BY PlansAssumption DEF PlansApart
<1>5. \A x \in S : \E k \in Injected(a) : x \in ToSet(PlanPart(k))
  BY DEF Wanted
<1> HIDE DEF PlanPart, S, r, order
<1>6. \A k \in Injected(a) : PlanPart(k) \in Seq(S)
  <2> SUFFICES ASSUME NEW k \in Injected(a) PROVE PlanPart(k) \in Seq(S)
    OBVIOUS
  <2>1. PlanPart(k) \in Seq(ToSet(PlanPart(k))) /\ ToSet(PlanPart(k)) \subseteq S
    BY <1>3 DEF IsVec
  <2> HIDE DEF PlanPart
  <2> QED BY <2>1
<1>7. lists \in Seq(Seq(S)) /\ DOMAIN lists = DOMAIN order
  BY <1>1, <1>6
<1>8. \A i \in DOMAIN order : lists[i] = PlanPart(order[i])
  OBVIOUS
<1> HIDE DEF lists
<1>9. r \in Seq(S) /\ \E h : Locates(h, r, lists)
  BY <1>2, <1>7, FlattenLocates
<1>10. PICK h : Locates(h, r, lists)
  BY <1>9
<1>11. IsVec(r) /\ ToSet(r) \subseteq S
  BY <1>9, VecIs
<1>12. \A x, y : <<x, y>> \in Places(lists) <=> x \in DOMAIN lists /\ y \in DOMAIN lists[x]
  BY DEF Places
<1>13. \A p \in Places(lists) : p = <<p[1], p[2]>>
  BY DEF Places
<1>14. \A j \in 1 .. Len(r) :
         /\ h[j][1] \in DOMAIN order /\ h[j][2] \in DOMAIN PlanPart(order[h[j][1]])
         /\ h[j] = <<h[j][1], h[j][2]>>
         /\ r[j] = PlanPart(order[h[j][1]])[h[j][2]]
  <2> SUFFICES ASSUME NEW j \in 1 .. Len(r)
               PROVE  /\ h[j][1] \in DOMAIN order /\ h[j][2] \in DOMAIN PlanPart(order[h[j][1]])
                      /\ h[j] = <<h[j][1], h[j][2]>>
                      /\ r[j] = PlanPart(order[h[j][1]])[h[j][2]]
    OBVIOUS
  <2>1. h[j] \in Places(lists) /\ r[j] = lists[h[j][1]][h[j][2]]
    BY <1>10 DEF Locates
  <2>2. h[j] = <<h[j][1], h[j][2]>>
    BY <1>13, <2>1
  <2>3. h[j][1] \in DOMAIN lists /\ h[j][2] \in DOMAIN lists[h[j][1]]
    BY <1>12, <2>1, <2>2
  <2> QED BY <1>7, <1>8, <2>1, <2>2, <2>3
<1>15. S \subseteq ToSet(r)
  <2> SUFFICES ASSUME NEW x \in S PROVE x \in ToSet(r)
    OBVIOUS
  <2>1. PICK k \in Injected(a) : x \in ToSet(PlanPart(k))
    BY <1>5
  <2>2. PICK y \in DOMAIN PlanPart(k) : x = PlanPart(k)[y]
    BY <2>1 DEF ToSet
  <2>3. PICK i \in DOMAIN order : order[i] = k
    BY <1>1
  <2>4. <<i, y>> \in Places(lists)
    BY <1>7, <1>8, <1>12, <2>2, <2>3
  <2>5. PICK j \in 1 .. Len(r) : h[j] = <<i, y>>
    BY <1>10, <2>4 DEF Locates
  <2>6. h[j][1] = i /\ h[j][2] = y
    BY <2>5, Pairs
  <2>7. r[j] = x
    BY <1>14, <2>2, <2>3, <2>6
  <2> QED BY <1>11, <2>7, VecFacts
<1>16. UniqueIn(r)
  <2>0. DOMAIN r = 1 .. Len(r)
    BY <1>11, VecFacts
  <2> SUFFICES ASSUME NEW i \in 1 .. Len(r), NEW j \in 1 .. Len(r), r[i].name = r[j].name
               PROVE  i = j
    BY <2>0 DEF UniqueIn
  <2>1. order[h[i][1]] = order[h[j][1]] /\ h[i][2] = h[j][2]
    BY <1>1, <1>4, <1>14
  <2>2. h[i][1] = h[j][1]
    BY <1>1, <1>14, <2>1
  <2>3. h[i] = h[j]
    BY <1>14, <2>1, <2>2
  <2> QED BY <1>10, <2>3 DEF Locates
<1> QED BY <1>11, <1>15, <1>16 DEF r, S

\* merge joins the lists of the plans and sorts the init containers by their order
\* (plan.rs:202-213).
LEMMA MergedAre ==
  ASSUME NEW a \in AnnotationSetsOffered
  PROVE  LET m == merge(Plans(a))
         IN  /\ m.volumes = PartOf(a, "volumes")
             /\ m.container_mounts = PartOf(a, "container_mounts")
             /\ m.container_env = PartOf(a, "container_env")
             /\ m.init_containers = SortByOrder(PartOf(a, "init_containers"))
             /\ m.injected_providers = [i \in DOMAIN OrderOf(a) |-> Outcome(OrderOf(a)[i], a).plan.provider]
BY PlansAre DEF merge, PartOf

\* What the merged plan has (plan.rs:331-347).
LEMMA MergedHas ==
  ASSUME NEW a \in AnnotationSetsOffered
  PROVE  LET m == merge(Plans(a))
         IN  /\ \A part \in NamedParts :
                  IsVec(m[part]) /\ UniqueIn(m[part]) /\ ToSet(m[part]) = Wanted(a, part)
             /\ ToSet(m.injected_providers) = {ProviderOrder[k] : k \in Injected(a)}
<1> DEFINE m == merge(Plans(a))
<1>1. /\ m.volumes = PartOf(a, "volumes")
      /\ m.container_mounts = PartOf(a, "container_mounts")
      /\ m.container_env = PartOf(a, "container_env")
      /\ m.init_containers = SortByOrder(PartOf(a, "init_containers"))
      /\ m.injected_providers = [i \in DOMAIN OrderOf(a) |-> Outcome(OrderOf(a)[i], a).plan.provider]
  BY MergedAre
<1> HIDE DEF m
<1>2. \A part \in NamedParts :
        /\ IsVec(PartOf(a, part)) /\ UniqueIn(PartOf(a, part))
        /\ ToSet(PartOf(a, part)) = Wanted(a, part)
  BY PartIs
<1>3. /\ IsVec(m.init_containers) /\ UniqueIn(m.init_containers)
      /\ ToSet(m.init_containers) = Wanted(a, "init_containers")
  <2> DEFINE s == PartOf(a, "init_containers")
  <2>1. IsVec(s) /\ UniqueIn(s) /\ ToSet(s) = Wanted(a, "init_containers")
    BY <1>2 DEF NamedParts
  <2>2. \A x \in ToSet(s) : x.order \in {0, 10}
    BY <2>1, PlansAssumption DEF Wanted, PlanShape
  <2> HIDE DEF s
  <2> QED BY <1>1, <2>1, <2>2, SortIs DEF s
<1>4. ToSet(m.injected_providers) = {ProviderOrder[k] : k \in Injected(a)}
  <2>1. \A k \in Injected(a) : Outcome(k, a).plan.provider = ProviderOrder[k]
    BY PlansAssumption DEF PlanShape
  <2>2. \A i \in DOMAIN OrderOf(a) : OrderOf(a)[i] \in Injected(a)
    BY PlansAre DEF ToSet
  <2>3. \A k \in Injected(a) : \E i \in DOMAIN OrderOf(a) : OrderOf(a)[i] = k
    BY PlansAre DEF ToSet
  <2> QED BY <1>1, <2>1, <2>2, <2>3 DEF ToSet
<1> QED BY <1>1, <1>2, <1>3, <1>4 DEF NamedParts, m

-----------------------------------------------------------------------------
(* One pod under one pass.                                                 *)

PassOver(q, a) == Applied(q, build(q, merge(Plans(a))))

\* A pass is one over each of the pod's arrays, and one over the marker
\* (patch.rs:18-109).
LEMMA PassIs ==
  ASSUME NEW q, PodShape(q), NEW a \in AnnotationSetsOffered
  PROVE  LET m == merge(Plans(a))
         IN  PassOver(q, a) =
               [volumes |-> Extended(q.volumes, m.volumes),
                init_containers |-> Extended(q.init_containers, m.init_containers),
                containers |-> [i \in DOMAIN q.containers |->
                  [volume_mounts |-> Extended(q.containers[i].volume_mounts, m.container_mounts),
                   env |-> Extended(q.containers[i].env, m.container_env)]],
                annotated |-> TRUE,
                marker |-> q.marker \union {ProviderOrder[k] : k \in Injected(a)}]
<1> DEFINE m == merge(Plans(a))
<1>1. ToSet(m.injected_providers) = {ProviderOrder[k] : k \in Injected(a)}
  BY MergedHas
<1>2. q.annotated \in BOOLEAN
  BY DEF PodShape
<1> HIDE DEF m
<1> QED BY <1>1, <1>2 DEF PassOver, Applied, build, container_patches, Extended,
           marker_patch, merged_marker, m

\* A container that has what the plans for a set want, and such a pod.
ContainerComplete(c, a) ==
  /\ NamesIn(merge(Plans(a)).container_mounts) \subseteq names(c.volume_mounts)
  /\ NamesIn(merge(Plans(a)).container_env) \subseteq names(c.env)

PodComplete(q, a) ==
  /\ q.annotated
  /\ {ProviderOrder[k] : k \in Injected(a)} \subseteq q.marker
  /\ NamesIn(merge(Plans(a)).volumes) \subseteq names(q.volumes)
  /\ NamesIn(merge(Plans(a)).init_containers) \subseteq names(q.init_containers)
  /\ \A i \in DOMAIN q.containers : ContainerComplete(q.containers[i], a)

\* A container keeps its shape, its names stay unique, and it gets what it
\* lacks (patch.rs:54-85).
LEMMA ContainerPass ==
  ASSUME NEW c, ContainerShape(c), NEW a \in AnnotationSetsOffered
  PROVE  LET m == merge(Plans(a))
             new == [volume_mounts |-> Extended(c.volume_mounts, m.container_mounts),
                     env |-> Extended(c.env, m.container_env)]
         IN  /\ ContainerShape(new)
             /\ ContainerNamesUnique(c) => ContainerNamesUnique(new)
             /\ ContainerComplete(new, a)
             /\ ContainerComplete(c, a) => new = c
             /\ IsPrefix(Items(c.volume_mounts), Items(new.volume_mounts))
             /\ IsPrefix(Items(c.env), Items(new.env))
<1> DEFINE m == merge(Plans(a))
           mounts == Extended(c.volume_mounts, m.container_mounts)
           env == Extended(c.env, m.container_env)
           new == [volume_mounts |-> mounts, env |-> env]
<1>1. /\ c = [volume_mounts |-> c.volume_mounts, env |-> c.env]
      /\ IsVecOption(c.volume_mounts) /\ IsVecOption(c.env)
  BY DEF ContainerShape
<1>2. /\ IsVec(m.container_mounts) /\ UniqueIn(m.container_mounts)
      /\ IsVec(m.container_env) /\ UniqueIn(m.container_env)
  BY MergedHas DEF NamedParts
<1> HIDE DEF m
<1>3. /\ IsVecOption(mounts)
      /\ IsPrefix(Items(c.volume_mounts), Items(mounts))
      /\ names(mounts) = names(c.volume_mounts) \union NamesIn(m.container_mounts)
      /\ Unique(c.volume_mounts) => Unique(mounts)
      /\ NamesIn(m.container_mounts) \subseteq names(c.volume_mounts) => mounts = c.volume_mounts
  BY <1>1, <1>2, ExtendedIs
<1>4. /\ IsVecOption(env)
      /\ IsPrefix(Items(c.env), Items(env))
      /\ names(env) = names(c.env) \union NamesIn(m.container_env)
      /\ Unique(c.env) => Unique(env)
      /\ NamesIn(m.container_env) \subseteq names(c.env) => env = c.env
  BY <1>1, <1>2, ExtendedIs
<1> HIDE DEF mounts, env
<1>5. new.volume_mounts = mounts /\ new.env = env /\ new = [volume_mounts |-> new.volume_mounts, env |-> new.env]
  OBVIOUS
<1>6. ContainerComplete(c, a) => new = c
  BY <1>1, <1>3, <1>4 DEF ContainerComplete, m
<1> HIDE DEF new
<1> QED BY <1>3, <1>4, <1>5, <1>6
        DEF ContainerShape, ContainerNamesUnique, ContainerComplete, m, mounts, env, new

Truthful(q) == q.marker = WithToken(Elements(q.volumes))

\* What a pass only adds to (patch.rs:3-6).
Kept(q, new) ==
  /\ IsPrefix(Items(q.volumes), Items(new.volumes))
  /\ IsPrefix(Items(q.init_containers), Items(new.init_containers))
  /\ DOMAIN new.containers = DOMAIN q.containers
  /\ \A i \in DOMAIN q.containers :
       /\ IsPrefix(Items(q.containers[i].volume_mounts), Items(new.containers[i].volume_mounts))
       /\ IsPrefix(Items(q.containers[i].env), Items(new.containers[i].env))

\* The marker and the token volumes of a pass are those of the same providers
\* (plan.rs:107-110, patch.rs:128-148).
LEMMA TokensWanted ==
  ASSUME NEW a \in AnnotationSetsOffered, NEW p \in ToSet(ProviderOrder)
  PROVE  <<p, "token">> \in NamesIn(merge(Plans(a)).volumes)
           <=> p \in {ProviderOrder[k] : k \in Injected(a)}
<1>1. NamesIn(merge(Plans(a)).volumes) = {v.name : v \in Wanted(a, "volumes")}
  BY MergedHas DEF NamesIn, ToSet, NamedParts
<1>2. \A k \in Injected(a) :
        (\E v \in ToSet(Outcome(k, a).plan.volumes) : v.name = <<p, "token">>)
          <=> p = ProviderOrder[k]
  <2> SUFFICES ASSUME NEW k \in Injected(a)
               PROVE  (\E v \in ToSet(Outcome(k, a).plan.volumes) : v.name = <<p, "token">>)
                        <=> p = ProviderOrder[k]
    OBVIOUS
  <2>1. WithToken(ToSet(Outcome(k, a).plan.volumes)) = {ProviderOrder[k]}
    BY PlansAssumption DEF PlanShape
  <2> QED BY <2>1 DEF WithToken
<1>3. \A x : x \in Wanted(a, "volumes")
               <=> \E k \in Injected(a) : x \in ToSet(Outcome(k, a).plan.volumes)
  BY DEF Wanted
<1> HIDE DEF Wanted
<1> QED BY <1>1, <1>2, <1>3

\* The providers with a token volume, by the names of the volumes.
LEMMA WithTokenIs ==
  ASSUME NEW list
  PROVE  WithToken(Elements(list)) = {p \in ToSet(ProviderOrder) : <<p, "token">> \in names(list)}
BY DEF WithToken, Elements, names, ToSet

\* A pass keeps the shape of a pod, the uniqueness of its names and the truth
\* of its marker; it leaves a complete pod behind, and alone.
LEMMA PassKeeps ==
  ASSUME NEW q, PodShape(q), PodNamesUnique(q), Truthful(q), NEW a \in AnnotationSetsOffered
  PROVE  LET new == PassOver(q, a)
         IN  /\ PodShape(new) /\ PodNamesUnique(new) /\ Truthful(new)
             /\ PodComplete(new, a) /\ Kept(q, new)
             /\ PodComplete(q, a) => new = q
<1> DEFINE m == merge(Plans(a))
           volumes == Extended(q.volumes, m.volumes)
           inits == Extended(q.init_containers, m.init_containers)
           Container(i) ==
             [volume_mounts |-> Extended(q.containers[i].volume_mounts, m.container_mounts),
              env |-> Extended(q.containers[i].env, m.container_env)]
           containers == [i \in DOMAIN q.containers |-> Container(i)]
           marker == q.marker \union {ProviderOrder[k] : k \in Injected(a)}
           new == PassOver(q, a)
<1>1. new = [volumes |-> volumes, init_containers |-> inits, containers |-> containers,
             annotated |-> TRUE, marker |-> marker]
  BY PassIs
<1>2. /\ q = [volumes |-> q.volumes, init_containers |-> q.init_containers,
              containers |-> q.containers, annotated |-> q.annotated, marker |-> q.marker]
      /\ IsVecOption(q.volumes) /\ IsVecOption(q.init_containers)
      /\ IsVec(q.containers) /\ \A i \in DOMAIN q.containers : ContainerShape(q.containers[i])
      /\ q.annotated \in BOOLEAN
  BY DEF PodShape
<1>3. /\ Unique(q.volumes) /\ Unique(q.init_containers)
      /\ \A i \in DOMAIN q.containers : ContainerNamesUnique(q.containers[i])
  BY DEF PodNamesUnique
<1>4. /\ IsVec(m.volumes) /\ UniqueIn(m.volumes)
      /\ IsVec(m.init_containers) /\ UniqueIn(m.init_containers)
  BY MergedHas DEF NamedParts
<1>5. /\ IsVecOption(volumes)
      /\ IsPrefix(Items(q.volumes), Items(volumes))
      /\ names(volumes) = names(q.volumes) \union NamesIn(m.volumes)
      /\ Unique(volumes)
      /\ NamesIn(m.volumes) \subseteq names(q.volumes) => volumes = q.volumes
  <2> HIDE DEF m
  <2> QED BY <1>2, <1>3, <1>4, ExtendedIs
<1>6. /\ IsVecOption(inits)
      /\ IsPrefix(Items(q.init_containers), Items(inits))
      /\ names(inits) = names(q.init_containers) \union NamesIn(m.init_containers)
      /\ Unique(inits)
      /\ NamesIn(m.init_containers) \subseteq names(q.init_containers) => inits = q.init_containers
  <2> HIDE DEF m
  <2> QED BY <1>2, <1>3, <1>4, ExtendedIs
<1>7. \A i \in DOMAIN q.containers :
        /\ ContainerShape(Container(i)) /\ ContainerNamesUnique(Container(i))
        /\ ContainerComplete(Container(i), a)
        /\ ContainerComplete(q.containers[i], a) => Container(i) = q.containers[i]
        /\ IsPrefix(Items(q.containers[i].volume_mounts), Items(Container(i).volume_mounts))
        /\ IsPrefix(Items(q.containers[i].env), Items(Container(i).env))
  BY <1>2, <1>3, ContainerPass
<1> HIDE DEF Container, m, volumes, inits
<1>8. /\ DOMAIN containers = DOMAIN q.containers
      /\ \A i \in DOMAIN q.containers : containers[i] = Container(i)
  OBVIOUS
<1>9. IsVec(containers)
  <2>1. q.containers \in Seq(ToSet(q.containers))
    BY <1>2 DEF IsVec
  <2>2. Len(q.containers) \in Nat /\ DOMAIN q.containers = 1 .. Len(q.containers)
    BY <2>1
  <2> DEFINE S == {Container(i) : i \in 1 .. Len(q.containers)}
  <2>3. containers \in [1 .. Len(q.containers) -> S]
    BY <2>2
  <2>4. containers \in Seq(S)
    <3> HIDE DEF S, containers
    <3> QED BY <2>2, <2>3
  <2> HIDE DEF containers
  <2> QED BY <2>4, VecIs
<1>10. marker = WithToken(Elements(volumes))
  <2>1. q.marker = {p \in ToSet(ProviderOrder) : <<p, "token">> \in names(q.volumes)}
    BY WithTokenIs DEF Truthful
  <2>2. WithToken(Elements(volumes)) = {p \in ToSet(ProviderOrder) : <<p, "token">> \in names(volumes)}
    BY WithTokenIs
  <2>3. \A p \in ToSet(ProviderOrder) :
          <<p, "token">> \in NamesIn(m.volumes) <=> p \in {ProviderOrder[k] : k \in Injected(a)}
    BY TokensWanted DEF m
  <2>4. {ProviderOrder[k] : k \in Injected(a)} \subseteq ToSet(ProviderOrder)
    BY DEF Injected, Consulted, ToSet
  <2> QED BY <1>5, <2>1, <2>2, <2>3, <2>4
<1> HIDE DEF containers, marker, new
<1>11. /\ new.volumes = volumes /\ new.init_containers = inits /\ new.containers = containers
       /\ new.annotated = TRUE /\ new.marker = marker
       /\ new = [volumes |-> new.volumes, init_containers |-> new.init_containers,
                 containers |-> new.containers, annotated |-> new.annotated, marker |-> new.marker]
  BY <1>1
<1>12. PodShape(new)
  BY <1>5, <1>6, <1>7, <1>8, <1>9, <1>11 DEF PodShape
<1>13. PodNamesUnique(new)
  BY <1>5, <1>6, <1>7, <1>8, <1>11 DEF PodNamesUnique
<1>14. Truthful(new)
  BY <1>10, <1>11 DEF Truthful
<1>15. PodComplete(new, a)
  BY <1>5, <1>6, <1>7, <1>8, <1>11 DEF PodComplete, m, marker
<1>16. Kept(q, new)
  BY <1>5, <1>6, <1>7, <1>8, <1>11 DEF Kept
<1>17. ASSUME PodComplete(q, a) PROVE new = q
  <2>1. volumes = q.volumes /\ inits = q.init_containers
    BY <1>5, <1>6, <1>17 DEF PodComplete, m
  <2>2. q.annotated = TRUE /\ marker = q.marker
    BY <1>2, <1>17 DEF PodComplete, marker
  <2>3. containers = q.containers
    <3>1. \A i \in DOMAIN q.containers : containers[i] = q.containers[i]
      BY <1>7, <1>8, <1>17 DEF PodComplete
    <3>2. containers = [i \in DOMAIN q.containers |-> containers[i]]
      BY <1>8 DEF containers
    <3>3. q.containers = [i \in DOMAIN q.containers |-> q.containers[i]]
      BY <1>2 DEF IsVec
    <3> QED BY <3>1, <3>2, <3>3
  <2> QED BY <1>1, <1>2, <2>1, <2>2, <2>3
<1> QED BY <1>12, <1>13, <1>14, <1>15, <1>16, <1>17 DEF new

-----------------------------------------------------------------------------
(* The inductive invariant: the pod has its shape, unique names and a true *)
(* marker, and is complete for the set of its last pass until something    *)
(* else happens.                                                           *)

InjInv ==
  /\ PodShape(pod) /\ NamesUnique /\ MarkerTruthful
  /\ annos \in AnnotationSetsOffered /\ settled \subseteq {annos}
  /\ settled # {} => PodComplete(pod, annos)

\* Pods are submitted with unique names, and nothing is settled.
LEMMA InitInj == Init => InjInv
BY UsersAssumption DEF Init, InjInv, NamesUnique, MarkerTruthful

\* A pass: see PassKeeps (patch.rs:18-109).
LEMMA MutateInj ==
  ASSUME InjInv, Mutate
  PROVE  InjInv' /\ pod' = PassOver(pod, annos) /\ Kept(pod, pod')
<1>1. pod' = PassOver(pod, annos) /\ annos' = annos /\ settled' = {annos}
  BY DEF Mutate, PassOver
<1> DEFINE new == PassOver(pod, annos)
<1>2. /\ PodShape(new) /\ PodNamesUnique(new) /\ Truthful(new)
      /\ PodComplete(new, annos) /\ Kept(pod, new)
  BY PassKeeps DEF InjInv, NamesUnique, MarkerTruthful, Truthful
<1> HIDE DEF new
<1> QED BY <1>1, <1>2 DEF InjInv, NamesUnique, MarkerTruthful, Truthful, new

\* Another webhook adds a container, whose names are unique.
LEMMA SidecarInj ==
  ASSUME InjInv, NEW c \in Sidecars,
         pod' = [pod EXCEPT !.containers = Append(@, c)], settled' = {}, annos' = annos
  PROVE  InjInv'
<1> DEFINE s == pod.containers
           t == Append(s, c)
<1>1. /\ pod = [volumes |-> pod.volumes, init_containers |-> pod.init_containers,
                containers |-> s, annotated |-> pod.annotated, marker |-> pod.marker]
      /\ s \in Seq(ToSet(s))
  BY DEF InjInv, PodShape, IsVec
<1>2. pod' = [volumes |-> pod.volumes, init_containers |-> pod.init_containers,
              containers |-> t, annotated |-> pod.annotated, marker |-> pod.marker]
  BY <1>1
<1>3. t \in Seq(ToSet(s) \union {c})
  BY <1>1
<1>4. DOMAIN t = 1 .. Len(s) + 1 /\ Len(s) \in Nat /\ DOMAIN s = 1 .. Len(s)
      /\ t[Len(s) + 1] = c /\ \A i \in DOMAIN s : t[i] = s[i]
  BY <1>1
<1>5. \A i \in DOMAIN t : i \in DOMAIN s \/ t[i] = c
  BY <1>4
<1> HIDE DEF t
<1>6. ContainerShape(c) /\ ContainerNamesUnique(c)
  BY UsersAssumption
<1>7. /\ IsVec(t)
      /\ \A i \in DOMAIN t : ContainerShape(t[i]) /\ ContainerNamesUnique(t[i])
  BY <1>3, <1>4, <1>5, <1>6, VecIs DEF InjInv, NamesUnique, PodShape, PodNamesUnique
<1>8. PodShape(pod') /\ PodNamesUnique(pod') /\ Truthful(pod')
  <2>1. pod'.containers = t /\ pod'.volumes = pod.volumes /\ pod'.marker = pod.marker
        /\ pod'.init_containers = pod.init_containers /\ pod'.annotated = pod.annotated
    BY <1>2
  <2> QED BY <1>2, <1>7, <2>1
          DEF InjInv, PodShape, NamesUnique, PodNamesUnique, MarkerTruthful, Truthful
<1> QED BY <1>8 DEF InjInv, NamesUnique, MarkerTruthful, Truthful

\* The invariant holds over passes, added containers and edits of annotations.
LEMMA NextInj == InjInv /\ [Next]_vars => InjInv'
<1> SUFFICES ASSUME InjInv, [Next]_vars PROVE InjInv'
  OBVIOUS
<1>1. CASE Mutate
  BY <1>1, MutateInj
<1>2. CASE AddSidecar
  BY <1>2, SidecarInj DEF AddSidecar
<1>3. CASE Reannotate
  BY <1>3 DEF Reannotate, InjInv, NamesUnique, MarkerTruthful
<1>4. CASE UNCHANGED vars
  BY <1>4 DEF vars, InjInv, NamesUnique, MarkerTruthful
<1> QED BY <1>1, <1>2, <1>3, <1>4 DEF Next

\* Names stay unique and the marker truthful in all that may happen to a pod.
LEMMA InjInvariant == Spec => []InjInv
BY InitInj, NextInj, PTL DEF Spec

-----------------------------------------------------------------------------
(* Theorems.                                                               *)

\* However often and under whatever annotations a pod is reviewed, no array of
\* it has a name twice (patch.rs:22-83).
THEOREM NamesUniqueCorrect == Spec => []NamesUnique
<1>1. InjInv => NamesUnique
  BY DEF InjInv
<1> QED BY <1>1, InjInvariant, PTL

\* The marker always lists exactly the providers whose token volume is on the
\* pod (annotations.rs:12-14, patch.rs:128-148).
THEOREM MarkerTruthfulCorrect == Spec => []MarkerTruthful
<1>1. InjInv => MarkerTruthful
  BY DEF InjInv
<1> QED BY <1>1, InjInvariant, PTL

\* A pod complete for its set has all that each of the set's plans asks of its
\* containers.
LEMMA InjInjects == InjInv => EveryContainerInjected
<1> SUFFICES ASSUME InjInv,
                    NEW a \in settled, NEW k \in Injected(a), NEW i \in DOMAIN pod.containers
             PROVE  LET plan == Outcome(k, a).plan
                        c == pod.containers[i]
                    IN  /\ {m.name : m \in ToSet(plan.container_mounts)} \subseteq names(c.volume_mounts)
                        /\ {e.name : e \in ToSet(plan.container_env)} \subseteq names(c.env)
  BY DEF EveryContainerInjected
<1>1. a = annos /\ a \in AnnotationSetsOffered /\ ContainerComplete(pod.containers[i], a)
  BY DEF InjInv, PodComplete
<1>2. \A part \in NamedParts : ToSet(merge(Plans(a))[part]) = Wanted(a, part)
  BY <1>1, MergedHas
<1>3. /\ ToSet(Outcome(k, a).plan.container_mounts) \subseteq ToSet(merge(Plans(a)).container_mounts)
      /\ ToSet(Outcome(k, a).plan.container_env) \subseteq ToSet(merge(Plans(a)).container_env)
  BY <1>2 DEF NamedParts, Wanted
<1>4. \A s : NamesIn(s) = {x.name : x \in ToSet(s)}
  BY DEF NamesIn, ToSet
<1> QED BY <1>1, <1>3, <1>4 DEF ContainerComplete

\* After a pass every container, sidecars included, has the variables and the
\* mounts of each provider injected (patch.rs:54-85).
THEOREM EveryContainerInjectedCorrect == Spec => []EveryContainerInjected
BY InjInjects, InjInvariant, PTL

\* A pass only adds: everything in the pod stays where it is
\* (patch.rs:3-6, 113-126).
THEOREM ContentKeptCorrect == Spec => ContentKept
<1>1. ASSUME InjInv, [Next]_vars, vars' # vars, settled' # {} PROVE Kept(pod, pod')
  <2>1. Mutate
    BY <1>1 DEF Next, AddSidecar, Reannotate
  <2> QED BY <1>1, <2>1, MutateInj
<1>2. InjInv /\ [Next]_vars
        => [settled' # {} =>
              /\ IsPrefix(Items(pod.volumes), Items(pod'.volumes))
              /\ IsPrefix(Items(pod.init_containers), Items(pod'.init_containers))
              /\ DOMAIN pod'.containers = DOMAIN pod.containers
              /\ \A i \in DOMAIN pod.containers :
                   LET old == pod.containers[i]
                       new == pod'.containers[i]
                   IN  /\ IsPrefix(Items(old.volume_mounts), Items(new.volume_mounts))
                       /\ IsPrefix(Items(old.env), Items(new.env)) ]_vars
  BY <1>1 DEF Kept
<1> QED BY <1>2, InjInvariant, PTL DEF Spec, ContentKept

\* A second pass under the same annotations changes nothing
\* (docs/architecture.md:363-374, patch.rs:5).
THEOREM SecondPassNoOpCorrect == Spec => SecondPassNoOp
<1>1. ASSUME InjInv, Next, settled # {}, settled' # {} PROVE pod' = pod
  <2>1. Mutate
    BY <1>1 DEF Next, AddSidecar, Reannotate
  <2>2. pod' = PassOver(pod, annos) /\ PodComplete(pod, annos)
    BY <1>1, <2>1, MutateInj DEF InjInv
  <2> QED BY <1>1, <2>2, PassKeeps DEF InjInv, NamesUnique, MarkerTruthful, Truthful
<1>2. InjInv /\ [Next]_vars => [settled # {} /\ settled' # {} => pod' = pod]_vars
  BY <1>1
<1> QED BY <1>2, InjInvariant, PTL DEF Spec, SecondPassNoOp

-----------------------------------------------------------------------------
(* The providers of the repository are as PlansAssumption has them.        *)

Clouds == {"gcp", "aws", "az"}

\* The names a provider uses in the parts of its plan.
VariablesOf(p) ==
  CASE p = "gcp" -> {"GOOGLE_APPLICATION_CREDENTIALS"}
    [] p = "aws" -> {"AWS_ROLE_ARN", "AWS_WEB_IDENTITY_TOKEN_FILE", "AWS_REGION",
                     "AWS_ROLE_SESSION_NAME"}
    [] p = "az" -> {"AZURE_CLIENT_ID", "AZURE_TENANT_ID", "AZURE_FEDERATED_TOKEN_FILE",
                    "AZURE_AUTHORITY_HOST"}
PartsOf(p) == {<<p, "token">>, <<p, "creds">>, <<p, "verify">>, <<p, "creds-writer">>}

\* A list whose names are unique and among those given.
Names(s, allowed) == IsVec(s) /\ UniqueIn(s) /\ NamesIn(s) \subseteq allowed

PlanFits(plan, p) ==
  /\ plan.provider = p
  /\ Names(plan.volumes, PartsOf(p))
  /\ \E v \in ToSet(plan.volumes) : v.name = <<p, "token">>
  /\ Names(plan.container_mounts, PartsOf(p))
  /\ Names(plan.container_env, VariablesOf(p))
  /\ Names(plan.init_containers, PartsOf(p))
  /\ \A c \in ToSet(plan.init_containers) : c.order \in {0, 10}

\* Lists of no, one and two items, and one after another.
LEMMA NoneOf == \A A : Names(<< >>, A) /\ ToSet(<< >>) = {}
<1>1. ToSet(<< >>) = {} /\ << >> \in Seq({})
  BY DEF ToSet
<1> QED BY <1>1 DEF Names, IsVec, UniqueIn, NamesIn

\* The list of one named item, as the providers' vec! builds it.
LEMMA OneOf ==
  ASSUME NEW x, NEW A, x.name \in A
  PROVE  Names(<<x>>, A) /\ ToSet(<<x>>) = {x}
<1>1. ToSet(<<x>>) = {x} /\ <<x>> \in Seq({x})
  BY DEF ToSet
<1>2. DOMAIN <<x>> = {1} /\ <<x>>[1] = x
  OBVIOUS
<1>3. UniqueIn(<<x>>) /\ NamesIn(<<x>>) \subseteq A
  BY <1>2 DEF UniqueIn, NamesIn
<1> QED BY <1>1, <1>3 DEF Names, IsVec

\* The list of two items of different names.
LEMMA TwoOf ==
  ASSUME NEW x, NEW y, NEW A, x.name \in A, y.name \in A, x.name # y.name
  PROVE  Names(<<x, y>>, A) /\ ToSet(<<x, y>>) = {x, y}
<1>1. ToSet(<<x, y>>) = {x, y} /\ <<x, y>> \in Seq({x, y})
  BY DEF ToSet
<1>2. DOMAIN <<x, y>> = {1, 2} /\ <<x, y>>[1] = x /\ <<x, y>>[2] = y
  OBVIOUS
<1>3. UniqueIn(<<x, y>>) /\ NamesIn(<<x, y>>) \subseteq A
  BY <1>2 DEF UniqueIn, NamesIn
<1> QED BY <1>1, <1>3 DEF Names, IsVec

\* The list of three items of different names.
LEMMA ThreeOf ==
  ASSUME NEW x, NEW y, NEW z, NEW A, x.name \in A, y.name \in A, z.name \in A,
         x.name # y.name, x.name # z.name, y.name # z.name
  PROVE  Names(<<x, y, z>>, A)
<1>1. ToSet(<<x, y, z>>) = {x, y, z} /\ <<x, y, z>> \in Seq({x, y, z})
  BY DEF ToSet
<1>2. DOMAIN <<x, y, z>> = {1, 2, 3}
      /\ <<x, y, z>>[1] = x /\ <<x, y, z>>[2] = y /\ <<x, y, z>>[3] = z
  OBVIOUS
<1>3. UniqueIn(<<x, y, z>>) /\ NamesIn(<<x, y, z>>) \subseteq A
  BY <1>2 DEF UniqueIn, NamesIn
<1> QED BY <1>1, <1>3 DEF Names, IsVec

\* A provider's fixed variables and its optional ones (aws lib.rs:95-107) keep
\* their names apart.
LEMMA ListsJoin ==
  ASSUME NEW s, NEW t, NEW A, NEW B, Names(s, A), Names(t, B), A \intersect B = {}
  PROVE  Names(s \o t, A \union B) /\ ToSet(s \o t) = ToSet(s) \union ToSet(t)
<1>1. \A l : NamesIn(l) = {x.name : x \in ToSet(l)}
  BY DEF NamesIn, ToSet
<1>2. IsVec(s) /\ IsVec(t) /\ UniqueIn(s) /\ UniqueIn(t)
      /\ NamesIn(s) \subseteq A /\ NamesIn(t) \subseteq B
  BY DEF Names
<1>3. \A x \in ToSet(s), y \in ToSet(t) : x.name # y.name
  BY <1>1, <1>2
<1>4. IsVec(s \o t) /\ ToSet(s \o t) = ToSet(s) \union ToSet(t) /\ UniqueIn(s \o t)
  BY <1>2, <1>3, VecJoin, JoinUnique
<1>5. NamesIn(s \o t) \subseteq A \union B
  BY <1>1, <1>2, <1>4
<1> QED BY <1>4, <1>5 DEF Names

\* An optional variable is there once or not at all (aws lib.rs:95-107,
\* az lib.rs:100-105).
LEMMA OptionalEnvFits ==
  ASSUME NEW a, NEW key, NEW name
  PROVE  Names(OptionalEnv(a, key, name), {name})
<1> DEFINE e == EnvVar(name, UnwrapOr(first_non_empty(a, key), name))
<1>1. OptionalEnv(a, key, name) \in {<< >>, <<e>>}
  BY DEF OptionalEnv
<1>2. e.name = name
  BY DEF EnvVar
<1> HIDE DEF e
<1> QED BY <1>1, <1>2, NoneOf, OneOf

\* A plan has at most one verify container, of its provider's name and of order 10
\* (plan.rs:220-246).
LEMMA VerifierFits ==
  ASSUME NEW a, NEW p, NEW env, NEW mounts
  PROVE  /\ Names(Verifier(a, p, env, mounts), {<<p, "verify">>})
         /\ \A c \in ToSet(Verifier(a, p, env, mounts)) : c.order = 10
<1> DEFINE c == verify_init_container(p,
                  UnwrapOr(first_explicit_bool(a, verify_enforce_key(p)), FALSE), env, mounts)
           v == Verifier(a, p, env, mounts)
<1>1. v = << >> \/ v = <<c>>
  BY DEF Verifier
<1>2. c.name = <<p, "verify">> /\ c.order = 10
  BY DEF verify_init_container, InitContainer
<1> HIDE DEF c, v
<1>3. Names(<<c>>, {<<p, "verify">>}) /\ ToSet(<<c>>) = {c}
  BY <1>2, OneOf
<1> QED BY <1>1, <1>2, <1>3, NoneOf DEF v

\* A list with names of some set has names of every larger one.
LEMMA NamesWiden ==
  ASSUME NEW s, NEW A, NEW B, Names(s, A), A \subseteq B
  PROVE  Names(s, B)
BY DEF Names

\* The token volume and its mount are named after the provider
\* (plan.rs:107-141).
LEMMA TokenFits ==
  ASSUME NEW a, NEW p, NEW audience
  PROVE  LET token == projected_token(a, p, audience)
         IN  volume(token).name = <<p, "token">> /\ mount(token).name = <<p, "token">>
BY DEF projected_token, volume, mount, volume_name, VolumeSpec, VolumeMount

\* AwsProvider::plan: every part has items of its own names only, no name twice
\* (aws lib.rs:59-141).
LEMMA AwsFits ==
  ASSUME NEW a, aws_plan(a).status = "planned"
  PROVE  PlanFits(aws_plan(a).plan, "aws")
<1> DEFINE role == native_or(a, <<"aws", "role-arn">>, native_key("aws"), NativeAnnotations)
           token == projected_token(a, "aws",
                      UnwrapOr(first_non_empty(a, audience_key("aws")), Plain("sts.amazonaws.com")))
           e1 == EnvVar("AWS_ROLE_ARN", UnwrapOr(role, Plain("")))
           e2 == EnvVar("AWS_WEB_IDENTITY_TOKEN_FILE", token_file_path(token))
           region == OptionalEnv(a, <<"aws", "region">>, "AWS_REGION")
           session == OptionalEnv(a, <<"aws", "role-session-name">>, "AWS_ROLE_SESSION_NAME")
           env == <<e1, e2>> \o region \o session
           verifier == Verifier(a, "aws", env, <<mount(token)>>)
           plan == ProviderPlan("aws", <<volume(token)>>, <<mount(token)>>, env, verifier, {})
<1>1. aws_plan(a) = Planned(plan)
  BY DEF aws_plan, Unconfigured
<1>2. e1.name = "AWS_ROLE_ARN" /\ e2.name = "AWS_WEB_IDENTITY_TOKEN_FILE"
  BY DEF EnvVar
<1>3. volume(token).name = <<"aws", "token">> /\ mount(token).name = <<"aws", "token">>
  BY TokenFits
<1>4. Names(verifier, {<<"aws", "verify">>}) /\ \A c \in ToSet(verifier) : c.order = 10
  <2> HIDE DEF env, token
  <2> QED BY VerifierFits
<1>5. Names(region, {"AWS_REGION"}) /\ Names(session, {"AWS_ROLE_SESSION_NAME"})
  BY OptionalEnvFits
<1> HIDE DEF region, session, token, e1, e2
<1>6. Names(env, VariablesOf("aws"))
  <2>1. Names(<<e1, e2>>, {"AWS_ROLE_ARN", "AWS_WEB_IDENTITY_TOKEN_FILE"})
    BY <1>2, TwoOf
  <2>2. Names(<<e1, e2>> \o region, {"AWS_ROLE_ARN", "AWS_WEB_IDENTITY_TOKEN_FILE"} \union {"AWS_REGION"})
    BY <1>5, <2>1, ListsJoin
  <2>3. Names(env, {"AWS_ROLE_ARN", "AWS_WEB_IDENTITY_TOKEN_FILE"} \union {"AWS_REGION"}
                     \union {"AWS_ROLE_SESSION_NAME"})
    BY <1>5, <2>2, ListsJoin
  <2> HIDE DEF env
  <2> QED BY <2>3, NamesWiden DEF VariablesOf
<1> HIDE DEF env, verifier
<1>7. /\ Names(<<volume(token)>>, PartsOf("aws")) /\ ToSet(<<volume(token)>>) = {volume(token)}
      /\ Names(<<mount(token)>>, PartsOf("aws"))
  BY <1>3, OneOf DEF PartsOf
<1>8. Names(verifier, PartsOf("aws"))
  BY <1>4, NamesWiden DEF PartsOf
<1> QED BY <1>1, <1>3, <1>4, <1>6, <1>7, <1>8 DEF PlanFits, Planned, ProviderPlan

\* AzProvider::plan: the same (az lib.rs:62-144).
LEMMA AzFits ==
  ASSUME NEW a, az_plan(a).status = "planned"
  PROVE  PlanFits(az_plan(a).plan, "az")
<1> DEFINE client == native_or(a, <<"az", "client-id">>, native_key("az"), NativeAnnotations)
           tenant == native_or(a, <<"az", "tenant-id">>, native_az_tenant, NativeAnnotations)
           token == projected_token(a, "az",
                      UnwrapOr(first_non_empty(a, audience_key("az")),
                               Plain("api://AzureADTokenExchange")))
           e1 == EnvVar("AZURE_CLIENT_ID", UnwrapOr(client, Plain("")))
           e2 == EnvVar("AZURE_TENANT_ID", UnwrapOr(tenant, Plain("")))
           e3 == EnvVar("AZURE_FEDERATED_TOKEN_FILE", token_file_path(token))
           host == OptionalEnv(a, <<"az", "authority-host">>, "AZURE_AUTHORITY_HOST")
           env == <<e1, e2, e3>> \o host
           verifier == Verifier(a, "az", env, <<mount(token)>>)
           plan == ProviderPlan("az", <<volume(token)>>, <<mount(token)>>, env, verifier, {})
<1>1. az_plan(a) = Planned(plan)
  BY DEF az_plan, Unconfigured
<1>2. /\ e1.name = "AZURE_CLIENT_ID" /\ e2.name = "AZURE_TENANT_ID"
      /\ e3.name = "AZURE_FEDERATED_TOKEN_FILE"
  BY DEF EnvVar
<1>3. volume(token).name = <<"az", "token">> /\ mount(token).name = <<"az", "token">>
  BY TokenFits
<1>4. Names(verifier, {<<"az", "verify">>}) /\ \A c \in ToSet(verifier) : c.order = 10
  <2> HIDE DEF env, token
  <2> QED BY VerifierFits
<1>5. Names(host, {"AZURE_AUTHORITY_HOST"})
  BY OptionalEnvFits
<1> HIDE DEF host, token, e1, e2, e3
<1>6. Names(env, VariablesOf("az"))
  <2>1. Names(<<e1, e2, e3>>, {"AZURE_CLIENT_ID", "AZURE_TENANT_ID", "AZURE_FEDERATED_TOKEN_FILE"})
    BY <1>2, ThreeOf
  <2>2. Names(env, {"AZURE_CLIENT_ID", "AZURE_TENANT_ID", "AZURE_FEDERATED_TOKEN_FILE"}
                     \union {"AZURE_AUTHORITY_HOST"})
    BY <1>5, <2>1, ListsJoin
  <2> HIDE DEF env
  <2> QED BY <2>2, NamesWiden DEF VariablesOf
<1> HIDE DEF env, verifier
<1>7. /\ Names(<<volume(token)>>, PartsOf("az")) /\ ToSet(<<volume(token)>>) = {volume(token)}
      /\ Names(<<mount(token)>>, PartsOf("az"))
  BY <1>3, OneOf DEF PartsOf
<1>8. Names(verifier, PartsOf("az"))
  BY <1>4, NamesWiden DEF PartsOf
<1> QED BY <1>1, <1>3, <1>4, <1>6, <1>7, <1>8 DEF PlanFits, Planned, ProviderPlan

\* GcpProvider::plan: the same, whichever way its credentials are delivered
\* (gcp lib.rs:93-238).
LEMMA GcpFits ==
  ASSUME NEW a, gcp_plan(a).status = "planned"
  PROVE  PlanFits(gcp_plan(a).plan, "gcp")
<1> DEFINE audience == UnwrapOr(first_non_empty(a, audience_key("gcp")),
                                UnwrapOr(GcpDefaultAudience, Plain("")))
           token == projected_token(a, "gcp", audience)
           sa_email == native_or(a, <<"gcp", "service-account">>, native_key("gcp"),
                                 NativeAnnotations)
           creds_json == build_credentials_json(audience, token_file_path(token), sa_email)
           name == configmap_name(audience, sa_email)
           e1 == EnvVar("GOOGLE_APPLICATION_CREDENTIALS",
                        <<MountRoot, "gcp-creds", CREDS_FILENAME>>)
           mounts == <<mount(token), creds_mount>>
           verifier == Verifier(a, "gcp", <<e1>>, mounts)
           w == writer(creds_json)
           cm == VolumeSpec(creds_volume, [kind |-> "configMap", name |-> name])
           dir == VolumeSpec(creds_volume, [kind |-> "emptyDir"])
           delivered == ProviderPlan("gcp", <<volume(token), cm>>, mounts, <<e1>>, verifier,
                                     {[name |-> name, data |-> creds_json]})
           written == ProviderPlan("gcp", <<volume(token), dir>>, mounts, <<e1>>,
                                   <<w>> \o verifier, {})
<1>1. gcp_plan(a) = Planned(delivered) \/ gcp_plan(a) = Planned(written)
  BY DEF gcp_plan, Unconfigured, Invalid
<1>2. /\ e1.name = "GOOGLE_APPLICATION_CREDENTIALS" /\ creds_mount.name = <<"gcp", "creds">>
      /\ cm.name = <<"gcp", "creds">> /\ dir.name = <<"gcp", "creds">>
      /\ w.name = <<"gcp", "creds-writer">> /\ w.order = 0
  BY DEF EnvVar, creds_mount, creds_volume, VolumeMount, VolumeSpec, writer, InitContainer
<1>3. volume(token).name = <<"gcp", "token">> /\ mount(token).name = <<"gcp", "token">>
  BY TokenFits
<1>4. Names(verifier, {<<"gcp", "verify">>}) /\ \A c \in ToSet(verifier) : c.order = 10
  <2> HIDE DEF e1, mounts
  <2> QED BY VerifierFits
<1> HIDE DEF token, e1, verifier, w, cm, dir, name, creds_json
<1>5. /\ <<"gcp", "token">> # <<"gcp", "creds">>
      /\ <<"gcp", "verify">> # <<"gcp", "creds-writer">>
  OBVIOUS
<1>6. /\ Names(<<volume(token), cm>>, PartsOf("gcp"))
      /\ Names(<<volume(token), dir>>, PartsOf("gcp"))
      /\ Names(mounts, PartsOf("gcp"))
      /\ volume(token) \in ToSet(<<volume(token), cm>>) /\ volume(token) \in ToSet(<<volume(token), dir>>)
  BY <1>2, <1>3, <1>5, TwoOf DEF PartsOf
<1>7. Names(<<e1>>, VariablesOf("gcp"))
  BY <1>2, OneOf DEF VariablesOf
<1>8. /\ Names(verifier, PartsOf("gcp"))
      /\ Names(<<w>> \o verifier, PartsOf("gcp"))
      /\ \A c \in ToSet(<<w>> \o verifier) : c.order \in {0, 10}
  <2>1. Names(<<w>>, {<<"gcp", "creds-writer">>}) /\ ToSet(<<w>>) = {w}
    BY <1>2, OneOf
  <2>2. /\ Names(<<w>> \o verifier, {<<"gcp", "creds-writer">>} \union {<<"gcp", "verify">>})
        /\ ToSet(<<w>> \o verifier) = {w} \union ToSet(verifier)
    BY <1>4, <1>5, <2>1, ListsJoin
  <2>3. {<<"gcp", "creds-writer">>} \union {<<"gcp", "verify">>} \subseteq PartsOf("gcp")
    BY DEF PartsOf
  <2> QED BY <1>2, <1>4, <2>2, <2>3, NamesWiden
<1> HIDE DEF mounts
<1>9. PlanFits(delivered, "gcp")
  BY <1>3, <1>4, <1>6, <1>7, <1>8 DEF PlanFits, ProviderPlan
<1>10. PlanFits(written, "gcp")
  BY <1>3, <1>6, <1>7, <1>8 DEF PlanFits, ProviderPlan
<1> HIDE DEF delivered, written
<1> QED BY <1>1, <1>9, <1>10 DEF Planned

\* Plans that fit have the shape PlansAssumption asks for, and no name in common
\* but their own.
LEMMA FitsShape ==
  ASSUME NEW plan, NEW p \in ToSet(ProviderOrder), PlanFits(plan, p)
  PROVE  PlanShape(plan, p)
<1>1. \A part \in NamedParts : IsVec(plan[part])
  BY DEF PlanFits, Names, NamedParts
<1>2. \A v \in ToSet(plan.volumes) : v.name \in PartsOf(p)
  BY DEF PlanFits, Names, NamesIn, ToSet
<1>3. \A r : <<r, "token">> \in PartsOf(p) => r = p
  BY DEF PartsOf
<1>4. WithToken(ToSet(plan.volumes)) = {p}
  <2> HIDE DEF PartsOf
  <2>1. \E v \in ToSet(plan.volumes) : v.name = <<p, "token">>
    BY DEF PlanFits
  <2>2. \A r \in ToSet(ProviderOrder) :
          (\E v \in ToSet(plan.volumes) : v.name = <<r, "token">>) <=> r = p
    BY <1>2, <1>3, <2>1
  <2> QED BY <2>2 DEF WithToken
<1> QED BY <1>1, <1>4 DEF PlanFits, PlanShape

\* Plans of different providers share no name.
LEMMA FitsApart ==
  ASSUME NEW p \in Clouds, NEW q \in Clouds, NEW mine, NEW other,
         PlanFits(mine, p), PlanFits(other, q), p = q => mine = other
  PROVE  PlansApart(mine, other, p = q)
<1> SUFFICES ASSUME NEW part \in NamedParts,
                    NEW i \in DOMAIN mine[part], NEW j \in DOMAIN other[part],
                    mine[part][i].name = other[part][j].name
             PROVE  p = q /\ i = j
  BY DEF PlansApart
<1>1. PartsOf(p) \intersect PartsOf(q) # {} => p = q
  BY DEF PartsOf
<1>2. VariablesOf(p) \intersect VariablesOf(q) # {} => p = q
  BY DEF VariablesOf, Clouds
<1>3. /\ UniqueIn(mine[part])
      /\ \/ mine[part][i].name \in PartsOf(p) /\ other[part][j].name \in PartsOf(q)
         \/ mine[part][i].name \in VariablesOf(p) /\ other[part][j].name \in VariablesOf(q)
  BY DEF PlanFits, Names, NamesIn, NamedParts
<1> HIDE DEF PartsOf, VariablesOf
<1>4. p = q
  BY <1>1, <1>2, <1>3
<1> QED BY <1>3, <1>4 DEF UniqueIn

\* The providers of the repository are as PlansAssumption has them, whatever the
\* annotations and their configuration (the plan functions of the three
\* provider crates, plan.rs:107-141).
THEOREM ProvidersMeetAssumption ==
  ASSUME ToSet(ProviderOrder) \subseteq Clouds, NEW a,
         NEW p \in ToSet(ProviderOrder), NEW q \in ToSet(ProviderOrder),
         plan_of(p, a).status = "planned", plan_of(q, a).status = "planned"
  PROVE  /\ PlanShape(plan_of(p, a).plan, p)
         /\ PlansApart(plan_of(p, a).plan, plan_of(q, a).plan, p = q)
<1>1. \A r \in Clouds : plan_of(r, a).status = "planned" => PlanFits(plan_of(r, a).plan, r)
  BY AwsFits, AzFits, GcpFits DEF Clouds, plan_of
<1>2. p \in Clouds /\ q \in Clouds
  OBVIOUS
<1> HIDE DEF Clouds
<1> QED BY <1>1, <1>2, FitsShape, FitsApart
=============================================================================
