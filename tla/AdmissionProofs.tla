--------------------------- MODULE AdmissionProofs --------------------------
(***************************************************************************)
(* Theorems of Admission, for every set of reviews, pods, objects and      *)
(* ConfigMaps, and for every registry of providers that satisfies the      *)
(* assumptions of Admission.                                               *)
(*                                                                         *)
(* CredsInPlace is not inductive: that a patch is answered only when its   *)
(* ConfigMaps are in place rests on what a handler with upserts to do has  *)
(* achieved so far (CredsSoFar), on what it may still have to do           *)
(* (HandlerInv), and on the naming of ConfigMaps by their contents, which  *)
(* keeps concurrent handlers from undoing each other's work.               *)
(***************************************************************************)
EXTENDS Admission, ResolveProofs

-----------------------------------------------------------------------------
(* The owner walk.                                                         *)

\* NextOf returns 0 or a position of the list.
LEMMA NextOfTyped ==
  ASSUME NEW refs \in Seq(Objects), NEW i \in Nat, NEW kinds
  PROVE  /\ NextOf(refs, i, kinds) \in Nat
         /\ NextOf(refs, i, kinds) # 0 => NextOf(refs, i, kinds) \in DOMAIN refs
<1> DEFINE later == {k \in DOMAIN refs : k > i /\ refs[k].kind \in kinds}
<1>1. later \subseteq Nat /\ later \subseteq DOMAIN refs
  OBVIOUS
<1>2. CASE later = {}
  BY <1>2 DEF NextOf
<1>3. CASE later # {}
  <2> HIDE DEF later
  <2>1. Min(later) \in later
    BY <1>1, <1>3, MinInSet
  <2> QED BY <1>1, <1>3, <2>1 DEF NextOf, later
<1> QED BY <1>2, <1>3

\* A step of the walk of refs: it yields annotations, or wants an object.
WalkStep(refs, step) ==
  /\ step.done \in BOOLEAN
  /\ step.annos \in Maps
  /\ step.walk \in Walks
  /\ ~ step.done => Wanted(refs, step.walk) \in Objects

\* The absent object of a get_opt without a result, and the walk before it starts,
\* have their types.
LEMMA NoObjectTyped == NoObject \in ObjectStates /\ NoWalk \in Walks
BY MapsAssumption, ObjectsAssumption
DEF NoObject, NoWalk, WalkAt, ObjectStates, Walks, NoAnnotations

\* The walk may end with any annotations (the returns of owner_annotations).
LEMMA FoundTyped ==
  ASSUME NEW refs, NEW annos \in Maps
  PROVE  WalkStep(refs, Found(annos))
BY NoObjectTyped DEF WalkStep, Found

\* Going on through the references of the pod asks for an object one of them
\* names, or ends the walk (k8s.rs:27-67).
LEMMA InPodTyped ==
  ASSUME NEW refs \in Seq(Objects), NEW i \in Nat
  PROVE  WalkStep(refs, InPod(refs, i))
<1> DEFINE k == NextOf(refs, i, WorkloadKinds)
<1>1. k \in Nat /\ (k # 0 => k \in DOMAIN refs)
  BY NextOfTyped
<1>2. CASE k = 0
  BY <1>2, FoundTyped, MapsAssumption DEF InPod
<1>3. CASE k # 0
  <2>1. InPod(refs, i) = Continue(WalkAt(k, 0, NoObject))
    BY <1>3 DEF InPod
  <2>2. WalkAt(k, 0, NoObject) \in Walks
    BY <1>1, NoObjectTyped DEF WalkAt, Walks
  <2>3. Wanted(refs, WalkAt(k, 0, NoObject)) = refs[k]
    BY DEF Wanted, WalkAt
  <2>4. refs[k] \in Objects
    BY <1>1, <1>3
  <2> QED BY <2>1, <2>2, <2>3, <2>4, MapsAssumption DEF WalkStep, Continue
<1> QED BY <1>2, <1>3

\* Going on through the owners of a ReplicaSet asks for a Deployment one of them
\* names, or ends with the ReplicaSet (k8s.rs:32-43).
LEMMA InReplicaSetTyped ==
  ASSUME NEW refs, NEW ref \in Nat, NEW rs \in ObjectStates, NEW j \in Nat
  PROVE  WalkStep(refs, InReplicaSet(ref, rs, j))
<1> DEFINE d == NextOf(rs.owners, j, {"Deployment"})
<1>0. rs.owners \in Seq(Objects) /\ rs.annos \in Maps
  BY ObjectsAssumption DEF ObjectStates
<1>1. d \in Nat /\ (d # 0 => d \in DOMAIN rs.owners)
  BY <1>0, NextOfTyped
<1>2. CASE d = 0
  BY <1>0, <1>2, FoundTyped DEF InReplicaSet
<1>3. CASE d # 0
  <2>1. InReplicaSet(ref, rs, j) = Continue(WalkAt(ref, d, rs))
    BY <1>3 DEF InReplicaSet
  <2>2. WalkAt(ref, d, rs) \in Walks
    BY <1>1 DEF WalkAt, Walks
  <2>3. Wanted(refs, WalkAt(ref, d, rs)) = rs.owners[d]
    BY <1>1, <1>3 DEF Wanted, WalkAt
  <2>4. rs.owners[d] \in Objects
    BY <1>0, <1>1, <1>3
  <2> QED BY <2>1, <2>2, <2>3, <2>4, MapsAssumption DEF WalkStep, Continue
<1> QED BY <1>2, <1>3

\* Whatever a GET returns, the walk then asks for an object a reference names, or
\* ends (k8s.rs:27-67).
LEMMA WalkReplyTyped ==
  ASSUME NEW refs \in Seq(Objects), NEW w \in Walks, NEW obj \in ObjectStates
  PROVE  WalkStep(refs, WalkReply(refs, w, obj))
<1>0. /\ w.ref \in Nat /\ w.deployment \in Nat /\ w.rs \in ObjectStates
      /\ obj.annos \in Maps
  BY DEF Walks, ObjectStates
<1>1. CASE w.deployment > 0
  BY <1>0, <1>1, FoundTyped, InReplicaSetTyped DEF WalkReply
<1>2. CASE ~ (w.deployment > 0)
  BY <1>0, <1>2, FoundTyped, InPodTyped, InReplicaSetTyped DEF WalkReply
<1> QED BY <1>1, <1>2

-----------------------------------------------------------------------------
(* The decision.                                                           *)

\* What the loop over the registry collects is planned by an injected provider
\* (admission.rs:144-180).
LEMMA DecisionTyped ==
  ASSUME NEW a \in AnnotationSets
  PROVE  /\ Injected(a) \subseteq DOMAIN ProviderOrder
         /\ NeedsUpsert(a) \subseteq Injected(a)
         /\ ReferencedConfigMaps(a) \subseteq Upserts
         /\ ReferencedConfigMaps(a) \subseteq PlannedConfigMaps
         /\ \A k \in NeedsUpsert(a) : UpsertOf(k, a) \subseteq ReferencedConfigMaps(a)
         /\ \A u \in ReferencedConfigMaps(a) :
              \E k \in NeedsUpsert(a) : u \in UpsertOf(k, a)
<1>1. Injected(a) \subseteq DOMAIN ProviderOrder /\ NeedsUpsert(a) \subseteq Injected(a)
  BY DEF Injected, NeedsUpsert, Consulted
<1>2. \A k \in Injected(a) : UpsertOf(k, a) \subseteq Upserts
  BY ProviderAssumption DEF Injected, Consulted, UpsertOf, Outcome
<1>3. ReferencedConfigMaps(a) \subseteq Upserts
  BY <1>2 DEF ReferencedConfigMaps
<1>4. ReferencedConfigMaps(a) \subseteq PlannedConfigMaps
  BY DEF PlannedConfigMaps
<1>5. \A k \in NeedsUpsert(a) : UpsertOf(k, a) \subseteq ReferencedConfigMaps(a)
  BY <1>1 DEF ReferencedConfigMaps
<1>6. \A u \in ReferencedConfigMaps(a) : \E k \in NeedsUpsert(a) : u \in UpsertOf(k, a)
  BY DEF ReferencedConfigMaps, NeedsUpsert
<1> QED BY <1>1, <1>3, <1>4, <1>5, <1>6

\* A pod's objects and owner annotations are in the cluster that is modelled.
LEMMA ScopesTyped ==
  ASSUME NEW q \in Pods
  PROVE  /\ q.annos \in Maps
         /\ q.owners \in Seq(Objects)
         /\ \A s : ScopeObject(q, s) \in Objects
BY PodsAssumption, ObjectsAssumption DEF ScopeObject

-----------------------------------------------------------------------------
(* The inductive invariant.                                                *)

\* What a handler that still runs knows: it has not answered, and the upserts
\* it has to make are those of a review that is no dry run and is not denied.
HandlerInv ==
  \A r \in Requests :
    /\ Running(r) => answer[r] = "none"
    /\ pc[r] = "upsert" =>
         /\ ~ dry[r]
         /\ Failing(read[r]) = {}
         /\ todo[r] # {}
         /\ todo[r] \subseteq NeedsUpsert(read[r])

\* A ConfigMap that does not exist has no managers.
AbsentUnmanaged == \A c \in CmNames : ~ cms[c].exists => cms[c].managers = {}

InPlace(u) ==
  u.name \in drift \/ (cms[u.name].exists /\ cms[u.name].data = u.data)

\* Every ConfigMap the patch of r mounts is in place or still to be upserted.
CredsSoFar ==
  \A r \in Requests :
    ~ dry[r] /\ (pc[r] = "upsert" \/ answer[r] = "patch") =>
      \A k \in NeedsUpsert(read[r]) :
        \/ pc[r] = "upsert" /\ k \in todo[r]
        \/ \A u \in UpsertOf(k, read[r]) : InPlace(u)

IInv == TypeOK /\ HandlerInv /\ AbsentUnmanaged /\ CredsSoFar

\* The invariant holds before the first review.
LEMMA InitInv == Init => IInv
<1> SUFFICES ASSUME Init PROVE IInv
  OBVIOUS
<1>1. TypeOK
  <2>1. NoConfigMap \in ConfigMapStates
    BY ConfigMapsAssumption DEF NoConfigMap, ConfigMapStates
  <2>2. (CHOOSE q \in Pods : TRUE) \in Pods
    BY PodsAssumption
  <2>3. [s \in Scopes |-> NoAnnotations] \in AnnotationSets
    BY MapsAssumption DEF AnnotationSets
  <2>4. objects \in [Objects -> ObjectStates]
    BY ObjectsAssumption DEF Init
  <2> QED BY <2>1, <2>2, <2>3, <2>4, NoObjectTyped DEF Init, TypeOK
<1>2. HandlerInv
  BY DEF Init, HandlerInv, Running
<1>3. AbsentUnmanaged
  BY DEF Init, AbsentUnmanaged, NoConfigMap
<1>4. CredsSoFar
  BY DEF Init, CredsSoFar
<1> QED BY <1>1, <1>2, <1>3, <1>4 DEF IInv

-----------------------------------------------------------------------------
(* The steps of a handler.                                                 *)

\* A review that arrives preserves the invariant, be its handler started or
\* answered at once (admission.rs:33-39, 92-95).
LEMMA ArriveInv ==
  ASSUME IInv, NEW r \in Requests, NEW q \in Pods, NEW d \in BOOLEAN,
         Arrive(r, q, d),
         walk' \in [Requests -> Walks],
         NEW at \in {"owner", "sa", "done"}, pc' = [pc EXCEPT ![r] = at],
         at = "owner" => Wanted(q.owners, walk'[r]) \in Objects,
         \A r2 \in Requests \ {r} : walk'[r2] = walk[r2],
         NEW a \in {"none", "http_400", "deny"}, answer' = [answer EXCEPT ![r] = a],
         at # "done" => a = "none"
  PROVE  IInv'
<1> USE DEF IInv
<1>1. TypeOK'
  <2>1. <<q.annos, NoAnnotations, NoAnnotations, NoAnnotations>> \in AnnotationSets
    BY ScopesTyped, MapsAssumption DEF AnnotationSets, Scopes
  <2>2. read' \in [Requests -> AnnotationSets]
    BY <2>1 DEF TypeOK, Arrive
  <2>3. Injected(Snapshot(q)) \subseteq DOMAIN ProviderOrder
    BY DEF Injected, Consulted
  <2>4. standing' \in [Requests -> SUBSET DOMAIN ProviderOrder]
    BY <2>3 DEF TypeOK, Arrive
  <2>5. \A r2 \in Requests : pc'[r2] = "owner" => Wanted(pod'[r2].owners, walk'[r2]) \in Objects
    BY DEF TypeOK, Arrive
  <2> QED BY <2>2, <2>4, <2>5 DEF TypeOK, Arrive
<1>2. HandlerInv'
  BY DEF TypeOK, HandlerInv, Arrive, Running
<1>3. AbsentUnmanaged'
  BY DEF AbsentUnmanaged, Arrive
<1>4. CredsSoFar'
  BY DEF TypeOK, CredsSoFar, Arrive, InPlace
<1> QED BY <1>1, <1>2, <1>3, <1>4

\* Receive preserves the invariant (admission.rs:92-114).
LEMMA ReceiveInv ==
  ASSUME IInv, NEW r \in Requests, Receive(r)
  PROVE  IInv'
<1>1. PICK q \in Pods, d \in BOOLEAN :
        /\ Arrive(r, q, d)
        /\ walk' = [walk EXCEPT ![r] = WalkStart(q.owners).walk]
        /\ pc' = [pc EXCEPT ![r] = IF WalkStart(q.owners).done THEN "sa" ELSE "owner"]
        /\ answer' = [answer EXCEPT ![r] = "none"]
  BY DEF Receive
<1>2. WalkStep(q.owners, WalkStart(q.owners))
  BY ScopesTyped, InPodTyped DEF WalkStart
<1>3. walk' \in [Requests -> Walks] /\ walk'[r] = WalkStart(q.owners).walk
  BY <1>1, <1>2 DEF IInv, TypeOK, WalkStep
<1>4. \A r2 \in Requests \ {r} : walk'[r2] = walk[r2]
  BY <1>1 DEF IInv, TypeOK
<1>5. CASE WalkStart(q.owners).done
  BY <1>1, <1>3, <1>4, <1>5, ArriveInv
<1>6. CASE ~ WalkStart(q.owners).done
  <2>1. Wanted(q.owners, walk'[r]) \in Objects
    BY <1>2, <1>3, <1>6 DEF WalkStep
  <2> QED BY <1>1, <1>3, <1>4, <1>6, <2>1, ArriveInv
<1> QED BY <1>5, <1>6

\* ReceiveUnusable preserves the invariant (admission.rs:33-39, 92-95).
LEMMA ReceiveUnusableInv ==
  ASSUME IInv, NEW r \in Requests, ReceiveUnusable(r)
  PROVE  IInv'
<1>1. PICK q \in Pods, a \in {"http_400", "deny"} :
        Arrive(r, q, FALSE) /\ Finish(r, a) /\ UNCHANGED walk
  BY DEF ReceiveUnusable
<1>2. walk' \in [Requests -> Walks]
  BY <1>1 DEF IInv, TypeOK
<1> QED BY <1>1, <1>2, ArriveInv DEF Finish

\* GetOwner preserves the invariant (k8s.rs:27-67).
LEMMA GetOwnerInv ==
  ASSUME IInv, NEW r \in Requests, GetOwner(r)
  PROVE  IInv'
<1> DEFINE refs == pod[r].owners
           next == WalkReply(refs, walk[r], objects[Wanted(refs, walk[r])])
<1> USE DEF IInv
<1>1. pod[r] \in Pods /\ refs \in Seq(Objects) /\ walk[r] \in Walks
      /\ objects[Wanted(refs, walk[r])] \in ObjectStates
  BY ScopesTyped DEF TypeOK, GetOwner
<1>2. WalkStep(refs, next)
  BY <1>1, WalkReplyTyped
<1>3. /\ walk' = [walk EXCEPT ![r] = next.walk]
      /\ read' = [read EXCEPT ![r][2] = next.annos]
      /\ pc' = [pc EXCEPT ![r] = IF next.done THEN "sa" ELSE "owner"]
      /\ pc[r] = "owner"
      /\ UNCHANGED <<objects, cms, pod, dry, todo, answer, verdict, quiet, standing, drift>>
  BY DEF GetOwner
<1> HIDE DEF next
<1>4. TypeOK'
  <2>1. read' \in [Requests -> AnnotationSets]
    BY <1>2, <1>3 DEF TypeOK, WalkStep, AnnotationSets, Scopes
  <2>2. walk' \in [Requests -> Walks]
    BY <1>2, <1>3 DEF TypeOK, WalkStep
  <2>3. \A r2 \in Requests : pc'[r2] = "owner" => Wanted(pod'[r2].owners, walk'[r2]) \in Objects
    BY <1>2, <1>3 DEF TypeOK, WalkStep
  <2> QED BY <1>3, <2>1, <2>2, <2>3 DEF TypeOK
<1>5. HandlerInv'
  BY <1>3 DEF TypeOK, HandlerInv, Running
<1>6. AbsentUnmanaged'
  BY <1>3 DEF AbsentUnmanaged
<1>7. CredsSoFar'
  BY <1>3 DEF TypeOK, HandlerInv, Running, CredsSoFar, InPlace
<1> QED BY <1>4, <1>5, <1>6, <1>7

\* A read of a scope yields an annotation map (k8s.rs:70-85).
LEMMA ReadScopeTyped ==
  ASSUME TypeOK, NEW r \in Requests, NEW s \in {3, 4}, ReadScope(r, s)
  PROVE  read' \in [Requests -> AnnotationSets]
<1>1. objects[ScopeObject(pod[r], s)].annos \in Maps
  BY ScopesTyped DEF TypeOK, ObjectStates
<1> QED BY <1>1 DEF TypeOK, ReadScope, AnnotationSets, Scopes

\* GetServiceAccount preserves the invariant (admission.rs:115).
LEMMA GetServiceAccountInv ==
  ASSUME IInv, NEW r \in Requests, GetServiceAccount(r)
  PROVE  IInv'
<1> USE DEF IInv
<1>1. /\ pc[r] = "sa"
      /\ pc' = [pc EXCEPT ![r] = "ns"]
      /\ \A r2 \in Requests \ {r} : read'[r2] = read[r2]
      /\ UNCHANGED <<objects, cms, pod, dry, walk, todo, answer, verdict, quiet, standing, drift>>
  BY DEF GetServiceAccount, ReadScope, TypeOK
<1>2. read' \in [Requests -> AnnotationSets]
  BY ReadScopeTyped DEF GetServiceAccount, ScopeRead
<1>3. TypeOK'
  BY <1>1, <1>2 DEF TypeOK
<1>4. HandlerInv'
  BY <1>1 DEF TypeOK, HandlerInv, Running
<1>5. AbsentUnmanaged'
  BY <1>1 DEF AbsentUnmanaged
<1>6. CredsSoFar'
  BY <1>1 DEF TypeOK, HandlerInv, Running, CredsSoFar, InPlace
<1> QED BY <1>3, <1>4, <1>5, <1>6

\* GetNamespaceAndDecide preserves the invariant: the upserts it leaves to do are
\* those of a review that is no dry run (admission.rs:116-190).
LEMMA GetNamespaceAndDecideInv ==
  ASSUME IInv, NEW r \in Requests, GetNamespaceAndDecide(r)
  PROVE  IInv'
<1> USE DEF IInv
<1> DEFINE a == read'[r]
<1>1. /\ pc[r] = "ns"
      /\ Decide(r, a)
      /\ \A r2 \in Requests \ {r} : read'[r2] = read[r2]
      /\ UNCHANGED <<objects, cms, pod, dry, walk, verdict, quiet, standing, drift>>
  BY DEF GetNamespaceAndDecide, ReadScope, TypeOK
<1>2. read' \in [Requests -> AnnotationSets] /\ a \in AnnotationSets
  BY ReadScopeTyped DEF GetNamespaceAndDecide, ScopeRead
<1>3. NeedsUpsert(a) \subseteq Injected(a) /\ NeedsUpsert(a) \subseteq DOMAIN ProviderOrder
  BY <1>2, DecisionTyped
<1>4. answer[r] = "none"
  BY <1>1 DEF HandlerInv, Running
<1>5. CASE /\ UNCHANGED todo
           /\ \/ Finish(r, "deny") \/ Finish(r, "skip")
              \/ Finish(r, "patch") /\ (dry[r] \/ NeedsUpsert(a) = {})
  <2> HIDE DEF a
  <2>1. TypeOK'
    BY <1>1, <1>2, <1>5 DEF TypeOK, Finish
  <2>2. HandlerInv'
    BY <1>1, <1>5 DEF TypeOK, HandlerInv, Running, Finish
  <2>3. CredsSoFar'
    BY <1>1, <1>5 DEF TypeOK, CredsSoFar, InPlace, Finish, a
  <2> QED BY <1>1, <2>1, <2>2, <2>3 DEF AbsentUnmanaged
<1>6. CASE /\ Failing(a) = {} /\ ~ dry[r] /\ NeedsUpsert(a) # {}
           /\ todo' = [todo EXCEPT ![r] = NeedsUpsert(a)]
           /\ pc' = [pc EXCEPT ![r] = "upsert"]
           /\ UNCHANGED answer
  <2> HIDE DEF a
  <2>1. TypeOK'
    BY <1>1, <1>2, <1>3, <1>6 DEF TypeOK
  <2>2. HandlerInv'
    BY <1>1, <1>4, <1>6 DEF TypeOK, HandlerInv, Running, a
  <2>3. CredsSoFar'
    BY <1>1, <1>6 DEF TypeOK, CredsSoFar, InPlace, a
  <2> QED BY <1>1, <2>1, <2>2, <2>3 DEF AbsentUnmanaged
<1>7. \/ /\ UNCHANGED todo
         /\ \/ Finish(r, "deny") \/ Finish(r, "skip")
            \/ Finish(r, "patch") /\ (dry[r] \/ NeedsUpsert(a) = {})
      \/ /\ Failing(a) = {} /\ ~ dry[r] /\ NeedsUpsert(a) # {}
         /\ todo' = [todo EXCEPT ![r] = NeedsUpsert(a)]
         /\ pc' = [pc EXCEPT ![r] = "upsert"]
         /\ UNCHANGED answer
  <2> HIDE DEF a
  <2> QED BY <1>1 DEF Decide
<1> QED BY <1>5, <1>6, <1>7

\* A handler that ends without an answer that patches disturbs nothing.
LEMMA EndInv ==
  ASSUME IInv, NEW r \in Requests, Running(r),
         NEW at \in {"done", "dropped"}, pc' = [pc EXCEPT ![r] = at],
         NEW a \in {"none", "deny"}, answer' = [answer EXCEPT ![r] = a],
         UNCHANGED <<objects, cms, pod, dry, walk, read, todo, verdict, quiet, standing, drift>>
  PROVE  IInv'
<1> USE DEF IInv
<1>1. TypeOK'
  BY DEF TypeOK
<1>2. HandlerInv'
  BY DEF TypeOK, HandlerInv, Running
<1>3. CredsSoFar'
  BY DEF TypeOK, CredsSoFar, InPlace
<1> QED BY <1>1, <1>2, <1>3 DEF AbsentUnmanaged

\* ReadFails preserves the invariant (admission.rs:111-116).
LEMMA ReadFailsInv ==
  ASSUME IInv, NEW r \in Requests, ReadFails(r)
  PROVE  IInv'
BY EndInv DEF ReadFails, Finish, Running

\* UpsertFails preserves the invariant (admission.rs:184-185).
LEMMA UpsertFailsInv ==
  ASSUME IInv, NEW r \in Requests, UpsertFails(r)
  PROVE  IInv'
BY EndInv DEF UpsertFails, Finish, Running

-----------------------------------------------------------------------------
(* Server-side applies.                                                    *)

\* What a handler applies is planned for its review.
LEMMA PendingTyped ==
  ASSUME TypeOK, HandlerInv, NEW r \in Requests, pc[r] = "upsert"
  PROVE  /\ NextUpsert(r) \in todo[r]
         /\ NextUpsert(r) \in NeedsUpsert(read[r])
         /\ PendingUpserts(r) \subseteq ReferencedConfigMaps(read[r])
         /\ PendingUpserts(r) \subseteq Upserts
         /\ PendingUpserts(r) \subseteq PlannedConfigMaps
         /\ \A u, v \in PendingUpserts(r) : u = v
<1>1. todo[r] # {} /\ todo[r] \subseteq NeedsUpsert(read[r])
  BY DEF HandlerInv
<1>2. read[r] \in AnnotationSets /\ todo[r] \subseteq DOMAIN ProviderOrder
  BY DEF TypeOK
<1>3. todo[r] \subseteq Nat
  BY <1>2, ProviderAssumption
<1>4. NextUpsert(r) \in todo[r]
  BY <1>1, <1>3, MinInSet DEF NextUpsert
<1>5. PendingUpserts(r) \subseteq ReferencedConfigMaps(read[r])
  BY <1>1, <1>2, <1>4, DecisionTyped DEF PendingUpserts
<1>6. \A u, v \in PendingUpserts(r) : u = v
  BY <1>1, <1>2, <1>4, ProviderAssumption
  DEF PendingUpserts, UpsertOf, Outcome, NeedsUpsert, Injected, Consulted
<1> QED BY <1>1, <1>2, <1>4, <1>5, <1>6, DecisionTyped

\* What is applied is in place.
LEMMA ApplyInPlace ==
  ASSUME TypeOK, NEW u \in Upserts, Apply(u)
  PROVE  InPlace(u)'
<1>1. cms'[u.name] = [exists |-> TRUE, data |-> u.data,
                      managers |-> cms[u.name].managers \union {"cwii"}]
  BY DEF TypeOK, Apply, Upserts
<1> QED BY <1>1 DEF InPlace

\* An apply leaves ConfigMaps well formed (k8s.rs:107-124).
LEMMA ApplyTyped ==
  ASSUME TypeOK, AbsentUnmanaged, NEW u \in Upserts, Apply(u)
  PROVE  /\ cms' \in [CmNames -> ConfigMapStates]
         /\ drift' \subseteq CmNames
         /\ AbsentUnmanaged'
<1>1. [exists |-> TRUE, data |-> u.data, managers |-> cms[u.name].managers \union {"cwii"}]
        \in ConfigMapStates
  BY DEF TypeOK, Upserts, ConfigMapStates
<1>2. cms' \in [CmNames -> ConfigMapStates] /\ drift' \subseteq CmNames
  BY <1>1 DEF TypeOK, Apply, Upserts
<1>3. \A c \in CmNames : c # u.name => cms'[c] = cms[c]
  BY DEF TypeOK, Apply
<1>4. cms'[u.name].exists
  BY DEF TypeOK, Apply, Upserts
<1> QED BY <1>2, <1>3, <1>4 DEF AbsentUnmanaged

\* An apply leaves in place what is: equal names have equal data.
LEMMA ApplyKeepsInPlace ==
  ASSUME TypeOK, NEW u \in PlannedConfigMaps, u \in Upserts, Apply(u),
         NEW v \in PlannedConfigMaps, v \in Upserts, InPlace(v)
  PROVE  InPlace(v)'
<1>1. CASE v.name = u.name
  <2>1. v.data = u.data
    BY <1>1, ConfigMapsAssumption
  <2> QED BY <1>1, <2>1, ApplyInPlace DEF InPlace
<1>2. CASE v.name # u.name
  <2>1. cms'[v.name] = cms[v.name] /\ (v.name \in drift => v.name \in drift')
    BY <1>2 DEF TypeOK, Apply, Upserts
  <2> QED BY <2>1 DEF InPlace
<1> QED BY <1>1, <1>2

\* After an apply for r, the ConfigMaps of the other reviews are as far as
\* they were, and r is as far as it was if its handler still has the upsert to
\* make or has ended without a patch.
LEMMA ApplyCreds ==
  ASSUME IInv, NEW u \in PlannedConfigMaps, u \in Upserts, Apply(u),
         UNCHANGED <<dry, read>>
  PROVE  \A r \in Requests :
           ~ dry[r] /\ (pc[r] = "upsert" \/ answer[r] = "patch") =>
             \A k \in NeedsUpsert(read'[r]) :
               \/ pc[r] = "upsert" /\ k \in todo[r]
               \/ \A v \in UpsertOf(k, read'[r]) : InPlace(v)'
<1> SUFFICES ASSUME NEW r \in Requests,
                    ~ dry[r], pc[r] = "upsert" \/ answer[r] = "patch",
                    NEW k \in NeedsUpsert(read[r]),
                    ~ (pc[r] = "upsert" /\ k \in todo[r]),
                    NEW v \in UpsertOf(k, read[r])
             PROVE  InPlace(v)'
  OBVIOUS
<1>1. InPlace(v)
  BY DEF IInv, CredsSoFar
<1>2. read[r] \in AnnotationSets
  BY DEF IInv, TypeOK
<1>3. v \in PlannedConfigMaps /\ v \in Upserts
  BY <1>2, DecisionTyped
<1> QED BY <1>1, <1>3, ApplyKeepsInPlace DEF IInv

\* UpsertConfigMap preserves the invariant: what is no longer to do is in place
\* (admission.rs:182-190).
LEMMA UpsertConfigMapInv ==
  ASSUME IInv, NEW r \in Requests, UpsertConfigMap(r)
  PROVE  IInv'
<1> USE DEF IInv
<1>1. PICK u \in PendingUpserts(r) : CanApply(cms[u.name], u) /\ Apply(u)
  BY DEF UpsertConfigMap
<1>2. /\ pc[r] = "upsert"
      /\ todo' = [todo EXCEPT ![r] = @ \ {NextUpsert(r)}]
      /\ IF todo'[r] = {} THEN Finish(r, "patch") ELSE UNCHANGED <<pc, answer>>
      /\ UNCHANGED <<objects, pod, dry, walk, read, verdict, quiet, standing>>
  BY DEF UpsertConfigMap
<1>3. /\ u \in Upserts /\ u \in PlannedConfigMaps
      /\ NextUpsert(r) \in todo[r]
      /\ \A v \in UpsertOf(NextUpsert(r), read[r]) : v = u
  BY <1>1, <1>2, PendingTyped DEF PendingUpserts
<1>4. TypeOK'
  <2>1. cms' \in [CmNames -> ConfigMapStates] /\ drift' \subseteq CmNames
    BY <1>1, <1>3, ApplyTyped
  <2> QED BY <1>2, <2>1 DEF TypeOK, Finish
<1>5. HandlerInv'
  BY <1>2 DEF TypeOK, HandlerInv, Running, Finish
<1>6. AbsentUnmanaged'
  BY <1>1, <1>3, ApplyTyped
<1>7. CredsSoFar'
  <2> SUFFICES ASSUME NEW p \in Requests,
                      ~ dry'[p], pc'[p] = "upsert" \/ answer'[p] = "patch",
                      NEW k \in NeedsUpsert(read'[p]),
                      ~ (pc'[p] = "upsert" /\ k \in todo'[p])
               PROVE  \A v \in UpsertOf(k, read'[p]) : InPlace(v)'
    BY DEF CredsSoFar
  <2>1. CASE p = r /\ k = NextUpsert(r)
    BY <1>1, <1>2, <1>3, <2>1, ApplyInPlace
  <2>2. CASE p = r /\ k # NextUpsert(r)
    <3>1. k \notin todo[r]
      BY <1>2, <2>2 DEF TypeOK, Finish
    <3> QED BY <1>1, <1>2, <1>3, <2>2, <3>1, ApplyCreds
  <2>3. CASE p # r
    <3>1. pc'[p] = pc[p] /\ answer'[p] = answer[p] /\ todo'[p] = todo[p]
      BY <1>2, <2>3 DEF TypeOK, Finish
    <3> QED BY <1>1, <1>2, <1>3, <3>1, ApplyCreds
  <2> QED BY <2>1, <2>2, <2>3
<1> QED BY <1>4, <1>5, <1>6, <1>7

\* An apply of a handler that ends without a patch.
LEMMA EndWithApplyInv ==
  ASSUME IInv, NEW r \in Requests, pc[r] = "upsert",
         NEW u \in PendingUpserts(r), Apply(u),
         NEW at \in {"done", "dropped"}, pc' = [pc EXCEPT ![r] = at],
         NEW a \in {"none", "deny"}, answer' = [answer EXCEPT ![r] = a],
         UNCHANGED <<objects, pod, dry, walk, read, todo, verdict, quiet, standing>>
  PROVE  IInv'
<1> USE DEF IInv
<1>1. u \in Upserts /\ u \in PlannedConfigMaps
  BY PendingTyped
<1>2. /\ cms' \in [CmNames -> ConfigMapStates]
      /\ drift' \subseteq CmNames
      /\ AbsentUnmanaged'
  BY <1>1, ApplyTyped
<1>3. TypeOK'
  BY <1>2 DEF TypeOK
<1>4. HandlerInv'
  BY DEF TypeOK, HandlerInv, Running
<1>5. CredsSoFar'
  <2> SUFFICES ASSUME NEW p \in Requests,
                      ~ dry'[p], pc'[p] = "upsert" \/ answer'[p] = "patch",
                      NEW k \in NeedsUpsert(read'[p]),
                      ~ (pc'[p] = "upsert" /\ k \in todo'[p])
               PROVE  \A v \in UpsertOf(k, read'[p]) : InPlace(v)'
    BY DEF CredsSoFar
  <2>1. p # r
    BY DEF TypeOK
  <2>2. pc'[p] = pc[p] /\ answer'[p] = answer[p]
    BY <2>1 DEF TypeOK
  <2> QED BY <1>1, <2>2, ApplyCreds
<1> QED BY <1>2, <1>3, <1>4, <1>5

\* UpsertReplyLost preserves the invariant (k8s.rs:121-123).
LEMMA UpsertReplyLostInv ==
  ASSUME IInv, NEW r \in Requests, UpsertReplyLost(r)
  PROVE  IInv'
BY EndWithApplyInv DEF UpsertReplyLost, Finish

\* Drop preserves the invariant, an apply that was already sent included.
LEMMA DropInv ==
  ASSUME IInv, NEW r \in Requests, Drop(r)
  PROVE  IInv'
<1>1. Running(r) /\ pc' = [pc EXCEPT ![r] = "dropped"]
  BY DEF Drop
<1>2. answer[r] = "none" /\ answer' = [answer EXCEPT ![r] = "none"]
  BY <1>1 DEF Drop, IInv, HandlerInv, TypeOK
<1>3. CASE UNCHANGED <<cms, drift>>
  BY <1>1, <1>2, <1>3, EndInv DEF Drop
<1>4. CASE /\ pc[r] = "upsert"
           /\ \E u \in PendingUpserts(r) : CanApply(cms[u.name], u) /\ Apply(u)
  BY <1>1, <1>2, <1>4, EndWithApplyInv DEF Drop
<1> QED BY <1>3, <1>4 DEF Drop

-----------------------------------------------------------------------------
(* The steps of the API server and of everybody else.                      *)

\* The API server's verdicts preserve the invariant.
LEMMA VerdictInv ==
  ASSUME IInv, NEW r \in Requests, Deliver(r) \/ CallFails(r)
  PROVE  IInv'
<1> USE DEF IInv
<1>1. UNCHANGED <<objects, cms, handler, quiet, standing, drift>>
  BY DEF Deliver, CallFails
<1>2. verdict' \in [Requests -> {"pending", "admitted", "bypassed", "rejected"}]
  <2>1. ByFailurePolicy \in {"bypassed", "rejected"}
    BY DEF ByFailurePolicy
  <2>2. CASE CallFails(r)
    BY <2>1, <2>2 DEF TypeOK, CallFails
  <2>3. CASE Deliver(r)
    <3>1. answer[r] \in {"skip", "patch", "deny", "http_400"}
      BY <2>3 DEF TypeOK, Deliver
    <3>2. verdict' = [verdict EXCEPT ![r] =
            CASE answer[r] \in {"skip", "patch"} -> "admitted"
              [] answer[r] = "deny" -> "rejected"
              [] answer[r] = "http_400" -> ByFailurePolicy]
      BY <2>3 DEF Deliver
    <3> QED BY <2>1, <3>1, <3>2 DEF TypeOK
  <2> QED BY <2>2, <2>3
<1>3. TypeOK'
  BY <1>1, <1>2 DEF TypeOK, handler
<1>4. HandlerInv' /\ AbsentUnmanaged'
  BY <1>1 DEF HandlerInv, AbsentUnmanaged, Running, handler
<1>5. CredsSoFar'
  BY <1>1 DEF CredsSoFar, InPlace, handler
<1> QED BY <1>3, <1>4, <1>5

\* Edits by users preserve the invariant.
LEMMA EditObjectInv ==
  ASSUME IInv, NEW o \in Objects, EditObject(o)
  PROVE  IInv'
<1> USE DEF IInv
<1>1. UNCHANGED <<cms, handler, verdict, drift>>
  BY DEF EditObject
<1>2. objects' \in [Objects -> ObjectStates]
  BY DEF EditObject, TypeOK
<1>3. /\ quiet' \in [Requests -> BOOLEAN]
      /\ standing' \in [Requests -> SUBSET DOMAIN ProviderOrder]
  BY DEF EditObject, TypeOK
<1>4. TypeOK'
  BY <1>1, <1>2, <1>3 DEF TypeOK, handler
<1>5. HandlerInv' /\ AbsentUnmanaged'
  BY <1>1 DEF HandlerInv, AbsentUnmanaged, Running, handler
<1>6. CredsSoFar'
  BY <1>1 DEF CredsSoFar, InPlace, handler
<1> QED BY <1>4, <1>5, <1>6

\* Writes by other managers preserve the invariant: what they change is recorded.
LEMMA ForeignInv ==
  ASSUME IInv, NEW c \in CmNames, ForeignWrite(c) \/ ForeignDelete(c)
  PROVE  IInv'
<1> USE DEF IInv
<1>1. UNCHANGED <<objects, handler, verdict, quiet, standing>>
  BY DEF ForeignWrite, ForeignDelete
<1>2. PICK cm \in ConfigMapStates :
        /\ cms' = [cms EXCEPT ![c] = cm]
        /\ ~ cm.exists => cm.managers = {}
        /\ \/ drift' = drift \union {c}
           \/ /\ cm.exists = cms[c].exists /\ cm.data = cms[c].data
              /\ drift' = drift
  <2>1. CASE ForeignWrite(c)
    <3>1. PICK d \in CmData :
            LET same == cms[c].exists /\ cms[c].data = d
            IN  /\ cms' = [cms EXCEPT ![c] =
                     [exists |-> TRUE, data |-> d,
                      managers |-> {"foreign"} \union (IF same THEN @.managers ELSE {})]]
                /\ drift' = IF same THEN drift ELSE drift \union {c}
      BY <2>1 DEF ForeignWrite
    <3> DEFINE same == cms[c].exists /\ cms[c].data = d
               cm == [exists |-> TRUE, data |-> d,
                      managers |-> {"foreign"} \union (IF same THEN cms[c].managers ELSE {})]
    <3>2. cm \in ConfigMapStates
      BY DEF TypeOK, ConfigMapStates
    <3>3. cms' = [cms EXCEPT ![c] = cm]
      BY <3>1 DEF TypeOK
    <3>4. same => cm.exists = cms[c].exists /\ cm.data = cms[c].data
      BY DEF TypeOK, ConfigMapStates
    <3>5. cm.exists
      OBVIOUS
    <3> HIDE DEF cm
    <3> QED BY <3>1, <3>2, <3>3, <3>4, <3>5
  <2>2. CASE ForeignDelete(c)
    <3>1. NoConfigMap \in ConfigMapStates /\ NoConfigMap.managers = {}
      BY ConfigMapsAssumption DEF NoConfigMap, ConfigMapStates
    <3> QED BY <2>2, <3>1 DEF ForeignDelete
  <2> QED BY <2>1, <2>2
<1>3. TypeOK'
  BY <1>1, <1>2 DEF TypeOK, handler
<1>4. HandlerInv' /\ AbsentUnmanaged'
  BY <1>1, <1>2 DEF TypeOK, HandlerInv, AbsentUnmanaged, Running, handler
<1>5. CredsSoFar'
  <2>1. \A n \in CmNames : n # c => cms'[n] = cms[n]
    BY <1>2 DEF TypeOK
  <2>2. cms'[c] = cm
    BY <1>2 DEF TypeOK
  <2>3. \A r \in Requests : \A k \in NeedsUpsert(read[r]) :
          \A u \in UpsertOf(k, read[r]) : u.name \in CmNames
    BY DecisionTyped DEF TypeOK, Upserts
  <2>4. \A u : u.name \in CmNames /\ InPlace(u) => InPlace(u)'
    BY <1>2, <2>1, <2>2 DEF InPlace
  <2> QED BY <1>1, <2>3, <2>4 DEF CredsSoFar, handler
<1> QED BY <1>3, <1>4, <1>5

-----------------------------------------------------------------------------
(* The theorems.                                                           *)

\* Every step preserves the invariant.
LEMMA NextInv == IInv /\ [Next]_vars => IInv'
<1> SUFFICES ASSUME IInv, [Next]_vars PROVE IInv'
  OBVIOUS
<1>1. CASE UNCHANGED vars
  BY <1>1 DEF vars, handler, IInv, TypeOK, HandlerInv, AbsentUnmanaged, CredsSoFar,
              Running, InPlace
<1>2. ASSUME NEW r \in Requests, Receive(r) PROVE IInv'
  BY <1>2, ReceiveInv
<1>3. ASSUME NEW r \in Requests, ReceiveUnusable(r) PROVE IInv'
  BY <1>3, ReceiveUnusableInv
<1>4. ASSUME NEW r \in Requests, HandlerStep(r) PROVE IInv'
  BY <1>4, GetOwnerInv, GetServiceAccountInv, GetNamespaceAndDecideInv, ReadFailsInv,
     UpsertConfigMapInv, UpsertFailsInv, UpsertReplyLostInv
  DEF HandlerStep
<1>5. ASSUME NEW r \in Requests, Drop(r) PROVE IInv'
  BY <1>5, DropInv
<1>6. ASSUME NEW r \in Requests, Deliver(r) \/ CallFails(r) PROVE IInv'
  BY <1>6, VerdictInv
<1>7. CASE Environment
  BY <1>7, EditObjectInv, ForeignInv DEF Environment
<1> QED BY <1>1, <1>2, <1>3, <1>4, <1>5, <1>6, <1>7 DEF Next

\* The invariant holds in every reachable state.
LEMMA Invariant == Spec => []IInv
BY InitInv, NextInv, PTL DEF Spec

\* The variables have their types in every reachable state, for every set of
\* reviews, pods, objects and providers: a walk in progress always asks for an
\* object that a reference names (k8s.rs:27-67).
THEOREM TypeCorrect == Spec => []TypeOK
BY Invariant, PTL DEF IInv

\* A patch is answered only when every ConfigMap it mounts is in place, however
\* many reviews upsert at once and whatever fails on the way
\* (admission.rs:182-190).
THEOREM CredsInPlaceCorrect == Spec => []CredsInPlace
<1>1. IInv => CredsInPlace
  <2> SUFFICES ASSUME IInv, NEW r \in Requests, answer[r] = "patch", ~ dry[r],
                      NEW u \in ReferencedConfigMaps(read[r])
               PROVE  InPlace(u)
    BY DEF CredsInPlace, InPlace
  <2>1. PICK k \in NeedsUpsert(read[r]) : u \in UpsertOf(k, read[r])
    BY DecisionTyped DEF IInv, TypeOK
  <2>2. pc[r] # "upsert"
    BY DEF IInv, HandlerInv, Running
  <2> QED BY <2>1, <2>2 DEF IInv, CredsSoFar
<1> QED BY <1>1, Invariant, PTL

\* A handler changes ConfigMaps only by an apply that does not conflict.
LEMMA HandlerWrites ==
  ASSUME IInv, NEW r \in Requests, HandlerStep(r) \/ Drop(r), cms' # cms
  PROVE  /\ pc[r] = "upsert"
         /\ \E u \in PendingUpserts(r) :
              /\ u \in ReferencedConfigMaps(read[r])
              /\ u \in Upserts
              /\ CanApply(cms[u.name], u)
              /\ Apply(u)
<1>1. pc[r] = "upsert" /\ \E u \in PendingUpserts(r) : CanApply(cms[u.name], u) /\ Apply(u)
  BY DEF HandlerStep, GetOwner, GetServiceAccount, GetNamespaceAndDecide, ReadFails,
         UpsertConfigMap, UpsertFails, UpsertReplyLost, Drop
<1> QED BY <1>1, PendingTyped DEF IInv

\* Nothing is written in a dry run, nor for a pod some provider denies
\* (admission.rs:144-190).
THEOREM WritesAreIntendedCorrect == Spec => WritesAreIntended
<1> DEFINE Intended ==
      cms' # cms =>
        \/ Environment
        \/ \E r \in Requests :
             /\ ~ dry[r]
             /\ Failing(read[r]) = {}
             /\ \E u \in ReferencedConfigMaps(read[r]) :
                  cms' = [cms EXCEPT ![u.name] = cms'[u.name]]
<1>1. IInv /\ [Next]_vars => [Intended]_vars
  <2> SUFFICES ASSUME IInv, Next, cms' # cms, ~ Environment
               PROVE  \E r \in Requests :
                        /\ ~ dry[r]
                        /\ Failing(read[r]) = {}
                        /\ \E u \in ReferencedConfigMaps(read[r]) :
                             cms' = [cms EXCEPT ![u.name] = cms'[u.name]]
    OBVIOUS
  <2>1. PICK r \in Requests : HandlerStep(r) \/ Drop(r)
    BY DEF Next, Receive, ReceiveUnusable, Arrive, Deliver, CallFails
  <2>2. PICK u \in ReferencedConfigMaps(read[r]) : u \in Upserts /\ Apply(u)
    BY <2>1, HandlerWrites
  <2>3. ~ dry[r] /\ Failing(read[r]) = {}
    BY <2>1, HandlerWrites DEF IInv, HandlerInv
  <2>4. cms' = [cms EXCEPT ![u.name] = cms'[u.name]]
    BY <2>2 DEF IInv, TypeOK, Apply, Upserts
  <2> QED BY <2>3, <2>4
<1> QED BY <1>1, Invariant, PTL DEF Spec, WritesAreIntended

\* No step of a handler changes credentials another manager holds
\* (k8s.rs:118-119).
THEOREM ForeignKeptCorrect == Spec => ForeignKept
<1> DEFINE Kept ==
      (\E r \in Requests : HandlerStep(r) \/ Drop(r)) =>
        \A c \in CmNames :
          "foreign" \in cms[c].managers =>
            /\ cms'[c].exists
            /\ cms'[c].data = cms[c].data
            /\ "foreign" \in cms'[c].managers
<1>1. IInv /\ [Next]_vars => [Kept]_vars
  <2> SUFFICES ASSUME IInv, NEW r \in Requests, HandlerStep(r) \/ Drop(r),
                      NEW c \in CmNames, "foreign" \in cms[c].managers
               PROVE  /\ cms'[c].exists
                      /\ cms'[c].data = cms[c].data
                      /\ "foreign" \in cms'[c].managers
    OBVIOUS
  <2>1. cms[c].exists
    BY DEF IInv, AbsentUnmanaged
  <2>2. CASE cms' = cms
    BY <2>1, <2>2
  <2>3. CASE cms' # cms
    <3>1. PICK u \in Upserts : CanApply(cms[u.name], u) /\ Apply(u)
      BY <2>3, HandlerWrites
    <3>2. CASE c = u.name
      BY <2>1, <3>1, <3>2 DEF IInv, TypeOK, CanApply, Apply
    <3>3. CASE c # u.name
      BY <2>1, <3>1, <3>3 DEF IInv, TypeOK, Apply
    <3> QED BY <3>2, <3>3
  <2> QED BY <2>2, <2>3
<1> QED BY <1>1, Invariant, PTL DEF Spec, ForeignKept

-----------------------------------------------------------------------------
(* A review is answered exactly when its handler has ended with an answer. *)
(* The modules that build on this one need it besides IInv.                *)

AnsweredInv == \A r \in Requests : answer[r] # "none" <=> pc[r] = "done"

RInv == IInv /\ AnsweredInv

\* Every step preserves the invariant (admission.rs:88-193).
LEMMA AnsweredNext == RInv /\ [Next]_vars => RInv'
<1> SUFFICES ASSUME RInv, [Next]_vars PROVE AnsweredInv'
  BY NextInv DEF RInv
<1> USE DEF RInv, IInv
<1>1. CASE UNCHANGED vars
  BY <1>1 DEF vars, handler, AnsweredInv
<1>2. ASSUME NEW r \in Requests, Receive(r) PROVE AnsweredInv'
  BY <1>2 DEF Receive, AnsweredInv, TypeOK
<1>3. ASSUME NEW r \in Requests, ReceiveUnusable(r) PROVE AnsweredInv'
  BY <1>3 DEF ReceiveUnusable, Finish, AnsweredInv, TypeOK
<1>4. ASSUME NEW r \in Requests, HandlerStep(r) PROVE AnsweredInv'
  <2>1. CASE GetOwner(r)
    BY <2>1 DEF GetOwner, AnsweredInv, TypeOK
  <2>2. CASE GetServiceAccount(r)
    BY <2>2 DEF GetServiceAccount, AnsweredInv, TypeOK
  <2>3. CASE GetNamespaceAndDecide(r)
    <3> DEFINE a == read'[r]
    <3>1. Decide(r, a) /\ pc[r] = "ns"
      BY <2>3 DEF GetNamespaceAndDecide
    <3> HIDE DEF a
    <3> QED BY <3>1 DEF Decide, Finish, AnsweredInv, TypeOK
  <2>4. CASE ReadFails(r) \/ UpsertFails(r)
    BY <2>4 DEF ReadFails, UpsertFails, Finish, AnsweredInv, TypeOK
  <2>5. CASE UpsertConfigMap(r)
    BY <2>5 DEF UpsertConfigMap, Finish, AnsweredInv, TypeOK
  <2>6. CASE UpsertReplyLost(r)
    BY <2>6 DEF UpsertReplyLost, Finish, AnsweredInv, TypeOK
  <2> QED BY <1>4, <2>1, <2>2, <2>3, <2>4, <2>5, <2>6 DEF HandlerStep
<1>5. ASSUME NEW r \in Requests, Drop(r) PROVE AnsweredInv'
  BY <1>5 DEF Drop, Running, AnsweredInv, TypeOK
<1>6. ASSUME NEW r \in Requests, Deliver(r) \/ CallFails(r) PROVE AnsweredInv'
  BY <1>6 DEF Deliver, CallFails, handler, AnsweredInv
<1>7. CASE Environment
  BY <1>7 DEF Environment, EditObject, ForeignWrite, ForeignDelete, handler, AnsweredInv
<1> QED BY <1>1, <1>2, <1>3, <1>4, <1>5, <1>6, <1>7 DEF Next
=============================================================================
