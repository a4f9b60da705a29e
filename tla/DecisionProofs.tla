---------------------------- MODULE DecisionProofs --------------------------
(***************************************************************************)
(* A review during which nobody edits an object is decided on the cluster  *)
(* as it is (DecisionExact), for every cluster, every ownership graph and  *)
(* every registry of providers; and where the webhook is required, its pod *)
(* is stored with just the identities that decision gives                  *)
(* (RequiredIdentity).  However users edit objects meanwhile, an opt-in    *)
(* that only moves to broader scopes is found (StandingOptIn).             *)
(*                                                                         *)
(* The walk is the difficulty: its place in the owner references stands    *)
(* for all that was found missing before it (Walking).                     *)
(***************************************************************************)
EXTENDS AdmissionProofs

\* NextOf finds the next reference of the kinds, skipping none.
LEMMA NextOfFirst ==
  ASSUME NEW refs \in Seq(Objects), NEW i \in Nat, NEW kinds
  PROVE  LET k == NextOf(refs, i, kinds)
         IN  IF k = 0
             THEN \A j \in DOMAIN refs : j > i => refs[j].kind \notin kinds
             ELSE /\ k \in DOMAIN refs /\ k > i /\ refs[k].kind \in kinds
                  /\ \A j \in DOMAIN refs : j > i /\ j < k => refs[j].kind \notin kinds
<1> DEFINE later == {k \in DOMAIN refs : k > i /\ refs[k].kind \in kinds}
<1>1. later \subseteq Nat /\ DOMAIN refs \subseteq Nat \ {0}
  OBVIOUS
<1>2. CASE later = {}
  BY <1>2 DEF NextOf
<1>3. CASE later # {}
  <2>1. NextOf(refs, i, kinds) = Min(later)
    BY <1>3 DEF NextOf
  <2>2. Min(later) \in later /\ \A j \in later : Min(later) =< j
    <3> HIDE DEF later
    <3> QED BY <1>1, <1>3, MinInSet
  <2>3. Min(later) \in DOMAIN refs /\ Min(later) > i /\ refs[Min(later)].kind \in kinds
    BY <2>2
  <2>4. Min(later) # 0
    BY <1>1, <2>3
  <2>5. ASSUME NEW j \in DOMAIN refs, j > i, j < Min(later)
        PROVE  refs[j].kind \notin kinds
    <3>1. j \notin later
      <4> HIDE DEF later
      <4> QED BY <1>1, <2>2, <2>3, <2>5
    <3> QED BY <2>5, <3>1
  <2> HIDE DEF later
  <2> QED BY <2>1, <2>3, <2>4, <2>5
<1> QED BY <1>2, <1>3

\* No object that a reference of the kinds before position n names exists.
NoneBefore(refs, kinds, n, objs) ==
  \A k \in DOMAIN refs : k < n /\ refs[k].kind \in kinds => ~ objs[refs[k]].exists

\* Where the next reference leads to no object either.
LEMMA NoneBeforeNext ==
  ASSUME NEW refs \in Seq(Objects), NEW kinds, NEW objs, NEW n \in DOMAIN refs,
         ~ objs[refs[n]].exists, NoneBefore(refs, kinds, n, objs)
  PROVE  NoneBefore(refs, kinds, n + 1, objs)
<1>1. \A k \in DOMAIN refs : k < n + 1 => k < n \/ k = n
  OBVIOUS
<1> QED BY <1>1 DEF NoneBefore

\* FirstExisting returns the reference before which none exists.
LEMMA FirstExistingIs ==
  ASSUME NEW refs \in Seq(Objects), NEW kinds, NEW objs, NEW n \in DOMAIN refs,
         refs[n].kind \in kinds, objs[refs[n]].exists, NoneBefore(refs, kinds, n, objs)
  PROVE  FirstExisting(refs, kinds, objs) = {refs[n]}
<1> DEFINE there == {k \in DOMAIN refs : refs[k].kind \in kinds /\ objs[refs[k]].exists}
<1>1. there \subseteq Nat /\ n \in there /\ n \in Nat
  OBVIOUS
<1>2. \A k \in there : ~ (k < n)
  BY DEF NoneBefore
<1>3. Min(there) \in there /\ Min(there) =< n
  <2> HIDE DEF there
  <2> QED BY <1>1, MinInSet
<1>4. Min(there) = n
  <2>1. Min(there) \in Nat /\ ~ (Min(there) < n)
    BY <1>1, <1>2, <1>3, Zenon
  <2> HIDE DEF there
  <2> QED BY <1>1, <1>3, <2>1
<1> QED BY <1>1, <1>4 DEF FirstExisting

\* It returns none when none exists.
LEMMA FirstExistingNone ==
  ASSUME NEW refs \in Seq(Objects), NEW kinds, NEW objs,
         \A k \in DOMAIN refs : refs[k].kind \in kinds => ~ objs[refs[k]].exists
  PROVE  FirstExisting(refs, kinds, objs) = {}
BY DEF FirstExisting

\* OwnerAnnotations without a workload, and with one that counts itself.
LEMMA OwnerNone ==
  ASSUME NEW refs \in Seq(Objects), NEW objs,
         FirstExisting(refs, WorkloadKinds, objs) = {}
  PROVE  OwnerAnnotations(refs, objs) = NoAnnotations
BY DEF OwnerAnnotations, UnwrapOr

\* The workload's own annotations count without an existing Deployment above it.
LEMMA OwnerItself ==
  ASSUME NEW refs \in Seq(Objects), NEW objs, NEW x,
         FirstExisting(refs, WorkloadKinds, objs) = {x},
         \/ x.kind # "ReplicaSet"
         \/ FirstExisting(objs[x].owners, {"Deployment"}, objs) = {}
  PROVE  OwnerAnnotations(refs, objs) = objs[x].annos
<1>1. OwnerAnnotations(refs, objs) = UnwrapOr({objs[o].annos : o \in {x}}, NoAnnotations)
  BY DEF OwnerAnnotations
<1> QED BY <1>1 DEF UnwrapOr

-----------------------------------------------------------------------------
(* The walk on one snapshot.                                               *)

\* Walk w of refs is where the first existing workload may still be, and at a
\* Deployment only of that workload.
Walking(refs, w, objs) ==
  /\ w.ref \in DOMAIN refs
  /\ refs[w.ref].kind \in WorkloadKinds
  /\ NoneBefore(refs, WorkloadKinds, w.ref, objs)
  /\ w.deployment > 0 =>
       /\ refs[w.ref].kind = "ReplicaSet"
       /\ objs[refs[w.ref]].exists
       /\ w.rs = objs[refs[w.ref]]
       /\ w.deployment \in DOMAIN w.rs.owners
       /\ w.rs.owners[w.deployment].kind = "Deployment"
       /\ NoneBefore(w.rs.owners, {"Deployment"}, w.deployment, objs)

\* A step of the walk keeps its promise: the owner's annotations in the end.
Exact(refs, step, objs) ==
  IF step.done THEN step.annos = OwnerAnnotations(refs, objs)
  ELSE Walking(refs, step.walk, objs)

\* Going on through the references of the pod keeps the promise (k8s.rs:27-67).
LEMMA InPodExact ==
  ASSUME NEW refs \in Seq(Objects), NEW i \in Nat, NEW objs,
         NoneBefore(refs, WorkloadKinds, i + 1, objs)
  PROVE  Exact(refs, InPod(refs, i), objs)
<1> DEFINE k == NextOf(refs, i, WorkloadKinds)
<1>0. DOMAIN refs \subseteq Nat
  OBVIOUS
<1>1. CASE k = 0
  <2>1. \A j \in DOMAIN refs : refs[j].kind \in WorkloadKinds => ~ objs[refs[j]].exists
    <3> SUFFICES ASSUME NEW j \in DOMAIN refs, refs[j].kind \in WorkloadKinds
                 PROVE  ~ objs[refs[j]].exists
      OBVIOUS
    <3>1. ~ (j > i)
      BY <1>1, NextOfFirst
    <3>2. j < i + 1
      BY <1>0, <3>1
    <3> QED BY <3>2 DEF NoneBefore
  <2>2. OwnerAnnotations(refs, objs) = NoAnnotations
    BY <2>1, FirstExistingNone, OwnerNone
  <2> QED BY <1>1, <2>2 DEF Exact, InPod, Found
<1>2. CASE k # 0
  <2>1. /\ k \in DOMAIN refs /\ refs[k].kind \in WorkloadKinds
        /\ \A j \in DOMAIN refs : j > i /\ j < k => refs[j].kind \notin WorkloadKinds
    BY <1>2, NextOfFirst
  <2>2. NoneBefore(refs, WorkloadKinds, k, objs)
    <3> HIDE DEF k
    <3> QED BY <1>0, <2>1 DEF NoneBefore
  <2>3. InPod(refs, i) = Continue(WalkAt(k, 0, NoObject))
    BY <1>2 DEF InPod
  <2> QED BY <2>1, <2>2, <2>3 DEF Exact, Continue, WalkAt, Walking
<1> QED BY <1>1, <1>2

\* So does going on through the owners of its ReplicaSet (k8s.rs:32-43).
LEMMA InReplicaSetExact ==
  ASSUME NEW refs \in Seq(Objects), NEW objs, NEW ref \in DOMAIN refs, NEW j \in Nat,
         refs[ref].kind = "ReplicaSet",
         NoneBefore(refs, WorkloadKinds, ref, objs),
         objs[refs[ref]] \in ObjectStates, objs[refs[ref]].exists,
         NoneBefore(objs[refs[ref]].owners, {"Deployment"}, j + 1, objs)
  PROVE  Exact(refs, InReplicaSet(ref, objs[refs[ref]], j), objs)
<1> DEFINE rs == objs[refs[ref]]
           d == NextOf(rs.owners, j, {"Deployment"})
<1>0. rs.owners \in Seq(Objects) /\ refs[ref].kind \in WorkloadKinds
  BY ObjectsAssumption DEF ObjectStates, WorkloadKinds
<1>1. FirstExisting(refs, WorkloadKinds, objs) = {refs[ref]}
  BY <1>0, FirstExistingIs
<1>2. CASE d = 0
  <2>1. \A k \in DOMAIN rs.owners :
          rs.owners[k].kind \in {"Deployment"} => ~ objs[rs.owners[k]].exists
    <3>1. \A k \in DOMAIN rs.owners : k > j => rs.owners[k].kind \notin {"Deployment"}
      BY <1>0, <1>2, NextOfFirst
    <3>2. DOMAIN rs.owners \subseteq Nat
      BY <1>0
    <3> QED BY <3>1, <3>2 DEF NoneBefore
  <2>2. FirstExisting(rs.owners, {"Deployment"}, objs) = {}
    BY <1>0, <2>1, FirstExistingNone
  <2>3. OwnerAnnotations(refs, objs) = rs.annos
    BY <1>1, <2>2, OwnerItself
  <2> QED BY <1>2, <2>3 DEF Exact, InReplicaSet, Found
<1>3. CASE d # 0
  <2>1. /\ d \in DOMAIN rs.owners /\ rs.owners[d].kind = "Deployment"
        /\ \A k \in DOMAIN rs.owners : k > j /\ k < d => rs.owners[k].kind \notin {"Deployment"}
    <3> HIDE DEF rs
    <3> QED BY <1>0, <1>3, NextOfFirst
  <2>2. NoneBefore(rs.owners, {"Deployment"}, d, objs)
    <3>1. DOMAIN rs.owners \subseteq Nat
      BY <1>0
    <3> HIDE DEF d
    <3> QED BY <2>1, <3>1 DEF NoneBefore
  <2>3. InReplicaSet(ref, rs, j) = Continue(WalkAt(ref, d, rs))
    BY <1>3 DEF InReplicaSet
  <2> QED BY <1>0, <2>1, <2>2, <2>3 DEF Exact, Continue, WalkAt, Walking
<1> QED BY <1>2, <1>3

\* While the cluster does not change, each GET brings the walk closer to the
\* owner's annotations (k8s.rs:27-67).
LEMMA WalkReplyExact ==
  ASSUME NEW refs \in Seq(Objects), NEW w \in Walks,
         NEW objs \in [Objects -> ObjectStates], Walking(refs, w, objs)
  PROVE  Exact(refs, WalkReply(refs, w, objs[Wanted(refs, w)]), objs)
<1>0. w.ref \in Nat /\ w.deployment \in Nat /\ refs[w.ref] \in Objects
  BY DEF Walks, Walking
<1>1. CASE w.deployment > 0
  <2>1. /\ w.rs = objs[refs[w.ref]] /\ w.rs \in ObjectStates
        /\ w.rs.owners \in Seq(Objects)
        /\ w.deployment \in DOMAIN w.rs.owners
        /\ w.rs.owners[w.deployment].kind = "Deployment"
        /\ NoneBefore(w.rs.owners, {"Deployment"}, w.deployment, objs)
        /\ refs[w.ref].kind = "ReplicaSet"
    BY <1>0, <1>1, ObjectsAssumption DEF Walking, ObjectStates
  <2>2. Wanted(refs, w) = w.rs.owners[w.deployment]
    BY <1>1 DEF Wanted
  <2>3. FirstExisting(refs, WorkloadKinds, objs) = {refs[w.ref]}
    <3>1. /\ w.ref \in DOMAIN refs /\ refs[w.ref].kind \in WorkloadKinds
          /\ objs[refs[w.ref]].exists /\ NoneBefore(refs, WorkloadKinds, w.ref, objs)
      BY <1>1 DEF Walking
    <3> QED BY <3>1, FirstExistingIs
  <2>4. CASE objs[Wanted(refs, w)].exists
    <3>1. FirstExisting(w.rs.owners, {"Deployment"}, objs) = {w.rs.owners[w.deployment]}
      BY <2>1, <2>2, <2>4, FirstExistingIs
    <3>2. FirstExisting(objs[refs[w.ref]].owners, {"Deployment"}, objs) =
            {w.rs.owners[w.deployment]}
      BY <2>1, <3>1
    <3>3. OwnerAnnotations(refs, objs) = objs[w.rs.owners[w.deployment]].annos
      <4> DEFINE x == refs[w.ref]
                 d == w.rs.owners[w.deployment]
      <4>1. /\ FirstExisting(refs, WorkloadKinds, objs) = {x} /\ x.kind = "ReplicaSet"
            /\ FirstExisting(objs[x].owners, {"Deployment"}, objs) = {d}
        BY <2>1, <2>3, <3>2
      <4> HIDE DEF x, d
      <4>2. OwnerAnnotations(refs, objs) = objs[d].annos
        <5>1. OwnerAnnotations(refs, objs) = UnwrapOr({objs[o].annos : o \in {d}}, NoAnnotations)
          BY <4>1 DEF OwnerAnnotations
        <5> QED BY <5>1 DEF UnwrapOr
      <4> QED BY <4>2 DEF d
    <3> DEFINE annos == objs[w.rs.owners[w.deployment]].annos
    <3>4. WalkReply(refs, w, objs[Wanted(refs, w)]) = Found(annos)
      BY <1>1, <2>2, <2>4 DEF WalkReply
    <3>5. OwnerAnnotations(refs, objs) = annos
      BY <3>3
    <3> HIDE DEF annos
    <3> QED BY <3>4, <3>5 DEF Exact, Found
  <2>5. CASE ~ objs[Wanted(refs, w)].exists
    <3>1. NoneBefore(w.rs.owners, {"Deployment"}, w.deployment + 1, objs)
      BY <2>1, <2>2, <2>5, NoneBeforeNext
    <3>2. Exact(refs, InReplicaSet(w.ref, w.rs, w.deployment), objs)
      <4>1. /\ w.ref \in DOMAIN refs /\ NoneBefore(refs, WorkloadKinds, w.ref, objs)
            /\ objs[refs[w.ref]].exists /\ w.deployment \in Nat
        BY <1>0, <1>1 DEF Walking
      <4> QED BY <2>1, <3>1, <4>1, InReplicaSetExact
    <3>3. WalkReply(refs, w, objs[Wanted(refs, w)]) = InReplicaSet(w.ref, w.rs, w.deployment)
      BY <1>1, <2>5 DEF WalkReply
    <3> QED BY <3>2, <3>3
  <2> QED BY <2>4, <2>5
<1>2. CASE w.deployment = 0
  <2>1. Wanted(refs, w) = refs[w.ref]
    BY <1>0, <1>2 DEF Wanted
  <2>2. CASE ~ objs[refs[w.ref]].exists
    <3>1. NoneBefore(refs, WorkloadKinds, w.ref + 1, objs)
      BY <2>2, NoneBeforeNext DEF Walking
    <3> QED BY <1>0, <1>2, <2>1, <2>2, <3>1, InPodExact DEF WalkReply
  <2>3. CASE objs[refs[w.ref]].exists /\ refs[w.ref].kind = "ReplicaSet"
    <3>1. objs[refs[w.ref]] \in ObjectStates /\ objs[refs[w.ref]].owners \in Seq(Objects)
      BY <1>0, ObjectsAssumption DEF ObjectStates
    <3>2. NoneBefore(objs[refs[w.ref]].owners, {"Deployment"}, 0 + 1, objs)
      BY <3>1 DEF NoneBefore
    <3>3. Exact(refs, InReplicaSet(w.ref, objs[refs[w.ref]], 0), objs)
      BY <2>3, <3>1, <3>2, InReplicaSetExact DEF Walking
    <3> QED BY <1>0, <1>2, <2>1, <2>3, <3>3 DEF WalkReply
  <2>4. CASE objs[refs[w.ref]].exists /\ refs[w.ref].kind # "ReplicaSet"
    <3>1. FirstExisting(refs, WorkloadKinds, objs) = {refs[w.ref]}
      BY <2>4, FirstExistingIs DEF Walking
    <3>2. OwnerAnnotations(refs, objs) = objs[refs[w.ref]].annos
      BY <2>4, <3>1, OwnerItself
    <3> QED BY <1>0, <1>2, <2>1, <2>4, <3>2 DEF Exact, WalkReply, Found
  <2> QED BY <2>2, <2>3, <2>4
<1> QED BY <1>0, <1>1, <1>2

-----------------------------------------------------------------------------
(* The invariant.                                                          *)

\* The handler of r has read scope s.
ScopeKnown(r, s) ==
  \/ answer[r] \in {"skip", "patch"}
  \/ pc[r] = "upsert"
  \/ pc[r] = "ns" /\ s \in {1, 2, 3}
  \/ pc[r] = "sa" /\ s \in {1, 2}
  \/ pc[r] = "owner" /\ s = 1

\* The answer agrees with what was read, what was read without an edit is what
\* the cluster holds, and only such answers let a pod in.
ExactFor(r) ==
  /\ answer[r] = "patch" => Failing(read[r]) = {} /\ Injected(read[r]) # {}
  /\ answer[r] = "skip" => Failing(read[r]) = {} /\ Injected(read[r]) = {}
  /\ quiet[r] /\ pc[r] = "owner" => Walking(pod[r].owners, walk[r], objects)
  /\ quiet[r] => \A s \in Scopes : ScopeKnown(r, s) => read[r][s] = Snapshot(pod[r])[s]
  /\ verdict[r] = "admitted" => answer[r] \in {"skip", "patch"}
  /\ FailurePolicy = "Fail" => verdict[r] # "bypassed"

ExactInv == RInv /\ \A r \in Requests : ExactFor(r)

\* A step that leaves r and the objects as they are.
LEMMA ExactKept ==
  ASSUME NEW r, ExactFor(r), UNCHANGED objects,
         answer'[r] = answer[r], pc'[r] = pc[r], read'[r] = read[r], pod'[r] = pod[r],
         walk'[r] = walk[r], quiet'[r] = quiet[r], verdict'[r] = verdict[r]
  PROVE  ExactFor(r)'
BY DEF ExactFor, ScopeKnown, Snapshot, ScopesOf

\* A step of the handler of r leaves the other reviews as they are.
LEMMA OthersExact ==
  ASSUME ExactInv, NEW r \in Requests, HandlerStep(r) \/ Drop(r)
  PROVE  \A q \in Requests \ {r} : ExactFor(q)'
<1> USE DEF ExactInv, RInv, IInv
<1>1. UNCHANGED <<objects, pod, quiet, verdict>>
  BY DEF HandlerStep, GetOwner, GetServiceAccount, GetNamespaceAndDecide, ReadFails,
         UpsertConfigMap, UpsertFails, UpsertReplyLost, Drop
<1>2. \A q \in Requests \ {r} :
        answer'[q] = answer[q] /\ pc'[q] = pc[q] /\ read'[q] = read[q] /\ walk'[q] = walk[q]
  <2>1. CASE GetNamespaceAndDecide(r)
    <3> DEFINE a == read'[r]
    <3>1. Decide(r, a) /\ UNCHANGED walk /\ \A q \in Requests \ {r} : read'[q] = read[q]
      BY <2>1 DEF GetNamespaceAndDecide, ReadScope, TypeOK
    <3> HIDE DEF a
    <3> QED BY <3>1 DEF Decide, Finish, TypeOK
  <2>2. CASE GetOwner(r) \/ GetServiceAccount(r)
    BY <2>2 DEF GetOwner, GetServiceAccount, ReadScope, TypeOK
  <2>3. CASE ReadFails(r) \/ UpsertFails(r) \/ UpsertReplyLost(r) \/ Drop(r)
    BY <2>3 DEF ReadFails, UpsertFails, UpsertReplyLost, Drop, Finish, TypeOK
  <2>4. CASE UpsertConfigMap(r)
    BY <2>4 DEF UpsertConfigMap, Finish, TypeOK
  <2> QED BY <2>1, <2>2, <2>3, <2>4 DEF HandlerStep
<1> QED BY <1>1, <1>2, ExactKept

\* A running handler's pod is not in.
LEMMA RunningNotAdmitted ==
  ASSUME ExactInv, NEW r \in Requests, Running(r)
  PROVE  answer[r] = "none" /\ verdict[r] # "admitted"
BY DEF ExactInv, ExactFor, RInv, IInv, HandlerInv

\* GetOwner: the walk goes on, or has found the owner's annotations
\* (k8s.rs:27-67).
LEMMA GetOwnerExact ==
  ASSUME ExactInv, NEW r \in Requests, GetOwner(r)
  PROVE  ExactFor(r)'
<1> USE DEF ExactInv, RInv, IInv
<1> DEFINE refs == pod[r].owners
           next == WalkReply(refs, walk[r], objects[Wanted(refs, walk[r])])
<1>1. /\ pc[r] = "owner"
      /\ walk'[r] = next.walk
      /\ read' = [read EXCEPT ![r][2] = next.annos]
      /\ pc'[r] = IF next.done THEN "sa" ELSE "owner"
      /\ UNCHANGED <<objects, pod, answer, verdict, quiet>>
  BY DEF GetOwner, TypeOK
<1>2. answer[r] = "none" /\ verdict[r] # "admitted"
  BY <1>1, RunningNotAdmitted DEF Running
<1>3. refs \in Seq(Objects) /\ walk[r] \in Walks /\ objects \in [Objects -> ObjectStates]
  BY ScopesTyped DEF TypeOK
<1>4. quiet[r] => Exact(refs, next, objects)
  BY <1>1, <1>3, WalkReplyExact DEF ExactFor
<1>5. read[r] \in [Scopes -> Maps]
  BY DEF TypeOK, AnnotationSets
<1>6. read'[r][1] = read[r][1] /\ read'[r][2] = next.annos
  BY <1>1, <1>5 DEF TypeOK, Scopes
<1>7. quiet[r] => read[r][1] = Snapshot(pod[r])[1]
  BY <1>1 DEF ExactFor, ScopeKnown, Scopes
<1> HIDE DEF next
<1>8. CASE next.done
  <2>1. quiet[r] => next.annos = Snapshot(pod[r])[2]
    BY <1>4, <1>8 DEF Exact, Snapshot, ScopesOf
  <2>2. quiet'[r] => \A s \in Scopes : ScopeKnown(r, s)' => read'[r][s] = Snapshot(pod[r])'[s]
    BY <1>1, <1>2, <1>6, <1>7, <1>8, <2>1 DEF ScopeKnown, Snapshot, ScopesOf
  <2> QED BY <1>1, <1>2, <1>8, <2>2 DEF ExactFor
<1>9. CASE ~ next.done
  <2>1. quiet'[r] => Walking(pod'[r].owners, walk'[r], objects')
    BY <1>1, <1>4, <1>9 DEF Exact
  <2>2. quiet'[r] => \A s \in Scopes : ScopeKnown(r, s)' => read'[r][s] = Snapshot(pod[r])'[s]
    BY <1>1, <1>2, <1>6, <1>7, <1>9 DEF ScopeKnown, Snapshot, ScopesOf
  <2> QED BY <1>1, <1>2, <1>9, <2>1, <2>2 DEF ExactFor
<1> QED BY <1>8, <1>9

\* A read of the ServiceAccount or the Namespace adds what the cluster holds and
\* leaves the scopes read before.
LEMMA ReadScopeIs ==
  ASSUME TypeOK, NEW r \in Requests, NEW s \in {3, 4}, ReadScope(r, s)
  PROVE  /\ read'[r][s] = Snapshot(pod[r])[s]
         /\ \A t \in Scopes \ {s} : read'[r][t] = read[r][t]
<1>1. read[r] \in [Scopes -> Maps] /\ read \in [Requests -> AnnotationSets]
  BY DEF TypeOK, AnnotationSets
<1>2. read'[r][s] = objects[ScopeObject(pod[r], s)].annos
  BY <1>1 DEF ReadScope, Scopes
<1>3. \A t \in Scopes \ {s} : read'[r][t] = read[r][t]
  BY <1>1 DEF ReadScope, Scopes
<1> QED BY <1>2, <1>3 DEF ScopeObject, Snapshot, ScopesOf

\* GetServiceAccount (admission.rs:115).
LEMMA GetServiceAccountExact ==
  ASSUME ExactInv, NEW r \in Requests, GetServiceAccount(r)
  PROVE  ExactFor(r)'
<1> USE DEF ExactInv, RInv, IInv
<1>1. /\ pc[r] = "sa" /\ pc'[r] = "ns"
      /\ ReadScope(r, 3)
      /\ UNCHANGED <<objects, pod, answer, verdict, quiet>>
  BY DEF GetServiceAccount, ScopeRead, TypeOK
<1>2. answer[r] = "none" /\ verdict[r] # "admitted"
  BY <1>1, RunningNotAdmitted DEF Running
<1>3. quiet[r] => read[r][1] = Snapshot(pod[r])[1] /\ read[r][2] = Snapshot(pod[r])[2]
  BY <1>1 DEF ExactFor, ScopeKnown, Scopes
<1>4. /\ read'[r][3] = Snapshot(pod[r])[3]
      /\ read'[r][1] = read[r][1] /\ read'[r][2] = read[r][2]
  BY <1>1, ReadScopeIs DEF Scopes
<1>5. quiet'[r] => \A s \in Scopes : ScopeKnown(r, s)' => read'[r][s] = Snapshot(pod[r])'[s]
  BY <1>1, <1>2, <1>3, <1>4 DEF ScopeKnown, Snapshot, ScopesOf
<1> QED BY <1>1, <1>2, <1>5 DEF ExactFor

\* GetNamespaceAndDecide: the decision is taken on all four scopes
\* (admission.rs:116-190).
LEMMA GetNamespaceAndDecideExact ==
  ASSUME ExactInv, NEW r \in Requests, GetNamespaceAndDecide(r)
  PROVE  ExactFor(r)'
<1> USE DEF ExactInv, RInv, IInv
<1> DEFINE a == read'[r]
<1>1. /\ pc[r] = "ns"
      /\ ReadScope(r, 4)
      /\ Decide(r, a)
      /\ UNCHANGED <<objects, pod, verdict, quiet>>
  BY DEF GetNamespaceAndDecide, ScopeRead
<1>2. answer[r] = "none" /\ verdict[r] # "admitted"
  BY <1>1, RunningNotAdmitted DEF Running
<1>3. quiet[r] => \A s \in {1, 2, 3} : read[r][s] = Snapshot(pod[r])[s]
  BY <1>1 DEF ExactFor, ScopeKnown, Scopes
<1>4. quiet'[r] => \A s \in Scopes : a[s] = Snapshot(pod[r])'[s]
  <2>1. a[4] = Snapshot(pod[r])[4] /\ \A s \in {1, 2, 3} : a[s] = read[r][s]
    BY <1>1, ReadScopeIs DEF Scopes
  <2>2. Snapshot(pod[r])' = Snapshot(pod[r])
    BY <1>1 DEF Snapshot, ScopesOf
  <2> HIDE DEF a
  <2> QED BY <1>1, <1>3, <2>1, <2>2 DEF Scopes
<1>5. a \in AnnotationSets
  BY ReadScopeTyped DEF GetNamespaceAndDecide, ScopeRead
<1>6. NeedsUpsert(a) # {} => Injected(a) # {}
  BY <1>5, DecisionTyped
<1>7. /\ pc'[r] # "owner"
      /\ answer'[r] = "patch" => Failing(a) = {} /\ Injected(a) # {}
      /\ answer'[r] = "skip" => Failing(a) = {} /\ Injected(a) = {}
  <2> HIDE DEF a
  <2> QED BY <1>1, <1>2, <1>6 DEF Decide, Finish, TypeOK
<1> QED BY <1>1, <1>2, <1>4, <1>7 DEF ExactFor

\* The upserts, and the ends without a patch.
LEMMA UpsertsExact ==
  ASSUME ExactInv, NEW r \in Requests,
         \/ ReadFails(r) \/ UpsertConfigMap(r) \/ UpsertFails(r) \/ UpsertReplyLost(r)
         \/ Drop(r)
  PROVE  ExactFor(r)'
<1> USE DEF ExactInv, RInv, IInv
<1>1. Running(r) /\ UNCHANGED <<objects, pod, read, verdict, quiet>>
  BY DEF ReadFails, UpsertConfigMap, UpsertFails, UpsertReplyLost, Drop, Running
<1>2. answer[r] = "none" /\ verdict[r] # "admitted"
  BY <1>1, RunningNotAdmitted
<1>3. CASE pc'[r] \in {"done", "dropped"} /\ answer'[r] \in {"none", "deny"}
  BY <1>1, <1>2, <1>3 DEF ExactFor, ScopeKnown
<1>4. CASE UpsertConfigMap(r)
  <2>1. pc[r] = "upsert" /\ Failing(read[r]) = {} /\ NeedsUpsert(read[r]) # {}
    BY <1>4 DEF UpsertConfigMap, HandlerInv
  <2>2. Injected(read[r]) # {}
    BY <2>1, DecisionTyped DEF TypeOK
  <2>3. \/ pc'[r] = "upsert" /\ answer'[r] = "none"
        \/ pc'[r] = "done" /\ answer'[r] = "patch"
    BY <1>2, <1>4, <2>1 DEF UpsertConfigMap, Finish, TypeOK
  <2>4. quiet[r] => \A s \in Scopes : read[r][s] = Snapshot(pod[r])[s]
    BY <2>1 DEF ExactFor, ScopeKnown
  <2>5. Snapshot(pod[r])' = Snapshot(pod[r])
    BY <1>1 DEF Snapshot, ScopesOf
  <2> QED BY <1>1, <1>2, <2>1, <2>2, <2>3, <2>4, <2>5 DEF ExactFor
<1>5. UpsertConfigMap(r) \/ (pc'[r] \in {"done", "dropped"} /\ answer'[r] \in {"none", "deny"})
  BY <1>2 DEF ReadFails, UpsertFails, UpsertReplyLost, Drop, Finish, TypeOK
<1> QED BY <1>3, <1>4, <1>5

\* A review that arrives starts at the first reference, or has no owner to read
\* (admission.rs:92-114).
LEMMA ReceiveExact ==
  ASSUME ExactInv, NEW r \in Requests, Receive(r) \/ ReceiveUnusable(r)
  PROVE  \A q \in Requests : ExactFor(q)'
<1> USE DEF ExactInv, RInv, IInv
<1>1. PICK p \in Pods, d \in BOOLEAN : Arrive(r, p, d) /\
        \/ /\ walk' = [walk EXCEPT ![r] = WalkStart(p.owners).walk]
           /\ pc' = [pc EXCEPT ![r] = IF WalkStart(p.owners).done THEN "sa" ELSE "owner"]
           /\ answer' = [answer EXCEPT ![r] = "none"]
        \/ /\ UNCHANGED walk
           /\ \E a \in {"http_400", "deny"} : Finish(r, a)
  BY DEF Receive, ReceiveUnusable
<1>2. /\ UNCHANGED objects
      /\ pod'[r] = p /\ verdict'[r] = "pending"
      /\ read'[r] = <<p.annos, NoAnnotations, NoAnnotations, NoAnnotations>>
  BY <1>1 DEF Arrive, TypeOK
<1>3. ASSUME NEW q \in Requests \ {r} PROVE ExactFor(q)'
  BY <1>1, ExactKept DEF Arrive, Finish, TypeOK
<1> SUFFICES ExactFor(r)'
  BY <1>3
<1>4. CASE pc'[r] = "done" /\ answer'[r] \in {"http_400", "deny"}
  BY <1>2, <1>4 DEF ExactFor, ScopeKnown
<1>5. CASE /\ walk'[r] = WalkStart(p.owners).walk
           /\ pc'[r] = IF WalkStart(p.owners).done THEN "sa" ELSE "owner"
           /\ answer'[r] = "none"
  <2> DEFINE start == WalkStart(p.owners)
  <2>1. p.owners \in Seq(Objects)
    BY ScopesTyped
  <2>2. Exact(p.owners, start, objects) /\ start.annos = NoAnnotations
    <3>1. NoneBefore(p.owners, WorkloadKinds, 0 + 1, objects)
      BY <2>1 DEF NoneBefore
    <3>2. InPod(p.owners, 0).annos = NoAnnotations
      BY DEF InPod, Found, Continue
    <3> QED BY <2>1, <3>1, <3>2, InPodExact DEF WalkStart
  <2> HIDE DEF start
  <2>3. Snapshot(pod[r])'[1] = p.annos
        /\ Snapshot(pod[r])'[2] = OwnerAnnotations(p.owners, objects)
    BY <1>2 DEF Snapshot, ScopesOf
  <2>4. CASE start.done
    <3>1. \A s \in {1, 2} : read'[r][s] = Snapshot(pod[r])'[s]
      BY <1>2, <2>2, <2>3, <2>4 DEF Exact
    <3> QED BY <1>2, <1>5, <2>4, <3>1 DEF ExactFor, ScopeKnown, start
  <2>5. CASE ~ start.done
    <3>1. Walking(pod'[r].owners, walk'[r], objects')
      BY <1>2, <1>5, <2>2, <2>5 DEF Exact, start
    <3> QED BY <1>2, <1>5, <2>3, <2>5, <3>1 DEF ExactFor, ScopeKnown, start
  <2> QED BY <2>4, <2>5
<1>6. \/ pc'[r] = "done" /\ answer'[r] \in {"http_400", "deny"}
      \/ /\ walk'[r] = WalkStart(p.owners).walk
         /\ pc'[r] = IF WalkStart(p.owners).done THEN "sa" ELSE "owner"
         /\ answer'[r] = "none"
  BY <1>1 DEF Finish, TypeOK
<1> QED BY <1>4, <1>5, <1>6

\* The API server lets a pod in only on an answer that says so, and where the
\* webhook is required never without one (mutatingwebhookconfiguration.yaml).
LEMMA VerdictExact ==
  ASSUME ExactInv, NEW r \in Requests, Deliver(r) \/ CallFails(r)
  PROVE  \A q \in Requests : ExactFor(q)'
<1> USE DEF ExactInv, RInv, IInv
<1>1. UNCHANGED <<objects, pod, pc, walk, read, answer, quiet>>
  BY DEF Deliver, CallFails, handler
<1>2. ASSUME NEW q \in Requests \ {r} PROVE ExactFor(q)'
  <2>1. verdict'[q] = verdict[q]
    BY DEF Deliver, CallFails, TypeOK
  <2> QED BY <1>1, <2>1, ExactKept
<1>3. /\ verdict'[r] = "admitted" => answer[r] \in {"skip", "patch"}
      /\ FailurePolicy = "Fail" => verdict'[r] # "bypassed"
  BY DEF Deliver, CallFails, ByFailurePolicy, TypeOK
<1>4. ExactFor(r)'
  <2>1. Snapshot(pod[r])' = Snapshot(pod[r])
    BY <1>1 DEF Snapshot, ScopesOf
  <2>2. \A s \in Scopes : ScopeKnown(r, s)' <=> ScopeKnown(r, s)
    BY <1>1 DEF ScopeKnown
  <2> QED BY <1>1, <1>3, <2>1, <2>2 DEF ExactFor
<1> QED BY <1>2, <1>4

\* Others: an edit ends every quiet period, and ConfigMaps decide nothing.
LEMMA EnvironmentExact ==
  ASSUME ExactInv, Environment
  PROVE  \A q \in Requests : ExactFor(q)'
<1> USE DEF ExactInv, RInv, IInv
<1>1. CASE \E o \in Objects : EditObject(o)
  <2>1. /\ UNCHANGED <<pod, pc, walk, read, answer, verdict>>
        /\ \A q \in Requests : quiet'[q] = FALSE
    BY <1>1 DEF EditObject, handler
  <2> QED BY <2>1 DEF ExactFor
<1>2. CASE \E c \in CmNames : ForeignWrite(c) \/ ForeignDelete(c)
  <2>1. UNCHANGED <<objects, pod, pc, walk, read, answer, quiet, verdict>>
    BY <1>2 DEF ForeignWrite, ForeignDelete, handler
  <2> QED BY <2>1, ExactKept
<1> QED BY <1>1, <1>2 DEF Environment

\* A step of a handler keeps the invariant, for its own review and the others.
LEMMA HandlerExact ==
  ASSUME ExactInv, NEW r \in Requests, HandlerStep(r) \/ Drop(r)
  PROVE  \A q \in Requests : ExactFor(q)'
<1>1. ExactFor(r)'
  BY GetOwnerExact, GetServiceAccountExact, GetNamespaceAndDecideExact, UpsertsExact
     DEF HandlerStep
<1> QED BY <1>1, OthersExact

-----------------------------------------------------------------------------
(* The theorems.                                                           *)

\* No review has been received yet.
LEMMA InitExact == Init => ExactInv
<1> SUFFICES ASSUME Init PROVE ExactInv
  OBVIOUS
<1>1. RInv
  BY InitInv DEF RInv, AnsweredInv, Init
<1>2. \A r \in Requests : ExactFor(r)
  BY DEF Init, ExactFor, ScopeKnown
<1> QED BY <1>1, <1>2 DEF ExactInv

\* The invariant is inductive (admission.rs:88-193, k8s.rs:16-68).
LEMMA ExactNext == ExactInv /\ [Next]_vars => ExactInv'
<1> SUFFICES ASSUME ExactInv, [Next]_vars PROVE ExactInv'
  OBVIOUS
<1>1. RInv'
  BY AnsweredNext DEF ExactInv
<1>2. CASE UNCHANGED vars
  <2>1. UNCHANGED <<objects, pod, pc, walk, read, answer, quiet, verdict>>
    BY <1>2 DEF vars, handler
  <2>2. \A r \in Requests : ExactFor(r)'
    BY <2>1, ExactKept DEF ExactInv
  <2> QED BY <1>1, <2>2 DEF ExactInv
<1>3. CASE Next
  <2>1. \A q \in Requests : ExactFor(q)'
    BY <1>3, ReceiveExact, HandlerExact, VerdictExact, EnvironmentExact DEF Next
  <2> QED BY <1>1, <2>1 DEF ExactInv
<1> QED BY <1>2, <1>3

\* An answer given while nobody edited an object is the decision on the cluster.
LEMMA QuietAnswer ==
  ASSUME ExactInv, NEW r \in Requests, quiet[r], answer[r] \in {"skip", "patch"}
  PROVE  read[r] = Snapshot(pod[r])
<1>1. \A s \in Scopes : read[r][s] = Snapshot(pod[r])[s]
  BY DEF ExactInv, ExactFor, ScopeKnown
<1>2. read[r] \in [Scopes -> Maps]
  BY DEF ExactInv, RInv, IInv, TypeOK, AnnotationSets
<1> QED BY <1>1, <1>2 DEF Snapshot, ScopesOf, Scopes

\* The invariant holds in every reachable state.
LEMMA ExactInvariant == Spec => []ExactInv
BY InitExact, ExactNext, PTL DEF Spec

\* A review during which nobody edits an object is answered by the decision on
\* the four scopes of the cluster (admission.rs:111-116, k8s.rs:16-68).
THEOREM DecisionExactCorrect == Spec => []DecisionExact
<1>1. ExactInv => DecisionExact
  <2> SUFFICES ASSUME ExactInv, NEW r \in Requests, quiet[r], answer[r] \in {"skip", "patch"}
               PROVE  /\ Failing(Snapshot(pod[r])) = {}
                      /\ Injected(read[r]) = Injected(Snapshot(pod[r]))
                      /\ (answer[r] = "patch") = (Injected(Snapshot(pod[r])) # {})
    BY DEF DecisionExact
  <2> QED BY QuietAnswer DEF ExactInv, ExactFor
<1> QED BY <1>1, ExactInvariant, PTL

\* Where the webhook is required, no pod is stored without the identities its
\* cluster asks for (values.yaml:74-76).
THEOREM RequiredIdentityCorrect ==
  ASSUME FailurePolicy = "Fail"
  PROVE  Spec => []RequiredIdentity
<1>1. ExactInv => RequiredIdentity
  <2> SUFFICES ASSUME ExactInv, NEW r \in Requests,
                      verdict[r] \in {"admitted", "bypassed"}, quiet[r]
               PROVE  IF answer[r] = "patch" /\ verdict[r] = "admitted"
                      THEN Injected(read[r]) = Injected(Snapshot(pod[r]))
                      ELSE Injected(Snapshot(pod[r])) = {}
    BY DEF RequiredIdentity
  <2>1. verdict[r] = "admitted" /\ answer[r] \in {"skip", "patch"}
    BY DEF ExactInv, ExactFor
  <2> QED BY <2>1, QuietAnswer DEF ExactInv, ExactFor
<1> QED BY <1>1, ExactInvariant, PTL

-----------------------------------------------------------------------------
(* Opt-ins that move while a review is handled.                            *)

\* The scopes the handler of r has still to read (admission.rs:114-116).
Ahead(r, s) ==
  \/ pc[r] = "owner" /\ s \in {2, 3, 4}
  \/ pc[r] = "sa" /\ s \in {3, 4}
  \/ pc[r] = "ns" /\ s = 4

\* A provider the cluster asked for all the time has been read in some scope, or
\* is there to be read: at the owner, if the walk leads to it.
AwaitedBy(r, maps) ==
  \/ \E s \in Scopes : ScopeKnown(r, s) /\ read[r][s] \in maps
  \/ \E s \in Scopes :
       /\ Ahead(r, s)
       /\ Snapshot(pod[r])[s] \in maps
       /\ s = 2 => Walking(pod[r].owners, walk[r], objects)

Awaited(r, on) ==
  Running(r) \/ answer[r] \in {"skip", "patch"} =>
    \A k \in standing[r] : AwaitedBy(r, on[k])

MovingInv(on, clusters) ==
  /\ RInv
  /\ objects \in clusters
  /\ \A r \in Requests : Awaited(r, on)

\* FirstExisting returns a reference to an object, or none.
LEMMA FirstExistingTyped ==
  ASSUME NEW refs \in Seq(Objects), NEW kinds, NEW objs
  PROVE  FirstExisting(refs, kinds, objs) \subseteq Objects
<1> DEFINE there == {k \in DOMAIN refs : refs[k].kind \in kinds /\ objs[refs[k]].exists}
<1>1. there \subseteq Nat
  OBVIOUS
<1>2. CASE there # {}
  <2>1. Min(there) \in there
    <3> HIDE DEF there
    <3> QED BY <1>1, <1>2, MinInSet
  <2>2. refs[Min(there)] \in Objects
    BY <2>1
  <2> QED BY <1>2, <2>2 DEF FirstExisting
<1> QED BY <1>2 DEF FirstExisting

\* The walk's result is an annotation map.
LEMMA OwnerTyped ==
  ASSUME NEW refs \in Seq(Objects), NEW objs \in [Objects -> ObjectStates]
  PROVE  OwnerAnnotations(refs, objs) \in Maps
<1> DEFINE workload == FirstExisting(refs, WorkloadKinds, objs)
           deployment == UNION {FirstExisting(objs[o].owners, {"Deployment"}, objs) :
                                  o \in {o \in workload : o.kind = "ReplicaSet"}}
           source == IF deployment = {} THEN workload ELSE deployment
<1>1. workload \subseteq Objects
  BY FirstExistingTyped
<1>2. \A o \in Objects : objs[o].owners \in Seq(Objects) /\ objs[o].annos \in Maps
  BY ObjectsAssumption DEF ObjectStates
<1>3. deployment \subseteq Objects
  <2> SUFFICES ASSUME NEW o \in workload
               PROVE  FirstExisting(objs[o].owners, {"Deployment"}, objs) \subseteq Objects
    OBVIOUS
  <2> QED BY <1>1, <1>2, FirstExistingTyped
<1>4. OwnerAnnotations(refs, objs) = UnwrapOr({objs[o].annos : o \in source}, NoAnnotations)
  BY DEF OwnerAnnotations
<1> HIDE DEF workload, deployment
<1>5. {objs[o].annos : o \in source} \subseteq Maps
  BY <1>1, <1>2, <1>3
<1> HIDE DEF source
<1> QED BY <1>4, <1>5, MapsAssumption DEF UnwrapOr

\* The four scopes of a pod are an annotation set.
LEMMA ScopesAre ==
  ASSUME NEW q \in Pods, NEW objs \in [Objects -> ObjectStates]
  PROVE  ScopesOf(q, objs) \in AnnotationSets
<1>1. /\ q.annos \in Maps /\ q.owners \in Seq(Objects)
      /\ ServiceAccountOf(q) \in Objects /\ NamespaceKey \in Objects
  BY PodsAssumption, ObjectsAssumption
<1>2. objs[ServiceAccountOf(q)].annos \in Maps /\ objs[NamespaceKey].annos \in Maps
  BY <1>1 DEF ObjectStates
<1>3. OwnerAnnotations(q.owners, objs) \in Maps
  BY <1>1, OwnerTyped
<1> QED BY <1>1, <1>2, <1>3 DEF ScopesOf, AnnotationSets, Scopes

\* No earlier reference comes to exist if the first one that does is the same.
LEMMA NoneBeforeKept ==
  ASSUME NEW refs \in Seq(Objects), NEW kinds, NEW objs, NEW later, NEW n \in Nat,
         FirstExisting(refs, kinds, later) = FirstExisting(refs, kinds, objs),
         NoneBefore(refs, kinds, n, objs)
  PROVE  NoneBefore(refs, kinds, n, later)
<1> DEFINE There(c) == {k \in DOMAIN refs : refs[k].kind \in kinds /\ c[refs[k]].exists}
<1>1. DOMAIN refs \subseteq Nat
  OBVIOUS
<1>2. \A c : There(c) # {} =>
        /\ Min(There(c)) \in There(c)
        /\ \A k \in There(c) : Min(There(c)) =< k
        /\ FirstExisting(refs, kinds, c) = {refs[Min(There(c))]}
  <2> SUFFICES ASSUME NEW c, There(c) # {}
               PROVE  /\ Min(There(c)) \in There(c)
                      /\ \A k \in There(c) : Min(There(c)) =< k
                      /\ FirstExisting(refs, kinds, c) = {refs[Min(There(c))]}
    OBVIOUS
  <2>1. There(c) \subseteq Nat
    BY <1>1
  <2>2. FirstExisting(refs, kinds, c) = {refs[Min(There(c))]}
    BY DEF FirstExisting
  <2> HIDE DEF There
  <2> QED BY <2>1, <2>2, MinInSet
<1>3. \A c : There(c) = {} => FirstExisting(refs, kinds, c) = {}
  BY DEF FirstExisting
<1> SUFFICES ASSUME NEW k \in DOMAIN refs, k < n, refs[k].kind \in kinds, later[refs[k]].exists
             PROVE  FALSE
  BY DEF NoneBefore
<1> DEFINE m == Min(There(later))
           first == Min(There(objs))
<1>4. /\ m \in There(later) /\ m =< k
      /\ FirstExisting(refs, kinds, later) = {refs[m]}
  <2>1. k \in There(later)
    OBVIOUS
  <2> HIDE DEF There
  <2> QED BY <1>2, <2>1
<1>5. first \in There(objs) /\ FirstExisting(refs, kinds, objs) = {refs[first]}
  <2> HIDE DEF There
  <2> QED BY <1>2, <1>3, <1>4
<1> HIDE DEF m, first
<1>6. refs[m] = refs[first]
  BY <1>4, <1>5
<1>7. m \in DOMAIN refs /\ refs[m].kind \in kinds /\ objs[refs[m]].exists
  BY <1>4, <1>5, <1>6
<1>8. m < n
  BY <1>1, <1>4, <1>7
<1> QED BY <1>7, <1>8 DEF NoneBefore

\* If the workload and the Deployment that count stay the same, a walk that led
\* there still does (k8s.rs:27-67).
LEMMA WalkingKept ==
  ASSUME NEW refs \in Seq(Objects), NEW w \in Walks,
         NEW objs \in [Objects -> ObjectStates], NEW later,
         Walking(refs, w, objs), SameOwner(refs, objs, later)
  PROVE  Walking(refs, w, later)
<1>1. /\ w.ref \in DOMAIN refs /\ refs[w.ref].kind \in WorkloadKinds /\ w.ref \in Nat
      /\ NoneBefore(refs, WorkloadKinds, w.ref, objs)
  BY DEF Walking, Walks
<1>2. NoneBefore(refs, WorkloadKinds, w.ref, later)
  BY <1>1, NoneBeforeKept DEF SameOwner
<1>3. CASE w.deployment > 0
  <2> DEFINE x == refs[w.ref]
  <2>1. /\ x.kind = "ReplicaSet" /\ objs[x].exists /\ w.rs = objs[x] /\ x \in Objects
        /\ w.deployment \in DOMAIN w.rs.owners
        /\ w.rs.owners[w.deployment].kind = "Deployment"
        /\ NoneBefore(w.rs.owners, {"Deployment"}, w.deployment, objs)
    BY <1>1, <1>3 DEF Walking
  <2>2. FirstExisting(refs, WorkloadKinds, objs) = {x}
    BY <1>1, <2>1, FirstExistingIs
  <2> HIDE DEF x
  <2>3. /\ later[x] = objs[x]
        /\ FirstExisting(objs[x].owners, {"Deployment"}, later)
             = FirstExisting(objs[x].owners, {"Deployment"}, objs)
    BY <2>1, <2>2 DEF SameOwner
  <2>4. w.rs.owners \in Seq(Objects) /\ w.deployment \in Nat
    BY <2>1, ObjectsAssumption DEF ObjectStates, Walks
  <2>5. NoneBefore(w.rs.owners, {"Deployment"}, w.deployment, later)
    BY <2>1, <2>3, <2>4, NoneBeforeKept
  <2>6. /\ x.kind = "ReplicaSet" /\ later[x].exists /\ w.rs = later[x]
    BY <2>1, <2>3
  <2> QED BY <1>1, <1>2, <2>1, <2>5, <2>6 DEF Walking, x
<1>4. CASE ~ (w.deployment > 0)
  BY <1>1, <1>2, <1>4 DEF Walking
<1> QED BY <1>3, <1>4

\* A step that leaves r, its history and the objects as they are.
LEMMA AwaitedKept ==
  ASSUME NEW r, NEW on, Awaited(r, on), UNCHANGED objects,
         answer'[r] = answer[r], pc'[r] = pc[r], read'[r] = read[r], pod'[r] = pod[r],
         walk'[r] = walk[r], standing'[r] = standing[r]
  PROVE  Awaited(r, on)'
BY DEF Awaited, AwaitedBy, ScopeKnown, Ahead, Running, Snapshot, ScopesOf

\* GetOwner: what the walk led to has been read, or the walk leads to it still
\* (k8s.rs:27-67).
LEMMA GetOwnerAwaited ==
  ASSUME NEW on, NEW clusters, MovingInv(on, clusters), NEW r \in Requests, GetOwner(r)
  PROVE  Awaited(r, on)'
<1> USE DEF MovingInv, RInv, IInv
<1> DEFINE refs == pod[r].owners
           next == WalkReply(refs, walk[r], objects[Wanted(refs, walk[r])])
<1>1. /\ pc[r] = "owner"
      /\ walk'[r] = next.walk
      /\ read' = [read EXCEPT ![r][2] = next.annos]
      /\ pc'[r] = IF next.done THEN "sa" ELSE "owner"
      /\ UNCHANGED <<objects, pod, answer, standing>>
  BY DEF GetOwner, TypeOK
<1>2. answer[r] = "none"
  BY <1>1 DEF Running, HandlerInv
<1>3. refs \in Seq(Objects) /\ walk[r] \in Walks /\ objects \in [Objects -> ObjectStates]
  BY ScopesTyped DEF TypeOK
<1>4. Walking(refs, walk[r], objects) => Exact(refs, next, objects)
  BY <1>3, WalkReplyExact
<1>5. read[r] \in [Scopes -> Maps]
  BY DEF TypeOK, AnnotationSets
<1>6. read'[r][1] = read[r][1] /\ read'[r][2] = next.annos
  BY <1>1, <1>5 DEF TypeOK, Scopes
<1>7. Snapshot(pod[r])[2] = OwnerAnnotations(refs, objects)
  BY DEF Snapshot, ScopesOf
<1>8. Snapshot(pod[r])' = Snapshot(pod[r])
  BY <1>1 DEF Snapshot, ScopesOf
<1> HIDE DEF next
<1> SUFFICES ASSUME NEW k \in standing[r] PROVE AwaitedBy(r, on[k])'
  BY <1>1 DEF Awaited
<1>9. AwaitedBy(r, on[k])
  BY <1>1 DEF Awaited, Running
<1>10. CASE read[r][1] \in on[k]
  BY <1>1, <1>6, <1>10 DEF AwaitedBy, ScopeKnown, Scopes
<1>11. CASE \E s \in {3, 4} : Snapshot(pod[r])[s] \in on[k]
  BY <1>1, <1>8, <1>11 DEF AwaitedBy, Ahead, Scopes
<1>12. CASE Snapshot(pod[r])[2] \in on[k] /\ Walking(refs, walk[r], objects)
  <2>1. CASE next.done
    <3>1. read'[r][2] \in on[k] /\ pc'[r] = "sa"
      BY <1>1, <1>4, <1>6, <1>7, <1>12, <2>1 DEF Exact
    <3> QED BY <3>1 DEF AwaitedBy, ScopeKnown, Scopes
  <2>2. CASE ~ next.done
    <3>1. Walking(refs, walk'[r], objects) /\ pc'[r] = "owner"
      BY <1>1, <1>4, <1>12, <2>2 DEF Exact
    <3> QED BY <1>1, <1>8, <1>12, <3>1 DEF AwaitedBy, Ahead, Scopes
  <2> QED BY <2>1, <2>2
<1>13. \/ read[r][1] \in on[k]
       \/ \E s \in {3, 4} : Snapshot(pod[r])[s] \in on[k]
       \/ Snapshot(pod[r])[2] \in on[k] /\ Walking(refs, walk[r], objects)
  BY <1>1, <1>2, <1>9 DEF AwaitedBy, ScopeKnown, Ahead
<1> QED BY <1>10, <1>11, <1>12, <1>13

\* GetServiceAccount: the opt-in is found there, or the Namespace has it
\* (admission.rs:115).
LEMMA GetServiceAccountAwaited ==
  ASSUME NEW on, NEW clusters, MovingInv(on, clusters), NEW r \in Requests, GetServiceAccount(r)
  PROVE  Awaited(r, on)'
<1> USE DEF MovingInv, RInv, IInv
<1>1. /\ pc[r] = "sa" /\ pc'[r] = "ns"
      /\ ReadScope(r, 3)
      /\ UNCHANGED <<objects, pod, answer, standing>>
  BY DEF GetServiceAccount, ScopeRead, TypeOK
<1>2. answer[r] = "none"
  BY <1>1 DEF Running, HandlerInv
<1>3. /\ read'[r][3] = Snapshot(pod[r])[3]
      /\ read'[r][1] = read[r][1] /\ read'[r][2] = read[r][2]
  BY <1>1, ReadScopeIs DEF Scopes
<1>4. Snapshot(pod[r])' = Snapshot(pod[r])
  BY <1>1 DEF Snapshot, ScopesOf
<1> SUFFICES ASSUME NEW k \in standing[r] PROVE AwaitedBy(r, on[k])'
  BY <1>1 DEF Awaited
<1>5. AwaitedBy(r, on[k])
  BY <1>1 DEF Awaited, Running
<1>6. CASE \E s \in {1, 2} : read[r][s] \in on[k]
  BY <1>1, <1>3, <1>6 DEF AwaitedBy, ScopeKnown, Scopes
<1>7. CASE Snapshot(pod[r])[3] \in on[k]
  BY <1>1, <1>3, <1>7 DEF AwaitedBy, ScopeKnown, Scopes
<1>8. CASE Snapshot(pod[r])[4] \in on[k]
  BY <1>1, <1>4, <1>8 DEF AwaitedBy, Ahead, Scopes
<1> QED BY <1>1, <1>2, <1>5, <1>6, <1>7, <1>8 DEF AwaitedBy, ScopeKnown, Ahead

\* GetNamespaceAndDecide: what is left to be found is found (admission.rs:116-190).
LEMMA GetNamespaceAndDecideAwaited ==
  ASSUME NEW on, NEW clusters, MovingInv(on, clusters), NEW r \in Requests,
         GetNamespaceAndDecide(r)
  PROVE  Awaited(r, on)'
<1> USE DEF MovingInv, RInv, IInv
<1> DEFINE a == read'[r]
<1>1. /\ pc[r] = "ns"
      /\ ReadScope(r, 4)
      /\ Decide(r, a)
      /\ UNCHANGED <<objects, pod, standing>>
  BY DEF GetNamespaceAndDecide, ScopeRead
<1>2. answer[r] = "none"
  BY <1>1 DEF Running, HandlerInv
<1>3. a[4] = Snapshot(pod[r])[4] /\ \A s \in {1, 2, 3} : a[s] = read[r][s]
  BY <1>1, ReadScopeIs DEF Scopes
<1>4. \/ pc'[r] = "upsert"
      \/ pc'[r] = "done" /\ answer'[r] \in {"skip", "patch", "deny"}
  <2> HIDE DEF a
  <2> QED BY <1>1 DEF Decide, Finish, TypeOK
<1> SUFFICES ASSUME NEW k \in standing[r], pc'[r] = "upsert" \/ answer'[r] \in {"skip", "patch"}
             PROVE  AwaitedBy(r, on[k])'
  BY <1>1, <1>4 DEF Awaited, Running
<1>5. AwaitedBy(r, on[k])
  BY <1>1 DEF Awaited, Running
<1>6. \E s \in Scopes : a[s] \in on[k]
  <2> HIDE DEF a
  <2> QED BY <1>1, <1>2, <1>3, <1>5 DEF AwaitedBy, ScopeKnown, Ahead, Scopes
<1> QED BY <1>6 DEF AwaitedBy, ScopeKnown

\* The upserts decide nothing, and the other ends let no pod in.
LEMMA UpsertsAwaited ==
  ASSUME NEW on, NEW clusters, MovingInv(on, clusters), NEW r \in Requests,
         \/ ReadFails(r) \/ UpsertConfigMap(r) \/ UpsertFails(r) \/ UpsertReplyLost(r)
         \/ Drop(r)
  PROVE  Awaited(r, on)'
<1> USE DEF MovingInv, RInv, IInv
<1>1. Running(r) /\ UNCHANGED <<objects, pod, read, standing>>
  BY DEF ReadFails, UpsertConfigMap, UpsertFails, UpsertReplyLost, Drop, Running
<1>2. answer[r] = "none"
  BY <1>1 DEF HandlerInv
<1>3. CASE pc'[r] \in {"done", "dropped"} /\ answer'[r] \in {"none", "deny"}
  BY <1>3 DEF Awaited, Running
<1>4. CASE UpsertConfigMap(r)
  <2>1. /\ pc[r] = "upsert"
        /\ \/ pc'[r] = "upsert" /\ answer'[r] = "none"
           \/ pc'[r] = "done" /\ answer'[r] = "patch"
    BY <1>2, <1>4 DEF UpsertConfigMap, Finish, TypeOK
  <2>2. \A k \in standing[r] : \E s \in Scopes : read[r][s] \in on[k]
    BY <1>1, <2>1 DEF Awaited, AwaitedBy, Ahead
  <2> QED BY <1>1, <2>1, <2>2 DEF Awaited, AwaitedBy, ScopeKnown
<1>5. UpsertConfigMap(r) \/ (pc'[r] \in {"done", "dropped"} /\ answer'[r] \in {"none", "deny"})
  BY <1>2 DEF ReadFails, UpsertFails, UpsertReplyLost, Drop, Finish, TypeOK
<1> QED BY <1>3, <1>4, <1>5

\* A step of the handler of r leaves the other reviews as they are.
LEMMA OthersAwaited ==
  ASSUME NEW on, NEW clusters, MovingInv(on, clusters),
         NEW r \in Requests, HandlerStep(r) \/ Drop(r), NEW q \in Requests \ {r}
  PROVE  Awaited(q, on)'
<1> USE DEF MovingInv, RInv, IInv
<1>1. /\ UNCHANGED <<objects, pod, standing>>
      /\ answer'[q] = answer[q] /\ pc'[q] = pc[q] /\ read'[q] = read[q] /\ walk'[q] = walk[q]
  <2>1. CASE GetNamespaceAndDecide(r)
    <3> DEFINE a == read'[r]
    <3>1. Decide(r, a) /\ UNCHANGED <<objects, pod, standing, walk>> /\ read'[q] = read[q]
      BY <2>1 DEF GetNamespaceAndDecide, ReadScope, TypeOK
    <3> HIDE DEF a
    <3> QED BY <3>1 DEF Decide, Finish, TypeOK
  <2>2. CASE GetOwner(r) \/ GetServiceAccount(r)
    BY <2>2 DEF GetOwner, GetServiceAccount, ReadScope, TypeOK
  <2>3. CASE ReadFails(r) \/ UpsertFails(r) \/ UpsertReplyLost(r) \/ Drop(r)
    BY <2>3 DEF ReadFails, UpsertFails, UpsertReplyLost, Drop, Finish, TypeOK
  <2>4. CASE UpsertConfigMap(r)
    BY <2>4 DEF UpsertConfigMap, Finish, TypeOK
  <2> QED BY <2>1, <2>2, <2>3, <2>4 DEF HandlerStep
<1> QED BY <1>1, AwaitedKept

\* Whatever opts in when a review arrives is in the pod or has still to be read
\* (admission.rs:92-114).
LEMMA ReceiveAwaited ==
  ASSUME NEW on, NEW clusters, MovingInv(on, clusters), OptInsMoveBroader(on, clusters),
         NEW r \in Requests, Receive(r) \/ ReceiveUnusable(r), NEW q \in Requests
  PROVE  Awaited(q, on)'
<1> USE DEF MovingInv, RInv, IInv
<1>1. PICK p \in Pods, d \in BOOLEAN : Arrive(r, p, d) /\
        \/ /\ walk' = [walk EXCEPT ![r] = WalkStart(p.owners).walk]
           /\ pc' = [pc EXCEPT ![r] = IF WalkStart(p.owners).done THEN "sa" ELSE "owner"]
           /\ answer' = [answer EXCEPT ![r] = "none"]
        \/ /\ UNCHANGED walk
           /\ \E a \in {"http_400", "deny"} : Finish(r, a)
  BY DEF Receive, ReceiveUnusable
<1>2. /\ UNCHANGED objects
      /\ pod'[r] = p
      /\ read'[r] = <<p.annos, NoAnnotations, NoAnnotations, NoAnnotations>>
      /\ standing'[r] = Injected(ScopesOf(p, objects))
  BY <1>1 DEF Arrive, TypeOK, Snapshot
<1>3. CASE q # r
  <2>1. /\ answer'[q] = answer[q] /\ pc'[q] = pc[q] /\ read'[q] = read[q] /\ walk'[q] = walk[q]
        /\ pod'[q] = pod[q] /\ standing'[q] = standing[q]
    BY <1>1, <1>3 DEF Arrive, Finish, TypeOK
  <2> QED BY <1>2, <2>1, AwaitedKept
<1>4. CASE q = r /\ pc'[r] = "done" /\ answer'[r] \in {"http_400", "deny"}
  BY <1>4 DEF Awaited, Running
<1>5. CASE /\ q = r
           /\ walk'[r] = WalkStart(p.owners).walk
           /\ pc'[r] = IF WalkStart(p.owners).done THEN "sa" ELSE "owner"
  <2> DEFINE start == WalkStart(p.owners)
             scopes == ScopesOf(p, objects)
  <2> SUFFICES ASSUME NEW k \in standing'[r] PROVE AwaitedBy(r, on[k])'
    BY <1>5 DEF Awaited
  <2>1. NoAnnotations \notin on[k] /\ \E s \in Scopes : scopes[s] \in on[k]
    <3>1. k \in DOMAIN ProviderOrder /\ k \in Injected(scopes)
      BY <1>2 DEF Injected, Consulted
    <3>2. scopes \in AnnotationSets
      BY ScopesAre DEF TypeOK
    <3> HIDE DEF scopes
    <3> QED BY <3>1, <3>2 DEF OptInsMoveBroader, OptsInWith
  <2>2. Exact(p.owners, start, objects) /\ start.annos = NoAnnotations
    <3>1. p.owners \in Seq(Objects)
      BY ScopesTyped
    <3>2. NoneBefore(p.owners, WorkloadKinds, 0 + 1, objects)
      BY <3>1 DEF NoneBefore
    <3>3. InPod(p.owners, 0).annos = NoAnnotations
      BY DEF InPod, Found, Continue
    <3> QED BY <3>1, <3>2, <3>3, InPodExact DEF WalkStart
  <2>3. Snapshot(pod[r])' = scopes
    BY <1>2 DEF Snapshot, ScopesOf
  <2>4. scopes[1] = p.annos /\ scopes[2] = OwnerAnnotations(p.owners, objects)
    BY DEF ScopesOf
  <2> HIDE DEF start, scopes
  <2>5. CASE scopes[1] \in on[k]
    BY <1>2, <1>5, <2>4, <2>5 DEF AwaitedBy, ScopeKnown, Scopes, start
  <2>6. CASE scopes[2] \in on[k]
    <3>1. ~ start.done /\ Walking(p.owners, start.walk, objects)
      BY <2>1, <2>2, <2>4, <2>6 DEF Exact
    <3>2. pc'[r] = "owner" /\ Walking(pod'[r].owners, walk'[r], objects')
      BY <1>2, <1>5, <3>1 DEF start
    <3> QED BY <2>3, <2>6, <3>2 DEF AwaitedBy, Ahead, Scopes
  <2>7. CASE \E s \in {3, 4} : scopes[s] \in on[k]
    BY <1>5, <2>3, <2>7 DEF AwaitedBy, Ahead, Scopes
  <2> QED BY <2>1, <2>5, <2>6, <2>7 DEF Scopes
<1>6. \/ pc'[r] = "done" /\ answer'[r] \in {"http_400", "deny"}
      \/ /\ walk'[r] = WalkStart(p.owners).walk
         /\ pc'[r] = IF WalkStart(p.owners).done THEN "sa" ELSE "owner"
  BY <1>1 DEF Finish, TypeOK
<1> QED BY <1>3, <1>4, <1>5, <1>6

\* An edit leaves what still opts in to be found: beyond where it was, or at the
\* owner the walk leads to (admission.rs:114-116).
LEMMA EditAwaited ==
  ASSUME NEW on, NEW clusters, MovingInv(on, clusters), OptInsMoveBroader(on, clusters),
         NEW o \in Objects, EditObject(o)
  PROVE  objects' \in clusters /\ \A r \in Requests : Awaited(r, on)'
<1> USE DEF MovingInv, RInv, IInv
<1>1. PICK new \in ObjectStates :
        EditAllowed(objects, o, new) /\ objects' = [objects EXCEPT ![o] = new]
  BY DEF EditObject
<1>2. /\ UNCHANGED <<pod, pc, walk, read, answer>>
      /\ \A r \in Requests : standing'[r] = standing[r] \intersect Injected(Snapshot(pod[r])')
  BY DEF EditObject, handler
<1>3. /\ objects' \in clusters
      /\ \A k \in DOMAIN ProviderOrder : MovesBroader(on[k], objects, objects')
  BY <1>1 DEF OptInsMoveBroader
<1>4. objects \in [Objects -> ObjectStates] /\ objects' \in [Objects -> ObjectStates]
  BY <1>1 DEF TypeOK
<1> SUFFICES ASSUME NEW r \in Requests, Running(r) \/ answer[r] \in {"skip", "patch"},
                    NEW k \in standing'[r]
             PROVE  AwaitedBy(r, on[k])'
  BY <1>2, <1>3 DEF Awaited, Running
<1> DEFINE q == pod[r]
           before == ScopesOf(q, objects)
           after == ScopesOf(q, objects')
<1>5. q \in Pods /\ k \in standing[r] /\ k \in DOMAIN ProviderOrder
  BY <1>2 DEF TypeOK
<1>6. Snapshot(pod[r]) = before /\ Snapshot(pod[r])' = after
  BY <1>2 DEF Snapshot, ScopesOf
<1>7. \E s \in Scopes : after[s] \in on[k]
  <2>1. k \in Injected(after)
    BY <1>2, <1>6
  <2>2. after \in AnnotationSets
    BY <1>4, <1>5, ScopesAre
  <2> HIDE DEF after
  <2> QED BY <1>5, <2>1, <2>2 DEF OptInsMoveBroader, OptsInWith
<1>8. /\ \A s \in Scopes : before[s] \in on[k] => \E t \in Scopes : after[t] \in on[k] /\ s =< t
      /\ before[2] \in on[k] /\ after[2] \in on[k] /\ after[3] \notin on[k] /\ after[4] \notin on[k] =>
           SameOwner(q.owners, objects, objects')
  <2>1. MovesBroader(on[k], objects, objects')
    BY <1>3, <1>5
  <2> DEFINE b == {s \in Scopes : ScopesOf(q, objects)[s] \in on[k]}
             a == {s \in Scopes : ScopesOf(q, objects')[s] \in on[k]}
  <2>2. /\ a # {} => \A s \in b : \E t \in a : s =< t
        /\ 2 \in b /\ 2 \in a /\ 3 \notin a /\ 4 \notin a => SameOwner(q.owners, objects, objects')
    BY <1>5, <2>1 DEF MovesBroader
  <2> QED BY <1>7, <2>2 DEF Scopes
<1> HIDE DEF before, after
<1>9. AwaitedBy(r, on[k])
  BY <1>5 DEF Awaited
<1>10. CASE \E s \in Scopes : ScopeKnown(r, s) /\ read[r][s] \in on[k]
  BY <1>2, <1>10 DEF AwaitedBy, ScopeKnown
<1>11. CASE \E s \in {3, 4} : Ahead(r, s) /\ before[s] \in on[k]
  <2>1. PICK s \in {3, 4} : Ahead(r, s) /\ before[s] \in on[k]
    BY <1>11
  <2>2. PICK t \in Scopes : after[t] \in on[k] /\ s =< t
    BY <1>8, <2>1 DEF Scopes
  <2>3. t \in {3, 4} /\ (s = t \/ (s = 3 /\ t = 4))
    BY <2>1, <2>2 DEF Scopes
  <2>4. Ahead(r, t)'
    BY <1>2, <2>1, <2>3 DEF Ahead
  <2> QED BY <1>6, <2>2, <2>3, <2>4 DEF AwaitedBy
<1>12. CASE Ahead(r, 2) /\ before[2] \in on[k] /\ Walking(q.owners, walk[r], objects)
  <2>1. pc[r] = "owner"
    BY <1>12 DEF Ahead
  <2>2. CASE \E t \in {3, 4} : after[t] \in on[k]
    BY <1>2, <1>6, <2>1, <2>2 DEF AwaitedBy, Ahead, Scopes
  <2>3. CASE ~ \E t \in {3, 4} : after[t] \in on[k]
    <3>1. after[2] \in on[k]
      BY <1>8, <1>12, <2>3 DEF Scopes
    <3>2. SameOwner(q.owners, objects, objects')
      BY <1>8, <1>12, <2>3, <3>1
    <3>3. q.owners \in Seq(Objects) /\ walk[r] \in Walks
      BY <1>5, ScopesTyped DEF TypeOK
    <3>4. Walking(q.owners, walk[r], objects')
      BY <1>4, <1>12, <3>2, <3>3, WalkingKept
    <3> QED BY <1>2, <1>6, <2>1, <3>1, <3>4 DEF AwaitedBy, Ahead, Scopes
  <2> QED BY <2>2, <2>3
<1> QED BY <1>6, <1>9, <1>10, <1>11, <1>12 DEF AwaitedBy, Ahead

\* The invariant is inductive.
LEMMA AwaitedNext ==
  ASSUME NEW on, NEW clusters, MovingInv(on, clusters), OptInsMoveBroader(on, clusters),
         [Next]_vars
  PROVE  MovingInv(on, clusters)'
<1>1. RInv'
  BY AnsweredNext DEF MovingInv
<1>2. CASE \E o \in Objects : EditObject(o)
  BY <1>1, <1>2, EditAwaited DEF MovingInv
<1>3. CASE UNCHANGED objects /\ \A q \in Requests : Awaited(q, on)'
  BY <1>1, <1>3 DEF MovingInv
<1>4. CASE \E r \in Requests : Receive(r) \/ ReceiveUnusable(r)
  <2>1. UNCHANGED objects
    BY <1>4 DEF Receive, ReceiveUnusable, Arrive
  <2> QED BY <1>3, <1>4, <2>1, ReceiveAwaited
<1>5. CASE \E r \in Requests : HandlerStep(r) \/ Drop(r)
  <2>1. PICK r \in Requests : HandlerStep(r) \/ Drop(r)
    BY <1>5
  <2>2. UNCHANGED objects
    BY <2>1 DEF HandlerStep, GetOwner, GetServiceAccount, GetNamespaceAndDecide, ReadFails,
                UpsertConfigMap, UpsertFails, UpsertReplyLost, Drop
  <2>3. Awaited(r, on)'
    BY <2>1, GetOwnerAwaited, GetServiceAccountAwaited, GetNamespaceAndDecideAwaited,
       UpsertsAwaited DEF HandlerStep
  <2>4. \A q \in Requests \ {r} : Awaited(q, on)'
    BY <2>1, OthersAwaited
  <2> QED BY <1>3, <2>2, <2>3, <2>4
<1>6. CASE \/ UNCHANGED vars
           \/ \E r \in Requests : Deliver(r) \/ CallFails(r)
           \/ \E c \in CmNames : ForeignWrite(c) \/ ForeignDelete(c)
  <2>1. UNCHANGED <<objects, pod, pc, walk, read, answer, standing>>
    BY <1>6 DEF Deliver, CallFails, ForeignWrite, ForeignDelete, vars, handler
  <2>2. \A q \in Requests : Awaited(q, on)'
    BY <2>1, AwaitedKept DEF MovingInv
  <2> QED BY <1>3, <2>1, <2>2
<1> QED BY <1>2, <1>4, <1>5, <1>6 DEF Next, Environment

\* An opt-in that stands all the time a review is handled is found, though the
\* scopes are read at different times, as long as users only move it to broader
\* scopes (admission.rs:114-116).
THEOREM StandingOptInCorrect ==
  ASSUME NEW CONSTANT on, NEW CONSTANT clusters, OptInsMoveBroader(on, clusters)
  PROVE  Spec => []StandingOptIn
<1>1. Init => MovingInv(on, clusters)
  <2>1. Init => RInv
    BY InitExact DEF ExactInv
  <2> QED BY <2>1 DEF Init, MovingInv, OptInsMoveBroader, Awaited, Running
<1>2. MovingInv(on, clusters) /\ [Next]_vars => MovingInv(on, clusters)'
  BY AwaitedNext
<1>3. MovingInv(on, clusters) => StandingOptIn
  <2> SUFFICES ASSUME MovingInv(on, clusters), NEW r \in Requests,
                      answer[r] \in {"skip", "patch"}, NEW k \in standing[r]
               PROVE  k \in Injected(read[r])
    BY DEF StandingOptIn
  <2> USE DEF MovingInv, RInv, IInv
  <2>1. pc[r] = "done"
    BY DEF AnsweredInv
  <2>2. \E s \in Scopes : read[r][s] \in on[k]
    BY <2>1 DEF Awaited, AwaitedBy, Ahead
  <2>3. read[r] \in AnnotationSets /\ k \in DOMAIN ProviderOrder
    BY DEF TypeOK
  <2> QED BY <2>2, <2>3 DEF OptInsMoveBroader, OptsInWith
<1> QED BY <1>1, <1>2, <1>3, PTL DEF Spec
=============================================================================
