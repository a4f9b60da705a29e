------------------------------ MODULE OwnerWalk -----------------------------
(***************************************************************************)
(* k8s::owner_annotations (cwii-core/src/k8s.rs): the walk from a pod's    *)
(* ownerReferences to the workload whose annotations count, one GET at a   *)
(* time.  The cluster may change between two GETs, so the walk is given as *)
(* the continuation that runs on each reply.                               *)
(***************************************************************************)
EXTENDS Resolve

WorkloadKinds == {"ReplicaSet", "StatefulSet", "DaemonSet", "Job"}

\* What a GET returns: get_opt yields None for an object that is not there.
NoObject == [exists |-> FALSE, annos |-> NoAnnotations, owners |-> << >>]

\* The first position after i whose reference is of one of the kinds, or 0.
NextOf(refs, i, kinds) ==
  LET later == {k \in DOMAIN refs : k > i /\ refs[k].kind \in kinds}
  IN  IF later = {} THEN 0 ELSE Min(later)

\* A walk in progress: at reference ref of the pod or, when deployment > 0, at
\* that owner of the ReplicaSet rs that reference led to.
WalkAt(ref, deployment, rs) == [ref |-> ref, deployment |-> deployment, rs |-> rs]
NoWalk == WalkAt(0, 0, NoObject)

\* The walk either returns annotations or continues with another GET.
Found(annos) == [done |-> TRUE, annos |-> annos, walk |-> NoWalk]
Continue(walk) == [done |-> FALSE, annos |-> NoAnnotations, walk |-> walk]

\* Seeded fault: when no owner exists, the walk starts over.
InPod_wraps(refs, i) ==
  LET k == NextOf(refs, i, WorkloadKinds)
      first == NextOf(refs, 0, WorkloadKinds)
  IN  IF first = 0 THEN Found(NoAnnotations)
      ELSE Continue(WalkAt(IF k = 0 THEN first ELSE k, 0, NoObject))

\* for owner in refs, from the reference after position i.
InPod(refs, i) ==
  LET k == NextOf(refs, i, WorkloadKinds)
  IN  IF k = 0 THEN Found(NoAnnotations) ELSE Continue(WalkAt(k, 0, NoObject))

\* Seeded fault: a ReplicaSet's own annotations are preferred.
InReplicaSet_itself(ref, rs, j) == Found(rs.annos)

\* for ro in rs_owners, from the owner after position j.
InReplicaSet(ref, rs, j) ==
  LET d == NextOf(rs.owners, j, {"Deployment"})
  IN  IF d = 0 THEN Found(rs.annos) ELSE Continue(WalkAt(ref, d, rs))

\* The object the walk asks the API server for.
Wanted(refs, w) ==
  IF w.deployment > 0 THEN w.rs.owners[w.deployment] ELSE refs[w.ref]

WalkStart(refs) == InPod(refs, 0)

\* What the walk does with the reply obj to that GET.
WalkReply(refs, w, obj) ==
  IF w.deployment > 0
  THEN IF obj.exists THEN Found(obj.annos)
       ELSE InReplicaSet(w.ref, w.rs, w.deployment)
  ELSE IF ~ obj.exists THEN InPod(refs, w.ref)
       ELSE IF Wanted(refs, w).kind = "ReplicaSet"
            THEN InReplicaSet(w.ref, obj, 0)
            ELSE Found(obj.annos)

-----------------------------------------------------------------------------
(* What the walk is for, on one snapshot of the cluster: the annotations   *)
(* of the first existing workload among the pod's owners, those of its     *)
(* first existing Deployment when that workload is a ReplicaSet.           *)

FirstExisting(refs, kinds, objects) ==
  LET there == {k \in DOMAIN refs : refs[k].kind \in kinds /\ objects[refs[k]].exists}
  IN  IF there = {} THEN {} ELSE {refs[Min(there)]}

OwnerAnnotations(refs, objects) ==
  LET workload == FirstExisting(refs, WorkloadKinds, objects)
      replicaset == {o \in workload : o.kind = "ReplicaSet"}
      deployment == UNION {FirstExisting(objects[o].owners, {"Deployment"}, objects) :
                             o \in replicaset}
      source == IF deployment = {} THEN workload ELSE deployment
  IN  UnwrapOr({objects[o].annos : o \in source}, NoAnnotations)
=============================================================================
