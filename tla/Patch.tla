-------------------------------- MODULE Patch -------------------------------
(***************************************************************************)
(* patch::build (cwii-core/src/patch.rs): the JSON patch that adds what a  *)
(* merged plan asks for and the pod does not have yet.                     *)
(*                                                                         *)
(* A pod is a record of Options of sequences, because the code tells a     *)
(* missing array from an empty one: volumes, init_containers, and for each *)
(* container volume_mounts and env.  The marker cwii.dev/injected is the   *)
(* set of words of its comma-separated list, {} when it is absent.         *)
(***************************************************************************)
EXTENDS Plan

\* The items of an optional array, and their names.
Items(list) == UnwrapOr(list, << >>)
names(list) == {Items(list)[i].name : i \in DOMAIN Items(list)}
Elements(list) == ToSet(Items(list))
Unique(list) ==
  \A i, j \in DOMAIN Items(list) : Items(list)[i].name = Items(list)[j].name => i = j

\* A vector, and an Option of one.
IsVec(s) == s \in Seq(ToSet(s))
IsVecOption(list) == \A s \in list : IsVec(s) /\ list = {s}

\* What a patch does to one array: nothing, one add of the whole array, or one
\* add of each item at its end (RFC 6902).
ArrayPatch(op, items) == [op |-> op, items |-> items]

\* Seeded fault: the array is always written as a whole.
add_array_clobbers(list, items) ==
  ArrayPatch(IF items = << >> THEN "none" ELSE "array", items)

\* add_array: append to an array that exists, add a whole array otherwise.
add_array(list, items) ==
  ArrayPatch(IF items = << >> THEN "none" ELSE IF list # {} THEN "items" ELSE "array", items)

\* Seeded fault: presence is not looked at.
Missing_unguarded(list, wanted) == wanted

\* The wanted items whose names the pod does not have.
Missing(list, wanted) ==
  Filtered(wanted, {i \in DOMAIN wanted : wanted[i].name \notin names(list)})

\* Seeded fault: the marker lists the providers of the last pass only.
merged_marker_fresh(pod, newly) == ToSet(newly)

\* merged_marker: the existing marker is taken over as it is.
merged_marker(pod, newly) == pod.marker \union ToSet(newly)

\* The marker is added to the pod's annotations, or together with them.
marker_patch(pod, marker) ==
  [op |-> IF pod.annotated THEN "annotation" ELSE "annotations", marker |-> marker]

\* Seeded fault: only the first container is patched.
container_patches_first_only(c, plan, i) ==
  [volume_mounts |-> add_array(c.volume_mounts,
                       IF i > 1 THEN << >> ELSE Missing(c.volume_mounts, plan.container_mounts)),
   env |-> add_array(c.env, IF i > 1 THEN << >> ELSE Missing(c.env, plan.container_env))]

\* Seeded fault: the environment is not looked at.
container_patches_env_again(c, plan, i) ==
  [volume_mounts |-> add_array(c.volume_mounts, Missing(c.volume_mounts, plan.container_mounts)),
   env |-> add_array(c.env, plan.container_env)]

\* The mounts and the variables of main container c, the i-th.
container_patches(c, plan, i) ==
  [volume_mounts |-> add_array(c.volume_mounts, Missing(c.volume_mounts, plan.container_mounts)),
   env |-> add_array(c.env, Missing(c.env, plan.container_env))]

\* The operations in the order of the code; no two arrays have the same path.
build(pod, plan) ==
  [volumes |-> add_array(pod.volumes, Missing(pod.volumes, plan.volumes)),
   init_containers |-> add_array(pod.init_containers,
                         Missing(pod.init_containers, plan.init_containers)),
   containers |-> [i \in DOMAIN pod.containers |->
                     container_patches(pod.containers[i], plan, i)],
   annotations |-> marker_patch(pod, merged_marker(pod, plan.injected_providers))]

-----------------------------------------------------------------------------
(* The API server's side of the patch: adding an array replaces what is at *)
(* its path, adding items needs the array to be there.                     *)

AddTo(list, add) ==
  CASE add.op = "none"  -> list
    [] add.op = "array" -> {add.items}
    [] add.op = "items" -> {s \o add.items : s \in list}

Applied(pod, patch) ==
  [volumes |-> AddTo(pod.volumes, patch.volumes),
   init_containers |-> AddTo(pod.init_containers, patch.init_containers),
   containers |-> [i \in DOMAIN pod.containers |->
     [volume_mounts |-> AddTo(pod.containers[i].volume_mounts,
                              patch.containers[i].volume_mounts),
      env |-> AddTo(pod.containers[i].env, patch.containers[i].env)]],
   annotated |-> pod.annotated \/ patch.annotations.op = "annotations",
   marker |-> patch.annotations.marker]
=============================================================================
