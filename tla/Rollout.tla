------------------------------- MODULE Rollout ------------------------------
(***************************************************************************)
(* Two releases of the webhook that differ in --mount-root, in one cluster *)
(* (deployment.yaml:43): replicas of the old one answer reviews while and  *)
(* before those of the new one do, and the pods they have patched stay.    *)
(* Each release is Admission with the plans its mount root gives; they     *)
(* share the objects and the ConfigMaps of the cluster.                    *)
(***************************************************************************)
EXTENDS Sequences

CONSTANTS
  OldRoot, NewRoot,             \* their mount roots
  OldRequests, NewRequests,     \* their reviews
  \* The same for both releases:
  Numerals, DefaultTokenExpiration, EnabledProviders, NativeAnnotations,
  GcpDefaultAudience, GcpDefaultDelivery,
  Maps, Pods, Objects, OwnerLists, CmNames, CmData, FailurePolicy, InitialObjects

VARIABLES
  objects, cms, drift,
  oldPod, oldDry, oldPc, oldWalk, oldRead, oldTodo, oldAnswer, oldVerdict,
  oldQuiet, oldStanding,
  newPod, newDry, newPc, newWalk, newRead, newTodo, newAnswer, newVerdict,
  newQuiet, newStanding

oldVars == <<oldPod, oldDry, oldPc, oldWalk, oldRead, oldTodo, oldAnswer, oldVerdict,
             oldQuiet, oldStanding>>
newVars == <<newPod, newDry, newPc, newWalk, newRead, newTodo, newAnswer, newVerdict,
             newQuiet, newStanding>>
vars == <<objects, cms, drift, oldVars, newVars>>

OldProviders == INSTANCE Providers WITH MountRoot <- OldRoot
NewProviders == INSTANCE Providers WITH MountRoot <- NewRoot

\* Nobody edits the cluster or writes to cwii's ConfigMaps here.
NoEdit(objs, o, new) == FALSE

Old == INSTANCE Admission WITH
  Requests <- OldRequests, ProviderOrder <- OldProviders!Registry,
  EnabledFor <- OldProviders!enabled, PlanFor <- OldProviders!plan_of,
  EditAllowed <- NoEdit, ForeignMayWrite <- FALSE,
  pod <- oldPod, dry <- oldDry, pc <- oldPc, walk <- oldWalk, read <- oldRead,
  todo <- oldTodo, answer <- oldAnswer, verdict <- oldVerdict, quiet <- oldQuiet,
  standing <- oldStanding

New == INSTANCE Admission WITH
  Requests <- NewRequests, ProviderOrder <- NewProviders!Registry,
  EnabledFor <- NewProviders!enabled, PlanFor <- NewProviders!plan_of,
  EditAllowed <- NoEdit, ForeignMayWrite <- FALSE,
  pod <- newPod, dry <- newDry, pc <- newPc, walk <- newWalk, read <- newRead,
  todo <- newTodo, answer <- newAnswer, verdict <- newVerdict, quiet <- newQuiet,
  standing <- newStanding

Init == Old!Init /\ New!Init

Next ==
  \/ Old!Next /\ UNCHANGED newVars
  \/ New!Next /\ UNCHANGED oldVars

Spec == Init /\ [][Next]_vars

-----------------------------------------------------------------------------
\* "Already-running injected pods are not re-mutated [...] New behavior applies
\* to pods created after the upgrade" (docs/install.md:196): the ConfigMaps of a
\* pod the old release has patched keep the credentials planned for it, though
\* nobody but cwii writes them.
OldPodsKeepCredentials == Old!CredsInPlace
=============================================================================
