------------------------------- MODULE Serving ------------------------------
(***************************************************************************)
(* The life of the webhook's replicas under the chart (cwii/src/main.rs,   *)
(* charts/cwii/templates): the Deployment creates their pods, which the    *)
(* webhook may itself have to admit; cert-manager issues and renews their  *)
(* certificate and tells the API server which one to trust; a replica      *)
(* reads the certificate once, when it starts.                             *)
(*                                                                         *)
(* Certificates are numbered; 0 is none.  The chart's default issuer signs *)
(* each certificate with its own key, so that the API server stops         *)
(* accepting the old one as soon as the new one is in caBundle; with any   *)
(* other issuer it does when the old one expires.                          *)
(***************************************************************************)
EXTENDS Naturals

CONSTANTS
  Replicas,           \* replicaCount
  ReleaseNamespace,   \* where the chart is installed
  ExcludeNamespaces,  \* webhook.namespaceSelector.excludeNamespaces
  FailurePolicy,      \* webhook.failurePolicy
  MaxRenewals,        \* bound on the renewals of the certificate
  MaxFaults           \* bound on crashes and evictions

ASSUME ServingAssumption ==
  /\ FailurePolicy \in {"Ignore", "Fail"}
  /\ MaxRenewals \in Nat
  /\ MaxFaults \in Nat

VARIABLES
  secret,     \* the certificate in the Secret
  accepted,   \* the one the API server accepts
  at,         \* per replica: "none", "created", "starting" or "serving"
  mounted,    \* the certificate in the volume of its pod
  loaded,     \* the one it presents
  ready,      \* whether it is an endpoint of the Service
  faults      \* how many replicas have crashed or been evicted

vars == <<secret, accepted, at, mounted, loaded, ready, faults>>

Init ==
  /\ secret = 0
  /\ accepted = 0
  /\ at = [r \in Replicas |-> "none"]
  /\ mounted = [r \in Replicas |-> 0]
  /\ loaded = [r \in Replicas |-> 0]
  /\ ready = [r \in Replicas |-> FALSE]
  /\ faults = 0

-----------------------------------------------------------------------------
(* The chart and the API server.                                           *)

\* A call routed to replica r is answered.
Answers(r) == ready[r] /\ loaded[r] = accepted

\* Seeded fault: the release namespace is not among the exclusions.
Excluded_own_missing == {"kube-system", "kube-node-lease"} \union ExcludeNamespaces

\* cwii.namespaceSelector.
Excluded == {ReleaseNamespace, "kube-system", "kube-node-lease"} \union ExcludeNamespaces

\* Whether a pod can be created in namespace ns.
Creatable(ns) ==
  \/ ns \in Excluded
  \/ FailurePolicy = "Ignore"
  \/ \E r \in Replicas : Answers(r)

CreatePod(r) ==
  /\ at[r] = "none"
  /\ Creatable(ReleaseNamespace)
  /\ at' = [at EXCEPT ![r] = "created"]
  /\ UNCHANGED <<secret, accepted, mounted, loaded, ready, faults>>

-----------------------------------------------------------------------------
(* A replica and its kubelet.                                              *)

\* The container waits for the Secret its volume needs.
StartContainer(r) ==
  /\ at[r] = "created"
  /\ secret # 0
  /\ at' = [at EXCEPT ![r] = "starting"]
  /\ mounted' = [mounted EXCEPT ![r] = secret]
  /\ UNCHANGED <<secret, accepted, loaded, ready, faults>>

\* main: the certificate is loaded, then the socket is bound.
Listen(r) ==
  /\ at[r] = "starting"
  /\ at' = [at EXCEPT ![r] = "serving"]
  /\ loaded' = [loaded EXCEPT ![r] = mounted[r]]
  /\ UNCHANGED <<secret, accepted, mounted, ready, faults>>

\* The probes ask for /healthz and do not look at the certificate.
BecomeReady(r) ==
  /\ at[r] = "serving"
  /\ ~ ready[r]
  /\ ready' = [ready EXCEPT ![r] = TRUE]
  /\ UNCHANGED <<secret, accepted, at, mounted, loaded, faults>>

\* The volume follows the Secret; nothing in the process watches it.
Sync(r) ==
  /\ at[r] \in {"starting", "serving"}
  /\ mounted[r] # secret
  /\ mounted' = [mounted EXCEPT ![r] = secret]
  /\ UNCHANGED <<secret, accepted, at, loaded, ready, faults>>

Fault(r) ==
  /\ faults < MaxFaults
  /\ faults' = faults + 1
  /\ loaded' = [loaded EXCEPT ![r] = 0]
  /\ ready' = [ready EXCEPT ![r] = FALSE]
  /\ UNCHANGED <<secret, accepted>>

\* The process ends; its container is started again in the same pod.
Crash(r) ==
  /\ at[r] \in {"starting", "serving"}
  /\ Fault(r)
  /\ at' = [at EXCEPT ![r] = "starting"]
  /\ UNCHANGED mounted

\* The pod is deleted, evicted or lost with its node.
Evict(r) ==
  /\ at[r] # "none"
  /\ Fault(r)
  /\ at' = [at EXCEPT ![r] = "none"]
  /\ mounted' = [mounted EXCEPT ![r] = 0]

-----------------------------------------------------------------------------
(* cert-manager.                                                           *)

Issue ==
  /\ secret = 0
  /\ secret' = 1
  /\ UNCHANGED <<accepted, at, mounted, loaded, ready, faults>>

Renew ==
  /\ secret \in 1 .. MaxRenewals
  /\ secret' = secret + 1
  /\ UNCHANGED <<accepted, at, mounted, loaded, ready, faults>>

\* The new certificate is injected into caBundle, or the old one has expired.
Supersede ==
  /\ accepted # secret
  /\ accepted' = secret
  /\ UNCHANGED <<secret, at, mounted, loaded, ready, faults>>

-----------------------------------------------------------------------------
ReplicaStep(r) ==
  CreatePod(r) \/ StartContainer(r) \/ Listen(r) \/ BecomeReady(r) \/ Sync(r)

Next ==
  \/ \E r \in Replicas : ReplicaStep(r) \/ Crash(r) \/ Evict(r)
  \/ Issue \/ Renew \/ Supersede

\* The cluster's controllers and kubelets do their work; nothing crashes, is
\* evicted or is renewed because of fairness.
Spec ==
  /\ Init
  /\ [][Next]_vars
  /\ \A r \in Replicas : WF_vars(ReplicaStep(r))
  /\ WF_vars(Issue)
  /\ WF_vars(Supersede)

-----------------------------------------------------------------------------
(* Properties.                                                             *)

\* A required webhook comes back by itself from any loss of its replicas, all
\* of them at once and while its certificate has no effect included, because
\* their pods never need it to be created (_helpers.tpl:64-66,
\* docs/install.md:143-145).
ComesBack == []<>(\A r \in Replicas : ready[r])

\* "Use cert-manager to issue and rotate the webhook certificate" (values.yaml:98):
\* calls are answered again some time after every rotation.
AnsweredAfterRotation == []<>(\E r \in Replicas : Answers(r))
=============================================================================
