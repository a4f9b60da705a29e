------------------------------- MODULE Startup ------------------------------
(***************************************************************************)
(* A pod from its submission to the start of its main containers: after    *)
(* the passes of Injection the kubelet runs the init containers cwii has   *)
(* added, in their order, one at a time, and starts the main containers    *)
(* when the last has ended well.  Whether a cloud accepts a pod's token is *)
(* decided outside the cluster, anew at every check; finding out is what   *)
(* the verify containers are for (plan.rs verify_init_container).          *)
(***************************************************************************)
EXTENDS Injection

\* What users and other webhooks put into pods themselves.
UserContainers == Sidecars \union UNION {ToSet(q.containers) : q \in InitialPods}
UserVariables == UNION {Elements(c.env) : c \in UserContainers}
UserMounts == UNION {Elements(c.volume_mounts) : c \in UserContainers}
UserVolumes == UNION {Elements(q.volumes) : q \in InitialPods}
UserInits == UNION {Elements(q.init_containers) : q \in InitialPods}

\* The names of cwii's volumes, mounts and init containers are left to it; those
\* of its variables are not (an application may set AWS_REGION itself).
ASSUME UserNamesAssumption ==
  \A a \in AnnotationSetsOffered : \A k \in Injected(a) :
    /\ \A v \in ToSet(Outcome(k, a).plan.volumes), w \in UserVolumes : v.name # w.name
    /\ \A m \in ToSet(Outcome(k, a).plan.container_mounts), n \in UserMounts : m.name # n.name
    /\ \A c \in ToSet(Outcome(k, a).plan.init_containers), d \in UserInits : c.name # d.name

\* So are the paths below its mount root.
ASSUME UserPathsAssumption ==
  /\ PathVariables(UserVariables) = {}
  /\ \A d \in UserInits : PathVariables(ToSet(d.env)) = {}

VARIABLES
  phase,      \* of the pod: "admission", "init", "running" or "failed"
  ended,      \* how many of its init containers have ended well
  verified,   \* history: the verify containers whose check has succeeded
  reviewed    \* history: the annotation set the pod was patched under; all
              \* sets, if they were several

startupVars == <<vars, phase, ended, verified, reviewed>>

StartupInit ==
  /\ Init
  /\ phase = "admission"
  /\ ended = 0
  /\ verified = {}
  /\ reviewed = {}

\* The passes of Injection, before the pod is stored.
Review ==
  /\ phase = "admission"
  /\ \/ /\ Mutate
        /\ reviewed' = IF reviewed \subseteq {annos} THEN {annos} ELSE AnnotationSetsOffered
     \/ (AddSidecar \/ Reannotate) /\ UNCHANGED reviewed
  /\ UNCHANGED <<phase, ended, verified>>

\* The pod is stored and bound to a node.
Bind ==
  /\ phase = "admission"
  /\ phase' = "init"
  /\ UNCHANGED <<vars, ended, verified, reviewed>>

InitContainers == Items(pod.init_containers)

\* The writer's printf needs a volume it can write to.
CanWrite(c) ==
  \A m \in ToSet(c.mounts) : \A v \in Elements(pod.volumes) :
    v.name = m.name => v.source.kind = "emptyDir"

\* The check of a verify container: its cloud accepts the token, and every file
\* its variables name is there.
Check(c, accepted) ==
  accepted /\ FindsFiles(ToSet(c.env), ToSet(c.mounts), Before(ended + 1))

\* Exit status 0 of an init container.
ExitsZero(c, accepted) ==
  CASE c.role = "write" -> CanWrite(c)
    [] c.role = "verify" -> c.enforce => Check(c, accepted)
    [] OTHER -> TRUE

\* The next init container ends well.
InitEnds(accepted) ==
  /\ phase = "init"
  /\ ended < Len(InitContainers)
  /\ LET c == InitContainers[ended + 1]
     IN  /\ ExitsZero(c, accepted)
         /\ verified' = verified \union
              {d.name : d \in {d \in {c} : d.role = "verify" /\ Check(d, accepted)}}
  /\ ended' = ended + 1
  /\ UNCHANGED <<vars, phase, reviewed>>

\* It fails.  The kubelet tries it again, which changes nothing here, unless the
\* restart policy of the pod is Never.
InitFails(accepted) ==
  /\ phase = "init"
  /\ ended < Len(InitContainers)
  /\ ~ ExitsZero(InitContainers[ended + 1], accepted)
  /\ phase' = "failed"
  /\ UNCHANGED <<vars, ended, verified, reviewed>>

StartMain ==
  /\ phase = "init"
  /\ ended = Len(InitContainers)
  /\ phase' = "running"
  /\ UNCHANGED <<vars, ended, verified, reviewed>>

StartupNext ==
  \/ Review \/ Bind \/ StartMain
  \/ \E accepted \in BOOLEAN : InitEnds(accepted) \/ InitFails(accepted)

\* The kubelet keeps running what a bound pod needs next; nothing is assumed of
\* the clouds, so only containers that end well without their consent must end.
StartupSpec ==
  /\ StartupInit
  /\ [][StartupNext]_startupVars
  /\ WF_startupVars(InitEnds(FALSE))
  /\ WF_startupVars(StartMain)

-----------------------------------------------------------------------------
(* Properties, of pods that were patched under one annotation set: patches *)
(* of different sets are guarded by name and leave the older container in. *)

\* The providers a set injects and asks to verify, or to verify enforcingly.
Verified(a) ==
  {k \in Injected(a) :
     UnwrapOr(first_explicit_bool(a, verify_key(ProviderOrder[k])), FALSE)}
Enforced(a) ==
  {k \in Verified(a) :
     UnwrapOr(first_explicit_bool(a, verify_enforce_key(ProviderOrder[k])), FALSE)}

\* No main container starts before every enforced check has succeeded, whatever
\* other providers, sidecars and further passes have added to the pod
\* (docs/verification.md:90-94, plan.rs:216-219).
EnforcedBeforeRunning ==
  phase = "running" =>
    \A a \in reviewed : reviewed = {a} =>
      \A k \in Enforced(a) : <<ProviderOrder[k], "verify">> \in verified

\* A pod without enforced checks starts whatever the clouds answer, and once it
\* is bound nothing cwii added keeps it from starting (docs/verification.md:57-66).
NonEnforcingNeverBlocks ==
  phase = "init" /\ (\E a \in reviewed : reviewed = {a} /\ Enforced(a) = {})
    ~> phase = "running"

\* "Every verify container consumes the same projected token [...] and the same
\* injected environment" (docs/verification.md:133-135): what a check has shown
\* holds for every main container that left the provider's variables to cwii.
VerifiedIsWhatRuns ==
  \A a \in reviewed : reviewed = {a} /\ settled = {a} =>
    \A k \in Verified(a) :
      \E c \in Elements(pod.init_containers) :
        /\ c.name = <<ProviderOrder[k], "verify">>
        /\ \A i \in DOMAIN pod.containers :
             LET env == {e \in Elements(pod.containers[i].env) :
                           \E w \in ToSet(Outcome(k, a).plan.container_env) : w.name = e.name}
             IN  env \intersect UserVariables = {} =>
                   /\ env = ToSet(c.env)
                   /\ ToSet(c.mounts) \subseteq Elements(pod.containers[i].volume_mounts)
=============================================================================
