---------------------------- MODULE MCInjection -----------------------------
(***************************************************************************)
(* Instances of Injection with the real providers.                         *)
(***************************************************************************)
EXTENDS Injection, Providers

MCNumerals == [w \in {"60"} |-> 60]
NoDefault == {}

Gcp == (inject_key("gcp") :> Plain("true")) @@ (audience_key("gcp") :> Plain("pool"))
GcpOther == Gcp @@ (<<"gcp", "service-account">> :> Plain("account"))
Delivery(mode) == <<"gcp", "delivery">> :> Plain(mode)
Verify(p) == verify_key(p) :> Plain("true")
Enforce(p) == verify_enforce_key(p) :> Plain("true")
Aws == (inject_key("aws") :> Plain("true")) @@ (<<"aws", "role-arn">> :> Plain("role"))
      @@ (<<"aws", "region">> :> Plain("region"))
OtherRegion == (<<"aws", "region">> :> Plain("elsewhere")) @@ Aws
Az == (inject_key("az") :> Plain("true")) @@ (<<"az", "client-id">> :> Plain("client"))
      @@ (<<"az", "tenant-id">> :> Plain("tenant"))

OnNamespace(map) == <<NoAnnotations, NoAnnotations, NoAnnotations, map>>

\* Those a pod is reviewed under at different times of its life: every kind of
\* plan, one and several providers, configurations that differ in one variable.
ChangingAnnotationSets ==
  {OnNamespace(map) : map \in
     { Gcp @@ Verify("gcp"),
       GcpOther @@ Delivery("init-container"),
       Gcp @@ Delivery("init_container") @@ Verify("gcp") @@ Aws @@ Verify("aws") @@ Enforce("aws"),
       Aws @@ Verify("aws"), OtherRegion @@ Verify("aws") @@ Az @@ Verify("az") @@ Enforce("az"),
       NoAnnotations }}

\* The methods of the Provider trait, tabulated.
EnabledTable == [k \in EnabledProviders \X AnnotationSetsOffered |-> enabled(k[1], k[2])]
PlanTable == [k \in EnabledProviders \X AnnotationSetsOffered |-> plan_of(k[1], k[2])]
MCEnabledFor(p, a) == EnabledTable[<<p, a>>]
MCPlanFor(p, a) == PlanTable[<<p, a>>]

\* Containers: one with nothing, one with arrays of its own, one whose author
\* set a variable that cwii sets too.
Bare == [volume_mounts |-> {}, env |-> {}]
Own == [volume_mounts |-> {<<VolumeMount(<<"user", "data">>, <<"data">>, FALSE)>>},
        env |-> {<< >>}]
Overriding == [volume_mounts |-> {<< >>},
               env |-> {<<EnvVar("AWS_ROLE_ARN", Plain("mine"))>>}]

UserPod(volumes, inits, containers, annotated) ==
  [volumes |-> volumes, init_containers |-> inits, containers |-> containers,
   annotated |-> annotated, marker |-> {}]

UserVolume == VolumeSpec(<<"user", "data">>, [kind |-> "emptyDir"])
UserInit == InitContainer(<<"user", "setup">>, "other", 0, << >>, << >>, TRUE)

MCPods ==
  { UserPod({}, {}, <<Bare>>, FALSE),
    UserPod({<<UserVolume>>}, {<<UserInit>>}, <<Own, Overriding>>, TRUE),
    UserPod({<< >>}, {<< >>}, <<Overriding>>, TRUE) }
MCSidecars == {Bare}
=============================================================================
