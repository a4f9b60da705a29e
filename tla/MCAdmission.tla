---------------------------- MODULE MCAdmission -----------------------------
(***************************************************************************)
(* Instances of Admission with the real providers.                         *)
(***************************************************************************)
EXTENDS Admission, Providers

CONSTANTS r1, r2

MCNumerals == [w \in {"900"} |-> 900]
NoDefault == {}

\* Annotation maps.
Nothing == NoAnnotations
GcpOn == (inject_key("gcp") :> Plain("true")) @@ (audience_key("gcp") :> Plain("pool"))
GcpBad == GcpOn @@ (<<"gcp", "delivery">> :> Plain("nonsense"))
AwsOn == (inject_key("aws") :> Plain("true")) @@ (<<"aws", "role-arn">> :> Plain("role"))

\* Objects and references.
Rs(n) == [kind |-> "ReplicaSet", name |-> n]
Dep(n) == [kind |-> "Deployment", name |-> n]
Sts(n) == [kind |-> "StatefulSet", name |-> n]
Sa(n) == [kind |-> "ServiceAccount", name |-> n]
There(annos, owners) == [exists |-> TRUE, annos |-> annos, owners |-> owners]

\* Credentials.
PoolCreds == [name |-> configmap_name(Plain("pool"), {}),
              data |-> build_credentials_json(Plain("pool"), <<MountRoot, "gcp", "token">>, {})]
OtherData == build_credentials_json(Plain("other"), <<MountRoot, "gcp", "token">>, {})
MCCmNames == {PoolCreds.name}
MCCmData == {PoolCreds.data, OtherData}

\* The two methods of the Provider trait, tabulated over the instance's
\* annotation sets (TLC evaluates a constant definition once).
EnabledTable == [k \in {<<p, a>> : p \in EnabledProviders, a \in AnnotationSets} |->
                   enabled(k[1], k[2])]
PlanTable == [k \in {<<p, a>> : p \in EnabledProviders, a \in AnnotationSets} |->
                plan_of(k[1], k[2])]
MCEnabledFor(p, a) == EnabledTable[<<p, a>>]
MCPlanFor(p, a) == PlanTable[<<p, a>>]

-----------------------------------------------------------------------------
(* Two reviews, edits of the Namespace and of its ConfigMaps.              *)

CmMaps == {Nothing, GcpOn, GcpBad, AwsOn}
CmPods == {[annos |-> AwsOn, owners |-> << >>, service_account |-> {}]}
CmObjects == {NamespaceKey, Sa("default")}
CmInitial == {[o \in CmObjects |-> There(Nothing, << >>)]}
CmEdit(objs, o, new) ==
  o = NamespaceKey /\ new.exists /\ new.annos \in {Nothing, GcpOn, GcpBad}
RequestSymmetry == Permutations(Requests)
NoOwners == {<< >>}

-----------------------------------------------------------------------------
(* One review, all owner walks over a ReplicaSet of two Deployments and a  *)
(* StatefulSet, while every object comes, goes and is annotated.           *)

AwsOff == inject_key("aws") :> Plain("false")
Node == [kind |-> "Node", name |-> "n"]

WalkObjects == {Rs("a"), Dep("d"), Dep("e"), Sts("s"), Node, Sa("default"), NamespaceKey}
WalkMaps == {Nothing, AwsOn, AwsOff}
WalkOwnerLists == {<< >>, <<Node, Dep("d"), Dep("e")>>}
WalkPods ==
  {[annos |-> Nothing, owners |-> refs, service_account |-> {}] :
     refs \in {<< >>, <<Node, Rs("a"), Sts("s")>>, <<Sts("s"), Rs("a")>>}}

\* The states each object takes.
Variants(o) ==
  CASE o = Rs("a") -> {NoObject, There(AwsOff, << >>), There(AwsOff, <<Node, Dep("d"), Dep("e")>>)}
    [] o \in {Dep("d"), Dep("e"), Sts("s"), NamespaceKey} -> {NoObject, There(AwsOn, << >>)}
    [] o = Node -> {NoObject}
    [] OTHER -> {NoObject, There(AwsOn, << >>), There(AwsOff, << >>)}
WalkEdit(objs, o, new) == new \in Variants(o)
WalkInitial == {[o \in WalkObjects |-> NoObject]}

=============================================================================
