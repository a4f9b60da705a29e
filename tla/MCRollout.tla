------------------------------ MODULE MCRollout -----------------------------
(***************************************************************************)
(* One review by each release, of pods that ask for the same audience and  *)
(* account.                                                                *)
(***************************************************************************)
EXTENDS Rollout, TLC

MCNumerals == [w \in {"900"} |-> 900]
NoDefault == {}

GcpOn == (OldProviders!inject_key("gcp") :> OldProviders!Plain("true")) @@
         (OldProviders!audience_key("gcp") :> OldProviders!Plain("pool"))
MCMaps == {OldProviders!NoAnnotations, GcpOn}
MCPods == {[annos |-> GcpOn, owners |-> << >>, service_account |-> {}]}

Namespace == [kind |-> "Namespace", name |-> "ns"]
DefaultAccount == [kind |-> "ServiceAccount", name |-> "default"]
MCObjects == {Namespace, DefaultAccount}
MCInitial ==
  {[o \in MCObjects |-> [exists |-> TRUE, annos |-> OldProviders!NoAnnotations,
                         owners |-> << >>]]}
NoOwners == {<< >>}

Pool == OldProviders!Plain("pool")
MCCmNames == {OldProviders!configmap_name(Pool, {})}
MCCmData == {OldProviders!build_credentials_json(Pool, <<root, "gcp", "token">>, {}) :
               root \in {OldRoot, NewRoot}}
=============================================================================
