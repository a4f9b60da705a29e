------------------------------ MODULE Decision ------------------------------
(***************************************************************************)
(* What the handler makes of one annotation set: the loop over the         *)
(* registry in admission::handle (cwii-core/src/admission.rs).  The        *)
(* providers are parameters, as the Provider trait makes them there        *)
(* (cwii-core/src/provider.rs).                                            *)
(***************************************************************************)
EXTENDS Integers, Sequences

CONSTANTS
  ProviderOrder,        \* the registry, a sequence of providers
  EnabledFor(_, _),     \* Provider::enabled of a provider for an annotation set
  PlanFor(_, _)         \* Provider::plan: Ok(Some(plan)), Ok(None) or Err

Consulted(a) == {k \in DOMAIN ProviderOrder : EnabledFor(ProviderOrder[k], a)}
Outcome(k, a) == PlanFor(ProviderOrder[k], a)

\* Providers that are enabled but whose configuration is in error.
Failing(a) == {k \in Consulted(a) : Outcome(k, a).status = "invalid"}

\* Providers that contribute to the patch; those not configured are skipped.
Injected(a) == {k \in Consulted(a) : Outcome(k, a).status = "planned"}

UpsertOf(k, a) == Outcome(k, a).plan.configmap_upsert
NeedsUpsert(a) == {k \in Injected(a) : UpsertOf(k, a) # {}}
ReferencedConfigMaps(a) == UNION {UpsertOf(k, a) : k \in Injected(a)}
=============================================================================
