---------------------------- MODULE MCAnnotating ----------------------------
(***************************************************************************)
(* Instances of Annotating with the real providers.                        *)
(***************************************************************************)
EXTENDS Annotating, Providers

MCNumerals == [w \in {"900", "7200"} |-> IF w = "900" THEN 900 ELSE 7200]
MCIsKeyOf(k, p) == k[1] = p \/ k = native_key(p)
NoDefault == {}
AudienceDefault == {Plain("pool")}

\* A switch, written in the ways that count, and the native annotation of one
\* provider.
SwitchKeys == {inject_key("aws"), native_key("aws")}
SwitchValues == {RawValue("true", TRUE, TRUE), RawValue("false", FALSE, TRUE),
                 RawValue("", TRUE, FALSE)}

\* A switch some users write yes for.
BoolKeys == {inject_key("aws")}
LooseValues == {Plain("true"), Plain("yes")}

\* The configuration of two providers.
TwoProviderKeys == {inject_key("gcp"), <<"gcp", "delivery">>,
                    inject_key("aws"), <<"aws", "role-arn">>}
TwoProviderValues == {Plain("true")}

\* Token lifetimes.
LifetimeKeys == {token_expiration_key("aws")}
LifetimeValues == {Plain("900"), RawValue("7200", TRUE, FALSE), Plain("1h")}
=============================================================================
