------------------------------ MODULE Providers -----------------------------
(***************************************************************************)
(* The three providers of the registry (cwii-provider-gcp, -aws, -az) and  *)
(* the registry itself (cwii/src/config.rs).                               *)
(***************************************************************************)
EXTENDS Plan

CONSTANTS
  EnabledProviders,       \* those of --gcp-enabled, --aws-enabled, --az-enabled
  NativeAnnotations,      \* --native-annotations
  GcpDefaultAudience,     \* --gcp-default-audience, an Option of a raw value
  GcpDefaultDelivery      \* --gcp-delivery

ASSUME ProvidersAssumption ==
  /\ EnabledProviders \subseteq {"gcp", "aws", "az"}
  /\ NativeAnnotations \in BOOLEAN
  /\ GcpDefaultDelivery \in {"config-map", "init-container"}

\* Config::providers: the enabled providers, always in this order.
Registry ==
  SelectSeq(<<"gcp", "aws", "az">>, LAMBDA p : p \in EnabledProviders)

\* The native annotation whose presence may enable a provider.
native_key(p) ==
  CASE p = "gcp" -> <<"iam.gke.io", "gcp-service-account">>
    [] p = "aws" -> <<"eks.amazonaws.com", "role-arn">>
    [] p = "az"  -> <<"azure.workload.identity", "client-id">>

native_az_tenant == <<"azure.workload.identity", "tenant-id">>

\* Provider::enabled, the same for the three providers.
enabled(p, a) ==
  enabled_with_native(a, p,
    NativeAnnotations /\ first_non_empty(a, native_key(p)) # {})

\* Seeded faults: the check is always wrapped; the environment is taken before
\* the variables of the provider's own options are added.
Verifier_lenient(a, p, env, mounts) ==
  IF UnwrapOr(first_explicit_bool(a, verify_key(p)), FALSE)
  THEN << verify_init_container(p, FALSE, env, mounts) >>
  ELSE << >>

Verifier_early(a, p, env, mounts) ==
  IF UnwrapOr(first_explicit_bool(a, verify_key(p)), FALSE)
  THEN << verify_init_container(p,
            UnwrapOr(first_explicit_bool(a, verify_enforce_key(p)), FALSE),
            SubSeq(env, 1, Min({2, Len(env)})), mounts) >>
  ELSE << >>

\* The can-i container of a provider, when <p>-verify asks for one.
Verifier(a, p, env, mounts) ==
  IF UnwrapOr(first_explicit_bool(a, verify_key(p)), FALSE)
  THEN << verify_init_container(p,
            UnwrapOr(first_explicit_bool(a, verify_enforce_key(p)), FALSE),
            env, mounts) >>
  ELSE << >>

\* An optional environment variable, taken from an annotation.
OptionalEnv(a, key, name) ==
  LET value == first_non_empty(a, key)
  IN  IF value = {} THEN << >> ELSE <<EnvVar(name, UnwrapOr(value, name))>>

-----------------------------------------------------------------------------
(* AWS: a role ARN, from the annotation or its native counterpart.         *)

aws_plan(a) ==
  LET role == native_or(a, <<"aws", "role-arn">>, native_key("aws"), NativeAnnotations)
      token == projected_token(a, "aws",
                 UnwrapOr(first_non_empty(a, audience_key("aws")),
                          Plain("sts.amazonaws.com")))
      env == << EnvVar("AWS_ROLE_ARN", UnwrapOr(role, Plain(""))),
                EnvVar("AWS_WEB_IDENTITY_TOKEN_FILE", token_file_path(token)) >>
             \o OptionalEnv(a, <<"aws", "region">>, "AWS_REGION")
             \o OptionalEnv(a, <<"aws", "role-session-name">>, "AWS_ROLE_SESSION_NAME")
  IN  IF role = {} THEN Unconfigured
      ELSE Planned(ProviderPlan("aws", <<volume(token)>>, <<mount(token)>>, env,
                                Verifier(a, "aws", env, <<mount(token)>>), {}))

-----------------------------------------------------------------------------
(* Azure: a client id and a tenant id, each with a native counterpart.     *)

az_plan(a) ==
  LET client == native_or(a, <<"az", "client-id">>, native_key("az"), NativeAnnotations)
      tenant == native_or(a, <<"az", "tenant-id">>, native_az_tenant, NativeAnnotations)
      token == projected_token(a, "az",
                 UnwrapOr(first_non_empty(a, audience_key("az")),
                          Plain("api://AzureADTokenExchange")))
      env == << EnvVar("AZURE_CLIENT_ID", UnwrapOr(client, Plain(""))),
                EnvVar("AZURE_TENANT_ID", UnwrapOr(tenant, Plain(""))),
                EnvVar("AZURE_FEDERATED_TOKEN_FILE", token_file_path(token)) >>
             \o OptionalEnv(a, <<"az", "authority-host">>, "AZURE_AUTHORITY_HOST")
  IN  IF client = {} \/ tenant = {} THEN Unconfigured
      ELSE Planned(ProviderPlan("az", <<volume(token)>>, <<mount(token)>>, env,
                                Verifier(a, "az", env, <<mount(token)>>), {}))

-----------------------------------------------------------------------------
(* GCP: credentials.json, delivered by a ConfigMap or by an init container *)
(* that writes it into an emptyDir.                                        *)

creds_volume == <<"gcp", "creds">>
CREDS_FILENAME == "credentials.json"
WRITER_DIR == <<"cwii", "gcp">>

\* GcpDelivery::from_str: the spellings it accepts, and its error.
Spellings == [w \in {"config-map", "configmap", "config_map"} |-> "config-map"] @@
             [w \in {"init-container", "initcontainer", "init_container"} |-> "init-container"]
delivery_from_str(raw) ==
  LET w == Lower(Trim(raw)).word
  IN  IF w \in DOMAIN Spellings THEN Spellings[w] ELSE "unknown"

\* The document names the audience, the token's file and the account.
build_credentials_json(audience, token_file, sa_email) ==
  [audience |-> audience, file |-> token_file, sa_email |-> sa_email]

\* The digest in the name covers the audience and the account alone.
configmap_name(audience, sa_email) == <<"cwii-gcp-creds", audience, sa_email>>

creds_mount == VolumeMount(creds_volume, <<MountRoot, "gcp-creds">>, TRUE)

writer(creds_json) ==
  InitContainer(<<"gcp", "creds-writer">>, "write", 0,
                <<EnvVar("CWII_GCP_CREDS_JSON", creds_json)>>,
                <<VolumeMount(creds_volume, WRITER_DIR, FALSE)>>, TRUE)

gcp_plan(a) ==
  LET audience == UnwrapOr(first_non_empty(a, audience_key("gcp")),
                           UnwrapOr(GcpDefaultAudience, Plain("")))
      token == projected_token(a, "gcp", audience)
      sa_email == native_or(a, <<"gcp", "service-account">>, native_key("gcp"),
                            NativeAnnotations)
      creds_json == build_credentials_json(audience, token_file_path(token), sa_email)
      requested == first_non_empty(a, <<"gcp", "delivery">>)
      delivery == IF requested = {} THEN GcpDefaultDelivery
                  ELSE delivery_from_str(UnwrapOr(requested, Plain("")))
      name == configmap_name(audience, sa_email)
      env == <<EnvVar("GOOGLE_APPLICATION_CREDENTIALS",
                      <<MountRoot, "gcp-creds", CREDS_FILENAME>>)>>
      mounts == <<mount(token), creds_mount>>
      verifier == Verifier(a, "gcp", env, mounts)
  IN  CASE audience = Plain("") -> Unconfigured
        [] audience # Plain("") /\ delivery = "unknown" -> Invalid
        [] audience # Plain("") /\ delivery = "config-map" ->
             Planned(ProviderPlan("gcp",
               <<volume(token), VolumeSpec(creds_volume,
                                  [kind |-> "configMap", name |-> name])>>,
               mounts, env, verifier,
               {[name |-> name, data |-> creds_json]}))
        [] OTHER ->
             Planned(ProviderPlan("gcp",
               <<volume(token), VolumeSpec(creds_volume, [kind |-> "emptyDir"])>>,
               mounts, env, <<writer(creds_json)>> \o verifier, {}))

\* Provider::plan.
plan_of(p, a) ==
  CASE p = "gcp" -> gcp_plan(a) [] p = "aws" -> aws_plan(a) [] p = "az" -> az_plan(a)
=============================================================================
