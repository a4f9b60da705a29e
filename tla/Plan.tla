-------------------------------- MODULE Plan --------------------------------
(***************************************************************************)
(* The intermediate representation providers emit and its merge            *)
(* (cwii-core/src/plan.rs).  Names and paths are tuples of their parts,    *)
(* such as <<"gcp", "token">> for the volume cwii-gcp-token; images,       *)
(* resources and security contexts are not represented, and of a shell     *)
(* command only whether its exit status can block the pod.                 *)
(***************************************************************************)
EXTENDS Resolve, SequencesExt, TLC

CONSTANTS
  MountRoot,                    \* --mount-root
  DefaultTokenExpiration        \* --token-expiration-secs

ASSUME DefaultTokenExpirationAssumption == DefaultTokenExpiration \in Int

MIN_TOKEN_EXPIRATION_SECS == 600

clamp_token_expiration(secs) == Max({secs, MIN_TOKEN_EXPIRATION_SECS})

projected_token(a, p, audience) ==
  [provider |-> p,
   audience |-> audience,
   expiration_secs |-> clamp_token_expiration(
     UnwrapOr(first_i64(a, token_expiration_key(p)), DefaultTokenExpiration)),
   mount_dir |-> <<MountRoot, p>>,
   file_name |-> "token"]

VolumeSpec(name, source) == [name |-> name, source |-> source]
VolumeMount(name, mount_path, read_only) ==
  [name |-> name, mount_path |-> mount_path, read_only |-> read_only]
EnvVar(name, value) == [name |-> name, value |-> value]

\* TokenSpec: its volume, its mount and the path of its file.  The names carry
\* the provider, so that no two providers share a volume or a directory.
volume_name(token) == <<token.provider, "token">>
token_file_path(token) == Append(token.mount_dir, token.file_name)

volume(token) ==
  VolumeSpec(volume_name(token),
             [kind |-> "projected", audience |-> token.audience,
              expiration_secs |-> token.expiration_secs,
              path |-> token.file_name])

mount(token) == VolumeMount(volume_name(token), token.mount_dir, TRUE)

\* An init container: what it does to which mounted volumes.  A writer stores
\* content in the volume it mounts; a verifier runs the provider's check and
\* blocks the pod exactly when it enforces.
InitContainer(name, role, order, env, mounts, enforce) ==
  [name |-> name, role |-> role, order |-> order, env |-> env,
   mounts |-> mounts, enforce |-> enforce]

\* Seeded fault: the check is never wrapped.
verify_init_container_bare(p, enforce, env, mounts) ==
  InitContainer(<<p, "verify">>, "verify", 10, env, mounts, TRUE)

verify_init_container(p, enforce, env, mounts) ==
  InitContainer(<<p, "verify">>, "verify", 10, env, mounts, enforce)

-----------------------------------------------------------------------------
(* ProviderPlan, and the outcome of Provider::plan: Ok(Some(plan)),        *)
(* Ok(None) or Err.                                                        *)

ProviderPlan(p, volumes, mounts, env, inits, upsert) ==
  [provider |-> p, volumes |-> volumes, container_mounts |-> mounts,
   container_env |-> env, init_containers |-> inits,
   configmap_upsert |-> upsert]

Planned(plan) == [status |-> "planned", plan |-> plan]
Unconfigured == [status |-> "unconfigured"]
Invalid == [status |-> "invalid"]

\* The items of a list at the positions kept, in their order: SelectSeq with the
\* test given as a set.
Filtered(list, kept) ==
  LET upto[i \in 0 .. Len(list)] ==
        IF i = 0 THEN << >>
        ELSE IF i \in kept THEN Append(upto[i - 1], list[i]) ELSE upto[i - 1]
  IN  upto[Len(list)]

OfOrder(inits, order) == Filtered(inits, {i \in DOMAIN inits : inits[i].order = order})

\* Seeded fault: verifiers are sorted before writers.
SortByOrder_descending(inits) == OfOrder(inits, 10) \o OfOrder(inits, 0)

\* Stable sort by order; the orders in use are 0 (writers) and 10 (verifiers).
SortByOrder(inits) == OfOrder(inits, 0) \o OfOrder(inits, 10)

merge(plans) ==
  LET All(Part(_)) == FlattenSeq([k \in DOMAIN plans |-> Part(plans[k])])
  IN  [injected_providers |-> [k \in DOMAIN plans |-> plans[k].provider],
       volumes |-> All(LAMBDA p : p.volumes),
       container_mounts |-> All(LAMBDA p : p.container_mounts),
       container_env |-> All(LAMBDA p : p.container_env),
       init_containers |-> SortByOrder(All(LAMBDA p : p.init_containers)),
       configmap_upserts |-> UNION {plans[k].configmap_upsert : k \in DOMAIN plans}]
=============================================================================
