----------------------------- MODULE Annotating -----------------------------
(***************************************************************************)
(* Users set and remove annotations, one key of one object at a time, and  *)
(* the effect a review would have is resolved from the result.             *)
(***************************************************************************)
EXTENDS Resolve, Decision

CONSTANTS
  Keys, Values,          \* the annotations users write
  IsKeyOf(_, _)          \* IsKeyOf(k, p): annotation k configures provider p

VARIABLE annos           \* the annotation set: one map per scope

Init == annos = [s \in Scopes |-> NoAnnotations]

SetAnnotation(s, k, v) ==
  annos' = [annos EXCEPT ![s] =
    [key \in DOMAIN @ \union {k} |-> IF key = k THEN v ELSE @[key]]]

RemoveAnnotation(s, k) ==
  /\ k \in DOMAIN annos[s]
  /\ annos' = [annos EXCEPT ![s] = [key \in DOMAIN @ \ {k} |-> @[key]]]

Next ==
  \E s \in Scopes, k \in Keys :
    (\E v \in Values : SetAnnotation(s, k, v)) \/ RemoveAnnotation(s, k)

Spec == Init /\ [][Next]_annos

-----------------------------------------------------------------------------
(* What users see.                                                         *)

\* The value of a key in one scope, an Option.
ValueOf(a, s, k) == IF k \in DOMAIN a[s] THEN {a[s][k]} ELSE {}

\* What a review makes of provider number n.
Effect(n, a) ==
  IF Failing(a) # {} THEN [status |-> "denied"]
  ELSE IF n \in Consulted(a) THEN Outcome(n, a) ELSE [status |-> "off"]

\* An edit of broader scopes never changes a boolean that a narrower scope
\* answers explicitly (resolve.rs:3-6, 52-65).
NarrowerWins ==
  [][ \A k \in Keys, s \in Scopes :
        /\ \E raw \in ValueOf(annos, s, k) : IsBool(raw)
        /\ \A t \in 1 .. s : ValueOf(annos, t, k) = ValueOf(annos', t, k)
        => first_explicit_bool(annos', k) = first_explicit_bool(annos, k) ]_annos

\* With native annotations on, an explicit false at any scope, even the
\* namespace, switches a provider off although a narrower scope carries the
\* platform's own annotation, unless a still narrower scope says true
\* (resolve.rs:13-19, docs/annotations.md:458).
ExplicitBeatsNative ==
  \A n \in DOMAIN ProviderOrder : \A s \in Scopes :
    /\ \E raw \in ValueOf(annos, s, inject_key(ProviderOrder[n])) :
         Lower(Trim(raw)) = Plain("false")
    /\ \A t \in 1 .. s - 1 : \A raw \in ValueOf(annos, t, inject_key(ProviderOrder[n])) :
         Lower(Trim(raw)) # Plain("true")
    => n \notin Injected(annos)

\* "One provider's settings never affect another's" (resolve.rs:5-6,
\* docs/annotations.md:218, docs/architecture.md:152-153): an edit of one provider's annotations leaves the
\* injection of the other providers as it is.
ProvidersAreIsolated ==
  [][ \A n \in DOMAIN ProviderOrder :
        /\ Effect(n, annos).status = "planned"
        /\ \A s \in Scopes, k \in Keys :
             IsKeyOf(k, ProviderOrder[n]) => ValueOf(annos', s, k) = ValueOf(annos, s, k)
        => Effect(n, annos') = Effect(n, annos) ]_annos

\* "Walking from pod outward, the first scope that sets a key wins for that
\* key" (docs/annotations.md:214-215; resolve.rs:52-53 is more careful).
FirstScopeThatSetsWins ==
  \A k \in Keys :
    LET setting == {s \in Scopes : k \in DOMAIN annos[s]}
    IN  setting # {} /\ first_explicit_bool(annos, k) # {} =>
          first_explicit_bool(annos, k) =
            {Lower(Trim(annos[Min(setting)][k])) = Plain("true")}

\* "First value for key that parses as an i64, in precedence order"
\* (resolve.rs:80).
FirstThatParsesWins ==
  \A k \in Keys :
    LET parsing == ScopesWith(annos, k, LAMBDA raw : raw.word \in DOMAIN Numerals)
    IN  parsing # {} => first_i64(annos, k) = {Numerals[annos[Min(parsing)][k].word]}
=============================================================================
