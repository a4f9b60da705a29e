-------------------------- MODULE AnnotatingProofs --------------------------
(***************************************************************************)
(* Theorems of Annotating: precedence between scopes, and of explicit      *)
(* switches over native annotations, for all keys, values and sequences of *)
(* edits.                                                                  *)
(***************************************************************************)
EXTENDS Annotating, Providers, ResolveProofs

\* An annotation set always has its four scopes.
ScopesOK == DOMAIN annos = Scopes

\* Edits change maps and not the scopes (resolve.rs:38-45).
LEMMA ScopesNext == ScopesOK /\ [Next]_annos => ScopesOK'
BY DEF ScopesOK, Next, SetAnnotation, RemoveAnnotation

\* Hence in every reachable state.
LEMMA ScopesInvariant == Spec => []ScopesOK
<1>1. Init => ScopesOK
  BY DEF Init, ScopesOK
<1> QED BY <1>1, ScopesNext, PTL DEF Spec

\* An edit of broader scopes leaves what a narrower one decides
\* (resolve.rs:3-6, 52-65).
THEOREM NarrowerWinsCorrect == Spec => NarrowerWins
<1> DEFINE Wins ==
      \A k \in Keys, s \in Scopes :
        /\ \E raw \in ValueOf(annos, s, k) : IsBool(raw)
        /\ \A t \in 1 .. s : ValueOf(annos, t, k) = ValueOf(annos', t, k)
        => first_explicit_bool(annos', k) = first_explicit_bool(annos, k)
<1>1. ScopesOK /\ ScopesOK' /\ [Next]_annos => [Wins]_annos
  <2> SUFFICES ASSUME ScopesOK, ScopesOK', NEW k \in Keys, NEW s \in Scopes,
                      \E raw \in ValueOf(annos, s, k) : IsBool(raw),
                      \A t \in 1 .. s : ValueOf(annos, t, k) = ValueOf(annos', t, k)
               PROVE  first_explicit_bool(annos', k) = first_explicit_bool(annos, k)
    OBVIOUS
  <2>1. k \in DOMAIN annos[s] /\ IsBool(annos[s][k])
    BY DEF ValueOf
  <2>2. PICK m \in 1 .. s : DecidesBool(annos, k, m)
    BY <2>1, SomeBoolDecides DEF ScopesOK
  <2>3. \A t \in 1 .. m :
          /\ k \in DOMAIN annos'[t] <=> k \in DOMAIN annos[t]
          /\ k \in DOMAIN annos[t] => annos'[t][k] = annos[t][k]
    <3> SUFFICES ASSUME NEW t \in 1 .. m
                 PROVE  /\ k \in DOMAIN annos'[t] <=> k \in DOMAIN annos[t]
                        /\ k \in DOMAIN annos[t] => annos'[t][k] = annos[t][k]
      OBVIOUS
    <3>1. t \in 1 .. s
      BY DEF Scopes
    <3>2. ValueOf(annos, t, k) = ValueOf(annos', t, k)
      BY <3>1
    <3> QED BY <3>2 DEF ValueOf
  <2>4. m \in Scopes /\ m \in 1 .. m
    BY DEF Scopes
  <2>5. DecidesBool(annos', k, m)
    <3>1. k \in DOMAIN annos[m] /\ IsBool(annos[m][k])
          /\ \A t \in 1 .. m - 1 : k \in DOMAIN annos[t] => ~ IsBool(annos[t][k])
      BY <2>2 DEF DecidesBool
    <3>2. k \in DOMAIN annos'[m] /\ IsBool(annos'[m][k])
      BY <2>3, <2>4, <3>1
    <3>3. ASSUME NEW t \in 1 .. m - 1, k \in DOMAIN annos'[t] PROVE ~ IsBool(annos'[t][k])
      <4>1. t \in 1 .. m
        BY <2>4 DEF Scopes
      <4> QED BY <2>3, <3>1, <3>3, <4>1
    <3> QED BY <3>2, <3>3 DEF DecidesBool
  <2>6. annos'[m][k] = annos[m][k]
    BY <2>2, <2>3, <2>4 DEF DecidesBool
  <2>7. first_explicit_bool(annos, k) = {Lower(Trim(annos[m][k])) = Plain("true")}
    BY <2>2, <2>4, FirstBoolIs DEF ScopesOK
  <2>8. first_explicit_bool(annos', k) = {Lower(Trim(annos'[m][k])) = Plain("true")}
    BY <2>4, <2>5, FirstBoolIs DEF ScopesOK
  <2> QED BY <2>6, <2>7, <2>8
<1> QED BY <1>1, ScopesInvariant, PTL DEF Spec, NarrowerWins

\* A provider is enabled by its switch, with some native fallback.
SwitchDecides(p, on, a) == \E native \in BOOLEAN : on = enabled_with_native(a, p, native)

\* The three providers are (gcp lib.rs:87-91, and the same for AWS and Azure).
LEMMA ProvidersSwitch == \A p, a : SwitchDecides(p, enabled(p, a), a)
<1> SUFFICES ASSUME NEW p, NEW a PROVE SwitchDecides(p, enabled(p, a), a)
  OBVIOUS
<1> DEFINE native == NativeAnnotations /\ first_non_empty(a, native_key(p)) # {}
<1>1. native \in BOOLEAN
  OBVIOUS
<1> QED BY <1>1, Zenon DEF SwitchDecides, enabled

\* An explicit false switches a provider off, whatever native annotations are
\* there, in every registry of providers that their switches decide
\* (resolve.rs:13-19).
THEOREM ExplicitBeatsNativeCorrect ==
  ASSUME \A n \in DOMAIN ProviderOrder : \A a :
           SwitchDecides(ProviderOrder[n], EnabledFor(ProviderOrder[n], a), a)
  PROVE  Spec => []ExplicitBeatsNative
<1>1. ScopesOK => ExplicitBeatsNative
  <2> SUFFICES
        ASSUME ScopesOK, NEW n \in DOMAIN ProviderOrder, NEW s \in Scopes,
               \E raw \in ValueOf(annos, s, inject_key(ProviderOrder[n])) :
                 Lower(Trim(raw)) = Plain("false"),
               \A t \in 1 .. s - 1 : \A raw \in ValueOf(annos, t, inject_key(ProviderOrder[n])) :
                 Lower(Trim(raw)) # Plain("true")
        PROVE  n \notin Injected(annos)
    BY DEF ExplicitBeatsNative
  <2> DEFINE p == ProviderOrder[n]
             key == inject_key(p)
  <2> HIDE DEF key
  <2>1. Plain("true") # Plain("false")
    BY DEF Plain, RawValue
  <2>2. key \in DOMAIN annos[s] /\ Lower(Trim(annos[s][key])) = Plain("false")
    BY DEF ValueOf, key
  <2>3. PICK m \in 1 .. s : DecidesBool(annos, key, m)
    BY <2>2, SomeBoolDecides DEF ScopesOK, IsBool
  <2>4. m \in Scopes /\ (m = s \/ m \in 1 .. s - 1)
    BY DEF Scopes
  <2>5. Lower(Trim(annos[m][key])) # Plain("true")
    <3>1. key \in DOMAIN annos[m]
      BY <2>3 DEF DecidesBool
    <3>2. CASE m = s
      BY <2>1, <2>2, <3>2
    <3>3. CASE m \in 1 .. s - 1
      BY <3>1, <3>3 DEF ValueOf, key
    <3> QED BY <2>4, <3>2, <3>3
  <2>6. first_explicit_bool(annos, key) = {FALSE}
    BY <2>3, <2>4, <2>5, FirstBoolIs DEF ScopesOK
  <2>7. PICK native \in BOOLEAN : EnabledFor(p, annos) = enabled_with_native(annos, p, native)
    BY DEF SwitchDecides
  <2>8. enabled_with_native(annos, p, native) = FALSE
    BY <2>6 DEF enabled_with_native, UnwrapOr, key
  <2> QED BY <2>7, <2>8 DEF Injected, Consulted
<1> QED BY <1>1, ScopesInvariant, PTL
=============================================================================
