------------------------------ MODULE Resolve ------------------------------
(***************************************************************************)
(* Annotation keys and their resolution over the four scopes               *)
(* (cwii-core/src/annotations.rs, cwii-core/src/resolve.rs).               *)
(*                                                                         *)
(* A raw annotation value is the word a user wrote together with the two   *)
(* accidents the code normalises away: surrounding white space and letter  *)
(* case.  An annotation map is a function from keys to raw values; an      *)
(* object without annotations, or an object that does not exist, has the   *)
(* empty map.  An annotation set is the sequence                           *)
(* <<pod, owner, service account, namespace>> of four maps.                *)
(*                                                                         *)
(* A Rust Option is the set of its values: {} for None, {x} for Some(x).   *)
(***************************************************************************)
EXTENDS Integers, Sequences, FiniteSetsExt

CONSTANTS
  Numerals      \* the words i64's parser accepts, as a function to their value

ASSUME NumeralsAssumption ==
  \A w \in DOMAIN Numerals : Numerals[w] \in Int

Scopes == 1 .. 4          \* pod, owning workload, ServiceAccount, namespace
NoAnnotations == << >>    \* the empty map

RawValue(word, padded, upper) ==
  [word |-> word, padded |-> padded, upper |-> upper]
Plain(word) == RawValue(word, FALSE, FALSE)

Trim(raw) == [raw EXCEPT !.padded = FALSE]
Lower(raw) == [raw EXCEPT !.upper = FALSE]

UnwrapOr(option, default) ==
  IF option = {} THEN default ELSE CHOOSE x \in option : TRUE

-----------------------------------------------------------------------------
(* Keys: one per provider and suffix.                                      *)

inject_key(p) == <<p, "inject">>
audience_key(p) == <<p, "audience">>
token_expiration_key(p) == <<p, "token-expiration">>
verify_key(p) == <<p, "verify">>
verify_enforce_key(p) == <<p, "verify-enforce">>

-----------------------------------------------------------------------------
(* Resolution of one key, each scope consulted in precedence order.        *)

IsBool(raw) == Lower(Trim(raw)) \in {Plain("true"), Plain("false")}
IsText(raw) == Trim(raw).word # ""

\* The scopes whose value for key passes the test.
ScopesWith(a, key, Test(_)) ==
  {s \in DOMAIN a : key \in DOMAIN a[s] /\ Test(a[s][key])}

\* The scope consulted first among candidates.
FirstScope_broadest_wins(candidates) == Max(candidates)      \* seeded fault
FirstScope(candidates) == Min(candidates)

first_explicit_bool(a, key) ==
  LET hits == ScopesWith(a, key, IsBool)
  IN  IF hits = {} THEN {}
      ELSE {Lower(Trim(a[FirstScope(hits)][key])) = Plain("true")}

first_non_empty(a, key) ==
  LET hits == ScopesWith(a, key, IsText)
  IN  IF hits = {} THEN {} ELSE {Trim(a[FirstScope(hits)][key])}

first_i64(a, key) ==
  {Numerals[t.word] : t \in {u \in first_non_empty(a, key) :
                               u.word \in DOMAIN Numerals}}

\* Seeded fault: the native annotation is consulted before the explicit key.
enabled_with_native_fallback_first(a, p, native_present) ==
  native_present \/ UnwrapOr(first_explicit_bool(a, inject_key(p)), FALSE)

enabled_with_native(a, p, native_present) ==
  UnwrapOr(first_explicit_bool(a, inject_key(p)), native_present)

native_or(a, cwii_key, native_key, native_on) ==
  LET explicit == first_non_empty(a, cwii_key)
  IN  IF explicit = {} /\ native_on THEN first_non_empty(a, native_key)
      ELSE explicit
=============================================================================
