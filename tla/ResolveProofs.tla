---------------------------- MODULE ResolveProofs ---------------------------
(***************************************************************************)
(* What resolution over scopes returns, for all annotation sets: the       *)
(* lemmas the other proofs rest on.                                        *)
(***************************************************************************)
EXTENDS Resolve, WellFoundedInduction, TLAPS

\* A non-empty set of natural numbers has a minimum, and Min returns it.
LEMMA MinInSet ==
  ASSUME NEW S, S \subseteq Nat, S # {}
  PROVE  Min(S) \in S /\ \A y \in S : Min(S) =< y
<1> DEFINE R == {ss \in Nat \X Nat : ss[1] < ss[2]}
<1>0. IsWellFoundedOn(R, Nat)
  BY NatLessThanWellFounded, Zenon DEF OpToRel
<1> HIDE DEF R
<1>1. PICK m \in S : \A y \in S : ~ (<<y, m>> \in R)
  BY <1>0, WFMin, Zenon
<1>2. \A y \in S : m =< y
  <2> SUFFICES ASSUME NEW y \in S PROVE m =< y
    OBVIOUS
  <2>1. <<y, m>> \in Nat \X Nat /\ <<y, m>>[1] = y /\ <<y, m>>[2] = m
    OBVIOUS
  <2>2. ~ (y < m)
    BY <1>1, <2>1, Zenon DEF R
  <2> QED BY <2>2
<1> QED BY <1>1, <1>2 DEF Min

\* A scope that answers a switch, with nothing said by narrower ones.
DecidesBool(a, key, s) ==
  /\ key \in DOMAIN a[s]
  /\ IsBool(a[s][key])
  /\ \A t \in 1 .. s - 1 : key \in DOMAIN a[t] => ~ IsBool(a[t][key])

\* first_explicit_bool is what the first scope with a boolean says
\* (resolve.rs:52-65).
LEMMA FirstBoolIs ==
  ASSUME NEW a, DOMAIN a = Scopes, NEW key, NEW s \in Scopes, DecidesBool(a, key, s)
  PROVE  first_explicit_bool(a, key) = {Lower(Trim(a[s][key])) = Plain("true")}
<1> DEFINE hits == {t \in DOMAIN a : key \in DOMAIN a[t] /\ IsBool(a[t][key])}
<1>1. hits \subseteq Nat /\ s \in hits
  BY DEF Scopes, DecidesBool
<1>2. Min(hits) = s
  <2>1. \A t \in hits : s =< t
    BY DEF DecidesBool, Scopes
  <2> HIDE DEF hits
  <2>2. Min(hits) \in hits /\ Min(hits) =< s
    BY <1>1, MinInSet
  <2>3. s =< Min(hits)
    BY <2>1, <2>2
  <2>4. s \in Nat /\ Min(hits) \in Nat
    BY <1>1, <2>2
  <2> QED BY <2>2, <2>3, <2>4
<1>3. ScopesWith(a, key, IsBool) = hits
  BY DEF ScopesWith
<1> HIDE DEF hits
<1> QED BY <1>1, <1>2, <1>3 DEF first_explicit_bool, FirstScope

\* If some scope has a boolean, one of them decides, and none before it does.
LEMMA SomeBoolDecides ==
  ASSUME NEW a, DOMAIN a = Scopes, NEW key, NEW s \in Scopes,
         key \in DOMAIN a[s], IsBool(a[s][key])
  PROVE  \E t \in 1 .. s : DecidesBool(a, key, t)
<1> DEFINE hits == {t \in Scopes : key \in DOMAIN a[t] /\ IsBool(a[t][key])}
<1>1. hits \subseteq Nat /\ s \in hits
  BY DEF Scopes
<1>2. Min(hits) \in hits /\ \A t \in hits : Min(hits) =< t
  <2> HIDE DEF hits
  <2> QED BY <1>1, MinInSet
<1> DEFINE m == Min(hits)
<1> HIDE DEF m
<1>3. m \in hits /\ \A t \in hits : m =< t
  BY <1>2 DEF m
<1>4. m \in 1 .. s
  BY <1>1, <1>3 DEF Scopes
<1>5. DecidesBool(a, key, m)
  BY <1>1, <1>3 DEF DecidesBool, Scopes
<1> QED BY <1>4, <1>5
=============================================================================
