----------------------------- MODULE MCMigration ----------------------------
(***************************************************************************)
(* One review of a pod with two owners that come and go, while an opt-in   *)
(* moves from narrower to broader scopes and others write its ConfigMap.   *)
(***************************************************************************)
EXTENDS MCAdmission

MoveMaps == {Nothing, GcpOn}
MoveObjects == {Rs("a"), Sts("s"), Dep("d"), Sa("default"), NamespaceKey}
MoveOrder == <<Dep("d"), Sa("default"), NamespaceKey>>     \* narrow to broad
MoveOwnerLists == {<< >>, <<Dep("d")>>}
MovePods ==
  {[annos |-> Nothing, owners |-> <<Rs("a"), Sts("s")>>, service_account |-> {}]}
OwnedRs == There(Nothing, <<Dep("d")>>)
MoveInitial ==
  {[o \in MoveObjects |-> CASE o = Dep("d") -> There(GcpOn, << >>)
                            [] o = Rs("a") -> rs
                            [] o = Sts("s") -> NoObject
                            [] OTHER -> There(Nothing, << >>)] : rs \in {NoObject, OwnedRs}}

\* The opt-in is added beyond a scope that has it, and removed before one.
MoveEdit(objs, o, new) ==
  \/ \E i, j \in DOMAIN MoveOrder :
       /\ i < j
       /\ new.exists
       /\ new.owners = << >>
       /\ \/ o = MoveOrder[j] /\ objs[MoveOrder[i]].annos = GcpOn /\ new.annos = GcpOn
          \/ o = MoveOrder[i] /\ objs[MoveOrder[j]].annos = GcpOn /\ new.annos = Nothing
  \/ o = Rs("a") /\ new \in {NoObject, OwnedRs}
  \/ o = Sts("s") /\ new \in {NoObject, There(Nothing, << >>)}

\* All clusters that come of it, and the maps that opt in to each provider.
MoveClusters ==
  {objs \in [MoveObjects -> {NoObject, OwnedRs, There(Nothing, << >>), There(GcpOn, << >>)}] :
     /\ objs[Rs("a")] \in {NoObject, OwnedRs}
     /\ objs[Sts("s")] \in {NoObject, There(Nothing, << >>)}
     /\ \A j \in DOMAIN MoveOrder :
          objs[MoveOrder[j]] \in {There(Nothing, << >>), There(GcpOn, << >>)}}
MoveOn == [k \in DOMAIN ProviderOrder |-> IF ProviderOrder[k] = "gcp" THEN {GcpOn} ELSE {}]

ASSUME MoveAssumption == OptInsMoveBroader(MoveOn, MoveClusters)
=============================================================================
