------------------------- MODULE AdmissionRefinement ------------------------
(***************************************************************************)
(* Admission implements AdmissionContract, for every value of the          *)
(* constants: each step of a handler, of the API server or of anybody else *)
(* is a step of the contract under the mapping of Admission, or leaves the *)
(* contract's variables as they are.                                       *)
(*                                                                         *)
(* The argument rests on the inductive invariant of AdmissionProofs and on *)
(* AnsweredInv there, so that the mapped status of a review never goes     *)
(* back.                                                                   *)
(***************************************************************************)
EXTENDS AdmissionProofs

-----------------------------------------------------------------------------
(* The mapping.                                                            *)

\* The mapped status of a review, by cases, before and after a step.
LEMMA StatusIs ==
  ASSUME NEW r
  PROVE  /\ pc[r] = "done" => StatusOf(r) = answer[r]
         /\ pc[r] \in {"owner", "sa", "ns"} => StatusOf(r) = "reading"
         /\ pc[r] \in {"idle", "upsert", "dropped"} => StatusOf(r) = pc[r]
<1>1. CASE pc[r] = "done"
  BY <1>1, Zenon DEF StatusOf
<1>2. CASE pc[r] \in {"owner", "sa", "ns"}
  BY <1>2, Zenon DEF StatusOf
<1>3. CASE pc[r] \in {"idle", "upsert", "dropped"}
  BY <1>3, Zenon DEF StatusOf
<1> QED BY <1>1, <1>2, <1>3

\* The same of the status after a step.
LEMMA StatusBecomes ==
  ASSUME NEW r
  PROVE  /\ pc'[r] = "done" => StatusOf(r)' = answer'[r]
         /\ pc'[r] \in {"owner", "sa", "ns"} => StatusOf(r)' = "reading"
         /\ pc'[r] \in {"idle", "upsert", "dropped"} => StatusOf(r)' = pc'[r]
<1>1. CASE pc'[r] = "done"
  BY <1>1, Zenon DEF StatusOf
<1>2. CASE pc'[r] \in {"owner", "sa", "ns"}
  BY <1>2, Zenon DEF StatusOf
<1>3. CASE pc'[r] \in {"idle", "upsert", "dropped"}
  BY <1>3, Zenon DEF StatusOf
<1> QED BY <1>1, <1>2, <1>3

\* A step that leaves a review's position, answer and annotation set as they are
\* leaves its image as it is.
LEMMA ImageKept ==
  ASSUME NEW r, pc'[r] = pc[r], answer'[r] = answer[r], dry'[r] = dry[r], read'[r] = read[r]
  PROVE  StatusOf(r)' = StatusOf(r) /\ CredentialsOf(r)' = CredentialsOf(r)
<1>1. StatusOf(r)' = StatusOf(r)
  BY Zenon DEF StatusOf
<1>2. ReferencedConfigMaps(read'[r]) = ReferencedConfigMaps(read[r])
  OBVIOUS
<1> QED BY <1>1, <1>2, Zenon DEF CredentialsOf

\* A step that touches at most review r.
Only(r) ==
  \A q \in Requests \ {r} :
    pc'[q] = pc[q] /\ answer'[q] = answer[q] /\ dry'[q] = dry[q] /\ read'[q] = read[q]

\* It changes at most the image of r.
LEMMA OnlyImage ==
  ASSUME NEW r \in Requests, Only(r), NEW s, StatusOf(r)' = s, NEW c, CredentialsOf(r)' = c
  PROVE  /\ [q \in Requests |-> StatusOf(q)]' =
              [[q \in Requests |-> StatusOf(q)] EXCEPT ![r] = s]
         /\ [q \in Requests |-> CredentialsOf(q)]' =
              [[q \in Requests |-> CredentialsOf(q)] EXCEPT ![r] = c]
<1>1. \A q \in Requests \ {r} :
        StatusOf(q)' = StatusOf(q) /\ CredentialsOf(q)' = CredentialsOf(q)
  BY ImageKept DEF Only
<1> QED BY <1>1

\* A step that touches no review, or r alone and leaves its image as it is.
LEMMA NoImage ==
  ASSUME NEW r \in Requests, Only(r), StatusOf(r)' = StatusOf(r),
         CredentialsOf(r)' = CredentialsOf(r)
  PROVE  /\ [q \in Requests |-> StatusOf(q)]' = [q \in Requests |-> StatusOf(q)]
         /\ [q \in Requests |-> CredentialsOf(q)]' = [q \in Requests |-> CredentialsOf(q)]
<1>1. \A q \in Requests : StatusOf(q)' = StatusOf(q) /\ CredentialsOf(q)' = CredentialsOf(q)
  BY ImageKept DEF Only
<1> QED BY <1>1

\* A step of somebody else changes no image.
LEMMA HandlersKept ==
  ASSUME UNCHANGED handler
  PROVE  /\ [q \in Requests |-> StatusOf(q)]' = [q \in Requests |-> StatusOf(q)]
         /\ [q \in Requests |-> CredentialsOf(q)]' = [q \in Requests |-> CredentialsOf(q)]
<1>1. \A q \in Requests : StatusOf(q)' = StatusOf(q) /\ CredentialsOf(q)' = CredentialsOf(q)
  BY ImageKept DEF handler
<1> QED BY <1>1

\* What a review of the given status needs.
LEMMA CredentialsAre ==
  ASSUME NEW r
  PROVE  /\ StatusOf(r) \notin {"upsert", "patch"} => CredentialsOf(r) = {}
         /\ StatusOf(r)' \notin {"upsert", "patch"} => CredentialsOf(r)' = {}
         /\ StatusOf(r)' \in {"upsert", "patch"} /\ ~ dry'[r] =>
              CredentialsOf(r)' = ReferencedConfigMaps(read'[r])
         /\ dry'[r] => CredentialsOf(r)' = {}
BY Zenon DEF CredentialsOf

-----------------------------------------------------------------------------
(* One lemma per kind of step.                                             *)

\* A review that arrives is opened by the contract (admission.rs:33-39, 92-114).
LEMMA ReceiveOpens ==
  ASSUME RInv, NEW r \in Requests, Receive(r) \/ ReceiveUnusable(r)
  PROVE  Contract!Open(r)
<1> USE DEF RInv, IInv
<1>1. PICK q \in Pods, d \in BOOLEAN : Arrive(r, q, d)
  BY DEF Receive, ReceiveUnusable
<1>2. /\ pc[r] \in {"idle", "done", "dropped"}
      /\ verdict[r] # "pending"
      /\ verdict' = [verdict EXCEPT ![r] = "pending"]
      /\ UNCHANGED <<cms, drift>>
  BY <1>1 DEF Arrive, Free, Running, TypeOK
<1>3. StatusOf(r) \notin {"reading", "upsert"}
  BY <1>2, StatusIs DEF TypeOK
<1>4. PICK s \in {"reading", "http_400", "deny"} : StatusOf(r)' = s
  <2>1. CASE Receive(r)
    <3>1. pc'[r] \in {"owner", "sa"}
      BY <2>1 DEF Receive, TypeOK
    <3> QED BY <3>1, StatusBecomes
  <2>2. CASE ReceiveUnusable(r)
    <3>1. pc'[r] = "done" /\ answer'[r] \in {"http_400", "deny"}
      BY <2>2 DEF ReceiveUnusable, Finish, TypeOK
    <3> QED BY <3>1, StatusBecomes
  <2> QED BY <2>1, <2>2
<1>5. CredentialsOf(r)' = {}
  BY <1>4, CredentialsAre
<1>6. Only(r)
  BY <1>1 DEF Only, Arrive, Receive, ReceiveUnusable, Finish, TypeOK
<1>7. ~ Contract!Busy(r)
  BY <1>3 DEF Contract!Busy
<1> QED BY <1>2, <1>4, <1>5, <1>6, <1>7, OnlyImage DEF Contract!Open

\* The variables of the contract, under the mapping.
Image ==
  <<cms, drift, [q \in Requests |-> StatusOf(q)], [q \in Requests |-> CredentialsOf(q)],
    verdict>>

\* The reads that leave the decision open do not show (admission.rs:111-115).
LEMMA ReadsHidden ==
  ASSUME RInv, NEW r \in Requests, GetOwner(r) \/ GetServiceAccount(r)
  PROVE  UNCHANGED Image
<1> USE DEF RInv, IInv
<1>1. pc[r] \in {"owner", "sa"} /\ pc'[r] \in {"owner", "sa", "ns"}
  BY DEF GetOwner, GetServiceAccount, TypeOK
<1>2. Only(r) /\ UNCHANGED <<cms, drift, verdict>>
  BY DEF Only, GetOwner, GetServiceAccount, ReadScope, TypeOK
<1>3. StatusOf(r) = "reading" /\ StatusOf(r)' = "reading"
  BY <1>1, StatusIs, StatusBecomes
<1>4. CredentialsOf(r)' = CredentialsOf(r)
  BY <1>3, CredentialsAre
<1> QED BY <1>2, <1>3, <1>4, NoImage DEF Image

\* A handler that ends without a patch and without a write gives up.
LEMMA EndGivesUp ==
  ASSUME RInv, NEW r \in Requests, Running(r), Only(r), UNCHANGED <<cms, drift, verdict>>,
         \/ pc'[r] = "done" /\ answer'[r] = "deny"
         \/ pc'[r] = "dropped"
  PROVE  Contract!GiveUp(r)
<1>1. StatusOf(r) \in {"reading", "upsert"}
  BY StatusIs DEF Running
<1>2. PICK s \in {"deny", "dropped"} : StatusOf(r)' = s
  BY StatusBecomes
<1>3. CredentialsOf(r)' = {}
  BY <1>2, CredentialsAre
<1> QED BY <1>1, <1>2, <1>3, OnlyImage DEF Contract!GiveUp, Contract!Busy

\* The read of the Namespace and what follows is the decision, or a denial
\* (admission.rs:116-190).
LEMMA DecideDecides ==
  ASSUME RInv, NEW r \in Requests, GetNamespaceAndDecide(r)
  PROVE  Contract!Decide(r) \/ Contract!GiveUp(r)
<1> USE DEF RInv, IInv
<1> DEFINE a == read'[r]
<1>1. pc[r] = "ns" /\ Decide(r, a) /\ UNCHANGED <<cms, dry, drift, verdict>>
  BY DEF GetNamespaceAndDecide
<1>2. a \in AnnotationSets
  BY ReadScopeTyped DEF GetNamespaceAndDecide, ScopeRead
<1>3. \A q \in Requests \ {r} : read'[q] = read[q]
  BY DEF GetNamespaceAndDecide, ReadScope, TypeOK
<1> HIDE DEF a
<1>4. Only(r)
  BY <1>1, <1>3 DEF Only, Decide, Finish, TypeOK
<1>5. StatusOf(r) = "reading" /\ CredentialsOf(r) = {}
  BY <1>1, StatusIs, CredentialsAre
<1>6. CASE Finish(r, "deny")
  <2>1. pc'[r] = "done" /\ answer'[r] = "deny"
    BY <1>6 DEF Finish, TypeOK
  <2> QED BY <1>1, <1>4, <2>1, EndGivesUp DEF Running
<1>7. CASE Finish(r, "skip")
  <2>1. StatusOf(r)' = "skip"
    BY <1>7, StatusBecomes DEF Finish, TypeOK
  <2>2. CredentialsOf(r)' = CredentialsOf(r)
    BY <1>5, <2>1, CredentialsAre
  <2>3. UNCHANGED [q \in Requests |-> CredentialsOf(q)]
    BY <1>4, <2>2, ImageKept DEF Only
  <2> QED BY <1>1, <1>4, <1>5, <2>1, <2>3, OnlyImage DEF Contract!Decide
<1>8. CASE Finish(r, "patch") /\ (dry[r] \/ NeedsUpsert(a) = {})
  <2>1. StatusOf(r)' = "patch"
    BY <1>8, StatusBecomes DEF Finish, TypeOK
  <2>2. CredentialsOf(r)' = CredentialsOf(r)
    <3>1. CASE dry'[r]
      BY <1>5, <3>1, CredentialsAre
    <3>2. CASE ~ dry'[r]
      <4>1. ReferencedConfigMaps(a) = {}
        BY <1>1, <1>2, <1>8, <3>2, DecisionTyped
      <4> QED BY <1>5, <2>1, <3>2, <4>1, CredentialsAre DEF a
    <3> QED BY <3>1, <3>2
  <2>3. UNCHANGED [q \in Requests |-> CredentialsOf(q)]
    BY <1>4, <2>2, ImageKept DEF Only
  <2> QED BY <1>1, <1>4, <1>5, <2>1, <2>3, OnlyImage DEF Contract!Decide
<1>9. CASE ~ dry[r] /\ NeedsUpsert(a) # {} /\ pc' = [pc EXCEPT ![r] = "upsert"]
  <2>1. StatusOf(r)' = "upsert"
    BY <1>9, StatusBecomes DEF TypeOK
  <2>2. CredentialsOf(r)' = ReferencedConfigMaps(a)
    BY <1>1, <1>9, <2>1, CredentialsAre DEF a
  <2>3. ReferencedConfigMaps(a) # {} /\ ReferencedConfigMaps(a) \in CredentialSets
    BY <1>2, <1>9, DecisionTyped DEF CredentialSets, NeedsUpsert
  <2> QED BY <1>1, <1>4, <1>5, <2>1, <2>2, <2>3, OnlyImage DEF Contract!Decide
<1>10. \/ Finish(r, "deny") \/ Finish(r, "skip")
       \/ Finish(r, "patch") /\ (dry[r] \/ NeedsUpsert(a) = {})
       \/ ~ dry[r] /\ NeedsUpsert(a) # {} /\ pc' = [pc EXCEPT ![r] = "upsert"]
  BY <1>1 DEF Decide
<1> QED BY <1>6, <1>7, <1>8, <1>9, <1>10

\* An apply that does not conflict puts a ConfigMap of the review in place.
LEMMA ApplyPuts ==
  ASSUME RInv, NEW r \in Requests, pc[r] = "upsert",
         NEW u \in PendingUpserts(r), CanApply(cms[u.name], u), Apply(u)
  PROVE  /\ StatusOf(r) = "upsert"
         /\ CredentialsOf(r) = ReferencedConfigMaps(read[r])
         /\ u \in CredentialsOf(r)
         /\ Contract!Put(u)
<1>1. StatusOf(r) = "upsert"
  BY StatusIs
<1>2. ~ dry[r] /\ u \in ReferencedConfigMaps(read[r])
  BY PendingTyped DEF RInv, IInv, HandlerInv
<1>3. CredentialsOf(r) = ReferencedConfigMaps(read[r])
  BY <1>1, <1>2, Zenon DEF CredentialsOf
<1> QED BY <1>1, <1>2, <1>3 DEF Contract!Put, CanApply, Apply

\* An upsert is a write of the contract, and answers with the patch when it was
\* the last (admission.rs:182-200).
LEMMA UpsertWrites ==
  ASSUME RInv, NEW r \in Requests, UpsertConfigMap(r)
  PROVE  Contract!Write(r)
<1> USE DEF RInv, IInv
<1>1. /\ pc[r] = "upsert"
      /\ UNCHANGED <<dry, read, verdict>>
      /\ IF todo'[r] = {} THEN Finish(r, "patch") ELSE UNCHANGED <<pc, answer>>
  BY DEF UpsertConfigMap
<1>2. /\ StatusOf(r) = "upsert"
      /\ CredentialsOf(r) = ReferencedConfigMaps(read[r])
      /\ \E u \in CredentialsOf(r) : Contract!Put(u)
  BY <1>1, ApplyPuts DEF UpsertConfigMap
<1>3. Only(r)
  BY <1>1 DEF Only, Finish, TypeOK
<1>4. CASE UNCHANGED <<pc, answer>>
  <2>1. /\ UNCHANGED [q \in Requests |-> StatusOf(q)]
        /\ UNCHANGED [q \in Requests |-> CredentialsOf(q)]
    BY <1>1, <1>4, ImageKept
  <2> QED BY <1>1, <1>2, <2>1 DEF Contract!Write
<1>5. CASE Finish(r, "patch")
  <2>1. pc'[r] = "done" /\ answer'[r] = "patch" /\ ~ dry'[r]
    BY <1>1, <1>5 DEF Finish, TypeOK, HandlerInv
  <2>2. StatusOf(r)' = "patch"
    BY <2>1, StatusBecomes
  <2>3. CredentialsOf(r)' = CredentialsOf(r)
    BY <1>1, <1>2, <2>1, <2>2, CredentialsAre
  <2>4. \A u \in CredentialsOf(r) : InPlace(u)'
    <3>1. IInv'
      BY UpsertConfigMapInv
    <3>2. \A u \in ReferencedConfigMaps(read[r]) :
            \E k \in NeedsUpsert(read[r]) : u \in UpsertOf(k, read[r])
      BY DecisionTyped DEF TypeOK
    <3>3. \A k \in NeedsUpsert(read[r]) : \A u \in UpsertOf(k, read[r]) : InPlace(u)'
      BY <1>1, <2>1, <3>1 DEF CredsSoFar
    <3> QED BY <1>2, <3>2, <3>3
  <2>5. UNCHANGED [q \in Requests |-> CredentialsOf(q)]
    BY <1>3, <2>3, ImageKept DEF Only
  <2> QED BY <1>1, <1>2, <1>3, <2>2, <2>3, <2>4, <2>5, OnlyImage
      DEF Contract!Write, Contract!InPlace, InPlace
<1> QED BY <1>1, <1>4, <1>5

\* A write whose review then ends without an answer that patches: its reply was
\* lost, or its handler dropped.
LEMMA EndWrites ==
  ASSUME RInv, NEW r \in Requests, pc[r] = "upsert",
         NEW u \in PendingUpserts(r), CanApply(cms[u.name], u), Apply(u),
         Only(r), UNCHANGED verdict,
         \/ pc'[r] = "done" /\ answer'[r] = "deny"
         \/ pc'[r] = "dropped"
  PROVE  Contract!Write(r)
<1>1. StatusOf(r) = "upsert" /\ u \in CredentialsOf(r) /\ Contract!Put(u)
  BY ApplyPuts
<1>2. PICK s \in {"deny", "dropped"} : StatusOf(r)' = s
  BY StatusBecomes
<1>3. CredentialsOf(r)' = {}
  BY <1>2, CredentialsAre
<1> QED BY <1>1, <1>2, <1>3, OnlyImage DEF Contract!Write

\* Every step of a running handler is a step of the contract or does not show.
LEMMA HandlerImplements ==
  ASSUME RInv, NEW r \in Requests, HandlerStep(r) \/ Drop(r)
  PROVE  \/ Contract!Decide(r) \/ Contract!Write(r) \/ Contract!GiveUp(r)
         \/ UNCHANGED Image
<1> USE DEF RInv, IInv
<1>1. CASE GetOwner(r) \/ GetServiceAccount(r)
  BY <1>1, ReadsHidden
<1>2. CASE GetNamespaceAndDecide(r)
  BY <1>2, DecideDecides
<1>3. CASE ReadFails(r) \/ UpsertFails(r)
  <2>1. Running(r) /\ Only(r) /\ UNCHANGED <<cms, drift, verdict>>
    BY <1>3 DEF ReadFails, UpsertFails, Finish, Running, Only, TypeOK
  <2>2. pc'[r] = "done" /\ answer'[r] = "deny"
    BY <1>3 DEF ReadFails, UpsertFails, Finish, TypeOK
  <2> QED BY <2>1, <2>2, EndGivesUp
<1>4. CASE UpsertConfigMap(r)
  BY <1>4, UpsertWrites
<1>5. CASE UpsertReplyLost(r)
  <2>1. pc[r] = "upsert" /\ Only(r) /\ UNCHANGED verdict
    BY <1>5 DEF UpsertReplyLost, Finish, Only, TypeOK
  <2>2. pc'[r] = "done" /\ answer'[r] = "deny"
    BY <1>5 DEF UpsertReplyLost, Finish, TypeOK
  <2> QED BY <1>5, <2>1, <2>2, EndWrites DEF UpsertReplyLost
<1>6. CASE Drop(r)
  <2>1. Running(r) /\ Only(r) /\ UNCHANGED verdict /\ pc'[r] = "dropped"
    BY <1>6 DEF Drop, Only, TypeOK
  <2>2. CASE UNCHANGED <<cms, drift>>
    BY <2>1, <2>2, EndGivesUp
  <2>3. CASE /\ pc[r] = "upsert"
             /\ \E u \in PendingUpserts(r) : CanApply(cms[u.name], u) /\ Apply(u)
    BY <2>1, <2>3, EndWrites
  <2> QED BY <1>6, <2>2, <2>3 DEF Drop
<1> QED BY <1>1, <1>2, <1>3, <1>4, <1>5, <1>6 DEF HandlerStep

\* The API server's verdicts are those of the contract.
LEMMA VerdictJudges ==
  ASSUME RInv, NEW r \in Requests, Deliver(r) \/ CallFails(r)
  PROVE  Contract!Judge(r)
<1> USE DEF RInv, IInv
<1>1. verdict[r] = "pending" /\ UNCHANGED <<cms, drift>>
  BY DEF Deliver, CallFails
<1>2. /\ UNCHANGED [q \in Requests |-> StatusOf(q)]
      /\ UNCHANGED [q \in Requests |-> CredentialsOf(q)]
  BY HandlersKept DEF Deliver, CallFails
<1>3. CASE CallFails(r)
  BY <1>1, <1>2, <1>3 DEF CallFails, Contract!Judge
<1>4. CASE Deliver(r)
  <2>1. StatusOf(r) = answer[r] /\ answer[r] \in {"skip", "patch", "deny", "http_400"}
    BY <1>4, StatusIs DEF Deliver, AnsweredInv, TypeOK
  <2>2. verdict' = [verdict EXCEPT ![r] =
          CASE answer[r] \in {"skip", "patch"} -> "admitted"
            [] answer[r] = "deny" -> "rejected"
            [] answer[r] = "http_400" -> ByFailurePolicy]
    BY <1>4 DEF Deliver
  <2>3. CASE answer[r] \in {"skip", "patch"}
    <3>1. verdict' = [verdict EXCEPT ![r] = "admitted"]
      BY <2>2, <2>3
    <3> QED BY <1>1, <1>2, <2>1, <2>3, <3>1 DEF Contract!Judge
  <2>4. CASE answer[r] = "deny"
    <3>1. verdict' = [verdict EXCEPT ![r] = "rejected"]
      BY <2>2, <2>4
    <3> QED BY <1>1, <1>2, <2>1, <2>4, <3>1 DEF Contract!Judge
  <2>5. CASE answer[r] = "http_400"
    <3>1. verdict' = [verdict EXCEPT ![r] = ByFailurePolicy]
      BY <2>2, <2>5
    <3> QED BY <1>1, <1>2, <3>1 DEF Contract!Judge
  <2> QED BY <2>1, <2>3, <2>4, <2>5
<1> QED BY <1>3, <1>4

\* What others do to ConfigMaps the contract allows.
LEMMA ForeignInterferes ==
  ASSUME RInv, NEW c \in CmNames, ForeignWrite(c) \/ ForeignDelete(c)
  PROVE  Contract!Interfere(c)
<1> USE DEF RInv, IInv
<1>1. UNCHANGED verdict /\ UNCHANGED handler
  BY DEF ForeignWrite, ForeignDelete
<1>2. /\ UNCHANGED [q \in Requests |-> StatusOf(q)]
      /\ UNCHANGED [q \in Requests |-> CredentialsOf(q)]
  BY <1>1, HandlersKept
<1>3. CASE ForeignWrite(c)
  <2>1. PICK d \in CmData :
          LET same == cms[c].exists /\ cms[c].data = d
          IN  /\ cms' = [cms EXCEPT ![c] =
                   [exists |-> TRUE, data |-> d,
                    managers |-> {"foreign"} \union (IF same THEN @.managers ELSE {})]]
              /\ drift' = IF same THEN drift ELSE drift \union {c}
    BY <1>3 DEF ForeignWrite
  <2> DEFINE same == cms[c].exists /\ cms[c].data = d
             m == {"foreign"} \union (IF same THEN cms[c].managers ELSE {})
  <2>2. m \in SUBSET {"cwii", "foreign"} /\ "foreign" \in m
    BY DEF TypeOK, ConfigMapStates
  <2>3. cms' = [cms EXCEPT ![c] = [exists |-> TRUE, data |-> d, managers |-> m]]
    BY <2>1 DEF TypeOK
  <2>4. \/ cms'[c].exists /\ cms[c].exists /\ cms'[c].data = cms[c].data /\ drift' = drift
        \/ drift' = drift \union {c}
    BY <2>1 DEF TypeOK
  <2> HIDE DEF m
  <2> QED BY <1>1, <1>2, <2>2, <2>3, <2>4 DEF Contract!Interfere
<1>4. CASE ForeignDelete(c)
  <2>1. PICK d \in CmData : NoConfigMap = [exists |-> FALSE, data |-> d, managers |-> {}]
    BY ConfigMapsAssumption DEF NoConfigMap
  <2>2. /\ cms[c].exists
        /\ cms' = [cms EXCEPT ![c] = [exists |-> FALSE, data |-> d, managers |-> {}]]
        /\ drift' = drift \union {c}
    BY <1>4, <2>1 DEF ForeignDelete
  <2> QED BY <1>1, <1>2, <2>2 DEF Contract!Interfere
<1> QED BY <1>3, <1>4

-----------------------------------------------------------------------------
(* The theorem.                                                            *)

\* An initial state is one of the contract.
LEMMA InitImplements == Init => RInv /\ Contract!Init
<1> SUFFICES ASSUME Init PROVE RInv /\ Contract!Init
  OBVIOUS
<1>1. RInv
  BY InitInv DEF RInv, AnsweredInv, Init
<1>2. \A r \in Requests : StatusOf(r) = "idle"
  BY StatusIs DEF Init
<1>3. \A r \in Requests : CredentialsOf(r) = {}
  BY <1>2, CredentialsAre
<1>4. \A c \in CmNames : ~ cms[c].exists
  BY DEF Init, NoConfigMap
<1> QED BY <1>1, <1>2, <1>3, <1>4 DEF Init, Contract!Init

\* A step is one of the contract or leaves its variables as they are.
LEMMA NextImplements == RInv /\ [Next]_vars => [Contract!Next]_(Contract!vars)
<1> SUFFICES ASSUME RInv, [Next]_vars
             PROVE  Contract!Next \/ UNCHANGED Image
  BY DEF Contract!vars, Image
<1>1. CASE UNCHANGED vars
  <2>1. UNCHANGED handler
    BY <1>1 DEF vars
  <2> QED BY <1>1, <2>1, HandlersKept DEF Image, vars
<1>2. ASSUME NEW r \in Requests, Receive(r) \/ ReceiveUnusable(r) PROVE Contract!Next
  BY <1>2, ReceiveOpens DEF Contract!Next
<1>3. ASSUME NEW r \in Requests, HandlerStep(r) \/ Drop(r)
      PROVE  Contract!Next \/ UNCHANGED Image
  BY <1>3, HandlerImplements DEF Contract!Next
<1>4. ASSUME NEW r \in Requests, Deliver(r) \/ CallFails(r) PROVE Contract!Next
  BY <1>4, VerdictJudges DEF Contract!Next
<1>5. CASE \E o \in Objects : EditObject(o)
  BY <1>5, HandlersKept DEF EditObject, Image
<1>6. ASSUME NEW c \in CmNames, ForeignWrite(c) \/ ForeignDelete(c) PROVE Contract!Next
  BY <1>6, ForeignInterferes DEF Contract!Next
<1> QED BY <1>1, <1>2, <1>3, <1>4, <1>5, <1>6 DEF Next, Environment

\* The handler, with its reads one at a time, its failures and its interleavings,
\* is for everybody outside the contract's one decision, its writes and one
\* answer after the last of them (admission.rs:88-193).
THEOREM ContractImplemented == Spec => ImplementsContract
BY InitImplements, AnsweredNext, NextImplements, PTL DEF Spec, ImplementsContract, Contract!Spec
=============================================================================
