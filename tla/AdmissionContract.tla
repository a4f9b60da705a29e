-------------------------- MODULE AdmissionContract --------------------------
(***************************************************************************)
(* What a cluster may rely on when it calls the webhook, without saying    *)
(* how the webhook finds out what to do: a review is decided in one step,  *)
(* on one set of credentials; ConfigMaps are written for decided reviews   *)
(* only, in any order, and never against another manager; a pod gets its   *)
(* patch once all of its credentials are in place; everything else denies. *)
(* Admission implements this contract (ImplementsContract there).          *)
(***************************************************************************)
EXTENDS FiniteSets

CONSTANTS
  Requests,         \* reviews in flight
  CmNames, CmData,  \* ConfigMaps and their contents
  Plans,            \* the sets of ConfigMaps a decision may ask for
  Unusable,         \* answers to a request that is no review of a pod
  OnFailure         \* what becomes of a pod whose call fails

VARIABLES
  cms,        \* the ConfigMaps: contents and managers
  drift,      \* ConfigMaps others have changed since cwii's last apply
  status,     \* of a review: "idle", "reading", "upsert", "dropped" or its answer
  creds,      \* the ConfigMaps it was decided to need
  verdict     \* what became of its pod

vars == <<cms, drift, status, creds, verdict>>

Init ==
  /\ \A c \in CmNames : ~ cms[c].exists
  /\ drift = {}
  /\ status = [r \in Requests |-> "idle"]
  /\ creds = [r \in Requests |-> {}]
  /\ verdict = [r \in Requests |-> "rejected"]

Busy(r) == status[r] \in {"reading", "upsert"}

Open(r) ==
  /\ ~ Busy(r)
  /\ verdict[r] # "pending"
  /\ \E s \in {"reading"} \union Unusable : status' = [status EXCEPT ![r] = s]
  /\ creds' = [creds EXCEPT ![r] = {}]
  /\ verdict' = [verdict EXCEPT ![r] = "pending"]
  /\ UNCHANGED <<cms, drift>>

\* The decision: on credentials to put in place, or an answer that needs none.
Decide(r) ==
  /\ status[r] = "reading"
  /\ \/ \E C \in Plans : /\ C # {}
                         /\ creds' = [creds EXCEPT ![r] = C]
                         /\ status' = [status EXCEPT ![r] = "upsert"]
     \/ /\ status' = [status EXCEPT ![r] = "skip"]
        /\ UNCHANGED creds
     \/ /\ status' = [status EXCEPT ![r] = "patch"]
        /\ UNCHANGED creds
  /\ UNCHANGED <<cms, drift, verdict>>

\* A ConfigMap is put in place, unless another manager holds it with other
\* contents, and nobody else loses what it manages.
Put(u) ==
  /\ ~ cms[u.name].exists \/ cms[u.name].data = u.data
       \/ "foreign" \notin cms[u.name].managers
  /\ cms' = [cms EXCEPT ![u.name] =
       [exists |-> TRUE, data |-> u.data, managers |-> @.managers \union {"cwii"}]]
  /\ drift' = drift \ {u.name}

\* In place now, or changed by others since cwii put it there.
InPlace(u) == u.name \in drift \/ (cms[u.name].exists /\ cms[u.name].data = u.data)

\* After a write the review goes on, or is answered once nothing is missing, or
\* ends although the write took effect.
Write(r) ==
  /\ status[r] = "upsert"
  /\ \E u \in creds[r] : Put(u)
  /\ \/ UNCHANGED <<status, creds>>
     \/ /\ \A u \in creds[r] : InPlace(u)'
        /\ status' = [status EXCEPT ![r] = "patch"]
        /\ UNCHANGED creds
     \/ /\ \E s \in {"deny", "dropped"} : status' = [status EXCEPT ![r] = s]
        /\ creds' = [creds EXCEPT ![r] = {}]
  /\ UNCHANGED verdict

\* A review is denied, or its handler is gone, whatever it had come to.
GiveUp(r) ==
  /\ Busy(r)
  /\ \E s \in {"deny", "dropped"} : status' = [status EXCEPT ![r] = s]
  /\ creds' = [creds EXCEPT ![r] = {}]
  /\ UNCHANGED <<cms, drift, verdict>>

\* The pod is stored with an answer, or the call fails, at any time.
Judge(r) ==
  /\ verdict[r] = "pending"
  /\ \/ status[r] \in {"skip", "patch"} /\ verdict' = [verdict EXCEPT ![r] = "admitted"]
     \/ status[r] = "deny" /\ verdict' = [verdict EXCEPT ![r] = "rejected"]
     \/ verdict' = [verdict EXCEPT ![r] = OnFailure]
  /\ UNCHANGED <<cms, drift, status, creds>>

\* Others create, change and delete ConfigMaps.
Interfere(c) ==
  /\ \E d \in CmData, m \in SUBSET {"cwii", "foreign"} :
       \/ /\ "foreign" \in m
          /\ cms' = [cms EXCEPT ![c] = [exists |-> TRUE, data |-> d, managers |-> m]]
       \/ /\ cms[c].exists
          /\ cms' = [cms EXCEPT ![c] = [exists |-> FALSE, data |-> d, managers |-> {}]]
  /\ \/ cms'[c].exists /\ cms[c].exists /\ cms'[c].data = cms[c].data /\ drift' = drift
     \/ drift' = drift \union {c}
  /\ UNCHANGED <<status, creds, verdict>>

Next ==
  \/ \E r \in Requests : Open(r) \/ Decide(r) \/ Write(r) \/ GiveUp(r) \/ Judge(r)
  \/ \E c \in CmNames : Interfere(c)

Spec == Init /\ [][Next]_vars
=============================================================================
