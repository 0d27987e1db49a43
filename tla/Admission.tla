------------------------------- MODULE Admission -------------------------------
(***************************************************************************)
(* Creating an execution, seen from the rows it depends on: the request    *)
(* looks for its idempotency key, reads engagement, authorization and      *)
(* asset one after the other and without a lock, inserts the execution,    *)
(* issues the worker's credential, publishes the envelope and commits.     *)
(* Engagement, authorizations, assets and other requests move between any  *)
(* two of these steps.  An execution is named by the request it comes      *)
(* from.                                                                   *)
(***************************************************************************)
EXTENDS Engagement

CONSTANTS
  Requests,
  Keys,         \* idempotency keys
  None,         \* no key, nothing seen
  Payloads,     \* what requests may ask for
  TemplateTier, \* risk tier of the registered template
  CredentialTTL \* default life of a worker credential

ASSUME AdmissionAssumption ==
  /\ None \notin Keys \cup Requests
  /\ Payloads \subseteq [key : Keys \cup {None}, engagement : Engagements,
                         auth : Auths, asset : Assets]
  /\ TemplateTier \in Nat /\ CredentialTTL \in Nat \ {0}

VARIABLES
  payload,      \* what the request asks for
  stage,        \* where it is
  seen,         \* what it read of the engagement and of the authorization
  answer,       \* the request whose execution is returned
  expiry,       \* expiry of the issued credential
  over          \* history: what was over before the request began

requestVars == <<payload, stage, seen, answer, expiry, over>>
vars == <<engagementVars, requestVars>>

Unread == [window |-> None, active |-> FALSE]

Init ==
  /\ EngagementInit
  /\ payload \in [Requests -> Payloads]
  /\ stage = [r \in Requests |-> "new"]
  /\ seen = [r \in Requests |-> Unread]
  /\ answer = [r \in Requests |-> None]
  /\ expiry = [r \in Requests |-> 0]
  /\ over = [r \in Requests |-> {}]

SameKey(r, s) == payload[r].key # None /\ payload[r].key = payload[s].key

\* The row is in the table, committed or not yet.
Inserted == {"inserted", "dispatched"}
Committed(key) == {s \in Requests : stage[s] = "committed" /\ payload[s].key = key}

Go(r, to) == stage' = [stage EXCEPT ![r] = to]

\* Refused or rolled back: what was read is forgotten.
Fail(r) ==
  /\ Go(r, "failed")
  /\ seen' = [seen EXCEPT ![r] = Unread]
  /\ over' = [over EXCEPT ![r] = {}]

\* The material fields; the key is the same.
Matches(r, s) == payload[r] = payload[s]

AuthorizationOver(a) == auth[a] = "ended" \/ clock >= grant[a].window[2]

\* Over for good: neither a pause nor the kill switch is.
EngagementOver(row) ==
  row.status \in Terminal \/ (row.status \in Begun /\ clock >= row.window[2])

\* What is over as the request begins.
OverNow(r) ==
  LET asks == payload[r]
      row == engagement[asks.engagement]
  IN  {x \in {"engagement", "authorization", "linked"} :
         \/ x = "engagement" /\ EngagementOver(row)
         \/ x = "authorization" /\ AuthorizationOver(asks.auth)
         \/ x = "linked" /\ AuthorizationOver(row.linked)}

(***************************************************************************)
(* create_and_queue                                                        *)
(***************************************************************************)

\* A key that is in use is answered with its execution or refused.
LookUpKey(r) ==
  /\ stage[r] = "new"
  /\ LET old == IF payload[r].key = None THEN {} ELSE Committed(payload[r].key) IN
     \/ /\ old = {}
        /\ Go(r, "looked")
        /\ over' = [over EXCEPT ![r] = OverNow(r)]
        /\ UNCHANGED <<seen, answer>>
     \/ \E s \in old : /\ Matches(r, s)
                       /\ Go(r, "repeated")
                       /\ answer' = [answer EXCEPT ![r] = s]
                       /\ UNCHANGED <<seen, over>>
     \/ (\E s \in old : ~Matches(r, s)) /\ Fail(r) /\ UNCHANGED answer
  /\ UNCHANGED <<engagementVars, payload, expiry>>

\* What the request will ask of the row it has read, the clock apart.
Open(r, row) ==
  /\ row.status = "active" /\ ~row.kill
  /\ payload[r].asset \in row.scope /\ TemplateTier <= row.tier

\* Of a row that is not open nothing more matters.
ReadEngagement(r) ==
  LET row == engagement[payload[r].engagement] IN
  /\ stage[r] = "looked"
  /\ \/ row.status = "new" /\ Fail(r)
     \/ /\ row.status # "new"
        /\ Go(r, "engagement")
        /\ seen' = [seen EXCEPT ![r].window = IF Open(r, row) THEN row.window ELSE None]
        /\ UNCHANGED over
  /\ UNCHANGED <<engagementVars, payload, answer, expiry>>

ReadAuthorization(r) ==
  /\ stage[r] = "engagement"
  /\ Go(r, "authorization")
  /\ seen' = [seen EXCEPT ![r].active = (auth[payload[r].auth] = "active")]
  /\ UNCHANGED <<engagementVars, payload, answer, expiry, over>>

\* Broken: the status the authorization was read with is not looked at.
AuthorizationEligibleBroken(r) ==
  LET g == grant[payload[r].auth] IN g.window[1] <= clock /\ clock < g.window[2]
AuthorizationEligible(r) ==
  LET g == grant[payload[r].auth] IN
  /\ seen[r].active
  /\ g.window[1] <= clock /\ clock < g.window[2]
  /\ payload[r].asset \in g.assets /\ TemplateTier <= g.tier

EngagementEligible(r) ==
  LET w == seen[r].window IN w # None /\ w[1] <= clock /\ clock < w[2]

\* Reads the asset and the clock, then judges everything it has read.
Judge(r) ==
  /\ stage[r] = "authorization"
  /\ IF /\ payload[r].asset \in verified
        /\ AuthorizationEligible(r) /\ EngagementEligible(r)
     THEN Go(r, "eligible") /\ UNCHANGED <<seen, over>> ELSE Fail(r)
  /\ UNCHANGED <<engagementVars, payload, answer, expiry>>

\* Another request's row with the key, not committed yet.
Ahead(r) == {s \in Requests \ {r} : stage[s] \in Inserted /\ SameKey(r, s)}

\* Broken: there is no unique index on the key.
UniqueIndexBroken(r) == {}
UniqueIndex(r) == {s \in Requests \ {r} : stage[s] = "committed" /\ SameKey(r, s)}

\* A row with the same key that is not committed yet is waited for.
Insert(r) ==
  /\ stage[r] = "eligible"
  /\ Ahead(r) = {}
  /\ IF UniqueIndex(r) = {} THEN Go(r, "inserted") /\ UNCHANGED <<seen, over>> ELSE Fail(r)
  /\ UNCHANGED <<engagementVars, payload, answer, expiry>>

\* Broken: the end of the engagement does not bound the credential.
ExpiryBroken(r) == clock + CredentialTTL
Expiry(r) ==
  IF clock + CredentialTTL <= seen[r].window[2]
  THEN clock + CredentialTTL ELSE seen[r].window[2]

\* The issuer reads the clock again; an expiry that is not in the future is
\* refused, which rolls the row back. Once issued, the envelope is published.
Dispatch(r) ==
  /\ stage[r] = "inserted"
  /\ \/ /\ Expiry(r) > clock
        /\ Go(r, "dispatched")
        /\ expiry' = [expiry EXCEPT ![r] = Expiry(r)]
        /\ seen' = [seen EXCEPT ![r] = Unread]
        /\ UNCHANGED over
     \/ Expiry(r) <= clock /\ Fail(r) /\ UNCHANGED expiry
  /\ UNCHANGED <<engagementVars, payload, answer>>

Commit(r) ==
  /\ stage[r] = "dispatched"
  /\ Go(r, "committed")
  /\ UNCHANGED <<engagementVars, payload, seen, answer, expiry, over>>

\* The broker, the database or the connection fails.
RollBack(r) ==
  /\ stage[r] \in Inserted
  /\ Fail(r)
  /\ expiry' = [expiry EXCEPT ![r] = 0]
  /\ UNCHANGED <<engagementVars, payload, answer>>

-----------------------------------------------------------------------------

Proceed(r) ==
  \/ ReadEngagement(r) \/ ReadAuthorization(r) \/ Judge(r) \/ Insert(r)
  \/ Dispatch(r) \/ Commit(r)

Next ==
  \/ EngagementNext /\ UNCHANGED requestVars
  \/ \E r \in Requests : LookUpKey(r) \/ Proceed(r) \/ RollBack(r)

Spec == Init /\ [][Next]_vars

(***************************************************************************)
(* Properties                                                              *)
(***************************************************************************)

Stages == {"new", "looked", "engagement", "authorization", "eligible", "inserted",
           "dispatched", "committed", "repeated", "failed"}

TypeOK ==
  /\ EngagementTypeOK
  /\ payload \in [Requests -> Payloads]
  /\ stage \in [Requests -> Stages]
  /\ seen \in [Requests -> [window : (Nat \X Nat) \cup {None}, active : BOOLEAN]]
  /\ answer \in [Requests -> Requests \cup {None}]
  /\ expiry \in [Requests -> Nat]
  /\ over \in [Requests -> SUBSET {"engagement", "authorization", "linked"}]

\* The row is there, or its envelope is.
Alive == {"inserted", "dispatched", "committed"}

\* An idempotency key never names two executions, and whoever is given an
\* execution for its key asked for that very execution.
OneExecutionPerKey ==
  \A r, s \in Requests :
    /\ r # s /\ SameKey(r, s) => ~(stage[r] \in Alive /\ stage[s] \in Alive)
    /\ answer[r] = s =>
         stage[s] = "committed" /\ SameKey(r, s) /\ payload[r].auth = payload[s].auth

\* No execution comes of a request that began when its engagement or its
\* authorization was over, although both are read without a lock.
NothingAfterTheEnd ==
  \A r \in Requests :
    over[r] \cap {"engagement", "authorization"} # {} => stage[r] \notin Alive

\* A worker's credential ends with the engagement at the latest; with the
\* authorization too, where that is the one the engagement is linked to.
CredentialWithinWindows ==
  \A r \in Requests : stage[r] \in {"dispatched", "committed"} =>
    LET row == engagement[payload[r].engagement] IN
    /\ expiry[r] <= row.window[2]
    /\ payload[r].auth = row.linked => expiry[r] <= grant[payload[r].auth].window[2]

\* "Execution eligibility is determined by status, time window, kill switch,
\* and linked authorization validity."
LinkedAuthorizationHeld ==
  \A r \in Requests : "linked" \in over[r] => stage[r] \notin Alive

=============================================================================
