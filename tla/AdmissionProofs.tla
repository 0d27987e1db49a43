---------------------------- MODULE AdmissionProofs ----------------------------
(***************************************************************************)
(* Proofs about Engagement and Admission, for any number of engagements,   *)
(* authorizations, assets, keys and concurrent requests.                   *)
(*                                                                         *)
(* Engagements: what is checked at schedule time holds on while the lock   *)
(* is held, since the grant never changes and a row is only edited as an   *)
(* unlocked draft (Checked).  Requests: what was over stays over (Lasting) *)
(* and is noticed where it is read (Noticed); what was read of an open     *)
(* engagement is its window for good (Frozen).                             *)
(***************************************************************************)
EXTENDS Admission, TLAPS

-----------------------------------------------------------------------------

Checked ==
  \A e \in Engagements : checked[e] # "idle" =>
    LET r == engagement[e]
        g == grant[r.linked]
    IN  /\ r.status = IF checked[e] = "scheduled" THEN "draft" ELSE "scheduled"
        /\ auth[r.linked] # "pending"
        /\ g.window[1] <= r.window[1] /\ r.window[2] <= g.window[2]
        /\ r.tier <= g.tier

EngagementInv == EngagementTypeOK /\ CoveredByGrant /\ Checked

\* The engagements begin within the invariant.
LEMMA EngagementInitially == EngagementInit => EngagementInv
<1> SUFFICES ASSUME EngagementInit PROVE EngagementInv
  OBVIOUS
<1> USE EngagementAssumption DEF EngagementInit
<1>1. ASSUME NEW e \in Engagements
      PROVE  /\ engagement[e] \in Rows /\ engagement[e].status = "new"
             /\ engagement[e].window[2] - engagement[e].window[1] \in 1..MaxDuration
  <2>1. PICK a \in Auths, d \in Drafts : InRange(d.window) /\ engagement[e] = RowOf(a, d)
    OBVIOUS
  <2>2. d.scope \in SUBSET Assets /\ d.tier \in Tiers /\ d.window \in Nat \X Nat
    BY EngagementAssumption
  <2> QED BY <2>1, <2>2 DEF RowOf, Rows, InRange
<1>2. engagement \in [Engagements -> Rows]
  BY <1>1
<1>3. EngagementTypeOK
  BY <1>1, <1>2 DEF EngagementTypeOK, Times
<1> QED BY <1>1, <1>3 DEF EngagementInv, CoveredByGrant, Checked, Begun

\* A row remains one when its status or what a draft describes is replaced.
LEMMA RowsClosed ==
  /\ \A r \in Rows, to \in Statuses : [r EXCEPT !.status = to] \in Rows
  /\ \A r \in Rows, b \in BOOLEAN : [r EXCEPT !.kill = b] \in Rows
  /\ \A r \in Rows, scope \in SUBSET Assets, tier \in Tiers, window \in Nat \X Nat :
       [r EXCEPT !.scope = scope, !.tier = tier, !.window = window] \in Rows
BY DEF Rows

\* Every step of the engagements keeps them well typed.
LEMMA EngagementTypePreserved ==
  EngagementTypeOK /\ [EngagementNext]_engagementVars => EngagementTypeOK'
<1> SUFFICES ASSUME EngagementTypeOK, [EngagementNext]_engagementVars PROVE EngagementTypeOK'
  OBVIOUS
<1> USE DEF EngagementTypeOK
<1>1. ASSUME NEW e \in Engagements, NEW to \in Statuses, Move(e, to),
             UNCHANGED <<clock, verified, auth, grant>>,
             checked' = checked \/ checked' = [checked EXCEPT ![e] = "idle"]
      PROVE  EngagementTypeOK'
  <2>1. engagement' \in [Engagements -> Rows]
    <3>1. [engagement[e] EXCEPT !.status = to] \in Rows
      BY RowsClosed
    <3> QED BY <1>1, <3>1 DEF Move
  <2>2. \A x \in Engagements : engagement'[x].window = engagement[x].window
    BY <1>1 DEF Move
  <2> QED BY <1>1, <2>1, <2>2
<1>2. ASSUME NEW e \in Engagements, NEW d \in Drafts, UpdateEngagement(e, d)
      PROVE  EngagementTypeOK'
  <2>1. d.scope \in SUBSET Assets /\ d.tier \in Tiers /\ d.window \in Nat \X Nat
    BY EngagementAssumption
  <2>2. engagement' \in [Engagements -> Rows]
    <3>1. [engagement[e] EXCEPT !.scope = d.scope, !.tier = d.tier, !.window = d.window] \in Rows
      BY <2>1, RowsClosed
    <3> QED BY <1>2, <3>1 DEF UpdateEngagement
  <2>3. \A x \in Engagements :
          engagement'[x].window = IF x = e THEN d.window ELSE engagement[x].window
    BY <1>2 DEF UpdateEngagement
  <2>4. d.window[2] - d.window[1] \in 1..MaxDuration
    BY <1>2, <2>1, EngagementAssumption DEF UpdateEngagement, InRange
  <2> QED BY <1>2, <2>2, <2>3, <2>4 DEF UpdateEngagement
<1>3. ASSUME NEW e \in Engagements, NEW to \in {"scheduled", "active"}, Check(e, to)
      PROVE  EngagementTypeOK'
  BY <1>3 DEF Check
<1>4. ASSUME NEW e \in Engagements, CreateEngagement(e) \/ Schedule(e) \/ Activate(e)
      PROVE  EngagementTypeOK'
  BY <1>1, <1>4 DEF CreateEngagement, Schedule, Activate, Statuses
<1>5. ASSUME NEW e \in Engagements, Pause(e) \/ Resume(e) \/ Complete(e) \/ Cancel(e)
      PROVE  EngagementTypeOK'
  BY <1>1, <1>5 DEF Pause, Resume, Complete, Cancel, Change, Statuses
<1>6. ASSUME NEW e \in Engagements, Refuse(e) PROVE EngagementTypeOK'
  BY <1>6 DEF Refuse
<1>7. ASSUME NEW e \in Engagements, NEW b \in BOOLEAN, SetKillSwitch(e, b)
      PROVE  EngagementTypeOK'
  <2>1. [engagement[e] EXCEPT !.kill = b] \in Rows
    BY RowsClosed
  <2>2. engagement' \in [Engagements -> Rows]
    BY <1>7, <2>1 DEF SetKillSwitch
  <2>3. \A x \in Engagements : engagement'[x].window = engagement[x].window
    BY <1>7 DEF SetKillSwitch
  <2> QED BY <1>7, <2>2, <2>3 DEF SetKillSwitch
<1>8. CASE Surroundings
  <2>1. ASSUME NEW a \in Auths, ChangeAuthorization(a) PROVE EngagementTypeOK'
    BY <2>1 DEF ChangeAuthorization
  <2>2. CASE ChangeAssets
    BY <2>2 DEF ChangeAssets
  <2>3. CASE Tick
    BY <2>3, EngagementAssumption DEF Tick, Times
  <2> QED BY <1>8, <2>1, <2>2, <2>3 DEF Surroundings
<1>9. CASE UNCHANGED engagementVars
  BY <1>9 DEF engagementVars
<1> QED
  BY <1>2, <1>3, <1>4, <1>5, <1>6, <1>7, <1>8, <1>9 DEF EngagementNext, Lifecycle

\* The grant of an engagement that was checked covers it until it is written.
LEMMA EngagementInvPreserved ==
  EngagementInv /\ [EngagementNext]_engagementVars => EngagementInv'
<1> SUFFICES ASSUME EngagementInv, [EngagementNext]_engagementVars PROVE EngagementInv'
  OBVIOUS
<1>0. EngagementTypeOK'
  BY EngagementTypePreserved DEF EngagementInv
<1> USE <1>0 DEF EngagementInv, CoveredByGrant, Checked, Begun, Unlocked
<1>1. ASSUME NEW e \in Engagements, CreateEngagement(e) PROVE EngagementInv'
  BY <1>1 DEF CreateEngagement, Move, EngagementTypeOK, Rows
<1>2. ASSUME NEW e \in Engagements, NEW d \in Drafts, UpdateEngagement(e, d)
      PROVE  EngagementInv'
  <2>1. engagement[e].status = "draft" /\ checked[e] = "idle"
    BY <1>2 DEF UpdateEngagement, Editable
  <2>2. \A x \in Engagements :
          /\ x # e => engagement'[x] = engagement[x]
          /\ engagement'[e].status = "draft"
    BY <1>2, <2>1 DEF UpdateEngagement, EngagementTypeOK, Rows
  <2> QED BY <1>2, <2>1, <2>2 DEF UpdateEngagement
<1>3. ASSUME NEW e \in Engagements, NEW to \in {"scheduled", "active"}, Check(e, to)
      PROVE  EngagementInv'
  BY <1>3 DEF Check, LinkedAuthorizationHolds, Covers, EngagementTypeOK, Rows
<1>4. ASSUME NEW e \in Engagements, Schedule(e) PROVE EngagementInv'
  BY <1>4 DEF Schedule, ScopesHold, Move, EngagementTypeOK, Rows
<1>5. ASSUME NEW e \in Engagements, Activate(e) PROVE EngagementInv'
  BY <1>5 DEF Activate, Move, EngagementTypeOK, Rows
<1>6. ASSUME NEW e \in Engagements, Refuse(e) PROVE EngagementInv'
  BY <1>6 DEF Refuse, EngagementTypeOK, Rows
<1>7. ASSUME NEW e \in Engagements, Pause(e) \/ Resume(e) \/ Complete(e) \/ Cancel(e)
      PROVE  EngagementInv'
  <2>1. PICK to \in Statuses :
          /\ Move(e, to) /\ checked[e] = "idle"
          /\ to = "cancelled" \/ engagement[e].status \in {"active", "paused"}
          /\ UNCHANGED <<clock, verified, auth, grant, checked>>
    BY <1>7 DEF Pause, Resume, Complete, Cancel, Change, Statuses
  <2>2. \A x \in Engagements :
          /\ x # e => engagement'[x] = engagement[x]
          /\ engagement'[e] = [engagement[e] EXCEPT !.status = to]
    BY <2>1 DEF Move, EngagementTypeOK
  <2>3. engagement'[e].status = to /\ engagement'[e].linked = engagement[e].linked
    BY <2>2 DEF EngagementTypeOK, Rows
  <2>4. /\ engagement'[e].scope = engagement[e].scope
        /\ engagement'[e].tier = engagement[e].tier
        /\ engagement'[e].window = engagement[e].window
    BY <2>2 DEF EngagementTypeOK, Rows
  <2>5. CoveredByGrant'
    BY <2>1, <2>2, <2>3, <2>4
  <2>6. Checked'
    BY <2>1, <2>2
  <2> QED BY <2>5, <2>6
<1>8. ASSUME NEW e \in Engagements, NEW b \in BOOLEAN, SetKillSwitch(e, b)
      PROVE  EngagementInv'
  BY <1>8 DEF SetKillSwitch, EngagementTypeOK, Rows
<1>9. CASE Surroundings
  BY <1>9 DEF Surroundings, ChangeAuthorization, ChangeAssets, Tick, EngagementTypeOK, Rows
<1>10. CASE UNCHANGED engagementVars
  BY <1>10 DEF engagementVars
<1> QED
  BY <1>1, <1>2, <1>3, <1>4, <1>5, <1>6, <1>7, <1>8, <1>9, <1>10
     DEF EngagementNext, Lifecycle

\* The initial states of the requests are those of the engagements, and so is
\* every step that is not a request's.
LEMMA EngagementInvariance == Spec => []EngagementInv
<1>1. Init => EngagementInv
  BY EngagementInitially DEF Init
<1>2. [Next]_vars => [EngagementNext]_engagementVars
  <2> SUFFICES ASSUME [Next]_vars PROVE [EngagementNext]_engagementVars
    OBVIOUS
  <2>1. ASSUME NEW r \in Requests, LookUpKey(r) \/ Proceed(r) \/ RollBack(r)
        PROVE  UNCHANGED engagementVars
    BY <2>1 DEF LookUpKey, Proceed, RollBack, ReadEngagement, ReadAuthorization, Judge,
       Insert, Dispatch, Commit
  <2> QED BY <2>1 DEF Next, vars
<1> QED BY <1>1, <1>2, EngagementInvPreserved, PTL DEF Spec

\* Every engagement that was ever scheduled lies inside the grant of its
\* linked authorization, which was active.
THEOREM EngagementsAreCovered == Spec => []CoveredByGrant
BY EngagementInvariance, PTL DEF EngagementInv

\* Nothing Authorization promises is left out here: when one authorization
\* becomes active or ends and the others rest, that is a step of the
\* surroundings (authorizations/service.py: activate, reject, revoke, reads).
THEOREM PromisedChangesAreAdmitted ==
  ASSUME EngagementTypeOK, EngagementTypeOK', NEW a \in Auths,
         Promise!Activate(a) \/ Promise!End(a),
         \A b \in Auths \ {a} : Promise!Rest(b),
         UNCHANGED <<clock, verified, engagement, checked>>
  PROVE  ChangeAuthorization(a)
<1> USE DEF EngagementTypeOK, Promise!Activate, Promise!End, Promise!Rest
<1>1. grant' = grant
  BY EngagementAssumption
<1>2. ASSUME NEW to \in {"active", "ended"}, auth'[a] = to
      PROVE  auth' = [auth EXCEPT ![a] = to]
  BY <1>2
<1> QED BY <1>1, <1>2 DEF ChangeAuthorization

\* Nor is more assumed than is promised: every step of an engagement or of its
\* surroundings leaves each authorization alone or moves it as promised.
THEOREM OnlyPromisedChanges ==
  EngagementTypeOK /\ [EngagementNext]_engagementVars => [Promise!Next]_Promise!vars
<1> SUFFICES ASSUME EngagementTypeOK, [EngagementNext]_engagementVars, NEW a \in Auths
             PROVE  Promise!Activate(a) \/ Promise!End(a) \/ Promise!Rest(a)
  BY DEF Promise!Next
<1> USE DEF EngagementTypeOK, Promise!Activate, Promise!End, Promise!Rest
<1>1. ASSUME NEW b \in Auths, ChangeAuthorization(b)
      PROVE  Promise!Activate(a) \/ Promise!End(a) \/ Promise!Rest(a)
  BY <1>1 DEF ChangeAuthorization
<1>2. ASSUME \/ \E e \in Engagements : Lifecycle(e)
             \/ ChangeAssets \/ Tick \/ UNCHANGED engagementVars
      PROVE  auth' = auth /\ grant' = grant
  BY <1>2 DEF Lifecycle, CreateEngagement, Schedule, Activate, Refuse, Pause, Resume,
     Complete, Cancel, Change, Check, SetKillSwitch, UpdateEngagement, ChangeAssets, Tick,
     engagementVars
<1> QED BY <1>1, <1>2 DEF EngagementNext, Surroundings

-----------------------------------------------------------------------------

\* What cannot be undone: time, the end of an authorization, and the terms,
\* the window and the begin of an engagement that was scheduled.
LEMMA Onward ==
  ASSUME EngagementInv, [EngagementNext]_engagementVars
  PROVE  /\ clock \in Nat /\ clock' \in Nat /\ clock <= clock' /\ grant' = grant
         /\ \A a \in Auths : auth[a] = "ended" => auth'[a] = "ended"
         /\ \A e \in Engagements :
              /\ engagement'[e].linked = engagement[e].linked
              /\ engagement[e].status \in Terminal => engagement'[e].status \in Terminal
              /\ engagement[e].status \notin {"new", "draft"} =>
                   /\ engagement'[e].status \notin {"new", "draft"}
                   /\ engagement'[e].window = engagement[e].window
<1> USE DEF EngagementInv, EngagementTypeOK
<1>0. clock \in Nat
  BY EngagementAssumption DEF Times
<1>1. ASSUME NEW e \in Engagements, Lifecycle(e) \/ UNCHANGED engagementVars
      PROVE  clock' = clock /\ grant' = grant /\ auth' = auth
  BY <1>1 DEF Lifecycle, CreateEngagement, Schedule, Activate, Refuse, Pause, Resume,
     Complete, Cancel, Change, Check, SetKillSwitch, UpdateEngagement, engagementVars
<1>2. ASSUME NEW e \in Engagements, NEW to \in Statuses, Move(e, to),
             to \notin {"new", "draft"} \/ engagement[e].status = "new",
             engagement[e].status \in Terminal => to \in Terminal
      PROVE  \A x \in Engagements :
               /\ engagement'[x].linked = engagement[x].linked
               /\ engagement[x].status \in Terminal => engagement'[x].status \in Terminal
               /\ engagement[x].status \notin {"new", "draft"} =>
                    /\ engagement'[x].status \notin {"new", "draft"}
                    /\ engagement'[x].window = engagement[x].window
  BY <1>2 DEF Move, Rows
<1>3. ASSUME NEW e \in Engagements, CreateEngagement(e) PROVE Move(e, "draft") /\ engagement[e].status = "new"
  BY <1>3 DEF CreateEngagement
<1>4. ASSUME NEW e \in Engagements, Schedule(e) \/ Activate(e)
      PROVE  \E to \in {"scheduled", "active"} : Move(e, to) /\ engagement[e].status \notin Terminal
  BY <1>4 DEF Schedule, Activate, Checked, Terminal
<1>5. ASSUME NEW e \in Engagements, Pause(e) \/ Resume(e) \/ Complete(e) \/ Cancel(e)
      PROVE  \E to \in {"active", "paused", "completed", "cancelled"} :
               Move(e, to) /\ (engagement[e].status \in Terminal => to \in Terminal)
  BY <1>5 DEF Pause, Resume, Complete, Cancel, Change, Terminal
<1>6. ASSUME NEW e \in Engagements,
             \/ \E d \in Drafts : UpdateEngagement(e, d)
             \/ \E b \in BOOLEAN : SetKillSwitch(e, b)
      PROVE  \A x \in Engagements :
               /\ engagement'[x].linked = engagement[x].linked
               /\ engagement'[x].status = engagement[x].status
               /\ engagement[x].status # "draft" => engagement'[x].window = engagement[x].window
  <2>1. ASSUME NEW d \in Drafts, UpdateEngagement(e, d)
        PROVE  /\ \A x \in Engagements \ {e} : engagement'[x] = engagement[x]
               /\ engagement[e].status = "draft"
               /\ engagement'[e] = [engagement[e] EXCEPT !.scope = d.scope, !.tier = d.tier,
                                                         !.window = d.window]
    BY <2>1 DEF UpdateEngagement, Editable
  <2>2. ASSUME NEW b \in BOOLEAN, SetKillSwitch(e, b)
        PROVE  /\ \A x \in Engagements \ {e} : engagement'[x] = engagement[x]
               /\ engagement'[e] = [engagement[e] EXCEPT !.kill = b]
    BY <2>2 DEF SetKillSwitch
  <2>3. engagement[e] \in Rows
    OBVIOUS
  <2>4. CASE \E d \in Drafts : UpdateEngagement(e, d)
    <3>1. PICK d \in Drafts : UpdateEngagement(e, d)
      BY <2>4
    <3>2. engagement'[e].linked = engagement[e].linked /\ engagement'[e].status = "draft"
      BY <2>1, <2>3, <3>1 DEF Rows
    <3> QED BY <2>1, <3>1, <3>2
  <2>5. CASE \E b \in BOOLEAN : SetKillSwitch(e, b)
    <3>1. PICK b \in BOOLEAN : SetKillSwitch(e, b)
      BY <2>5
    <3>2. /\ engagement'[e].linked = engagement[e].linked
          /\ engagement'[e].status = engagement[e].status
          /\ engagement'[e].window = engagement[e].window
      BY <2>2, <2>3, <3>1 DEF Rows
    <3> QED BY <2>2, <3>1, <3>2
  <2> QED BY <1>6, <2>4, <2>5
<1>7. ASSUME NEW e \in Engagements,
             Refuse(e) \/ (\E to \in {"scheduled", "active"} : Check(e, to))
      PROVE  engagement' = engagement
  BY <1>7 DEF Refuse, Check
<1>8. ASSUME NEW e \in Engagements, Lifecycle(e)
       PROVE  \A x \in Engagements :
               /\ engagement'[x].linked = engagement[x].linked
               /\ engagement[x].status \in Terminal => engagement'[x].status \in Terminal
               /\ engagement[x].status \notin {"new", "draft"} =>
                    /\ engagement'[x].status \notin {"new", "draft"}
                    /\ engagement'[x].window = engagement[x].window
  <2>1. {"scheduled", "active", "draft", "paused", "completed", "cancelled"} \subseteq Statuses
    BY DEF Statuses
  <2>2. CASE CreateEngagement(e)
    BY <1>2, <1>3, <2>1, <2>2 DEF Terminal
  <2>3. CASE Schedule(e) \/ Activate(e)
    BY <1>2, <1>4, <2>1, <2>3
  <2>4. CASE Pause(e) \/ Resume(e) \/ Complete(e) \/ Cancel(e)
    BY <1>2, <1>5, <2>1, <2>4
  <2> QED BY <1>6, <1>7, <1>8, <2>2, <2>3, <2>4 DEF Lifecycle
<1>9. ASSUME NEW e \in Engagements, Lifecycle(e)
       PROVE  clock' \in Nat /\ clock <= clock' /\ grant' = grant /\ auth' = auth
  BY <1>0, <1>1, <1>9
<1>10. CASE \E e \in Engagements : Lifecycle(e)
  BY <1>0, <1>8, <1>9, <1>10
<1>11. CASE Surroundings \/ UNCHANGED engagementVars
  <2>1. engagement' = engagement
    BY <1>11 DEF Surroundings, ChangeAuthorization, ChangeAssets, Tick, engagementVars
  <2>2. clock' \in Nat /\ clock <= clock' /\ grant' = grant
    BY <1>0, <1>11 DEF Surroundings, ChangeAuthorization, ChangeAssets, Tick, engagementVars
  <2>3. \A a \in Auths : auth[a] = "ended" => auth'[a] = "ended"
    BY <1>11 DEF Surroundings, ChangeAuthorization, ChangeAssets, Tick, engagementVars
  <2> QED BY <1>0, <2>1, <2>2, <2>3
<1> QED BY <1>10, <1>11 DEF EngagementNext

-----------------------------------------------------------------------------

RequestTypeOK ==
  /\ payload \in [Requests -> Payloads]
  /\ stage \in [Requests -> Stages]
  /\ seen \in [Requests -> [window : (Nat \X Nat) \cup {None}, active : BOOLEAN]]
  /\ answer \in [Requests -> Requests \cup {None}]
  /\ expiry \in [Requests -> Nat]
  /\ over \in [Requests -> SUBSET {"engagement", "authorization", "linked"}]

Lasting ==
  \A r \in Requests :
    /\ "authorization" \in over[r] => AuthorizationOver(payload[r].auth)
    /\ "engagement" \in over[r] => EngagementOver(engagement[payload[r].engagement])

Noticed ==
  \A r \in Requests :
    /\ stage[r] \in {"eligible"} \cup Alive =>
         "engagement" \notin over[r] /\ "authorization" \notin over[r]
    /\ stage[r] = "authorization" /\ "authorization" \in over[r] /\ seen[r].active =>
         clock >= grant[payload[r].auth].window[2]
    /\ /\ stage[r] \in {"engagement", "authorization"}
       /\ "engagement" \in over[r] /\ seen[r].window # None
       => clock >= seen[r].window[2]

Frozen ==
  \A r \in Requests :
    LET row == engagement[payload[r].engagement] IN
    /\ seen[r].window # None =>
         /\ row.status \notin {"new", "draft"} /\ seen[r].window = row.window
         /\ row.window[2] <= grant[row.linked].window[2]
    /\ stage[r] \in {"eligible", "inserted"} => seen[r].window # None
    /\ stage[r] \in {"dispatched", "committed"} =>
         /\ row.status \notin {"new", "draft"} /\ expiry[r] <= row.window[2]
         /\ row.window[2] <= grant[row.linked].window[2]

RequestInv == RequestTypeOK /\ OneExecutionPerKey /\ Lasting /\ Noticed /\ Frozen

\* What requests, engagements and authorizations are, where a proof needs it.
LEMMA Kinds ==
  ASSUME EngagementTypeOK, RequestTypeOK, NEW r \in Requests
  PROVE  /\ clock \in Nat
         /\ payload[r].engagement \in Engagements /\ payload[r].auth \in Auths
         /\ engagement[payload[r].engagement] \in Rows
         /\ engagement[payload[r].engagement].linked \in Auths
         /\ engagement[payload[r].engagement].window \in Nat \X Nat
         /\ \A a \in Auths : grant[a].window \in Nat \X Nat
<1>1. payload[r].engagement \in Engagements /\ payload[r].auth \in Auths
  BY AdmissionAssumption DEF RequestTypeOK
<1>2. \A a \in Auths : grant[a].window \in Nat \X Nat
  BY EngagementAssumption DEF EngagementTypeOK
<1> QED BY <1>1, <1>2, EngagementAssumption DEF EngagementTypeOK, Times, Rows

\* The requests begin within the invariant.
LEMMA RequestsInitially == Init => RequestInv
BY AdmissionAssumption
   DEF Init, RequestInv, RequestTypeOK, OneExecutionPerKey, Lasting, Noticed, Frozen,
   Unread, Stages, Alive, SameKey

\* While the engagements move, nothing that is over begins again and nothing
\* that was read of an open engagement changes.
LEMMA RequestsRest ==
  ASSUME EngagementInv, RequestInv, [EngagementNext]_engagementVars, UNCHANGED requestVars
  PROVE  RequestInv'
<1> USE Onward, AdmissionAssumption DEF RequestInv, requestVars
<1>1. RequestTypeOK'
  BY DEF RequestTypeOK
<1>2. OneExecutionPerKey'
  BY DEF OneExecutionPerKey, SameKey, Alive
<1>3. ASSUME NEW r \in Requests
      PROVE  /\ payload[r].engagement \in Engagements /\ payload[r].auth \in Auths
             /\ engagement[payload[r].engagement].window[2] \in Nat
             /\ grant[payload[r].auth].window[2] \in Nat
             /\ seen[r].window # None => seen[r].window[2] \in Nat
  BY Kinds DEF EngagementInv, RequestTypeOK
<1>4. Lasting'
  <2> SUFFICES ASSUME NEW r \in Requests
               PROVE  /\ "authorization" \in over[r] => AuthorizationOver(payload[r].auth)'
                      /\ "engagement" \in over[r] =>
                           EngagementOver(engagement[payload[r].engagement])'
    BY DEF Lasting
  <2>1. "authorization" \in over[r] => AuthorizationOver(payload[r].auth)'
    BY <1>3 DEF Lasting, AuthorizationOver
  <2>2. "engagement" \in over[r] => EngagementOver(engagement[payload[r].engagement])'
    <3> DEFINE e == payload[r].engagement
    <3>1. engagement'[e].status \in Statuses \cup {"new"}
      BY <1>3, EngagementInvPreserved DEF EngagementInv, EngagementTypeOK, Rows
    <3>2. engagement'[e].status \notin {"new", "draft"} =>
            engagement'[e].status \in Begun \cup Terminal
      BY <3>1 DEF Statuses, Begun, Terminal
    <3>3. EngagementOver(engagement[e]) => EngagementOver(engagement[e])'
      BY <1>3, <3>2 DEF EngagementOver, Begun, Terminal
    <3> QED BY <3>3 DEF Lasting
  <2> QED BY <2>1, <2>2
<1>5. Noticed'
  BY <1>3 DEF Noticed
<1>6. Frozen'
  BY <1>3 DEF Frozen
<1> QED BY <1>1, <1>2, <1>4, <1>5, <1>6

\* What was read of a request that is refused or rolled back is forgotten.
LEMMA FailKeeps ==
  ASSUME EngagementInv, RequestInv, UNCHANGED <<engagementVars, payload, answer>>,
         NEW r \in Requests, Fail(r), stage[r] # "committed",
         \/ UNCHANGED expiry
         \/ expiry' = [expiry EXCEPT ![r] = 0]
  PROVE  RequestInv'
<1> USE DEF RequestInv, engagementVars, Fail, Go
<1>1. RequestTypeOK'
  BY DEF RequestTypeOK, Unread, Stages
<1>2. OneExecutionPerKey'
  BY DEF OneExecutionPerKey, SameKey, Alive, RequestTypeOK
<1>3. Lasting'
  BY DEF Lasting, RequestTypeOK, AuthorizationOver, EngagementOver
<1>4. Noticed'
  BY DEF Noticed, RequestTypeOK, Alive
<1>5. Frozen'
  BY DEF Frozen, RequestTypeOK, Unread
<1> QED BY <1>1, <1>2, <1>3, <1>4, <1>5

\* A request that goes on leaves the rows of all others as they are.
LEMMA LookUpKeeps ==
  ASSUME EngagementInv, RequestInv, NEW r \in Requests, LookUpKey(r) PROVE RequestInv'
<1> USE DEF RequestInv, engagementVars, LookUpKey, Go
<1>1. CASE /\ stage' = [stage EXCEPT ![r] = "looked"]
           /\ over' = [over EXCEPT ![r] = OverNow(r)]
           /\ UNCHANGED <<seen, answer>>
  <2>1. RequestTypeOK'
    BY <1>1 DEF RequestTypeOK, OverNow, Stages
  <2>2. OneExecutionPerKey'
    BY <1>1 DEF OneExecutionPerKey, SameKey, Alive, RequestTypeOK
  <2>3. Lasting'
    BY <1>1 DEF Lasting, RequestTypeOK, OverNow, AuthorizationOver, EngagementOver
  <2>4. Noticed'
    BY <1>1 DEF Noticed, RequestTypeOK, Alive
  <2>5. Frozen'
    BY <1>1 DEF Frozen, RequestTypeOK
  <2> QED BY <2>1, <2>2, <2>3, <2>4, <2>5
<1>2. ASSUME NEW s \in Requests, s \in Committed(payload[r].key), payload[r].key # None, Matches(r, s),
             stage' = [stage EXCEPT ![r] = "repeated"],
             answer' = [answer EXCEPT ![r] = s],
             UNCHANGED <<seen, over>>
      PROVE  RequestInv'
  <2>1. RequestTypeOK'
    BY <1>2 DEF RequestTypeOK, Stages
  <2>2. OneExecutionPerKey'
    BY <1>2 DEF OneExecutionPerKey, SameKey, Alive, RequestTypeOK, Matches, Committed
  <2>3. Lasting'
    BY <1>2 DEF Lasting, RequestTypeOK, AuthorizationOver, EngagementOver
  <2>4. Noticed'
    BY <1>2 DEF Noticed, RequestTypeOK, Alive
  <2>5. Frozen'
    BY <1>2 DEF Frozen, RequestTypeOK
  <2> QED BY <2>1, <2>2, <2>3, <2>4, <2>5
<1>3. CASE Fail(r) /\ UNCHANGED answer
  BY <1>3, FailKeeps
<1> QED BY <1>1, <1>2, <1>3 DEF Committed

\* The window of an open engagement is inside the linked grant as it is read.
LEMMA ReadEngagementKeeps ==
  ASSUME EngagementInv, RequestInv, NEW r \in Requests, ReadEngagement(r) PROVE RequestInv'
<1> DEFINE row == engagement[payload[r].engagement]
           w == IF Open(r, row) THEN row.window ELSE None
<1> USE DEF RequestInv, engagementVars, ReadEngagement, Go
<1>1. CASE row.status = "new" /\ Fail(r)
  BY <1>1, FailKeeps
<1>2. CASE /\ stage' = [stage EXCEPT ![r] = "engagement"]
           /\ seen' = [seen EXCEPT ![r].window = w]
           /\ UNCHANGED over
  <2>0. w \in (Nat \X Nat) \cup {None}
    BY Kinds DEF EngagementInv
  <2>1. RequestTypeOK'
    BY <1>2, <2>0 DEF RequestTypeOK, Stages
  <2>2. OneExecutionPerKey'
    BY <1>2 DEF OneExecutionPerKey, SameKey, Alive, RequestTypeOK
  <2>3. Lasting'
    BY <1>2 DEF Lasting, RequestTypeOK, AuthorizationOver, EngagementOver
  <2>4. w # None => row.status = "active" /\ w = row.window
    BY DEF Open
  <2>5. w # None => row.window[2] <= grant[row.linked].window[2]
    BY <2>4, Kinds DEF EngagementInv, CoveredByGrant, Begun
  <2>6. "engagement" \in over[r] /\ w # None => clock >= w[2]
    BY <2>4 DEF Lasting, EngagementOver, Terminal
  <2>7. /\ seen'[r].window = w
        /\ \A x \in Requests \ {r} : seen'[x] = seen[x] /\ stage'[x] = stage[x]
        /\ stage'[r] = "engagement"
    BY <1>2 DEF RequestTypeOK
  <2>8. Noticed'
    BY <1>2, <2>6, <2>7 DEF Noticed, Alive
  <2>9. Frozen'
    BY <1>2, <2>4, <2>5, <2>7 DEF Frozen
  <2> QED BY <2>1, <2>2, <2>3, <2>8, <2>9
<1> QED BY <1>1, <1>2

\* An authorization that is over is not read as active, but for its time.
LEMMA ReadAuthorizationKeeps ==
  ASSUME EngagementInv, RequestInv, NEW r \in Requests, ReadAuthorization(r) PROVE RequestInv'
<1> USE DEF RequestInv, engagementVars, ReadAuthorization, Go
<1>0. PICK b \in BOOLEAN : /\ b => auth[payload[r].auth] = "active"
                          /\ seen' = [seen EXCEPT ![r].active = b]
  OBVIOUS
<1>1. RequestTypeOK'
  BY <1>0 DEF RequestTypeOK, Stages
<1>2. OneExecutionPerKey'
  BY DEF OneExecutionPerKey, SameKey, Alive, RequestTypeOK
<1>3. Lasting'
  BY DEF Lasting, RequestTypeOK, AuthorizationOver, EngagementOver
<1>4. /\ seen'[r].window = seen[r].window
      /\ seen'[r].active => auth[payload[r].auth] = "active"
      /\ \A x \in Requests \ {r} : seen'[x] = seen[x] /\ stage'[x] = stage[x]
      /\ stage'[r] = "authorization"
  BY <1>0 DEF RequestTypeOK
<1>5. Noticed'
  BY <1>4 DEF Noticed, Lasting, AuthorizationOver, Alive
<1>6. Frozen'
  BY <1>4 DEF Frozen
<1> QED BY <1>1, <1>2, <1>3, <1>5, <1>6

\* Whoever is judged eligible was not over when the request began.
LEMMA JudgeKeeps ==
  ASSUME EngagementInv, RequestInv, NEW r \in Requests, Judge(r) PROVE RequestInv'
<1> USE DEF RequestInv, engagementVars, Judge, Go
<1>1. CASE Fail(r)
  BY <1>1, FailKeeps
<1>2. CASE /\ AuthorizationEligible(r) /\ EngagementEligible(r)
           /\ stage' = [stage EXCEPT ![r] = "eligible"] /\ UNCHANGED <<seen, over>>
  <2>1. RequestTypeOK'
    BY <1>2 DEF RequestTypeOK, Stages
  <2>2. OneExecutionPerKey'
    BY <1>2 DEF OneExecutionPerKey, SameKey, Alive, RequestTypeOK
  <2>3. Lasting'
    BY <1>2 DEF Lasting, RequestTypeOK, AuthorizationOver, EngagementOver
  <2>4. /\ seen[r].window # None /\ ~(clock >= seen[r].window[2])
        /\ seen[r].active /\ ~(clock >= grant[payload[r].auth].window[2])
    <3>1. clock \in Nat /\ grant[payload[r].auth].window \in Nat \X Nat
      BY Kinds DEF EngagementInv
    <3>2. seen[r].window # None => seen[r].window \in Nat \X Nat
      BY DEF RequestTypeOK
    <3> QED BY <1>2, <3>1, <3>2 DEF AuthorizationEligible, EngagementEligible
  <2>5. "engagement" \notin over[r] /\ "authorization" \notin over[r]
    BY <2>4 DEF Noticed
  <2>6. Noticed'
    BY <1>2, <2>5 DEF Noticed, RequestTypeOK, Alive
  <2>7. Frozen'
    BY <1>2, <2>4 DEF Frozen, RequestTypeOK
  <2> QED BY <2>1, <2>2, <2>3, <2>6, <2>7
<1> QED BY <1>1, <1>2

\* The unique index, and waiting for the row ahead, keep a key to one row.
LEMMA InsertKeeps ==
  ASSUME EngagementInv, RequestInv, NEW r \in Requests, Insert(r) PROVE RequestInv'
<1> USE DEF RequestInv, engagementVars, Insert, Go
<1>1. CASE Fail(r)
  BY <1>1, FailKeeps
<1>2. CASE /\ UniqueIndex(r) = {}
           /\ stage' = [stage EXCEPT ![r] = "inserted"] /\ UNCHANGED <<seen, over>>
  <2>1. RequestTypeOK'
    BY <1>2 DEF RequestTypeOK, Stages
  <2>2. \A x \in Requests \ {r} : SameKey(r, x) \/ SameKey(x, r) => stage[x] \notin Alive
    BY <1>2 DEF UniqueIndex, Ahead, Inserted, Alive, SameKey
  <2>3. OneExecutionPerKey'
    <3>1. \A x, y \in Requests : SameKey(x, y)' <=> SameKey(x, y)
      BY DEF SameKey
    <3>2. \A x \in Requests : stage'[x] = IF x = r THEN "inserted" ELSE stage[x]
      BY <1>2 DEF RequestTypeOK
    <3> QED BY <2>2, <3>1, <3>2 DEF OneExecutionPerKey
  <2>4. Lasting'
    BY <1>2 DEF Lasting, RequestTypeOK, AuthorizationOver, EngagementOver
  <2>5. Noticed'
    BY <1>2 DEF Noticed, RequestTypeOK, Alive
  <2>6. Frozen'
    BY <1>2 DEF Frozen, RequestTypeOK
  <2> QED BY <2>1, <2>3, <2>4, <2>5, <2>6
<1> QED BY <1>1, <1>2

\* The credential is bounded by the window that was read.
LEMMA DispatchKeeps ==
  ASSUME EngagementInv, RequestInv, NEW r \in Requests, Dispatch(r) PROVE RequestInv'
<1> USE DEF RequestInv, engagementVars, Dispatch, Go
<1>1. CASE Fail(r) /\ UNCHANGED expiry
  BY <1>1, FailKeeps
<1>2. CASE /\ stage' = [stage EXCEPT ![r] = "dispatched"]
           /\ expiry' = [expiry EXCEPT ![r] = Expiry(r)]
           /\ seen' = [seen EXCEPT ![r] = Unread] /\ UNCHANGED over
  <2>1. seen[r].window \in Nat \X Nat /\ seen[r].window # None /\ clock \in Nat
    BY Kinds DEF Frozen, RequestTypeOK, EngagementInv
  <2>2. Expiry(r) \in Nat /\ Expiry(r) <= seen[r].window[2]
    BY <2>1, AdmissionAssumption DEF Expiry
  <2>3. RequestTypeOK'
    BY <1>2, <2>2 DEF RequestTypeOK, Stages, Unread
  <2>4. OneExecutionPerKey'
    BY <1>2 DEF OneExecutionPerKey, SameKey, Alive, RequestTypeOK
  <2>5. Lasting'
    BY <1>2 DEF Lasting, RequestTypeOK, AuthorizationOver, EngagementOver
  <2>6. Noticed'
    BY <1>2 DEF Noticed, RequestTypeOK, Alive, Unread
  <2>7. Frozen'
    BY <1>2, <2>1, <2>2 DEF Frozen, RequestTypeOK, Unread
  <2> QED BY <2>3, <2>4, <2>5, <2>6, <2>7
<1> QED BY <1>1, <1>2

\* A commit changes no more than the stage.
LEMMA CommitKeeps ==
  ASSUME EngagementInv, RequestInv, NEW r \in Requests, Commit(r) PROVE RequestInv'
<1> USE DEF RequestInv, engagementVars, Commit, Go
<1>1. RequestTypeOK'
  BY DEF RequestTypeOK, Stages
<1>2. OneExecutionPerKey'
  BY DEF OneExecutionPerKey, SameKey, Alive, RequestTypeOK
<1>3. Lasting'
  BY DEF Lasting, RequestTypeOK, AuthorizationOver, EngagementOver
<1>4. Noticed'
  BY DEF Noticed, RequestTypeOK, Alive
<1>5. Frozen'
  BY DEF Frozen, RequestTypeOK
<1> QED BY <1>1, <1>2, <1>3, <1>4, <1>5

\* A rolled back request had not been committed.
LEMMA RollBackKeeps ==
  ASSUME EngagementInv, RequestInv, NEW r \in Requests, RollBack(r) PROVE RequestInv'
BY FailKeeps DEF RollBack, Inserted

\* Both invariants hold in every reachable state.
LEMMA RequestInvariance == Spec => [](EngagementInv /\ RequestInv)
<1>1. EngagementInv /\ RequestInv /\ [Next]_vars => RequestInv'
  <2> SUFFICES ASSUME EngagementInv, RequestInv, [Next]_vars PROVE RequestInv'
    OBVIOUS
  <2>1. CASE EngagementNext /\ UNCHANGED requestVars
    BY <2>1, RequestsRest
  <2>2. ASSUME NEW r \in Requests, LookUpKey(r) \/ Proceed(r) \/ RollBack(r)
        PROVE  RequestInv'
    BY <2>2, LookUpKeeps, ReadEngagementKeeps, ReadAuthorizationKeeps, JudgeKeeps,
       InsertKeeps, DispatchKeeps, CommitKeeps, RollBackKeeps DEF Proceed
  <2>3. CASE UNCHANGED vars
    BY <2>3, RequestsRest DEF vars
  <2> QED BY <2>1, <2>2, <2>3 DEF Next
<1> QED BY <1>1, RequestsInitially, EngagementInvariance, PTL DEF Spec

\* Every reachable state is well typed.
THEOREM AdmissionTypeCorrect == Spec => []TypeOK
<1>1. EngagementInv /\ RequestInv => TypeOK
  BY DEF EngagementInv, RequestInv, RequestTypeOK, TypeOK
<1> QED BY <1>1, RequestInvariance, PTL

\* However create requests race, a key names one execution, and whoever is
\* answered with it asked for it.
THEOREM KeysNameOneExecution == Spec => []OneExecutionPerKey
BY RequestInvariance, PTL DEF RequestInv

\* A request that began after the end of its engagement or authorization comes
\* to nothing, whatever it reads and when.
THEOREM NothingIsAdmittedAfterTheEnd == Spec => []NothingAfterTheEnd
<1>1. RequestInv => NothingAfterTheEnd
  BY DEF RequestInv, Noticed, NothingAfterTheEnd
<1> QED BY <1>1, RequestInvariance, PTL

\* A credential ends with its engagement, and with the authorization too where
\* that is the linked one.
THEOREM CredentialsEndInTime == Spec => []CredentialWithinWindows
<1>1. EngagementInv /\ RequestInv => CredentialWithinWindows
  <2> SUFFICES ASSUME EngagementInv, RequestInv, NEW r \in Requests,
                      stage[r] \in {"dispatched", "committed"}
               PROVE  LET row == engagement[payload[r].engagement] IN
                      /\ expiry[r] <= row.window[2]
                      /\ payload[r].auth = row.linked =>
                           expiry[r] <= grant[payload[r].auth].window[2]
    BY DEF CredentialWithinWindows
  <2>1. /\ engagement[payload[r].engagement].window[2] \in Nat
        /\ grant[payload[r].auth].window[2] \in Nat /\ expiry[r] \in Nat
    BY Kinds DEF EngagementInv, RequestInv, RequestTypeOK
  <2> QED BY <2>1 DEF RequestInv, Frozen
<1> QED BY <1>1, RequestInvariance, PTL

=============================================================================
