------------------------------ MODULE Engagement ------------------------------
(***************************************************************************)
(* The engagements of one project: the testing windows in which executions *)
(* may be created, each linked to an authorization whose grant has to      *)
(* cover it.                                                               *)
(*                                                                         *)
(* Every handler locks its engagement.  schedule and activate then read    *)
(* the authorization and the assets, which others change meanwhile, before *)
(* they write: two steps, with the lock held in between.  The              *)
(* authorizations are what Authorization.tla shows of them: their terms do *)
(* not change once they are active, and what ended stays ended.            *)
(***************************************************************************)
EXTENDS Naturals

CONSTANTS
  Engagements,
  Auths,        \* authorizations, any of which an engagement may link
  Assets,
  Tiers,        \* risk tiers by their order, a set of numbers
  Granted,      \* the terms of all authorizations, one function for each case
  Drafts,       \* what a payload may say of scope, tier and window
  MaxTime,      \* bound of the clock
  MaxDuration   \* longest engagement

ASSUME EngagementAssumption ==
  /\ MaxTime \in Nat /\ MaxDuration \in Nat /\ Tiers \subseteq Nat
  /\ Granted \subseteq [Auths -> [assets : SUBSET Assets, tier : Tiers,
                                  window : Nat \X Nat]]
  /\ Drafts \subseteq [scope : SUBSET Assets, tier : Tiers,
                       window : Nat \X Nat]

VARIABLES
  clock,
  verified,     \* assets that are verified right now
  auth,         \* status of each authorization
  grant,        \* its terms
  engagement,   \* the row, with status "new" before it exists
  checked       \* the transaction that has checked the authorization

engagementVars == <<clock, verified, auth, grant, engagement, checked>>

Times == 0..MaxTime
Statuses == {"draft", "scheduled", "active", "paused", "completed", "cancelled"}
Terminal == {"completed", "cancelled"}

Transitions ==
  [s \in Statuses |->
    IF s = "draft" THEN {"scheduled", "cancelled"}
    ELSE IF s = "scheduled" THEN {"active", "cancelled"}
    ELSE IF s = "active" THEN {"paused", "completed"}
    ELSE IF s = "paused" THEN {"active", "cancelled"} ELSE {}]

\* Broken: any window that does not end before it starts.
InRangeBroken(w) == w[1] <= w[2]
InRange(w) == w[1] < w[2] /\ w[2] - w[1] <= MaxDuration

Rows ==
  [status : Statuses \cup {"new"}, linked : Auths, scope : SUBSET Assets,
   tier : Tiers, window : Nat \X Nat,
   kill : BOOLEAN]

\* A row as its payload describes it.
RowOf(a, d) ==
  [status |-> "new", linked |-> a, scope |-> d.scope, tier |-> d.tier,
   window |-> d.window, kill |-> FALSE]

EngagementInit ==
  /\ clock = 0
  /\ verified \in SUBSET Assets
  /\ auth = [a \in Auths |-> "pending"]
  /\ grant \in Granted
  /\ engagement \in [Engagements -> {RowOf(a, d) : a \in Auths, d \in {x \in Drafts : InRange(x.window)}}]
  /\ checked = [e \in Engagements |-> "idle"]

\* No transaction holds the row's lock, and the row exists.
Unlocked(e) == checked[e] = "idle" /\ engagement[e].status # "new"

\* The conditional update every transition ends with.
Move(e, to) == engagement' = [engagement EXCEPT ![e].status = to]

(***************************************************************************)
(* Drafts                                                                  *)
(***************************************************************************)

\* What the payload says is what a row that does not exist yet already holds.
CreateEngagement(e) ==
  /\ engagement[e].status = "new"
  /\ auth[engagement[e].linked] = "active"
  /\ engagement[e].scope # {} /\ engagement[e].scope \subseteq verified
  /\ Move(e, "draft")
  /\ UNCHANGED <<clock, verified, auth, grant, checked>>

\* Broken: a scheduled engagement may be edited.
EditableBroken(e) == engagement[e].status \in {"draft", "scheduled"}
Editable(e) == engagement[e].status = "draft"

\* Scopes are replaced by scopes of verified assets or left alone; a draft may
\* be left without any.
UpdateEngagement(e, d) ==
  /\ Unlocked(e) /\ Editable(e)
  /\ d.scope # engagement[e].scope => d.scope \subseteq verified
  /\ InRange(d.window)
  /\ engagement' = [engagement EXCEPT ![e].scope = d.scope, ![e].tier = d.tier,
                                      ![e].window = d.window]
  /\ UNCHANGED <<clock, verified, auth, grant, checked>>

(***************************************************************************)
(* schedule and activate                                                   *)
(***************************************************************************)

\* Broken: the end of the engagement is not held against the grant.
CoversBroken(g, r) ==
  g.window[1] <= r.window[1] /\ r.tier <= g.tier
Covers(g, r) ==
  /\ g.window[1] <= r.window[1] /\ r.window[2] <= g.window[2]
  /\ r.tier <= g.tier

\* The linked authorization is active, in its window and covers the engagement.
LinkedAuthorizationHolds(e) ==
  LET g == grant[engagement[e].linked] IN
  /\ auth[engagement[e].linked] = "active"
  /\ g.window[1] <= clock /\ clock < g.window[2]
  /\ Covers(g, engagement[e])

\* Locks the row and reads the authorization.
Check(e, to) ==
  /\ Unlocked(e)
  /\ engagement[e].status = (IF to = "scheduled" THEN "draft" ELSE "scheduled")
  /\ LinkedAuthorizationHolds(e)
  /\ InRange(engagement[e].window)
  /\ checked' = [checked EXCEPT ![e] = to]
  /\ UNCHANGED <<clock, verified, auth, grant, engagement>>

\* Reads the scope's assets one by one; the authorization's scopes are those
\* that were read with it.
ScopesHold(e) ==
  LET r == engagement[e] IN
  r.scope # {} /\ r.scope \subseteq verified /\ r.scope \subseteq grant[r.linked].assets

Schedule(e) ==
  /\ checked[e] = "scheduled"
  /\ ScopesHold(e)
  /\ Move(e, "scheduled")
  /\ checked' = [checked EXCEPT ![e] = "idle"]
  /\ UNCHANGED <<clock, verified, auth, grant>>

Activate(e) ==
  /\ checked[e] = "active"
  /\ ScopesHold(e)
  /\ engagement[e].window[1] <= clock /\ clock < engagement[e].window[2]
  /\ Move(e, "active")
  /\ checked' = [checked EXCEPT ![e] = "idle"]
  /\ UNCHANGED <<clock, verified, auth, grant>>

\* Refused for its scopes or the clock, or the connection breaks.
Refuse(e) ==
  /\ checked[e] # "idle"
  /\ checked' = [checked EXCEPT ![e] = "idle"]
  /\ UNCHANGED <<clock, verified, auth, grant, engagement>>

(***************************************************************************)
(* pause, resume, complete, cancel and the kill switch                     *)
(***************************************************************************)

\* None of these looks at the authorization, the window or the scopes.
Change(e, from, to) ==
  /\ Unlocked(e)
  /\ engagement[e].status \in from /\ to \in Transitions[engagement[e].status]
  /\ Move(e, to)
  /\ UNCHANGED <<clock, verified, auth, grant, checked>>

Pause(e)    == Change(e, {"active"}, "paused")
Resume(e)   == Change(e, {"paused"}, "active")
Complete(e) == Change(e, {"active"}, "completed")
Cancel(e)   == Change(e, Statuses, "cancelled")

SetKillSwitch(e, b) ==
  /\ Unlocked(e)
  /\ engagement[e].status \notin Terminal
  /\ engagement' = [engagement EXCEPT ![e].kill = b]
  /\ UNCHANGED <<clock, verified, auth, grant, checked>>

(***************************************************************************)
(* The surroundings                                                        *)
(***************************************************************************)

\* Authorizations are activated in their window, and revoked, rejected or
\* expired at any time.
ChangeAuthorization(a) ==
  /\ \/ /\ auth[a] = "pending"
        /\ grant[a].window[1] <= clock /\ clock < grant[a].window[2]
        /\ auth' = [auth EXCEPT ![a] = "active"]
     \/ auth[a] # "ended" /\ auth' = [auth EXCEPT ![a] = "ended"]
  /\ UNCHANGED <<clock, verified, grant, engagement, checked>>

ChangeAssets ==
  /\ verified' \in SUBSET Assets
  /\ UNCHANGED <<clock, auth, grant, engagement, checked>>

Tick ==
  /\ clock < MaxTime
  /\ clock' = clock + 1
  /\ UNCHANGED <<verified, auth, grant, engagement, checked>>

-----------------------------------------------------------------------------

Lifecycle(e) ==
  \/ CreateEngagement(e) \/ Schedule(e) \/ Activate(e) \/ Refuse(e)
  \/ Pause(e) \/ Resume(e) \/ Complete(e) \/ Cancel(e)
  \/ \E to \in {"scheduled", "active"} : Check(e, to)
  \/ \E b \in BOOLEAN : SetKillSwitch(e, b)
  \/ \E d \in Drafts : UpdateEngagement(e, d)

Surroundings == (\E a \in Auths : ChangeAuthorization(a)) \/ ChangeAssets \/ Tick

EngagementNext == (\E e \in Engagements : Lifecycle(e)) \/ Surroundings

EngagementSpec == EngagementInit /\ [][EngagementNext]_engagementVars

(***************************************************************************)
(* Properties                                                              *)
(***************************************************************************)

EngagementTypeOK ==
  /\ clock \in Times
  /\ verified \subseteq Assets
  /\ auth \in [Auths -> {"pending", "active", "ended"}]
  /\ grant \in Granted
  /\ engagement \in [Engagements -> Rows]
  /\ \A e \in Engagements :
       engagement[e].window[2] - engagement[e].window[1] \in 1..MaxDuration
  /\ checked \in [Engagements -> {"idle", "scheduled", "active"}]

Begun == {"scheduled", "active", "paused", "completed"}

\* An engagement that was ever scheduled lies inside the grant of its linked
\* authorization - window, tier and assets - whatever was edited before, and
\* however the authorization fared since; and that authorization was active.
CoveredByGrant ==
  \A e \in Engagements : engagement[e].status \in Begun =>
    LET r == engagement[e]
        g == grant[r.linked]
    IN  /\ auth[r.linked] # "pending"
        /\ g.window[1] <= r.window[1] /\ r.window[2] <= g.window[2]
        /\ r.tier <= g.tier
        /\ r.scope # {} /\ r.scope \subseteq g.assets

\* What Authorization promises of the authorizations. The terms a pending one
\* has here are those it will be activated with.
Promise == INSTANCE GrantLifecycle WITH phase <- auth, deal <- grant

=============================================================================
