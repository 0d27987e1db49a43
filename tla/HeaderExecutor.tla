---------------------------- MODULE HeaderExecutor ----------------------------
(***************************************************************************)
(* One run of the HTTP security-header check inside the isolated worker:   *)
(* the executor's loop over polls, requests, redirects and the GET         *)
(* fallback, and the transport below it, which resolves the host, vets     *)
(* every address and connects to the one it vetted.  The target site may   *)
(* answer anything, its name may resolve to something else at any moment,  *)
(* and the stop signal may go up and down between any two steps.           *)
(*                                                                         *)
(* A url is its origin and its path; a header value, a body and a duration *)
(* are left out, and so is the check of the headers of the final response, *)
(* which may yield either verdict.  There is one template, so the check of *)
(* the specification's template id never fails.                            *)
(***************************************************************************)
EXTENDS PathScope

CONSTANTS
  Urls,         \* urls a target or a Location header may name: [origin, path]
  Unsafe,       \* those that are not http(s), carry credentials or lack a host
  Unparseable,  \* those whose port or host cannot be parsed
  Permitted,    \* origins the transport's scheme and port policy lets through
  Prefixes,     \* path prefixes a scope may name
  Scopes,       \* pairs of scopes an execution may be queued with
  Public,       \* public addresses
  Private,      \* all other addresses
  MaxRequests,  \* max_requests of the frozen safety snapshot
  RedirectLimit \* redirect_limit of the frozen safety snapshot

Addresses == Public \cup Private

\* The path columns of the authorization scope, entries of a text, and those
\* of the engagement scope, a list or none.
Columns   == {"allowed", "excluded"}
Defaults  == [Columns -> SUBSET Prefixes]
Overrides == [Columns -> [given : BOOLEAN, paths : SUBSET Prefixes]]

ASSUME ConstantsAssumption ==
  /\ Unsafe \subseteq Urls /\ Unparseable \subseteq Urls
  /\ \A u \in Urls : u.path \in Seq(STRING) /\ u.path # <<>>
  /\ Prefixes \subseteq Seq(STRING)
  /\ Public \cap Private = {}
  /\ Scopes \subseteq [default : Defaults, override : Overrides]
  /\ MaxRequests \in Nat \ {0}
  /\ RedirectLimit \in Nat

VARIABLES
  pc,         \* where the executor is
  target,     \* the frozen target
  scope,      \* the scopes the snapshot was frozen from
  url,        \* url of the next request
  method,     \* its method
  getUsed,    \* the GET fallback was used
  requests,   \* request_count of the log
  redirects,  \* redirect_count of the log
  pin,        \* addresses the transport has vetted for the request it is in
  outcome,    \* outcome of the run
  stop,       \* the stop signal of the control plane
  dns,        \* what the target's host resolves to
  contacted,  \* requests that left the worker
  polled      \* clear polls since the last of them

logVars  == <<requests, redirects>>
frozen   == <<target, scope>>
runVars  == <<frozen, url, method, getUsed>>
envVars  == <<stop, dns>>
histVars == <<contacted, polled>>
vars     == <<pc, runVars, logVars, pin, outcome, envVars, histVars>>

Outcomes   == {"not_run", "validated", "not_reproduced", "inconclusive",
               "blocked_by_control", "failed_safely"}
Definitive == {"validated", "not_reproduced"}
Methods    == {"HEAD", "GET"}
PollPoints == {"start", "poll", "lastPoll"}

Snapshot(column) == Frozen(scope.override[column], scope.default[column])

PathInScope(u) == PathAllowed(u.path, Snapshot("allowed"), Snapshot("excluded"))

Init ==
  /\ pc = "start"
  /\ target \in Urls \ Unparseable
  /\ scope \in Scopes
  /\ url = target
  /\ method = "HEAD"
  /\ getUsed = FALSE
  /\ requests = 0 /\ redirects = 0
  /\ pin = {}
  /\ outcome = "not_run"
  /\ stop \in BOOLEAN
  /\ dns \in SUBSET Addresses
  /\ contacted = {}
  /\ polled = 0

Finish(o) ==
  /\ pc' = "over"
  /\ outcome' = o

(***************************************************************************)
(* Polls                                                                   *)
(***************************************************************************)

\* The poll reports the signal, or fails in transport, or is answered with
\* anything but a boolean: each of them aborts the run.
Abort ==
  /\ pc \in PollPoints
  /\ Finish("blocked_by_control")
  /\ UNCHANGED <<runVars, logVars, pin, envVars, histVars>>

Clear == ~stop /\ polled' = polled + 1

Start ==
  /\ pc = "start" /\ Clear
  /\ \/ target \in Unsafe /\ Finish("failed_safely")
     \/ target \notin Unsafe /\ ~PathInScope(target) /\ Finish("blocked_by_control")
     \/ /\ target \notin Unsafe /\ PathInScope(target)
        /\ pc' = "poll"
        /\ UNCHANGED outcome
  /\ UNCHANGED <<runVars, logVars, pin, envVars, contacted>>

\* Broken: off by one.
BudgetLeftBroken == requests <= MaxRequests
BudgetLeft == requests < MaxRequests

PollBeforeRequest ==
  /\ pc = "poll" /\ Clear
  /\ \/ ~BudgetLeft /\ Finish("inconclusive")
     \/ BudgetLeft /\ pc' = "resolve" /\ UNCHANGED outcome
  /\ UNCHANGED <<runVars, logVars, pin, envVars, contacted>>

PollBeforeReport ==
  /\ pc = "lastPoll" /\ Clear
  /\ \E o \in Definitive : Finish(o)
  /\ UNCHANGED <<runVars, logVars, pin, envVars, contacted>>

(***************************************************************************)
(* The transport                                                           *)
(***************************************************************************)

\* Broken: one public address is enough.
VettedBroken(answer) == \E a \in answer : a \in Public
\* A name that resolves to nothing, or to a single address that is not
\* public, is refused.
Vetted(answer) == answer # {} /\ answer \subseteq Public

\* The transport checks its policy, resolves the host and keeps the addresses
\* it vetted: the connection goes to one of them, without a second lookup.
\* A resolver that raises anything but its own error fails the run safely.
Resolve ==
  /\ pc = "resolve"
  /\ \/ /\ url.origin \in Permitted /\ Vetted(dns)
        /\ pc' = "fetch"
        /\ pin' = dns
        /\ UNCHANGED outcome
     \/ /\ ~(url.origin \in Permitted /\ Vetted(dns))
        /\ Finish("blocked_by_control")
        /\ UNCHANGED pin
     \/ Finish("failed_safely") /\ UNCHANGED pin
  /\ UNCHANGED <<runVars, logVars, envVars, histVars>>

Send ==
  /\ pc = "fetch"
  /\ \E a \in pin :
       contacted' = contacted \cup
         {[method |-> method, url |-> url, address |-> a, polled |-> polled]}
  /\ polled' = 0
  /\ pin' = {}
  /\ UNCHANGED <<frozen, envVars>>

(***************************************************************************)
(* Responses.  Each of the actions below is one call of the client that    *)
(* sends the request and what the executor makes of the answer.            *)
(***************************************************************************)

\* Broken: the log starts afresh at every redirect.
TallyBroken(hop) == requests' = 1 - hop /\ redirects' = hop
\* hop is 1 for a redirect that is followed, 0 for any other answer.
Tally(hop) == requests' = requests + 1 /\ redirects' = redirects + hop

NoResponse ==
  /\ Send
  /\ \E o \in {"inconclusive", "failed_safely"} : Finish(o)
  /\ UNCHANGED <<url, method, getUsed, logVars>>

\* Broken: the path of a redirect is not looked at.
MayFollowBroken(u) == u \notin Unsafe /\ u.origin = target.origin
MayFollow(u) == u \notin Unsafe /\ u.origin = target.origin /\ PathInScope(u)

RedirectRefused(u) ==
  /\ Send
  /\ u \notin Unparseable /\ ~MayFollow(u)
  /\ Tally(0)
  /\ Finish("blocked_by_control")
  /\ UNCHANGED <<url, method, getUsed>>

\* Reading the port of the next url raises, and nothing in the executor
\* catches it: the worker's task does, and reports failed_safely.
RedirectRaises(u) ==
  /\ Send
  /\ u \in Unparseable
  /\ requests' = requests + 1
  /\ pc' = "raised"
  /\ UNCHANGED <<url, method, getUsed, redirects, outcome>>

\* Broken: straight to the next request.
NextHopBroken == "resolve"
NextHop == "poll"

\* A redirect is counted, then held against the limit; the next hop starts
\* again with HEAD.
Redirected(u) ==
  /\ Send
  /\ u \notin Unparseable /\ MayFollow(u)
  /\ Tally(1)
  /\ \/ /\ redirects' > RedirectLimit
        /\ Finish("inconclusive")
        /\ UNCHANGED <<url, method>>
     \/ /\ redirects' <= RedirectLimit
        /\ pc' = NextHop
        /\ url' = u
        /\ method' = "HEAD"
        /\ UNCHANGED outcome
  /\ UNCHANGED getUsed

\* Broken: the flag is never looked at.
MayFallBackBroken == method = "HEAD"
MayFallBack == method = "HEAD" /\ ~getUsed

\* 405 or 501 to a HEAD.
HeadUnsupported ==
  /\ Send
  /\ MayFallBack
  /\ Tally(0)
  /\ pc' = NextHop
  /\ method' = "GET"
  /\ getUsed' = TRUE
  /\ UNCHANGED <<url, outcome>>

\* Any other answer is final, and so is a redirect without a Location and a
\* HEAD that is not supported once the fallback is used up.
FinalResponse ==
  /\ Send
  /\ Tally(0)
  /\ pc' = "lastPoll"
  /\ UNCHANGED <<url, method, getUsed, outcome>>

(***************************************************************************)
(* The surroundings                                                        *)
(***************************************************************************)

\* The switch is toggled, or the row is closed, on the control plane.
Toggle ==
  /\ stop' = ~stop
  /\ UNCHANGED <<pc, runVars, logVars, pin, outcome, dns, histVars>>

\* External: the target's name resolves to something else.
Rebind ==
  /\ dns' \in SUBSET Addresses
  /\ UNCHANGED <<pc, runVars, logVars, pin, outcome, stop, histVars>>

-----------------------------------------------------------------------------

Respond ==
  \/ NoResponse \/ HeadUnsupported \/ FinalResponse
  \/ \E u \in Urls : RedirectRefused(u) \/ RedirectRaises(u) \/ Redirected(u)

Step == Abort \/ Start \/ PollBeforeRequest \/ PollBeforeReport \/ Resolve \/ Respond

Next == Step \/ Toggle \/ Rebind

Spec == Init /\ [][Next]_vars

\* The worker process runs the coroutine on; every poll and every request has
\* a timeout and the lookup of a name the resolver's own, so each step ends.
FairSpec == Spec /\ WF_vars(Step)

(***************************************************************************)
(* Properties                                                              *)
(***************************************************************************)

TypeOK ==
  /\ pc \in PollPoints \cup {"resolve", "fetch", "over", "raised"}
  /\ target \in Urls /\ url \in Urls /\ scope \in Scopes
  /\ method \in Methods
  /\ getUsed \in BOOLEAN
  /\ requests \in 0..MaxRequests
  /\ redirects \in 0..(RedirectLimit + 1)
  /\ pin \subseteq Addresses
  /\ outcome \in Outcomes
  /\ stop \in BOOLEAN
  /\ dns \subseteq Addresses
  /\ contacted \subseteq
       [method : Methods, url : Urls, address : Addresses, polled : 0..2]
  /\ polled \in 0..2

\* Wherever the site redirects, no request leaves the origin of the frozen
\* target or the frozen path scope, and none uses an origin the transport's
\* policy does not permit.
InScopeOnly ==
  \A c \in contacted :
    /\ c.url \notin Unsafe
    /\ c.url.origin = target.origin /\ c.url.origin \in Permitted
    /\ PathInScope(c.url)

\* What the two rows say of a path: column by column the engagement's prefixes
\* if it has any of its own, else the authorization's.
Effective(column) ==
  IF scope.override[column].given THEN scope.override[column].paths
                                  ELSE scope.default[column]

\* At a prefix or below it, as text: the path, cut where one of its segments
\* ends, is the prefix without the slash it ends in.
Below(path, prefix) ==
  path = prefix \/ \E n \in 0..(Len(path) - 1) : SubSeq(path, 1, n) = Bare(prefix)

Promised(path) ==
  /\ \A p \in Effective("excluded") : ~Below(path, p)
  /\ Effective("allowed") # {} => \E p \in Effective("allowed") : Below(path, p)

\* Every request is one the two rows allow.
ScopeAsAuthorized == \A c \in contacted : Promised(c.url.path)

\* So it is, whatever the site redirects to, where the allowed prefixes are the
\* engagement's own or the authorization has none to inherit; of an inherited
\* exclusion it is true because nothing is requested.
OverridesHold ==
  scope.override["allowed"].given \/ scope.default["allowed"] = {} => ScopeAsAuthorized

\* However the name is rebound between the check and the connection, and
\* between two hops, only public addresses are connected to.
OnlyPublicContacted == \A c \in contacted : c.address \in Public

\* Every request had a clear poll of its own before it, and a definitive
\* verdict one more after the last answer ("polled before each request and
\* before returning").
PolledEachTime ==
  /\ \A c \in contacted : c.polled >= 1
  /\ outcome \in Definitive => contacted # {} /\ polled = 1

\* The GET fallback is used for one url of the run and only after a HEAD of
\* that very url.
OneFallback ==
  \A c \in contacted : c.method = "GET" =>
    /\ \E d \in contacted : d.method = "HEAD" /\ d.url = c.url
    /\ \A d \in contacted : d.method = "GET" => d.url = c.url

\* No exception leaves the executor: every failure mode is one of its
\* outcomes.
NothingEscapes == pc # "raised"

\* A run ends, however long the site redirects in circles.
RunEnds == <>(pc \in {"over", "raised"})

\* The run is a target run as the execution model assumes it: the detail of
\* redirects, fallback and resolution stays within its one request step.
Phase ==
  IF pc \in {"start", "poll"} THEN "poll"
  ELSE IF pc \in {"resolve", "fetch"} THEN "request"
  ELSE IF pc = "lastPoll" THEN "lastPoll" ELSE "over"

Reported == IF pc = "raised" THEN "failed_safely" ELSE outcome

Run == INSTANCE TargetRun WITH
  Definitive <- Definitive, Indefinite <- {"inconclusive", "failed_safely"},
  Blocked <- "blocked_by_control", None <- "not_run",
  phase <- Phase, sent <- IF Phase = "over" THEN 0 ELSE requests, report <- Reported

ImplementsTargetRun == Run!Spec

=============================================================================
