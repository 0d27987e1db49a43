------------------------ MODULE HeaderExecutorProofs ------------------------
(***************************************************************************)
(* Proofs about HeaderExecutor, for every set of urls, every scope, every  *)
(* set of addresses and every budget.                                      *)
(***************************************************************************)
EXTENDS HeaderExecutor, WellFoundedInduction, TLAPS

InTransport == {"resolve", "fetch"}
Going       == {"poll", "resolve", "fetch", "lastPoll"}

\* The url the executor is at may be requested.
Located ==
  /\ pc = "start" => url = target
  /\ pc \in Going => MayFollow(url)
  /\ pc = "fetch" => url.origin \in Permitted /\ pin \subseteq Public

\* The budget was checked, and the number of clear polls since the last
\* request is known, at each point of the loop.
Counted ==
  /\ pc \in InTransport => requests < MaxRequests
  /\ pc \in {"start", "poll"} \cup InTransport => redirects <= RedirectLimit
  /\ pc \in {"start", "lastPoll"} => polled = 0
  /\ pc = "poll" => polled \in 0..1
  /\ pc \in InTransport => polled \in 1..2
  /\ pc = "lastPoll" => contacted # {}
  /\ pc # "over" => outcome = "not_run"

\* GET comes from the fallback, which is for the url whose HEAD was sent, and
\* no GET was sent before it.
Fallback ==
  /\ ~getUsed => method = "HEAD" /\ \A c \in contacted : c.method # "GET"
  /\ method = "GET" /\ pc \in {"start", "poll"} \cup InTransport =>
       /\ \E d \in contacted : d.method = "HEAD" /\ d.url = url
       /\ \A c \in contacted : c.method # "GET"

Inv ==
  /\ TypeOK /\ Located /\ Counted /\ Fallback
  /\ InScopeOnly /\ OnlyPublicContacted /\ PolledEachTime /\ OneFallback

\* The run starts with an empty history and both counters at zero.
LEMMA InitInv == Init => Inv
<1> SUFFICES ASSUME Init PROVE Inv
  OBVIOUS
<1>1. TypeOK
  <2>1. requests \in 0..MaxRequests /\ redirects \in 0..(RedirectLimit + 1)
    BY ConstantsAssumption DEF Init
  <2>2. dns \subseteq Addresses /\ pin \subseteq Addresses /\ polled \in 0..2
    BY DEF Init
  <2> QED BY <2>1, <2>2 DEF Init, TypeOK, PollPoints, Methods, Outcomes
<1>2. Located /\ Counted /\ Fallback
  BY ConstantsAssumption DEF Init, Located, Counted, Fallback, Going, InTransport
<1>3. InScopeOnly /\ OnlyPublicContacted /\ PolledEachTime /\ OneFallback
  BY DEF Init, InScopeOnly, OnlyPublicContacted, PolledEachTime, OneFallback, Definitive
<1> QED BY <1>1, <1>2, <1>3 DEF Inv

\* What the history says about a request stays true of the larger history.
LEMMA SendInv ==
  ASSUME Inv, Send
  PROVE  /\ pc = "fetch"
         /\ contacted' # {}
         /\ contacted' \subseteq [method : Methods, url : Urls,
                                  address : Addresses, polled : 0..2]
         /\ InScopeOnly' /\ OnlyPublicContacted' /\ OneFallback'
         /\ \A c \in contacted' : c.polled >= 1
         /\ ~getUsed => \A c \in contacted' : c.method # "GET"
         /\ ~getUsed => \E d \in contacted' : d.method = "HEAD" /\ d.url = url
<1>1. PICK a \in pin :
        contacted' = contacted \cup
          {[method |-> method, url |-> url, address |-> a, polled |-> polled]}
  BY DEF Send
<1> DEFINE new == [method |-> method, url |-> url, address |-> a, polled |-> polled]
<1>2. contacted' = contacted \cup {new} /\ pc = "fetch" /\ target' = target /\ scope' = scope
  BY <1>1 DEF Send, frozen
<1>3. new \in [method : Methods, url : Urls, address : Addresses, polled : 0..2]
  BY DEF Inv, TypeOK
<1>4. /\ new.method = method /\ new.url = url /\ new.address = a /\ new.polled = polled
  OBVIOUS
<1>5. a \in Public /\ MayFollow(url) /\ url.origin \in Permitted /\ polled \in 1..2
  BY <1>2 DEF Inv, Located, Counted, Going, InTransport
<1> HIDE DEF new
<1>6. contacted' \subseteq [method : Methods, url : Urls, address : Addresses, polled : 0..2]
  BY <1>2, <1>3 DEF Inv, TypeOK
<1>7. InScopeOnly'
  BY <1>2, <1>4, <1>5 DEF Inv, InScopeOnly, MayFollow, PathInScope, Snapshot
<1>8. OnlyPublicContacted'
  BY <1>2, <1>4, <1>5 DEF Inv, OnlyPublicContacted
<1>9. \A c \in contacted' : c.polled >= 1
  BY <1>2, <1>4, <1>5 DEF Inv, PolledEachTime
<1>10. OneFallback'
  <2>1. CASE method = "GET"
    BY <1>2, <1>4, <2>1 DEF Inv, OneFallback, Fallback, InTransport
  <2>2. CASE method = "HEAD"
    BY <1>2, <1>4, <2>2 DEF Inv, OneFallback
  <2> QED BY <2>1, <2>2 DEF Inv, TypeOK, Methods
<1>11. ~getUsed => /\ \A c \in contacted' : c.method # "GET"
                   /\ \E d \in contacted' : d.method = "HEAD" /\ d.url = url
  BY <1>2, <1>4 DEF Inv, Fallback
<1> QED BY <1>2, <1>6, <1>7, <1>8, <1>9, <1>10, <1>11

\* The history properties hold as long as nothing is sent.
LEMMA HistoryKept ==
  ASSUME Inv, UNCHANGED <<contacted, target, scope>>
  PROVE  /\ InScopeOnly' /\ OnlyPublicContacted' /\ OneFallback'
         /\ \A c \in contacted' : c.polled >= 1
BY DEF Inv, InScopeOnly, OnlyPublicContacted, OneFallback, PolledEachTime, PathInScope, Snapshot

\* A poll, the start and an abort send nothing: only the count of clear polls moves.
LEMMA PollInv ==
  ASSUME Inv, Abort \/ Start \/ PollBeforeRequest \/ PollBeforeReport
  PROVE  Inv'
<1> USE DEF runVars, frozen, logVars, envVars, histVars, Finish, Clear
<1>1. UNCHANGED <<contacted, target, scope, url, method, getUsed, requests, redirects, pin, stop, dns>>
  BY DEF Abort, Start, PollBeforeRequest, PollBeforeReport
<1>2. TypeOK'
  <2>1. polled' \in 0..2
    BY DEF Inv, TypeOK, Counted, Abort, Start, PollBeforeRequest, PollBeforeReport
  <2>2. pc' \in {"poll", "resolve", "over"} /\ outcome' \in Outcomes
    BY DEF Inv, TypeOK, Abort, Start, PollBeforeRequest, PollBeforeReport, Outcomes,
           Definitive
  <2>3. /\ pc' \in PollPoints \cup {"resolve", "fetch", "over", "raised"}
        /\ target' \in Urls /\ url' \in Urls /\ scope' \in Scopes /\ method' \in Methods
        /\ getUsed' \in BOOLEAN /\ stop' \in BOOLEAN
        /\ requests' \in 0..MaxRequests /\ redirects' \in 0..(RedirectLimit + 1)
    BY <1>1, <2>2 DEF Inv, TypeOK, PollPoints
  <2>4. /\ pin' \subseteq Addresses /\ dns' \subseteq Addresses
        /\ contacted' \subseteq [method : Methods, url : Urls,
                                 address : Addresses, polled : 0..2]
    BY <1>1 DEF Inv, TypeOK
  <2> QED BY <2>1, <2>2, <2>3, <2>4 DEF TypeOK
<1>3. Located'
  BY <1>1 DEF Inv, Located, Abort, Start, PollBeforeRequest, PollBeforeReport, Going,
              MayFollow, PathInScope, Snapshot
<1>4. Counted'
  BY <1>1 DEF Inv, TypeOK, Counted, Abort, Start, PollBeforeRequest, PollBeforeReport,
              BudgetLeft, InTransport
<1>5. Fallback'
  BY <1>1 DEF Inv, Fallback, Abort, Start, PollBeforeRequest, PollBeforeReport,
              InTransport, TypeOK, Counted
<1>6. outcome' \in Definitive => contacted' # {} /\ polled' = 1
  BY <1>1 DEF Inv, PolledEachTime, Counted, TypeOK, Abort, Start, PollBeforeRequest,
              PollBeforeReport, Definitive, PollPoints
<1> QED BY <1>1, <1>2, <1>3, <1>4, <1>5, <1>6, HistoryKept DEF Inv, PolledEachTime

\* The transport pins addresses only when the policy accepts every one of them.
LEMMA ResolveInv ==
  ASSUME Inv, Resolve
  PROVE  Inv'
<1> USE DEF runVars, frozen, logVars, envVars, histVars, Finish, Resolve, Inv
<1>1. TypeOK'
  BY DEF TypeOK, Vetted, Addresses, PollPoints, Outcomes
<1>2. Located'
  BY DEF Located, Vetted, Going, MayFollow, PathInScope, Snapshot
<1>3. Counted' /\ Fallback'
  BY DEF Counted, Fallback, InTransport
<1>4. outcome' \notin Definitive
  BY DEF Counted, Definitive
<1> QED BY <1>1, <1>2, <1>3, <1>4, HistoryKept DEF PolledEachTime

\* Each way a request can end keeps the invariant; what was sent is SendInv's part.
LEMMA RespondInv ==
  ASSUME Inv, Respond
  PROVE  Inv'
<1> USE DEF Finish, Tally, logVars
<1>1. Send /\ pin' = {} /\ polled' = 0 /\ UNCHANGED <<target, scope, stop, dns>>
  BY DEF Respond, NoResponse, HeadUnsupported, FinalResponse, RedirectRefused,
         RedirectRaises, Redirected, Send, envVars, frozen
<1>2. /\ pc = "fetch" /\ outcome = "not_run" /\ requests < MaxRequests
      /\ redirects <= RedirectLimit /\ MayFollow(url)
  BY <1>1, SendInv DEF Inv, Counted, Located, InTransport, Going
<1>3. TypeOK'
  <2> USE DEF Respond, NoResponse, HeadUnsupported, FinalResponse, RedirectRefused,
              RedirectRaises, Redirected
  <2>1. pc' \in {"poll", "lastPoll", "over", "raised"}
    BY DEF NextHop
  <2>2. outcome' \in Outcomes
    BY <1>2 DEF Outcomes
  <2>3. requests' \in {requests, requests + 1} /\ redirects' \in {redirects, redirects + 1}
    <3>1. redirects \in Nat /\ redirects + 0 = redirects
      BY DEF Inv, TypeOK
    <3> QED BY <3>1
  <2>4. requests' \in 0..MaxRequests /\ redirects' \in 0..(RedirectLimit + 1)
    BY <1>2, <2>3, ConstantsAssumption DEF Inv, TypeOK
  <2>5. url' \in Urls /\ method' \in Methods /\ getUsed' \in BOOLEAN
    BY DEF Inv, TypeOK, Methods
  <2> QED BY <1>1, <2>1, <2>2, <2>4, <2>5, SendInv DEF Inv, TypeOK, PollPoints
<1>4. Located'
  BY <1>1, <1>2 DEF Located, Respond, NoResponse, HeadUnsupported, FinalResponse,
        RedirectRefused, RedirectRaises, Redirected, NextHop, Going, MayFollow, PathInScope, Snapshot
<1>5. Counted'
  BY <1>1, <1>2, SendInv
     DEF Inv, TypeOK, Counted, Respond, NoResponse, HeadUnsupported, FinalResponse,
         RedirectRefused, RedirectRaises, Redirected, NextHop, InTransport
<1>6. Fallback'
  BY <1>1, <1>2, SendInv
     DEF Inv, Fallback, Respond, NoResponse, HeadUnsupported, FinalResponse,
         RedirectRefused, RedirectRaises, Redirected, NextHop, MayFallBack, InTransport
<1>7. outcome' \notin Definitive
  BY <1>2 DEF Respond, NoResponse, HeadUnsupported, FinalResponse, RedirectRefused,
        RedirectRaises, Redirected, Definitive
<1> QED BY <1>1, <1>3, <1>4, <1>5, <1>6, <1>7, SendInv DEF Inv, PolledEachTime

\* The stop signal and the name server move without the executor.
LEMMA SurroundingsInv ==
  ASSUME Inv, Toggle \/ Rebind \/ UNCHANGED vars
  PROVE  Inv'
<1> USE DEF Toggle, Rebind, vars, runVars, frozen, logVars, envVars, histVars, Inv
<1>1. TypeOK'
  BY DEF TypeOK
<1>2. Located' /\ Counted' /\ Fallback'
  BY DEF Located, Counted, Fallback, MayFollow, PathInScope, Snapshot
<1>3. outcome' \in Definitive => contacted' # {} /\ polled' = 1
  BY DEF PolledEachTime
<1> QED BY <1>1, <1>2, <1>3, HistoryKept DEF PolledEachTime

\* The invariant holds in every reachable state.
THEOREM Invariance == Spec => []Inv
<1>1. Inv /\ [Next]_vars => Inv'
  BY PollInv, ResolveInv, RespondInv, SurroundingsInv DEF Next, Step
<1> QED BY <1>1, InitInv, PTL DEF Spec

\* Every reachable state is well typed: no run answers more requests than its
\* budget allows (execute_http_security_header_validation).
THEOREM RunTypeCorrect == Spec => []TypeOK
<1>1. Inv => TypeOK
  BY DEF Inv
<1> QED BY <1>1, Invariance, PTL

\* No request leaves the frozen scope, whatever the site redirects to
\* (_follow_redirect, _path_in_scope).
THEOREM RequestsInScope == Spec => []InScopeOnly
<1>1. Inv => InScopeOnly
  BY DEF Inv
<1> QED BY <1>1, Invariance, PTL

\* No connection goes to an address that is not public, however the name is
\* rebound (SafeHttpTransport.request).
THEOREM ConnectionsPublic == Spec => []OnlyPublicContacted
<1>1. Inv => OnlyPublicContacted
  BY DEF Inv
<1> QED BY <1>1, Invariance, PTL

\* Every request and every definitive verdict has its own clear poll.
THEOREM EachRequestPolled == Spec => []PolledEachTime
<1>1. Inv => PolledEachTime
  BY DEF Inv
<1> QED BY <1>1, Invariance, PTL

\* GET is the fallback for one url whose HEAD was sent.
THEOREM FallbackOnce == Spec => []OneFallback
<1>1. Inv => OneFallback
  BY DEF Inv
<1> QED BY <1>1, Invariance, PTL

-----------------------------------------------------------------------------
(***************************************************************************)
(* The refinement.  The start of a run is part of its first poll, and the  *)
(* transport is part of the request.                                       *)
(***************************************************************************)

\* The run as the execution model knows it: its steps never depend on urls.
THEOREM RunRefinement == Spec => ImplementsTargetRun
<1> USE DEF Phase, Reported, Finish
<1>1. Init => Run!Init
  BY DEF Init, Run!Init
<1>2. ASSUME Inv, [Next]_vars PROVE [Run!Next]_Run!vars
  <2> USE DEF runVars, frozen, logVars, envVars, histVars
  <2>1. ASSUME Abort PROVE Run!Stop
    BY <1>2, <2>1 DEF Abort, Run!Stop, Run!End, PollPoints, Inv, TypeOK
  <2>2. ASSUME Start PROVE Run!GiveUp \/ UNCHANGED Run!vars
    BY <2>2 DEF Start, Run!GiveUp, Run!End, Run!vars
  <2>3. ASSUME PollBeforeRequest PROVE Run!Proceed \/ Run!Exhausted
    BY <1>2, <2>3, ConstantsAssumption
       DEF PollBeforeRequest, BudgetLeft, Clear, Run!Proceed, Run!Exhausted, Run!End,
           Inv, TypeOK
  <2>4. ASSUME PollBeforeReport PROVE Run!Conclude
    BY <2>4 DEF PollBeforeReport, Clear, Run!Conclude, Run!End
  <2>5. ASSUME Resolve PROVE Run!Request \/ UNCHANGED Run!vars
    BY <2>5 DEF Resolve, Run!Request, Run!End, Run!vars
  <2>6. ASSUME Respond PROVE Run!Request
    <3> USE DEF Run!Request, Run!End, Send, Tally, NextHop
    <3>1. pc = "fetch" /\ outcome = "not_run"
      BY <1>2, <2>6 DEF Respond, NoResponse, HeadUnsupported, FinalResponse,
           RedirectRefused, RedirectRaises, Redirected, Inv, Counted
    <3> QED BY <2>6, <3>1 DEF Respond, NoResponse, HeadUnsupported, FinalResponse,
           RedirectRefused, RedirectRaises, Redirected
  <2>7. ASSUME Toggle PROVE Run!Toggle
    BY <2>7 DEF Toggle, Run!Toggle
  <2>8. ASSUME Rebind \/ UNCHANGED vars PROVE UNCHANGED Run!vars
    BY <2>8 DEF Rebind, vars, Run!vars
  <2> QED BY <1>2, <2>1, <2>2, <2>3, <2>4, <2>5, <2>6, <2>7, <2>8
          DEF Next, Step, Run!Step, Run!Next
<1> QED BY <1>1, <1>2, Invariance, PTL DEF Spec, ImplementsTargetRun, Run!Spec

-----------------------------------------------------------------------------
(***************************************************************************)
(* The path scope means what the two rows say.  The executor compares      *)
(* segments; Below speaks of texts.  Both lean on what CHOOSE finds in     *)
(* Bare, which is the least of a set of numbers.                           *)
(***************************************************************************)

\* A set of numbers that is not empty has a least element.
LEMMA LeastNumber ==
  ASSUME NEW T, T \subseteq Nat, T # {}
  PROVE  \E x \in T : \A y \in T : x <= y
<1>1. \E x \in T : \A y \in T : ~(<<y, x>> \in OpToRel(<, Nat))
  BY NatLessThanWellFounded, WFMin
<1>2. PICK x \in T : \A y \in T : ~(<<y, x>> \in OpToRel(<, Nat))
  BY <1>1
<1>3. ASSUME NEW y \in T PROVE x <= y
  <2>1. <<y, x>> \notin OpToRel(<, Nat)
    BY <1>2
  <2>2. ~(y < x)
    BY <2>1 DEF OpToRel
  <2> QED BY <2>2
<1> QED BY <1>3

\* What CHOOSE finds in Bare: the prefix without its trailing slashes.
LEMMA BareIs ==
  ASSUME NEW prefix \in Seq(STRING)
  PROVE  \E n \in 0..Len(prefix) : Bare(prefix) = SubSeq(prefix, 1, n)
<1> DEFINE length == Len(prefix)
           Q(n) == /\ n > 0 => prefix[n] # Empty
                   /\ \A i \in (n + 1)..length : prefix[i] = Empty
           Ends == {n \in 0..length : \A i \in (n + 1)..length : prefix[i] = Empty}
<1>1. length \in Nat
  OBVIOUS
<1> HIDE DEF length
<1>2. Ends \subseteq Nat /\ length \in Ends
  BY <1>1
<1>3. PICK n \in Ends : \A m \in Ends : n <= m
  BY <1>2, LeastNumber
<1>4. Q(n)
  <2>1. ASSUME n > 0, prefix[n] = Empty PROVE FALSE
    <3>1. n \in Nat /\ n <= length /\ \A i \in (n + 1)..length : prefix[i] = Empty
      BY <1>1
    <3>2. \A i \in ((n - 1) + 1)..length : prefix[i] = Empty
      BY <1>1, <2>1, <3>1
    <3>3. n - 1 \in 0..length
      BY <1>1, <2>1, <3>1
    <3>4. n - 1 \in Ends
      BY <3>2, <3>3
    <3> QED BY <1>3, <3>1, <3>4
  <2> QED BY <2>1
<1>5. (CHOOSE m \in 0..length : Q(m)) \in 0..length
  BY <1>4
<1> QED BY <1>5 DEF Bare, length

\* A path that has the segments of the bare prefix and one more, cut there, is
\* the bare prefix; and the other way round.
LEMMA PrefixIsCut ==
  ASSUME NEW path \in Seq(STRING), NEW prefix \in Seq(STRING),
         NEW bare, NEW k \in 0..Len(prefix), bare = SubSeq(prefix, 1, k)
  PROVE  (Len(bare) < Len(path) /\ \A i \in 1..Len(bare) : path[i] = prefix[i])
           <=> \E n \in 0..(Len(path) - 1) : SubSeq(path, 1, n) = bare
<1>1. Len(bare) = k /\ bare \in Seq(STRING) /\ \A i \in 1..k : bare[i] = prefix[i]
  OBVIOUS
<1>2. ASSUME Len(bare) < Len(path), \A i \in 1..Len(bare) : path[i] = prefix[i]
      PROVE  \E n \in 0..(Len(path) - 1) : SubSeq(path, 1, n) = bare
  <2>1. SubSeq(path, 1, k) = bare
    BY <1>1, <1>2
  <2>2. k \in 0..(Len(path) - 1)
    BY <1>1, <1>2
  <2> QED BY <2>1, <2>2
<1>3. ASSUME NEW n \in 0..(Len(path) - 1), SubSeq(path, 1, n) = bare
      PROVE  Len(bare) < Len(path) /\ \A i \in 1..Len(bare) : path[i] = prefix[i]
  <2>1. Len(SubSeq(path, 1, n)) = n /\ \A i \in 1..n : SubSeq(path, 1, n)[i] = path[i]
    OBVIOUS
  <2>2. n = k
    BY <1>1, <1>3, <2>1
  <2> QED BY <1>1, <1>3, <2>1, <2>2
<1> QED BY <1>2, <1>3

\* _path_matches holds of a path exactly when it lies at the prefix or below.
LEMMA UnderIsBelow ==
  ASSUME NEW path \in Seq(STRING), NEW prefix \in Seq(STRING)
  PROVE  Under(path, prefix) <=> Below(path, prefix)
<1>1. PICK k \in 0..Len(prefix) : Bare(prefix) = SubSeq(prefix, 1, k)
  BY BareIs
<1> QED BY <1>1, PrefixIsCut DEF Under, Below

\* The prefix "/" covers every path.
LEMMA RootIsAbove ==
  ASSUME NEW path \in Seq(STRING), path # <<>>
  PROVE  Under(path, Slash)
<1> DEFINE Ends(n) == /\ n > 0 => Slash[n] # Empty
                      /\ \A i \in (n + 1)..Len(Slash) : Slash[i] = Empty
<1>1. Len(Slash) = 1 /\ Slash[1] = Empty
  BY DEF Slash
<1>2. \A n \in 0..Len(Slash) : Ends(n) <=> n = 0
  BY <1>1
<1>3. (CHOOSE n \in 0..Len(Slash) : Ends(n)) = 0
  BY <1>1, <1>2
<1>4. Bare(Slash) = SubSeq(Slash, 1, 0)
  BY <1>3 DEF Bare
<1>5. Len(Bare(Slash)) = 0
  BY <1>1, <1>4 DEF Slash
<1>6. Len(path) > 0
  OBVIOUS
<1> QED BY <1>5, <1>6 DEF Under

\* Every request is one the two rows allow, unless an allow list is inherited as a
\* text (build_scope_snapshot, _path_in_scope).
THEOREM OverridesAreEnforced == Spec => []OverridesHold
<1>1. ASSUME Inv, scope.override["allowed"].given \/ scope.default["allowed"] = {},
             NEW c \in contacted
      PROVE  Promised(c.url.path)
  <2>1. /\ scope.default \in Defaults /\ scope.override \in Overrides
        /\ c.url.path \in Seq(STRING) /\ c.url.path # <<>>
    BY <1>1, ConstantsAssumption DEF Inv, TypeOK
  <2>2. PathAllowed(c.url.path, Snapshot("allowed"), Snapshot("excluded"))
    BY <1>1 DEF Inv, InScopeOnly, PathInScope
  <2>3. scope.override["excluded"].given \/ scope.default["excluded"] = {}
    <3>1. ASSUME ~scope.override["excluded"].given, scope.default["excluded"] # {}
          PROVE  Snapshot("excluded") = {Slash}
      BY <3>1 DEF Snapshot, Frozen, Characters
    <3> QED BY <2>1, <2>2, <3>1, RootIsAbove DEF PathAllowed
  <2>4. ASSUME NEW k \in Columns
        PROVE  /\ Snapshot(k) = Effective(k)
               /\ \A p \in Effective(k) : p \in Seq(STRING)
    <3>1. Snapshot(k) = Effective(k)
      BY <1>1, <2>3 DEF Snapshot, Frozen, Characters, Effective, Columns
    <3>2. scope.default[k] \subseteq Prefixes /\ scope.override[k].paths \subseteq Prefixes
      BY <2>1 DEF Defaults, Overrides
    <3>3. Effective(k) \subseteq Prefixes
      BY <3>2 DEF Effective
    <3> QED BY <3>1, <3>3, ConstantsAssumption
  <2>5. ASSUME NEW k \in Columns, NEW p \in Effective(k)
        PROVE  Under(c.url.path, p) <=> Below(c.url.path, p)
    BY <2>1, <2>4, <2>5, UnderIsBelow
  <2> QED BY <2>2, <2>4, <2>5 DEF PathAllowed, Promised, Columns
<1>2. Inv => OverridesHold
  BY <1>1 DEF OverridesHold, ScopeAsAuthorized
<1> QED BY <1>2, Invariance, PTL

=============================================================================
