------------------------------ MODULE ReportProofs ------------------------------
(***************************************************************************)
(* Proofs about PentestAudit and ProofOfRisk, for any requests, targets,   *)
(* evidence and configurations.                                            *)
(*                                                                         *)
(* Audits: what each scanner has seen is what it returns of the host when  *)
(* the probes it lost are lost, and a report in time is all of that, one   *)
(* cut off none of it; the rest is about the scanners alone, what each can *)
(* tell and what it takes silence for.  Analyses: at each step exactly the *)
(* sections before it are written, each by the model that gave a valid     *)
(* answer or by the generator, of a graph, scenario and route that are     *)
(* those of the evidence; past the first section no prompt can fail.       *)
(***************************************************************************)
EXTENDS PentestAudit, ProofOfRisk, FiniteSetTheorems, TLAPS

-----------------------------------------------------------------------------
(***************************************************************************)
(* Audits                                                                  *)
(***************************************************************************)

\* What all scanners have seen, and what of it is no finding.
Seen == UNION {outcome[m].saw : m \in ScanModules}
Uncounted == {"TLS 1.3", "over 10 ports", "over 20 ports"}

\* What a scanner has seen is what it returns of its host.
ReturnedAsSeen ==
  \A m \in ScanModules :
    IF outcome[m].state = "returned" THEN outcome[m].saw = Returns(m, outcome[m].lost)
    ELSE outcome[m].saw = {}

\* The report is all that was seen, and good only where nothing is bad.
ReportedAsSeen ==
  /\ report.findings = Seen \ Uncounted
  /\ "overall good" \in report.advice =>
       \A f \in report.findings : Severity(f) \notin {"critical", "high"}

\* What a scanner says when it gets no answer, or an answer that denies.
Silence(m, lost, f) ==
  \/ f = "no answer" /\ m = "headers" /\ Reached(lost) = {}
  \/ f = "no TLS" /\ m = "tls" /\ Versions(lost) = {}
  \/ /\ f = "no wall" /\ m = "waf"
     /\ \/ Reached(lost) = {}
        \/ /\ "wall" \notin Host.shows
           /\ "wall if attacked" \notin Host.shows \/ "attack" \in lost
  \/ f = "no SPF" /\ m = "dns" /\ ("SPF" \notin Host.shows \/ "TXT" \in lost)
  \/ /\ f = "no DMARC" /\ m = "dns"
     /\ "DMARC" \notin Host.shows \/ "TXT" \in lost
     /\ "DMARC below" \notin Host.shows \/ "_dmarc" \in lost

AuditTypeOK ==
  /\ audit \in [request : Audits, site : Sites,
                step : {"asked", "refused", "scanning", "reported", "cut off"}]
  /\ DOMAIN outcome = ScanModules

AuditInv ==
  /\ AuditTypeOK
  /\ ReturnedAsSeen
  /\ audit.step = "reported" => ReportedAsSeen
  /\ audit.step = "cut off" => report.findings = {}

\* A step that keeps request and target keeps what scanners can say of it.
LEMMA TargetStays ==
  ASSUME audit'.request = audit.request, audit'.site = audit.site
  PROVE  /\ Host' = Host /\ Request' = Request /\ Due' = Due
         /\ \A m, lost : Returns(m, lost)' = Returns(m, lost)
         /\ \A f : Severity(f)' = Severity(f)
<1>1. Host' = Host /\ Request' = Request
  BY DEF Host, Request
<1>2. Due' = Due
  BY <1>1 DEF Due
<1>3. /\ \A lost : Reached(lost)' = Reached(lost) /\ First(lost)' = First(lost)
      /\ \A facts : Shows(facts)' = Shows(facts)
  BY <1>1 DEF Reached, First, Shows
<1>4. /\ \A lost : Headers(lost)' = Headers(lost) /\ Tls(lost)' = Tls(lost)
      /\ \A lost : Dns(lost)' = Dns(lost) /\ Waf(lost)' = Waf(lost) /\ Ports(lost)' = Ports(lost)
      /\ \A lost : Cors(lost)' = Cors(lost) /\ Cookies(lost)' = Cookies(lost)
      /\ \A lost : Info(lost)' = Info(lost) /\ Misconfig(lost)' = Misconfig(lost)
      /\ \A lost : Nothing(lost)' = Nothing(lost)
  BY <1>1, <1>3 DEF Headers, Tls, Versions, Dns, Waf, Ports, Asked, Cors,
     Cookies, Info, Misconfig, Nothing
<1> QED BY <1>1, <1>2, <1>4 DEF Returns, Severity

\* A scanner that is not done or that failed has seen nothing.
LEMMA NothingSeen ==
  /\ Pending.state = "pending" /\ Pending.saw = {}
  /\ Raised.state = "raised" /\ Raised.saw = {}
BY DEF Pending, Raised

\* No scanner has begun.
LEMMA AuditInitially == AuditInit => AuditInv
<1> SUFFICES ASSUME AuditInit PROVE AuditInv
  OBVIOUS
<1>1. AuditTypeOK /\ audit.step = "asked"
  BY DEF AuditInit, AuditTypeOK
<1>2. ReturnedAsSeen
  BY NothingSeen DEF AuditInit, ReturnedAsSeen
<1> QED BY <1>1, <1>2 DEF AuditInv

\* A step that is not a scanner's nor the report.
LEMMA GateKeeps ==
  ASSUME AuditInv, audit'.step \notin {"reported", "cut off"}, AuditTypeOK',
         audit'.request = audit.request, audit'.site = audit.site, outcome' = outcome
  PROVE  AuditInv'
BY TargetStays DEF AuditInv, ReturnedAsSeen

\* One scanner returns or raises.
LEMMA RunModuleKeeps ==
  ASSUME AuditInv, NEW m \in ScanModules, RunModule(m) PROVE AuditInv'
<1>1. audit' = audit /\ audit.step = "scanning"
  BY DEF RunModule
<1>2. PICK o : /\ outcome' = [outcome EXCEPT ![m] = o]
               /\ IF o.state = "returned" THEN o.saw = Returns(m, o.lost) ELSE o.saw = {}
  <2>1. CASE outcome' = [outcome EXCEPT ![m] = Raised]
    BY <2>1, NothingSeen
  <2>2. CASE \E lost \in SUBSET Probes[m] :
               outcome' = [outcome EXCEPT ![m] =
                             [state |-> "returned", saw |-> Returns(m, lost), lost |-> lost]]
    <3>1. PICK lost \in SUBSET Probes[m] :
            outcome' = [outcome EXCEPT ![m] =
                          [state |-> "returned", saw |-> Returns(m, lost), lost |-> lost]]
      BY <2>2
    <3>2. PICK o : o = [state |-> "returned", saw |-> Returns(m, lost), lost |-> lost]
      OBVIOUS
    <3>3. o.state = "returned" /\ o.saw = Returns(m, o.lost)
      BY <3>2
    <3>4. outcome' = [outcome EXCEPT ![m] = o]
      BY <3>1, <3>2
    <3> QED BY <3>3, <3>4
  <2> QED BY <2>1, <2>2 DEF RunModule
<1>3. DOMAIN outcome' = ScanModules /\ outcome'[m] = o
      /\ \A n \in ScanModules \ {m} : outcome'[n] = outcome[n]
  BY <1>2 DEF AuditInv, AuditTypeOK
<1>4. ReturnedAsSeen'
  BY <1>1, <1>2, <1>3, TargetStays DEF AuditInv, ReturnedAsSeen
<1> QED BY <1>1, <1>3, <1>4 DEF AuditInv, AuditTypeOK

\* Good is what is said when nothing else is to be said.
LEMMA OnlyGood ==
  ASSUME NEW results, NEW seen, NEW findings, "overall good" \in Advice(results, seen, findings)
  PROVE  \A f \in findings : Severity(f) \notin {"critical", "high"}
BY DEF Advice, Advised

\* A report leaves alone what the scanners have returned.
LEMMA ReportsKeep ==
  ASSUME AuditInv, NEW results, NEW how \in {"reported", "cut off"}, Reports(results, how)
  PROVE  /\ AuditTypeOK' /\ ReturnedAsSeen' /\ audit'.step = how
         /\ \A f : Severity(f)' = Severity(f)
<1>1. audit' = [audit EXCEPT !.step = how] /\ outcome' = outcome
  BY DEF Reports
<1>2. AuditTypeOK' /\ audit'.step = how
  BY <1>1 DEF AuditInv, AuditTypeOK
<1>3. audit'.request = audit.request /\ audit'.site = audit.site
  BY <1>1 DEF AuditInv, AuditTypeOK
<1>4. ReturnedAsSeen'
  BY <1>1, <1>3, TargetStays DEF AuditInv, ReturnedAsSeen
<1> QED BY <1>2, <1>3, <1>4, TargetStays

\* All are done: whatever the scanners have returned, the report says it.
LEMMA ReportKeeps == ASSUME AuditInv, Report PROVE AuditInv'
<1>1. Reports(Finished, "reported")
  BY DEF Report
<1>2. Seen = UNION {outcome[m].saw : m \in Finished}
  BY DEF Seen, Finished, AuditInv, ReturnedAsSeen
<1>3. /\ report'.findings = Seen \ Uncounted
      /\ report'.advice = Advice(Finished, Seen, Seen \ Uncounted)
  BY <1>1, <1>2 DEF Reports, Compile, Uncounted
<1>4. Seen' = Seen
  BY <1>1 DEF Reports, Seen
<1>5. "overall good" \in report'.advice =>
        \A f \in report'.findings : Severity(f) \notin {"critical", "high"}
  BY <1>3, OnlyGood
<1>6. \A f : Severity(f)' = Severity(f)
  BY <1>1, ReportsKeep
<1>7. ReportedAsSeen'
  BY <1>3, <1>4, <1>5, <1>6 DEF ReportedAsSeen, Uncounted
<1> QED BY <1>1, <1>7, ReportsKeep DEF AuditInv

\* The time is over: nothing is told.
LEMMA GlobalTimeoutKeeps == ASSUME AuditInv, GlobalTimeout PROVE AuditInv'
<1>1. Reports({}, "cut off")
  BY DEF GlobalTimeout
<1>2. report'.findings = {}
  BY <1>1 DEF Reports, Compile
<1> QED BY <1>1, <1>2, ReportsKeep DEF AuditInv

-----------------------------------------------------------------------------
\* A scanner that had all its answers says what it can detect.
LEMMA Answered ==
  ASSUME AuditTypeOK, NEW m \in Due, Answers(m)
  PROVE  Detects[m] \cap Host.shows \subseteq Returns(m, {}) \ Uncounted
<1>1. m \in ScanModules
  BY AuditsAssumption DEF AuditTypeOK, Due, Request
<1> USE DEF Detects, Returns, Shows, Uncounted, Answers
<1>2. CASE m = "headers"
  BY <1>2 DEF Headers
<1>3. CASE m = "ports"
  <2>1. Asked \subseteq {"ftp", "redis"}
    <3>1. Request.ports \subseteq {"ftp", "redis"}
          /\ Request.intensity \in {"light", "standard", "thorough"}
      BY AuditsAssumption DEF Request, AuditTypeOK
    <3>2. \A i \in {"light", "standard", "thorough"} : Listed[i] \subseteq {"ftp", "redis"}
      BY DEF Listed
    <3> QED BY <3>1, <3>2 DEF Asked
  <2> QED BY <1>3, <2>1 DEF Ports
<1>4. CASE m = "tls"
  BY <1>4 DEF Tls, Versions
<1>5. CASE m = "dns"
  BY <1>5 DEF Dns
<1>6. CASE m \in {"waf", "tech", "subdomains"}
  <2>1. Detects["waf"] = {} /\ Detects["tech"] = {} /\ Detects["subdomains"] = {}
    OBVIOUS
  <2>2. Detects[m] = {}
    BY <1>6, <2>1
  <2> QED BY <2>2
<1>7. CASE m = "cors"
  BY <1>7 DEF Cors, FirstOnly
<1>8. CASE m = "cookies"
  BY <1>8 DEF Cookies
<1>9. CASE m = "info"
  BY <1>9 DEF Info, FirstOnly
<1>10. CASE m = "misconfig"
  BY <1>10 DEF Misconfig, FirstOnly
<1> QED BY <1>1, <1>2, <1>3, <1>4, <1>5, <1>6, <1>7, <1>8, <1>9, <1>10 DEF ScanModules

\* Whatever else a scanner says of a host, the host shows.
LEMMA Justified ==
  ASSUME NEW m \in ScanModules, NEW lost, NEW f \in Returns(m, lost)
  PROVE  f \in Host.shows \/ Silence(m, lost, f)
<1> USE DEF Returns, Shows, Silence
<1>2. CASE m = "headers"
  BY <1>2 DEF Headers
<1>3. CASE m = "ports"
  BY <1>3 DEF Ports
<1>4. CASE m = "tls"
  BY <1>4 DEF Tls, Versions
<1>5. CASE m = "dns"
  BY <1>5 DEF Dns
<1>6. CASE m = "waf"
  BY <1>6 DEF Waf
<1>7. CASE m = "cors"
  BY <1>7 DEF Cors
<1>8. CASE m = "cookies"
  BY <1>8 DEF Cookies
<1>9. CASE m = "info"
  BY <1>9 DEF Info
<1>10. CASE m = "misconfig"
  BY <1>10 DEF Misconfig
<1>11. CASE m \in {"tech", "subdomains"}
  BY <1>11 DEF Nothing
<1> QED BY <1>2, <1>3, <1>4, <1>5, <1>6, <1>7, <1>8, <1>9, <1>10, <1>11 DEF ScanModules

\* The report says no less and no more.
LEMMA ReportFollows == AuditInv => ReportOwed
<1> SUFFICES ASSUME AuditInv, audit.step = "reported" PROVE ReportOwed
  BY DEF ReportOwed, AuditInv
<1> USE DEF AuditInv
<1>1. ReportedAsSeen
  OBVIOUS
<1>2. ASSUME NEW m \in Due, Answers(m)
      PROVE  Detects[m] \cap Host.shows \subseteq report.findings
  <2>1. m \in ScanModules
    BY AuditsAssumption DEF AuditTypeOK, Due, Request
  <2>2. outcome[m].saw = Returns(m, {})
    BY <1>2, <2>1 DEF Answers, ReturnedAsSeen
  <2>3. outcome[m].saw \subseteq Seen
    BY <2>1 DEF Seen
  <2>4. outcome[m].saw \ Uncounted \subseteq report.findings
    BY <1>1, <2>3 DEF ReportedAsSeen
  <2> QED BY <1>2, <2>2, <2>4, Answered
<1>3. ASSUME NEW f \in report.findings
      PROVE  \/ f \in Host.shows
             \/ f = "no answer" /\ ~Answers("headers")
             \/ f \in DOMAIN Denies /\ (Answers(SaidBy[f]) => Denies[f] \cap Host.shows = {})
  <2>1. PICK m \in ScanModules : f \in outcome[m].saw
    BY <1>1 DEF ReportedAsSeen, Seen
  <2>2. f \in Returns(m, outcome[m].lost)
    BY <2>1 DEF ReturnedAsSeen
  <2> DEFINE lost == outcome[m].lost
  <2>3. CASE f \in Host.shows
    BY <2>3
  <2>4. CASE f = "no answer" /\ Silence(m, lost, f)
    BY <2>4 DEF Silence, Answers
  <2>5. CASE f = "no TLS" /\ Silence(m, lost, f)
    BY <2>5 DEF Silence, Answers, Denies, SaidBy, Versions, Shows
  <2>6. CASE f = "no wall" /\ Silence(m, lost, f)
    BY <2>6 DEF Silence, Answers, Denies, SaidBy
  <2>7. CASE f \in {"no SPF", "no DMARC"} /\ Silence(m, lost, f)
    BY <2>7 DEF Silence, Answers, Denies, SaidBy
  <2>8. f \in Host.shows \/ Silence(m, lost, f)
    BY <2>2, Justified
  <2>9. Silence(m, lost, f) => f \in {"no answer", "no TLS", "no wall", "no SPF", "no DMARC"}
    BY DEF Silence
  <2> QED BY <2>3, <2>4, <2>5, <2>6, <2>7, <2>8, <2>9
<1> QED BY <1>1, <1>2, <1>3 DEF ReportOwed, FinishedAreHeard, ReportedAsSeen

\* Whatever probes are lost and whichever scanners raise, a report in time says
\* what was seen, and no report what was not, one that is cut off included
\* (service.py: execute_audit, _run_scan_modules, _compile_findings).
THEOREM ReportsAreOwed == AuditSpec => []ReportOwed
<1>1. AuditInv /\ [AuditNext]_auditVars => AuditInv'
  <2> SUFFICES ASSUME AuditInv, [AuditNext]_auditVars PROVE AuditInv'
    OBVIOUS
  <2>1. ASSUME NEW m \in Due, RunModule(m) PROVE AuditInv'
    <3>1. m \in ScanModules
      BY AuditsAssumption DEF AuditInv, AuditTypeOK, Due, Request
    <3> QED BY <2>1, <3>1, RunModuleKeeps
  <2>2. CASE Gate
    <3>1. /\ audit.step = "asked" /\ outcome' = outcome
          /\ \E to \in {"scanning", "refused"} : audit' = [audit EXCEPT !.step = to]
      BY <2>2 DEF Gate
    <3>2. /\ audit'.step \notin {"reported", "cut off"} /\ AuditTypeOK'
          /\ audit'.request = audit.request /\ audit'.site = audit.site
      BY <3>1 DEF AuditInv, AuditTypeOK
    <3> QED BY <3>1, <3>2, GateKeeps
  <2>3. CASE Coverage
    <3>1. /\ audit.step \notin {"reported", "cut off"} /\ audit' = audit /\ outcome' = outcome
      BY <2>3 DEF Coverage
    <3> QED BY <3>1, GateKeeps DEF AuditInv, AuditTypeOK
  <2>4. CASE UNCHANGED auditVars
    <3>1. audit' = audit /\ outcome' = outcome /\ report' = report
      BY <2>4 DEF auditVars
    <3>2. ReturnedAsSeen' <=> ReturnedAsSeen
      BY <3>1, TargetStays DEF ReturnedAsSeen
    <3>3. ReportedAsSeen' <=> ReportedAsSeen
      BY <3>1, TargetStays DEF ReportedAsSeen, Seen
    <3> QED BY <3>1, <3>2, <3>3 DEF AuditInv, AuditTypeOK
  <2> QED BY <2>1, <2>2, <2>3, <2>4, ReportKeeps, GlobalTimeoutKeeps DEF AuditNext
<1> QED BY <1>1, AuditInitially, ReportFollows, PTL DEF AuditSpec

-----------------------------------------------------------------------------
(***************************************************************************)
(* Analyses                                                                *)
(***************************************************************************)

\* What was made of the evidence, once and for all.
Examined ==
  /\ made.graph = Graph /\ made.scenario = Scenario
  /\ made.route = IF Named = {} THEN "none" ELSE Route(FirstFinding.type)
  /\ made.proofs # {} =>
       /\ analysis.request.simulate /\ analysis.config.simulation
       /\ Allowed(analysis.config.sandbox)
       /\ made.proofs = {made.scenario} /\ made.scenario # "none"

\* The sections that are written when the analysis is at a step.
SoFar ==
  CASE analysis.step = "plan" -> {"verdict"}
    [] analysis.step = "report" -> IF made.scenario = "none" THEN {} ELSE {"verdict", "plan"}
    [] analysis.step = "answered" ->
         IF made.scenario = "none" THEN {"report"} ELSE {"verdict", "plan", "report"}
    [] OTHER -> {}

\* Before the evidence is taken up, or refused; and after.
Early == {"asked", "not found", "unverified"}
Later   == {"sandbox", "verdict", "plan", "report", "answered"}
Parts == {"graph", "scenario", "simulated", "proofs", "route", "verdict", "plan", "retest",
          "report"}

\* Each section was written by the model that answered or by the generator, on
\* a remote route exactly those that were asked for.
WrittenInTurn ==
  \A s \in Sections :
    IF s \in SoFar
    THEN /\ made[s] \in {"provider", "generator"}
         /\ made[s] = "provider" <=> reply[s] = "valid"
         /\ reply[s] # "not asked" <=> Remote
    ELSE made[s] = "none" /\ reply[s] = "not asked"

\* Evidence that was never taken up, a prompt that could not be made, or an answer
\* that raised.
Unreadable ==
  \/ /\ made = NothingMade /\ AskedOf = {}
     /\ Recognized = {} \/ \E i \in Named : Steps[i].evidence = "text"
  \/ Examined /\ Unspeakable /\ AskedOf = {}
  \/ /\ Examined /\ Remote
     /\ \E s \in AskedOf : made[s] = "none" /\ reply[s] \in {"no content", "odd"}

Replies == {"not asked", "error", "unsafe", "incomplete", "valid", "no JSON", "no content", "odd"}

ProofTypeOK ==
  /\ analysis \in [request : ProofRequests, evidence : Bundles, config : ProofConfigs,
                   step : Early \cup Later \cup {"failed"}]
  /\ DOMAIN made = Parts
  /\ made = [part \in Parts |-> made[part]]
  /\ reply \in [Sections -> Replies]

ProofInv ==
  /\ ProofTypeOK
  /\ analysis.step \in Early => made = NothingMade /\ AskedOf = {}
  /\ analysis.step \in Later =>
       /\ Examined /\ WrittenInTurn
       /\ made.retest = "none" <=> made.plan = "none"
  /\ analysis.step \in {"verdict", "plan"} => made.scenario # "none"
  /\ analysis.step \in {"plan", "report", "answered"} => ~Unspeakable
  /\ analysis.step = "failed" => Unreadable

-----------------------------------------------------------------------------
\* What a step leaves of the request, the evidence and the configuration.
LEMMA EvidenceStays ==
  ASSUME analysis'.evidence = analysis.evidence, analysis'.request = analysis.request,
         analysis'.config = analysis.config
  PROVE  /\ UNCHANGED <<Named, Steps, FirstFinding, Graph, Scenario, Recognized>>
         /\ \A type : Route(type)' = Route(type)
         /\ \A url : Allowed(url)' = Allowed(url)
<1>1. Results' = Results
  BY DEF Results
<1>2. Named' = Named
  BY <1>1 DEF Named
<1>3. Steps' = Steps
  BY <1>1, <1>2 DEF Steps
<1>4. Findings' = Findings
  BY <1>2, <1>3 DEF Findings
<1>5. FirstFinding' = FirstFinding
  BY <1>2, <1>4 DEF FirstFinding
<1>6. Recognized' = Recognized
  BY <1>2, <1>4 DEF Recognized
<1> QED BY <1>2, <1>3, <1>4, <1>5, <1>6 DEF Graph, Scenario, Route, Deep, Allowed

\* Findings with the same name were cleaned to it.
LEMMA NamesTold ==
  ASSUME analysis.evidence \in Bundles, NEW i \in Named, NEW j \in Named,
         Findings[i].id = Findings[j].id, i # j
  PROVE  Findings[i].id = "redacted"
<1>1. /\ Results \in Seq(StepResults)
      /\ \A k, m \in DOMAIN Results : Results[k].id = Results[m].id => k = m
  BY BundlesAssumption DEF Results
<1>2. i \in DOMAIN Results /\ j \in DOMAIN Results
  BY DEF Named
<1>3. Results[i] \in StepResults /\ Results[j] \in StepResults /\ Results[i].id # Results[j].id
  BY <1>1, <1>2
<1>4. \A k \in {i, j} :
        Findings[k].id = IF Results[k].id \in {"opaque 1", "opaque 2"} THEN "redacted"
                         ELSE Results[k].id
  BY <1>3 DEF Findings, Steps, Redacted, StepResults
<1> QED BY <1>3, <1>4

\* The graph has a node for each finding it knows, unless cleaning made two the
\* same.
LEMMA GraphComplete ==
  ASSUME analysis.evidence \in Bundles
  PROVE  \/ Cardinality(Graph) = Cardinality(Recognized)
         \/ \E finding \in Graph : finding.id = "redacted"
<1> SUFFICES ASSUME ~ \E finding \in Graph : finding.id = "redacted"
             PROVE  Cardinality(Graph) = Cardinality(Recognized)
  OBVIOUS
<1>1. IsFiniteSet(Recognized)
  <2>1. Results \in Seq(StepResults)
    BY BundlesAssumption DEF Results
  <2>2. PICK n \in Nat : DOMAIN Results = 1..n
    BY <2>1
  <2>3. Recognized \in SUBSET (1..n)
    BY <2>2 DEF Recognized, Named
  <2>4. IsFiniteSet(1..n)
    BY <2>2, FS_Interval
  <2> QED BY <2>3, <2>4, FS_Subset
<1>2. \A i, j \in Recognized : Findings[i] = Findings[j] => i = j
  <2> SUFFICES ASSUME NEW i \in Recognized, NEW j \in Recognized, Findings[i] = Findings[j], i # j
               PROVE  FALSE
    OBVIOUS
  <2>1. Findings[i].id = "redacted"
    BY NamesTold DEF Recognized
  <2> QED BY <2>1 DEF Graph
<1>3. [i \in Recognized |-> Findings[i]] \in Bijection(Recognized, Graph)
  BY <1>2 DEF Bijection, Injection, Surjection, IsInjective, Graph
<1>4. ExistsBijection(Recognized, Graph)
  BY <1>3 DEF ExistsBijection
<1> QED BY <1>1, <1>4, FS_Bijection

-----------------------------------------------------------------------------
\* An analysis begins with nothing.
LEMMA NothingMadeOf ==
  /\ DOMAIN NothingMade = Parts /\ NothingMade = [part \in Parts |-> NothingMade[part]]
  /\ NothingMade.proofs = {} /\ NothingMade.scenario = "none" /\ NothingMade.route = "none"
  /\ NothingMade.retest = "none"
  /\ \A s \in Sections : NothingMade[s] = "none"
BY DEF NothingMade, Parts, Sections

\* Nothing is made before it is asked for.
LEMMA ProofInitially == ProofInit => ProofInv
<1> SUFFICES ASSUME ProofInit PROVE ProofInv
  OBVIOUS
<1>1. analysis.step = "asked" /\ made = NothingMade /\ AskedOf = {}
  BY DEF ProofInit, AskedOf
<1>2. ProofTypeOK
  <2>1. analysis \in [request : ProofRequests, evidence : Bundles, config : ProofConfigs,
                      step : Early \cup Later \cup {"failed"}]
    BY DEF ProofInit, Early
  <2>2. DOMAIN made = Parts /\ made = [part \in Parts |-> made[part]]
    BY <1>1, NothingMadeOf
  <2>3. reply \in [Sections -> Replies]
      BY DEF ProofInit, Replies
  <2> QED BY <2>1, <2>2, <2>3 DEF ProofTypeOK
<1> QED BY <1>1, <1>2 DEF ProofInv, Early, Later

\* Nothing is made of what is refused.
LEMMA RefusalKeeps == ASSUME ProofInv, RefuseAnalysis PROVE ProofInv'
<1>1. analysis.step = "asked" /\ analysis'.step \in {"not found", "unverified"}
      /\ made' = made /\ reply' = reply
  BY DEF RefuseAnalysis, Goes, ProofInv, ProofTypeOK
<1>2. ProofTypeOK'
  BY <1>1 DEF RefuseAnalysis, Goes, ProofInv, ProofTypeOK, Early
<1> QED BY <1>1, <1>2 DEF ProofInv, Early, Later, AskedOf

\* Graph, scenario and route are made of the evidence, or it fails.
LEMMA ExaminesKeeps == ASSUME ProofInv, Examines PROVE ProofInv'
<1> USE DEF ProofInv
<1>1. /\ analysis.step = "asked" /\ made = NothingMade /\ AskedOf = {}
      /\ reply' = reply /\ AskedOf' = {}
  BY DEF Examines, Early, AskedOf
<1>2. CASE (\E i \in Named : Steps[i].evidence = "text") \/ (Named # {} /\ Recognized = {})
  <2>1. made' = made /\ analysis' = [analysis EXCEPT !.step = "failed"]
    BY <1>2 DEF Examines, Goes
  <2>2. analysis'.step = "failed" /\ ProofTypeOK'
    BY <1>1, <2>1 DEF ProofTypeOK
  <2>3. UNCHANGED <<Named, Steps, Recognized>>
    BY <2>1, EvidenceStays DEF ProofTypeOK
  <2>4. Unreadable'
    BY <1>1, <1>2, <2>1, <2>3 DEF Unreadable
  <2> QED BY <2>2, <2>4 DEF Early, Later
<1>3. CASE ~((\E i \in Named : Steps[i].evidence = "text") \/ (Named # {} /\ Recognized = {}))
  <2>1. /\ analysis' = [analysis EXCEPT !.step = "sandbox"]
        /\ made' = [made EXCEPT !.graph = Graph, !.scenario = Scenario,
                        !.route = IF Named = {} THEN "none" ELSE Route(FirstFinding.type)]
    BY <1>3 DEF Examines, Goes
  <2>2. analysis'.step = "sandbox" /\ ProofTypeOK'
    BY <1>1, <2>1 DEF ProofTypeOK, Later, Parts
  <2>3. UNCHANGED <<Named, Steps, FirstFinding, Graph, Scenario>>
        /\ \A type : Route(type)' = Route(type)
        /\ \A url : Allowed(url)' = Allowed(url)
    BY <2>1, EvidenceStays DEF ProofTypeOK
  <2>4. /\ made'.graph = Graph /\ made'.scenario = Scenario
        /\ made'.route = IF Named = {} THEN "none" ELSE Route(FirstFinding.type)
        /\ made'.proofs = {} /\ made'.retest = "none" /\ \A s \in Sections : made'[s] = "none"
    BY <1>1, <2>1, NothingMadeOf DEF ProofTypeOK, Parts, Sections
  <2>5. Examined'
    BY <2>3, <2>4 DEF Examined
  <2>6. WrittenInTurn'
    BY <1>1, <2>2, <2>4 DEF WrittenInTurn, SoFar, AskedOf
  <2> QED BY <2>2, <2>4, <2>5, <2>6 DEF Early, Later, Sections
<1> QED BY <1>2, <1>3

\* A simulation adds at most the proof of its scenario.
LEMMA SimulateKeeps == ASSUME ProofInv, Simulate PROVE ProofInv'
<1> USE DEF ProofInv
<1>1. /\ analysis.step = "sandbox" /\ Examined /\ WrittenInTurn
      /\ made.retest = "none" <=> made.plan = "none"
      /\ reply' = reply
  BY DEF Simulate, Later
<1>2. PICK on, proven :
        /\ proven \subseteq {made.scenario}
        /\ made' = [made EXCEPT !.simulated = on, !.proofs = proven]
        /\ proven # {} => /\ analysis.request.simulate /\ analysis.config.simulation
                          /\ Allowed(analysis.config.sandbox) /\ made.scenario # "none"
  <2>1. "none" \notin Simulable
    BY DEF Simulable
  <2>2. PICK on : made' = [made EXCEPT !.simulated = on,
                !.proofs = IF /\ analysis.request.simulate /\ analysis.config.simulation
                              /\ Allowed(analysis.config.sandbox)
                           THEN {made.scenario} \cap Simulable ELSE {}]
    BY DEF Simulate
  <2>3. PICK proven : proven =
               IF /\ analysis.request.simulate /\ analysis.config.simulation
                  /\ Allowed(analysis.config.sandbox)
               THEN {made.scenario} \cap Simulable ELSE {}
    OBVIOUS
  <2>4. proven \subseteq {made.scenario}
    BY <2>3
  <2>5. made' = [made EXCEPT !.simulated = on, !.proofs = proven]
    BY <2>2, <2>3
  <2>6. proven # {} => /\ analysis.request.simulate /\ analysis.config.simulation
                       /\ Allowed(analysis.config.sandbox) /\ made.scenario # "none"
    BY <2>1, <2>3
  <2> QED BY <2>4, <2>5, <2>6
<1>3. analysis' = [analysis EXCEPT !.step = IF made.scenario = "none" THEN "report" ELSE "verdict"]
  BY DEF Simulate, Goes, AfterSandbox
<1>4. analysis'.step = (IF made.scenario = "none" THEN "report" ELSE "verdict") /\ ProofTypeOK'
  BY <1>1, <1>2, <1>3 DEF ProofTypeOK, Later, Parts
<1>5. /\ UNCHANGED <<Named, Steps, FirstFinding, Graph, Scenario>>
      /\ \A type : Route(type)' = Route(type)
      /\ \A url : Allowed(url)' = Allowed(url)
      /\ analysis'.request = analysis.request /\ analysis'.config = analysis.config
  BY <1>3, EvidenceStays DEF ProofTypeOK
<1>6. /\ made'.proofs = proven /\ made'.retest = "none"
      /\ \A part \in Parts \ {"simulated", "proofs"} : made'[part] = made[part]
      /\ \A s \in Sections : made[s] = "none" /\ reply[s] = "not asked"
  BY <1>1, <1>2 DEF ProofTypeOK, Parts, WrittenInTurn, SoFar, Sections
<1>7. /\ made'.graph = made.graph /\ made'.scenario = made.scenario /\ made'.route = made.route
      /\ \A s \in Sections : made'[s] = "none" /\ reply'[s] = "not asked"
  BY <1>1, <1>6 DEF Parts, Sections
<1>8. Examined'
  <2>1. proven # {} => proven = {made.scenario}
    BY <1>2
  <2>2. /\ made'.graph = Graph' /\ made'.scenario = Scenario'
        /\ made'.route = IF Named' = {} THEN "none" ELSE Route(FirstFinding.type)'
    BY <1>1, <1>5, <1>7 DEF Examined
  <2> QED BY <1>2, <1>5, <1>6, <1>7, <2>1, <2>2 DEF Examined
<1>9. WrittenInTurn'
  BY <1>4, <1>7 DEF WrittenInTurn, SoFar
<1>10. analysis'.step = "report" => ~Unspeakable'
  BY <1>4, <1>7 DEF Unspeakable
<1> QED BY <1>4, <1>6, <1>7, <1>8, <1>9, <1>10 DEF Early, Later, Sections

\* A section is written: what was examined stays, and with it the sections that
\* come later.
LEMMA SectionWritten ==
  ASSUME ProofInv, NEW section \in Sections, analysis.step = section,
         ~Unspeakable,
         NEW writer \in {"provider", "generator"}, Records(section, writer),
         Goes(After[section]), reply' \in [Sections -> Replies],
         \A s \in Sections \ {section} : reply'[s] = reply[s],
         writer = "provider" <=> reply'[section] = "valid",
         reply'[section] # "not asked" <=> Remote
  PROVE  ProofInv'
<1> USE DEF ProofInv
<1>1. /\ Examined /\ WrittenInTurn
      /\ made.retest = "none" <=> made.plan = "none"
      /\ section \in {"verdict", "plan"} => made.scenario # "none"
  BY DEF Later, Sections
<1>2. /\ analysis' = [analysis EXCEPT !.step = After[section]]
      /\ made' = [made EXCEPT ![section] = writer,
                    !.retest = IF section = "plan" THEN "generator" ELSE @]
  BY DEF Goes, Records
<1>3. /\ section = "verdict" => After[section] = "plan"
      /\ section = "plan" => After[section] = "report"
      /\ section = "report" => After[section] = "answered"
  <2>1. After["verdict"] = "plan" /\ After["plan"] = "report" /\ After["report"] = "answered"
    BY DEF After
  <2> QED BY <2>1
<1>4. analysis'.step = After[section]
  BY <1>2 DEF ProofTypeOK
<1>5. ProofTypeOK'
  BY <1>2, <1>3 DEF ProofTypeOK, Later, Parts, Sections
<1>6. /\ UNCHANGED <<Named, Steps, FirstFinding, Graph, Scenario>>
      /\ \A type : Route(type)' = Route(type)
      /\ \A url : Allowed(url)' = Allowed(url)
      /\ analysis'.request = analysis.request /\ analysis'.config = analysis.config
  BY <1>2, EvidenceStays DEF ProofTypeOK
<1>7. /\ made'[section] = writer
      /\ made'.retest = IF section = "plan" THEN "generator" ELSE made.retest
      /\ \A part \in Parts \ {section, "retest"} : made'[part] = made[part]
  BY <1>2 DEF ProofTypeOK, Parts, Sections
<1>8. /\ made'.graph = made.graph /\ made'.scenario = made.scenario /\ made'.route = made.route
      /\ made'.proofs = made.proofs
      /\ \A s \in Sections \ {section} : made'[s] = made[s]
  BY <1>7 DEF Parts, Sections
<1>9. Examined'
  BY <1>1, <1>6, <1>8 DEF Examined
<1>10. Remote' <=> Remote
  BY <1>8 DEF Remote
<1>11. SoFar' = SoFar \cup {section}
  BY <1>1, <1>3, <1>4, <1>8 DEF SoFar, Sections
<1>12. WrittenInTurn'
  <2> SUFFICES ASSUME NEW s \in Sections
               PROVE  IF s \in SoFar'
                      THEN /\ made'[s] \in {"provider", "generator"}
                           /\ made'[s] = "provider" <=> reply'[s] = "valid"
                           /\ reply'[s] # "not asked" <=> Remote'
                      ELSE made'[s] = "none" /\ reply'[s] = "not asked"
    BY DEF WrittenInTurn
  <2>1. CASE s = section
    BY <1>7, <1>10, <1>11, <2>1
  <2>2. CASE s # section
    BY <1>1, <1>8, <1>10, <1>11, <2>2 DEF WrittenInTurn
  <2> QED BY <2>1, <2>2
<1>13. made'.retest = "none" <=> made'.plan = "none"
  BY <1>1, <1>7, <1>8 DEF Sections
<1>14. ~Unspeakable'
  BY <1>8 DEF Unspeakable
<1> QED BY <1>1, <1>3, <1>4, <1>5, <1>8, <1>9, <1>12, <1>13, <1>14 DEF Early, Later, Sections

\* A section by the generator.
LEMMA GenerateKeeps ==
  ASSUME ProofInv, NEW section \in Sections, GenerateSection(section) PROVE ProofInv'
<1>1. reply[section] = "not asked"
  BY DEF GenerateSection, ProofInv, WrittenInTurn, SoFar, Sections, Later
<1>2. reply' = reply /\ reply \in [Sections -> Replies]
  BY DEF GenerateSection, ProofInv, ProofTypeOK
<1>3. ~Unspeakable
  BY DEF GenerateSection, Unspeakable, Remote, RemoteRoutes
<1> QED BY <1>1, <1>2, <1>3, SectionWritten DEF GenerateSection

\* A prompt that cannot be made: then none of the sections was asked for.
LEMMA FailToPromptKeeps ==
  ASSUME ProofInv, NEW section \in Sections, FailToPrompt(section) PROVE ProofInv'
<1>1. /\ analysis.step = section /\ Unspeakable /\ section = "verdict"
      /\ analysis' = [analysis EXCEPT !.step = "failed"] /\ made' = made /\ reply' = reply
  BY DEF FailToPrompt, Goes, ProofInv, Sections
<1>2. Examined /\ AskedOf = {}
  BY <1>1 DEF ProofInv, Later, WrittenInTurn, SoFar, AskedOf
<1>3. ProofTypeOK' /\ analysis'.step = "failed"
  BY <1>1 DEF ProofInv, ProofTypeOK
<1>4. /\ UNCHANGED <<Named, Steps, FirstFinding, Graph, Scenario>>
      /\ \A type : Route(type)' = Route(type)
      /\ \A url : Allowed(url)' = Allowed(url)
      /\ analysis'.request = analysis.request /\ analysis'.config = analysis.config
  BY <1>1, EvidenceStays DEF ProofInv, ProofTypeOK
<1>5. Examined' /\ Unspeakable' /\ AskedOf' = {}
  BY <1>1, <1>2, <1>4 DEF Examined, Unspeakable, AskedOf
<1> QED BY <1>3, <1>5 DEF ProofInv, Unreadable, Early, Later

\* A section by a model, which may make the analysis fail.
LEMMA AskKeeps ==
  ASSUME ProofInv, NEW section \in Sections, AskModel(section) PROVE ProofInv'
<1>1. PICK answer \in MayAnswer(made.route) :
        /\ reply' = [reply EXCEPT ![section] = answer]
        /\ IF Raises(section, answer)
           THEN Goes("failed") /\ UNCHANGED made
           ELSE Records(section, WrittenBy(answer)) /\ Goes(After[section])
  BY DEF AskModel
<1>2. answer \in Replies /\ answer # "not asked"
  BY DEF MayAnswer, Replies
<1>3. /\ analysis.step = section /\ Remote /\ reply \in [Sections -> Replies]
      /\ Examined /\ WrittenInTurn /\ section \notin SoFar
  BY DEF AskModel, ProofInv, ProofTypeOK, SoFar, Sections, Later
<1>4. CASE Raises(section, answer)
  <2>1. answer \in {"no content", "odd"} /\ analysis' = [analysis EXCEPT !.step = "failed"]
        /\ made' = made
    BY <1>1, <1>4 DEF Raises, Goes
  <2>2. ProofTypeOK' /\ analysis'.step = "failed"
    BY <1>1, <1>2, <1>3, <2>1 DEF ProofInv, ProofTypeOK
  <2>3. /\ UNCHANGED <<Named, Steps, FirstFinding, Graph, Scenario>>
        /\ \A type : Route(type)' = Route(type)
        /\ \A url : Allowed(url)' = Allowed(url)
        /\ analysis'.request = analysis.request /\ analysis'.config = analysis.config
    BY <2>1, EvidenceStays DEF ProofInv, ProofTypeOK
  <2>4. Examined' /\ Remote'
    BY <1>3, <2>1, <2>3 DEF Examined, Remote
  <2>5. section \in AskedOf' /\ made'[section] = "none" /\ reply'[section] = answer
    BY <1>1, <1>2, <1>3, <2>1 DEF AskedOf, WrittenInTurn
  <2> QED BY <2>1, <2>2, <2>4, <2>5 DEF ProofInv, Unreadable, Early, Later
<1>5. CASE ~Raises(section, answer)
  <2>1. WrittenBy(answer) \in {"provider", "generator"}
        /\ (WrittenBy(answer) = "provider" <=> answer = "valid")
    BY DEF WrittenBy
  <2>2. /\ reply' \in [Sections -> Replies] /\ reply'[section] = answer
        /\ \A s \in Sections \ {section} : reply'[s] = reply[s]
    BY <1>1, <1>2, <1>3
  <2> QED BY <1>1, <1>2, <1>3, <1>5, <2>1, <2>2, SectionWritten DEF AskModel
<1> QED BY <1>4, <1>5

\* What the invariant says of an analysis that has come to its end.
LEMMA AnalysisFollows == ProofInv => AnalysisHolds
<1> SUFFICES ASSUME ProofInv PROVE AnalysisHolds
  OBVIOUS
<1> USE DEF ProofInv
<1>1. ASSUME Examined, Remote
      PROVE  /\ Named # {} /\ made.route \in analysis.config.available \cap RemoteRoutes
             /\ analysis.config.mode \in {"hybrid", "fireworks_only"}
             /\ FirstFinding.type \in RuleOnly => Deep
  <2>1. Named # {} /\ made.route = Route(FirstFinding.type)
    BY <1>1 DEF Examined, Remote, RemoteRoutes
  <2> QED BY <1>1, <2>1 DEF Route, Remote, RemoteRoutes
<1>2. ASSUME analysis.step = "answered"
      PROVE  AnsweredIsWhole
  <2>1. /\ Examined /\ WrittenInTurn /\ (made.retest = "none" <=> made.plan = "none")
        /\ SoFar = IF made.scenario = "none" THEN {"report"} ELSE {"verdict", "plan", "report"}
    BY <1>2 DEF Later, SoFar
  <2>2. /\ made.report # "none"
        /\ \A part \in {"verdict", "plan", "retest"} :
             made[part] = "none" <=> made.scenario = "none"
        /\ \A s \in Sections : made[s] = "provider" <=> reply[s] = "valid"
    BY <2>1 DEF WrittenInTurn, Sections
  <2>3. AskedOf = IF Remote THEN {s \in Sections : made[s] # "none"} ELSE {}
    BY <2>1 DEF WrittenInTurn, AskedOf
  <2>4. \/ Cardinality(made.graph) = Cardinality(Recognized)
        \/ \E finding \in made.graph : finding.id = "redacted"
    BY <2>1, GraphComplete DEF Examined, ProofTypeOK
  <2> QED BY <2>2, <2>3, <2>4 DEF AnsweredIsWhole
<1>3. ASSUME AskedOf # {}
      PROVE  AskedWhereRouted
  <2>1. Examined /\ Remote
    <3>1. CASE analysis.step \in Later
      BY <1>3, <3>1 DEF WrittenInTurn, AskedOf
    <3>2. CASE analysis.step \notin Later
      BY <1>3, <3>2 DEF Unreadable, ProofTypeOK
    <3> QED BY <3>1, <3>2
  <2> QED BY <1>1, <2>1 DEF AskedWhereRouted
<1>4. ASSUME made.proofs # {}
      PROVE  ProvenWhereOn
  <2>1. Examined
    BY <1>4, NothingMadeOf DEF Unreadable, ProofTypeOK
  <2>2. made.scenario = FirstFinding.type
    BY <1>4, <2>1 DEF Examined, Scenario
  <2>3. analysis.config.sandbox \notin {"none", "listed", "metadata", "userinfo"}
        /\ (analysis.config.sandbox = "production" => ~analysis.evidence.host)
    BY <1>4, <2>1 DEF Examined, Allowed
  <2> QED BY <1>4, <2>1, <2>2, <2>3 DEF Examined, ProvenWhereOn
<1>5. FailedForCause
  BY DEF Unreadable, FailedForCause
<1> QED BY <1>2, <1>3, <1>4, <1>5
     DEF AnalysisHolds, AnsweredIsWhole, AskedWhereRouted, ProvenWhereOn

\* An answered analysis is whole, and no more than was routed, switched on and
\* answered, whatever the models do (service.py: analyze_execution).
THEOREM AnalysisIsWhole == ProofSpec => []AnalysisHolds
<1>1. ProofInv /\ [ProofNext]_proofVars => ProofInv'
  <2> SUFFICES ASSUME ProofInv, [ProofNext]_proofVars PROVE ProofInv'
    OBVIOUS
  <2>1. CASE UNCHANGED proofVars
    <3>1. analysis' = analysis /\ made' = made /\ reply' = reply
      BY <2>1 DEF proofVars
    <3>2. /\ UNCHANGED <<Named, Steps, FirstFinding, Graph, Scenario, Recognized>>
          /\ \A type : Route(type)' = Route(type)
          /\ \A url : Allowed(url)' = Allowed(url)
      BY <3>1, EvidenceStays
    <3>3. /\ (Examined' <=> Examined) /\ SoFar' = SoFar /\ (Remote' <=> Remote)
          /\ AskedOf' = AskedOf /\ (Unspeakable' <=> Unspeakable)
      BY <3>1, <3>2 DEF Examined, SoFar, Remote, AskedOf, Unspeakable
    <3>4. ProofTypeOK'
      BY <3>1 DEF ProofInv, ProofTypeOK
    <3>5. WrittenInTurn' <=> WrittenInTurn
      BY <3>1, <3>3 DEF WrittenInTurn
    <3>6. Unreadable' <=> Unreadable
      BY <3>1, <3>2, <3>3 DEF Unreadable
    <3> QED BY <3>1, <3>3, <3>4, <3>5, <3>6 DEF ProofInv
  <2> QED
    BY <2>1, RefusalKeeps, ExaminesKeeps, SimulateKeeps, GenerateKeeps, FailToPromptKeeps,
       AskKeeps DEF ProofNext
<1> QED BY <1>1, ProofInitially, AnalysisFollows, PTL DEF ProofSpec

=============================================================================
