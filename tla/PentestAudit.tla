------------------------------ MODULE PentestAudit ------------------------------
(***************************************************************************)
(* The ad-hoc audit of a target: the gate, the scanners, the report.       *)
(*                                                                         *)
(* A target shows a set of facts, each by the probes that look for it.     *)
(* Probes get lost; scanners swallow what they raise and go on with what   *)
(* they have, so an unanswered probe is silence to one scanner and a       *)
(* finding to another.  When the timeout over all scanners strikes, what   *)
(* the finished ones returned stays theirs, and none of it is reported.    *)
(***************************************************************************)
EXTENDS Naturals, FiniteSets, Sequences, FiniteSetsExt

CONSTANTS Audits, Sites   \* requests to audit, and the targets they may name

VARIABLES
  audit,            \* the request, its target and how far it has come
  covered,          \* whether an active authorization covers the target now
  outcome,          \* what each scanner has returned
  report

auditVars == <<audit, covered, outcome, report>>

ScanModules == {"headers", "ports", "tls", "dns", "waf", "tech", "subdomains", "cors",
                "cookies", "info", "misconfig"}

ASSUME AuditsAssumption ==
  \A request \in Audits :
    /\ request.modules \subseteq ScanModules /\ request.ports \subseteq {"ftp", "redis"}
    /\ request.intensity \in {"light", "standard", "thorough"}

Pending == [state |-> "pending", saw |-> {}, lost |-> {}]
Raised == [Pending EXCEPT !.state = "raised"]
NoReport == [findings |-> {}, score |-> 0, level |-> "none", advice |-> {}, ai |-> "none"]

AuditInit ==
  /\ audit \in [request : Audits, site : Sites, step : {"asked"}]
  /\ covered \in BOOLEAN
  /\ outcome = [m \in ScanModules |-> Pending]
  /\ report = NoReport

(***************************************************************************)
(* Gate                                                                    *)
(***************************************************************************)

\* The covering authorization is only looked at here. A name is resolved
\* once more after it, and may not be resolved then.
Gate ==
  /\ audit.step = "asked"
  /\ \/ covered /\ audit' = [audit EXCEPT !.step = "scanning"]
     \/ audit' = [audit EXCEPT !.step = "refused"]
  /\ UNCHANGED <<covered, outcome, report>>

Coverage ==
  /\ audit.step \in {"asked", "scanning"} /\ covered' = ~covered
  /\ UNCHANGED <<audit, outcome, report>>

\* Of a network the first host is scanned, and no other.
Host == Head(audit.site.hosts)
Request == audit.request
Due == {m \in Request.modules : audit.site.type = "domain" \/ m \notin {"dns", "subdomains"}}

(***************************************************************************)
(* Scanners: what each returns of a host when the probes in lost get no    *)
(* answer.  A page is probed at a scheme, a port at its number, a name at  *)
(* its type.                                                               *)
(***************************************************************************)

Reached(lost) == {i \in DOMAIN Request.schemes :
                    Request.schemes[i] \in Host.serves \ lost}
Shows(facts) == Host.shows \cap facts

\* Schemes are tried until one answers.
Headers(lost) ==
  IF Reached(lost) = {} THEN {"no answer"} ELSE Shows({"missing header", "telling header"})

Listed == [light |-> {"ftp"}, standard |-> {"ftp", "redis"}, thorough |-> {"ftp", "redis"}]
Asked == IF Request.ports = {} THEN Listed[Request.intensity] ELSE Request.ports
Ports(lost) == Shows(Asked \cup {"over 10 ports", "over 20 ports"}) \ lost

\* Each version, the certificate and the ciphers by connections of their own.
\* A client that does not verify sees no certificate and no shared ciphers.
Versions(lost) == Shows({"TLS 1.2", "TLS 1.3", "TLS 1.1"}) \ lost
Tls(lost) ==
  (Versions(lost) \cap {"TLS 1.1", "TLS 1.3"})
    \cup (IF Versions(lost) = {} THEN {"no TLS"} ELSE {})

\* SPF stands in the TXT records; DMARC there or one label below; transfers
\* are tried at the name servers, which the NS records tell.
Dns(lost) ==
  LET Has(fact, names) == fact \in Host.shows /\ names \ lost # {} IN
  (IF Has("SPF", {"TXT"}) THEN {} ELSE {"no SPF"})
    \cup (IF Has("DMARC", {"TXT"}) \/ Has("DMARC below", {"_dmarc"}) THEN {} ELSE {"no DMARC"})
    \cup (IF lost \cap {"NS", "AXFR"} = {} THEN Shows({"transfer"}) ELSE {})
    \cup (IF "DNSKEY" \in lost THEN {} ELSE Shows({"unsigned"}))

\* Schemes are tried until a wall shows, by its headers or by how it answers
\* to what looks like an attack.
Waf(lost) ==
  IF Reached(lost) # {}
     /\ \/ "wall" \in Host.shows
        \/ "wall if attacked" \in Host.shows /\ "attack" \notin lost
  THEN {} ELSE {"no wall"}

\* The first scheme only, https where none is named; an origin each.
First(lost) ==
  (IF Request.schemes = <<>> THEN "https" ELSE Head(Request.schemes)) \in Host.serves \ lost
Cors(lost) ==
  IF First(lost)
  THEN (IF {"named origin", "null origin"} \subseteq lost THEN {}
        ELSE Shows({"any origin with credentials"}))
         \cup (IF "named origin" \in lost THEN {} ELSE Shows({"reflected origin"}))
         \cup (IF "null origin" \in lost THEN {} ELSE Shows({"null origin"}))
  ELSE {}

\* Schemes until one sets cookies.
Cookies(lost) ==
  IF Reached(lost) # {} THEN Shows({"insecure cookie", "script cookie"}) ELSE {}

Info(lost) ==
  IF First(lost)
  THEN Shows({"internal address"})
         \cup (IF "paths" \in lost THEN {} ELSE Shows({"secret path", "open path", "error text"}))
  ELSE {}

Misconfig(lost) ==
  IF First(lost)
  THEN (IF "OPTIONS" \in lost THEN {} ELSE Shows({"TRACE"}))
         \cup (IF "paths" \in lost THEN {} ELSE Shows({"listing", "debug page"}))
  ELSE {}

Nothing(lost) == {}

Schemes == {"https", "http"}
Probes == [headers |-> Schemes, ports |-> {"ftp", "redis"}, tls |-> {"TLS 1.1", "TLS 1.2", "TLS 1.3"},
           dns |-> {"TXT", "_dmarc", "NS", "AXFR", "DNSKEY"}, waf |-> Schemes \cup {"attack"},
           tech |-> {}, subdomains |-> {}, cors |-> Schemes \cup {"named origin", "null origin"},
           cookies |-> Schemes, info |-> Schemes \cup {"paths"},
           misconfig |-> Schemes \cup {"paths", "OPTIONS"}]

Returns(m, lost) ==
  CASE m = "headers" -> Headers(lost)
    [] m = "ports" -> Ports(lost)
    [] m = "tls" -> Tls(lost)
    [] m = "dns" -> Dns(lost)
    [] m = "waf" -> Waf(lost)
    [] m = "cors" -> Cors(lost)
    [] m = "cookies" -> Cookies(lost)
    [] m = "info" -> Info(lost)
    [] m = "misconfig" -> Misconfig(lost)
    [] OTHER -> Nothing(lost)

\* A scanner returns, or raises and is left out, as that of the headers does
\* where no scheme is named.
RunModule(m) ==
  /\ audit.step = "scanning" /\ m \in Due /\ outcome[m] = Pending
  /\ \/ /\ m = "headers" => Request.schemes # <<>>
        /\ \E lost \in SUBSET Probes[m] :
             outcome' = [outcome EXCEPT ![m] = [state |-> "returned", saw |-> Returns(m, lost),
                                                lost |-> lost]]
     \/ outcome' = [outcome EXCEPT ![m] = Raised]
  /\ UNCHANGED <<audit, covered, report>>

(***************************************************************************)
(* Report                                                                  *)
(***************************************************************************)

High == {"redis", "transfer", "reflected origin", "secret path", "debug page"}
Medium == {"TLS 1.1", "no TLS", "no SPF", "no DMARC", "ftp", "null origin", "insecure cookie",
           "script cookie", "open path", "error text", "listing", "TRACE"}
Severity(f) ==
  CASE f = "any origin with credentials" -> "critical"
    [] f \in High -> "high"
    [] f = "missing header" -> Host.header
    [] f \in Medium -> "medium"
    [] f \in {"telling header", "unsigned", "internal address"} -> "low"
    [] OTHER -> "info"
Weight == [critical |-> 25, high |-> 15, medium |-> 8, low |-> 3, info |-> 1]

\* Findings of a kind: missing headers and exposed paths come in numbers, the
\* paths of a host all of one kind here.
PathLimit == 10
Count(f) ==
  CASE f \in {"secret path", "open path"} -> IF Host.many > PathLimit THEN PathLimit ELSE Host.many
    [] f = "missing header" -> Host.many
    [] OTHER -> 1
Capped(n) == IF n > 100 THEN 100 ELSE n
Score(seen, findings) ==
  IF findings = {} THEN 0
  ELSE Capped(Capped(MapThenSumSet(LAMBDA f : Weight[Severity(f)] * Count(f), findings))
                + IF "over 20 ports" \in seen THEN 5 ELSE 0)
Level(score) ==
  CASE score >= 75 -> "critical" [] score >= 50 -> "high"
    [] score >= 25 -> "medium" [] OTHER -> "low"

Advised == {"missing header", "no wall", "no SPF", "no DMARC", "transfer", "listing", "debug page",
            "secret path", "open path", "reflected origin", "any origin with credentials",
            "insecure cookie", "script cookie", "over 10 ports"}
Advice(results, seen, findings) ==
  LET all == (seen \cap Advised)
               \cup (IF \E f \in findings : Severity(f) \in {"critical", "high"}
                     THEN {"urgent"} ELSE {})
               \cup (IF "tls" \in results /\ "TLS 1.3" \notin seen
                     THEN {"TLS 1.3"} ELSE {})
  IN IF all = {} THEN {"overall good"} ELSE all

\* The analysis knows no category of these findings, and raises; what is
\* requested is summed up.
Analysis(findings) == IF Request.analysis /\ findings # {} THEN "fallback" ELSE "none"

\* Of the results of these scanners.
Compile(results) ==
  LET seen == UNION {outcome[m].saw : m \in results}
      findings == seen \ {"TLS 1.3", "over 10 ports", "over 20 ports"}
      score == Score(seen, findings)
  IN report' = [findings |-> findings, score |-> score, level |-> Level(score),
                advice |-> Advice(results, seen, findings), ai |-> Analysis(findings)]

Reports(results, how) ==
  /\ Compile(results)
  /\ audit' = [audit EXCEPT !.step = how]
  /\ UNCHANGED <<covered, outcome>>

\* Broken: one that raises takes the others' results with it.
FinishedBroken ==
  IF \E m \in Due : outcome[m] = Raised THEN {}
  ELSE {m \in ScanModules : outcome[m].state = "returned"}
Finished == {m \in ScanModules : outcome[m].state = "returned"}

Report ==
  /\ audit.step = "scanning" /\ \A m \in Due : outcome[m] # Pending
  /\ Reports(Finished, "reported")

\* The scanners that are not done are cancelled, and nothing of what the others
\* returned is kept. The response does not tell that it was cut off.
GlobalTimeout ==
  /\ audit.step = "scanning" /\ \E m \in Due : outcome[m] = Pending
  /\ Reports({}, "cut off")

AuditNext ==
  Gate \/ Coverage \/ (\E m \in Due : RunModule(m)) \/ Report \/ GlobalTimeout

AuditSpec == AuditInit /\ [][AuditNext]_auditVars

-----------------------------------------------------------------------------

\* What each scanner can tell of a host, and where.
Detects == [headers |-> {"missing header", "telling header"}, ports |-> Asked, tls |-> {"TLS 1.1"},
            dns |-> {"transfer", "unsigned"}, waf |-> {}, tech |-> {}, subdomains |-> {},
            cors |-> {"any origin with credentials", "reflected origin", "null origin"},
            cookies |-> {"insecure cookie", "script cookie"},
            info |-> {"internal address", "secret path", "open path", "error text"},
            misconfig |-> {"TRACE", "listing", "debug page"}]
FirstOnly == {"cors", "info", "misconfig"}
Answers(m) ==
  /\ outcome[m].state = "returned" /\ outcome[m].lost = {}
  /\ m \in FirstOnly => First({})
  /\ m \in {"headers", "cookies", "waf"} => Reached({}) # {}
\* What a finding denies of the host.
Denies == [f \in {"no SPF", "no DMARC", "no wall", "no TLS"} |->
             CASE f = "no SPF" -> {"SPF"}
               [] f = "no DMARC" -> {"DMARC", "DMARC below"}
               [] f = "no wall" -> {"wall", "wall if attacked"}
               [] f = "no TLS" -> {"TLS 1.1", "TLS 1.2", "TLS 1.3"}]
SaidBy == [f \in DOMAIN Denies |->
             CASE f = "no wall" -> "waf" [] f = "no TLS" -> "tls" [] OTHER -> "dns"]

\* What a host shows is reported by every scanner that looks for it and had all
\* its answers.
FinishedAreHeard ==
  \A m \in Due : Answers(m) => Detects[m] \cap Host.shows \subseteq report.findings

\* Whatever probes are lost and whichever scanners raise: as long as the time
\* for all of them is not over, those that had all their answers are heard;
\* in time or not, what is reported the host shows, or, of what it is said to
\* lack, it lacks that or an answer was missing; and the posture is called good
\* only when nothing reported is critical or high.
ReportOwed ==
  /\ audit.step = "reported" => FinishedAreHeard
  /\ audit.step \in {"reported", "cut off"} =>
       /\ \A f \in report.findings :
            \/ f \in Host.shows
            \/ f = "no answer" /\ ~Answers("headers")
            \/ f \in DOMAIN Denies /\ (Answers(SaidBy[f]) => Denies[f] \cap Host.shows = {})
       /\ "overall good" \in report.advice =>
            \A f \in report.findings : Severity(f) \notin {"critical", "high"}

\* "Coordinates multiple scanning modules concurrently, enforces safety
\* timeouts, and compiles results into a structured audit report": the results
\* that are there are in the report, also when the time was over.
ResultsAreCompiled ==
  audit.step \in {"reported", "cut off"} => FinishedAreHeard

=============================================================================
