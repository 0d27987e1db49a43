------------------------------ MODULE ProofOfRisk ------------------------------
(***************************************************************************)
(* The analysis of an execution's evidence: from the findings of its steps *)
(* to a graph, a scenario, a simulation, a verdict, a plan and a report,   *)
(* the last three by a remote model where the router picks one, and by a   *)
(* generator where it does not, or where the model fails.                  *)
(***************************************************************************)
EXTENDS Naturals, Sequences, FiniteSets

CONSTANTS
  Bundles,         \* what an evidence provider may load of an execution
  ProofRequests,   \* analyses a client asks for
  ProofConfigs     \* router mode, providers at hand, sandbox

\* A step's result as a provider tells it: its name, the findings it names
\* where it names any, and evidence with fields or as plain text.
StepResults ==
  [id : STRING, names : BOOLEAN, refs : Seq(STRING), evidence : {"fields", "text"}]

\* Every provider gives the steps of one execution names of their own.
ASSUME BundlesAssumption ==
  \A bundle \in Bundles : \A results \in {bundle.raw, bundle.sanitized} :
    /\ results \in Seq(StepResults)
    /\ \A i, j \in DOMAIN results : results[i].id = results[j].id => i = j

VARIABLES
  analysis,   \* the request, its evidence and configuration, and how far it is
  made,       \* what the analysis has made so far
  reply       \* what a remote model answered for each section it was asked for

proofVars == <<analysis, made, reply>>

Sections == {"verdict", "plan", "report"}
NothingMade ==
  [graph |-> {}, scenario |-> "none", simulated |-> FALSE, proofs |-> {}, route |-> "none",
   verdict |-> "none", plan |-> "none", retest |-> "none", report |-> "none"]

ProofInit ==
  /\ analysis \in [request : ProofRequests, evidence : Bundles, config : ProofConfigs,
                   step : {"asked"}]
  /\ made = NothingMade
  /\ reply = [s \in Sections |-> "not asked"]

(***************************************************************************)
(* Evidence and findings                                                   *)
(***************************************************************************)

\* Bodies, credential fields and headers go, text is cleaned; lists and what
\* lies deeper stay as they are. An identifier as long as a secret is cleaned
\* as one.
Redacted(step) ==
  [step EXCEPT !.id = IF @ \in {"opaque 1", "opaque 2"} THEN "redacted" ELSE @]

Results ==
  IF analysis.evidence.raw = <<>> THEN analysis.evidence.sanitized ELSE analysis.evidence.raw

\* What names findings, each by its place among the results.
Named == {i \in DOMAIN Results : Results[i].names}
Steps == [i \in Named |-> Redacted(Results[i])]
Findings ==
  [i \in Named |->
     [id |-> Steps[i].id, type |-> IF Steps[i].refs = <<>> THEN "Unknown" ELSE Head(Steps[i].refs)]]
FirstFinding == Findings[CHOOSE i \in Named : \A j \in Named : i <= j]

Simulable == {"missing_csp", "missing_x_frame_options", "insecure_cookie_flags", "permissive_cors"}
RuleOnly == Simulable \cup {"missing_hsts"}
\* Types with a fragment of the graph; the same have a template of a scenario.
Fragments ==
  RuleOnly \cup {"missing_referrer_policy", "missing_permissions_policy",
                 "missing_x_content_type_options", "missing_security_header"}

Recognized == {i \in Named : Findings[i].type \in Fragments}
Graph == {Findings[i] : i \in Recognized}
Scenario == IF Named # {} /\ FirstFinding.type \in Fragments THEN FirstFinding.type ELSE "none"

(***************************************************************************)
(* Routing                                                                 *)
(***************************************************************************)

\* A finding is complex for a full report and simple otherwise, so the local
\* model, which takes the ones between, is never chosen.
Deep ==
  \/ analysis.request.forced
  \/ analysis.request.audience = "executive"
  \/ analysis.request.mode \in {"full_report", "risk_tribunal"}

Route(type) ==
  LET Mode(m) == analysis.config.mode \in m
      Available(p) == p \in analysis.config.available
  IN CASE Mode({"deterministic"}) -> "deterministic_fallback"
       [] ~Mode({"deterministic"}) /\ ~Deep /\ type \in RuleOnly -> "rule_only"
       [] Deep /\ Mode({"hybrid"}) /\ Available("claude") -> "claude"
       [] Deep /\ Mode({"hybrid", "fireworks_only"}) /\ Available("fireworks_gemma")
            /\ (Mode({"hybrid"}) => ~Available("claude")) -> "fireworks_gemma"
       [] OTHER -> "deterministic_fallback"

RemoteRoutes == {"claude", "fireworks_gemma"}
Remote == made.route \in RemoteRoutes

(***************************************************************************)
(* The pipeline                                                            *)
(***************************************************************************)

Goes(to) == analysis' = [analysis EXCEPT !.step = to]

\* Missing and another tenant's execution are one answer.
RefuseAnalysis ==
  /\ analysis.step = "asked"
  /\ \/ ~(analysis.evidence.loads /\ analysis.evidence.tenant) /\ Goes("not found")
     \/ /\ analysis.evidence.loads /\ analysis.evidence.tenant /\ ~analysis.evidence.verified
        /\ Goes("unverified")
  /\ UNCHANGED <<made, reply>>

\* Evidence that is text, or findings none of which the graph knows, fail the
\* analysis. A first finding without a template only has no scenario.
Examines ==
  /\ analysis.step = "asked"
  /\ analysis.evidence.loads /\ analysis.evidence.tenant /\ analysis.evidence.verified
  /\ IF \/ \E i \in Named : Steps[i].evidence = "text"
        \/ Named # {} /\ Recognized = {}
     THEN Goes("failed") /\ UNCHANGED made
     ELSE /\ Goes("sandbox")
          /\ made' = [made EXCEPT !.graph = Graph, !.scenario = Scenario,
                        !.route = IF Named = {} THEN "none" ELSE Route(FirstFinding.type)]
  /\ UNCHANGED reply

\* A configured address is that of the asset that was validated, or else internal
\* (private or local), of one of the three public suffixes the guard lists,
\* public elsewhere, of a metadata service, or carries a user's name. The guard
\* knows the public ones by the suffix only, and the validated one only where the
\* evidence names its host.
Allowed(url) ==
  \/ url \in {"internal", "elsewhere"}
  \/ url = "production" /\ ~analysis.evidence.host
AfterSandbox == IF made.scenario = "none" THEN "report" ELSE "verdict"

\* A rejected target and a scenario without a handler are logged, no more.
Simulate ==
  LET on == analysis.request.simulate /\ analysis.config.simulation IN
  /\ analysis.step = "sandbox"
  /\ made' = [made EXCEPT !.simulated = on,
                !.proofs = IF on /\ Allowed(analysis.config.sandbox)
                           THEN {made.scenario} \cap Simulable ELSE {}]
  /\ Goes(AfterSandbox) /\ UNCHANGED reply

\* Fireworks is prompted with the scenario as JSON, which the scenario's dump is
\* not: its execution is no text.
Unspeakable == made.route = "fireworks_gemma" /\ made.scenario # "none"

\* What may come of a call. Odd is JSON of another shape or with other values, and
\* with all the names.
MayAnswer(route) ==
  {"error", "unsafe", "incomplete", "valid"}
    \cup (IF route = "fireworks_gemma" THEN {"no JSON", "no content", "odd"} ELSE {})
\* Errors of a call are caught, what its answer makes of the code that reads
\* it is not; a report is not validated.
Raises(section, answer) ==
  answer = "no content" \/ (section = "report" /\ answer = "odd")

\* Broken: what the provider returns is taken, a failure too.
WrittenByBroken(answer) == IF answer = "valid" THEN "provider" ELSE "none"
WrittenBy(answer) == IF answer = "valid" THEN "provider" ELSE "generator"

After == [verdict |-> "plan", plan |-> "report", report |-> "answered"]
Records(section, writer) ==
  made' = [made EXCEPT ![section] = writer,
             !.retest = IF section = "plan" THEN "generator" ELSE @]

GenerateSection(section) ==
  /\ analysis.step = section /\ ~Remote
  /\ Records(section, "generator")
  /\ Goes(After[section]) /\ UNCHANGED reply

\* The prompt is made before the call and outside of what catches its errors.
FailToPrompt(section) ==
  /\ analysis.step = section /\ Remote /\ Unspeakable
  /\ Goes("failed") /\ UNCHANGED <<made, reply>>

AskModel(section) ==
  /\ analysis.step = section /\ Remote /\ ~Unspeakable
  /\ \E answer \in MayAnswer(made.route) :
       /\ reply' = [reply EXCEPT ![section] = answer]
       /\ IF Raises(section, answer)
          THEN Goes("failed") /\ UNCHANGED made
          ELSE Records(section, WrittenBy(answer)) /\ Goes(After[section])

ProofNext ==
  \/ RefuseAnalysis \/ Examines \/ Simulate
  \/ \E s \in Sections : GenerateSection(s) \/ FailToPrompt(s) \/ AskModel(s)

ProofSpec == ProofInit /\ [][ProofNext]_proofVars

-----------------------------------------------------------------------------

AskedOf == {s \in Sections : reply[s] # "not asked"}

\* An answered analysis has a report, and with a scenario its verdict, plan and
\* retest too, without one none of them; a section is a model's exactly where
\* that model's answer to it was valid; a model was asked for each section or
\* for none; every finding the graph knows is in it unless cleaning made their
\* names the same.
AnsweredIsWhole ==
  analysis.step = "answered" =>
    /\ made.report # "none"
    /\ \A part \in {"verdict", "plan", "retest"} :
         made[part] = "none" <=> made.scenario = "none"
    /\ \A s \in Sections : made[s] = "provider" <=> reply[s] = "valid"
    /\ AskedOf = IF Remote THEN {s \in Sections : made[s] # "none"} ELSE {}
    /\ \/ Cardinality(made.graph) = Cardinality(Recognized)
       \/ \E finding \in made.graph : finding.id = "redacted"

\* A model was asked only on a route of an available provider, never for a
\* well-known finding that nobody wants deep reasoning on.
AskedWhereRouted ==
  AskedOf # {} =>
    /\ made.route \in analysis.config.available \cap RemoteRoutes
    /\ analysis.config.mode \in {"hybrid", "fireworks_only"}
    /\ FirstFinding.type \in RuleOnly => Deep

\* A simulation was proven only where both switches were on and there was a
\* sandbox, and never against the asset whose host the evidence names.
ProvenWhereOn ==
  made.proofs # {} =>
    /\ analysis.request.simulate /\ analysis.config.simulation
    /\ analysis.config.sandbox \notin {"none", "listed", "metadata", "userinfo"}
    /\ analysis.config.sandbox = "production" => ~analysis.evidence.host
    /\ made.proofs = {FirstFinding.type}

\* What fails is evidence without a known finding, a scenario that Fireworks was to
\* be told, or an answer the code cannot read.
FailedForCause ==
  analysis.step = "failed" =>
    \/ Recognized = {} \/ \E i \in Named : Steps[i].evidence = "text"
    \/ Unspeakable /\ AskedOf = {}
    \/ \E s \in AskedOf : made[s] = "none" /\ reply[s] \in {"no content", "odd"}

\* All of it, whatever the models answer, and whenever they begin or cease to
\* fail.
AnalysisHolds == AnsweredIsWhole /\ AskedWhereRouted /\ ProvenWhereOn /\ FailedForCause

=============================================================================
