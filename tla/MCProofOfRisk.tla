----------------------------- MODULE MCProofOfRisk -----------------------------
(***************************************************************************)
(* An instance of ProofOfRisk for TLC.                                     *)
(***************************************************************************)
EXTENDS ProofOfRisk

\* Steps with a finding the graph knows, with one it does not, and without.
StepOf(id, refs) == [id |-> id, names |-> TRUE, refs |-> refs, evidence |-> "fields"]
Csp     == StepOf("step 1", <<"missing_csp">>)
Hsts    == StepOf("opaque 1", <<"missing_hsts">>)
Again   == StepOf("opaque 2", <<"missing_hsts">>)
Strange == StepOf("step 2", <<>>)
Plainly == [Strange EXCEPT !.names = FALSE]
BundleOf(raw) == [loads |-> TRUE, tenant |-> TRUE, verified |-> TRUE, raw |-> raw,
                  sanitized |-> <<Hsts>>, host |-> TRUE]
TwelveBundles ==
  {BundleOf(raw) : raw \in {<<>>, <<Csp>>, <<Csp, Hsts>>, <<Hsts, Again>>, <<Strange>>,
                            <<Strange, Csp>>, <<Plainly>>,
                            <<[Csp EXCEPT !.evidence = "text"]>>}}
    \cup {[BundleOf(<<Csp>>) EXCEPT !.loads = FALSE], [BundleOf(<<Csp>>) EXCEPT !.tenant = FALSE],
          [BundleOf(<<Csp>>) EXCEPT !.verified = FALSE], [BundleOf(<<Csp>>) EXCEPT !.host = FALSE]}

AskOf(mode, audience, forced) ==
  [mode |-> mode, audience |-> audience, forced |-> forced, simulate |-> forced]
FourAnalyses ==
  {AskOf("retest_plan", "developer", FALSE), AskOf("retest_plan", "developer", TRUE),
   AskOf("retest_plan", "executive", FALSE), AskOf("full_report", "auditor", FALSE)}
ConfigOf(mode, available, sandbox) ==
  [mode |-> mode, available |-> available, simulation |-> sandbox # "none", sandbox |-> sandbox]
SevenConfigs ==
  {ConfigOf("deterministic", {"claude"}, "internal"),
   ConfigOf("local_only", {"claude", "local_amd_model"}, "listed"),
   ConfigOf("hybrid", {"claude", "fireworks_gemma"}, "internal"),
   ConfigOf("hybrid", {"fireworks_gemma"}, "production"),
   ConfigOf("hybrid", {}, "none"),
   ConfigOf("fireworks_only", {"claude", "fireworks_gemma"}, "none"),
   ConfigOf("fireworks_only", {"claude"}, "elsewhere")}

=============================================================================
