------------------------------ MODULE MCServices ------------------------------
(***************************************************************************)
(* An instance of the services that stand on their own: a behaviour is one *)
(* of one of them, the others rest.                                        *)
(***************************************************************************)
EXTENDS Authorization, AssetVerification, Accounts, DevelopmentQueue, Migrations, MCPentestAudit,
        MCProofOfRisk

CONSTANTS
  asset1, passive, critical, r1, r2,
  a1, h1, h2, k1, k2,
  u1, u2, t1, t2,
  e1, e2, w1, w2,
  c1, c2

OneAsset    == {asset1}
TwoGrants   == {passive, critical}
PassiveOnly == {<<passive, {asset1}>>}
TwoReaders  == {r1, r2}

OneOwnedAsset == {a1}
TwoChallenges == {h1, h2}
TwoClients    == {k1, k2}
UrlOrWord     == {[type |-> "web_application", target |-> "https url"],
                  [type |-> "service", target |-> "word"]}

TwoUsers    == {u1, u2}
TwoRequests == {t1, t2}

TwoExecutions == {e1, e2}
TwoConsumers  == {w1, w2}

TwoContainers == {c1, c2}
ThreeReleases == {3, 6, 10}

-----------------------------------------------------------------------------

VARIABLE component   \* the one that moves

Components ==
  {"authorization", "verification", "accounts", "queue", "migrations", "audit", "proof"}

AuthorizationRests ==
  /\ verified = {}
  /\ \A a, b \in Auths : terms[a] = terms[b] /\ window[a] = window[b]
  /\ terms[1] = <<passive, {}>> /\ window[1] = <<0, 1>>

ServicesInit ==
  /\ component \in Components
  /\ VerificationInit /\ QueueInit /\ MigrationsInit
  /\ AccountsInit
  /\ component # "accounts" => \A u \in Users : users[u] = Unborn
  /\ Init
  /\ component # "authorization" => AuthorizationRests
  /\ AuditInit
  /\ component # "audit" =>
       audit.site.hosts = <<Good>> /\ audit.request.modules = {"cors"} /\ ~covered
  /\ ProofInit
  /\ component # "proof" =>
       /\ analysis.evidence = BundleOf(<<>>)
       /\ analysis.request = AskOf("retest_plan", "developer", FALSE)
       /\ analysis.config = ConfigOf("hybrid", {}, "none")

ServicesNext ==
  \/ /\ component = "authorization" /\ Next
     /\ UNCHANGED <<component, verificationVars, accountVars, queueVars, migrationsVars, auditVars,
                  proofVars>>
  \/ /\ component = "verification" /\ VerificationNext
     /\ UNCHANGED <<component, vars, accountVars, queueVars, migrationsVars, auditVars,
                  proofVars>>
  \/ /\ component = "accounts" /\ AccountsNext
     /\ UNCHANGED <<component, vars, verificationVars, queueVars, migrationsVars, auditVars,
                  proofVars>>
  \/ /\ component = "queue" /\ QueueNext
     /\ UNCHANGED <<component, vars, verificationVars, accountVars, migrationsVars, auditVars,
                  proofVars>>
  \/ /\ component = "migrations" /\ MigrationsNext
     /\ UNCHANGED <<component, vars, verificationVars, accountVars, queueVars, auditVars,
                  proofVars>>
  \/ /\ component = "audit" /\ AuditNext
     /\ UNCHANGED <<component, vars, verificationVars, accountVars, queueVars, migrationsVars,
                  proofVars>>
  \/ /\ component = "proof" /\ ProofNext
     /\ UNCHANGED <<component, vars, verificationVars, accountVars, queueVars, migrationsVars,
                  auditVars>>

servicesVars ==
  <<component, vars, verificationVars, accountVars, queueVars, migrationsVars, auditVars,
    proofVars>>

\* Authorization's own fairness, where it is that one which moves.
ServicesSpec ==
  /\ ServicesInit /\ [][ServicesNext]_servicesVars
  /\ \A r \in Readers : SF_vars(Examine(r)) /\ WF_vars(EndRead(r))

=============================================================================
