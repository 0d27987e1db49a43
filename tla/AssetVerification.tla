--------------------------- MODULE AssetVerification ---------------------------
(***************************************************************************)
(* Assets, and the DNS challenges by which their ownership is proved.      *)
(*                                                                         *)
(* create_challenge and verify lock the asset, then the challenge; verify  *)
(* keeps both locks while it asks the DNS.  cancel locks the challenge     *)
(* only, and request_verification locks nothing: it writes what it decided *)
(* from a row it may have read long before.                                *)
(***************************************************************************)
EXTENDS Naturals, FiniteSets

CONSTANTS
  OwnedAssets,
  Challenges,
  Clients,          \* concurrent requests for verification
  Payloads,         \* type and target of assets to register
  ChallengeTTL,
  MaximumAttempts,
  LastHour          \* bound of the clock

ASSUME VerificationAssumption ==
  /\ MaximumAttempts \in Nat \ {0} /\ ChallengeTTL \in Nat \ {0} /\ LastHour \in Nat
  /\ "none" \notin OwnedAssets \cup Challenges

VARIABLES
  hour,
  asset,            \* row of each asset
  challenge,        \* row of each challenge
  zone,             \* challenges whose value the asset's zone answers, and how
  lookup,           \* the verify that holds each asset's lock
  decided,          \* clients that have read an asset as draft
  proof             \* history: what each challenge was verified by

verificationVars == <<hour, asset, challenge, zone, lookup, decided, proof>>

NoAsset == [status |-> "none", type |-> "none", target |-> "none"]
NoChallenge == [status |-> "none", asset |-> "none", attempts |-> 0, expires |-> 0]
NoLookup == [challenge |-> "none", step |-> "idle"]

VerificationInit ==
  /\ hour = 0
  /\ asset = [a \in OwnedAssets |-> NoAsset]
  /\ challenge = [c \in Challenges |-> NoChallenge]
  /\ zone = [c \in Challenges |-> "nothing"]
  /\ lookup = [a \in OwnedAssets |-> NoLookup]
  /\ decided = [k \in Clients |-> "none"]
  /\ proof = [c \in Challenges |-> "none"]

UrlTypes == {"web_application", "api", "repository"}
SupportedTypes == {"web_application", "api"}

\* Whether a target of this shape has a canonical form for the type.
Normalizes(type, target) ==
  \/ type \in UrlTypes /\ target = "https url"
  \/ type = "ip_address" /\ target = "address"
  \/ type = "cidr_range" /\ target \in {"network", "address"}
  \/ type = "mobile_application" /\ target \in {"word", "address"}
  \/ type = "service" /\ target \in {"word", "host and port", "address"}

HasHostname(target) == target = "https url"

(***************************************************************************)
(* Assets                                                                  *)
(***************************************************************************)

RegisterAsset(a, p) ==
  /\ asset[a] = NoAsset /\ Normalizes(p.type, p.target)
  /\ asset' = [asset EXCEPT ![a] = [status |-> "draft", type |-> p.type, target |-> p.target]]
  /\ UNCHANGED <<hour, challenge, zone, lookup, decided, proof>>

\* request_verification reads the row...
DecideRequest(k, a) ==
  /\ decided[k] = "none" /\ asset[a].status = "draft"
  /\ decided' = [decided EXCEPT ![k] = a]
  /\ UNCHANGED <<hour, asset, challenge, zone, lookup, proof>>

\* ...and writes it by its key, once no verify holds its lock, or fails.
WriteRequest(k) ==
  LET a == decided[k] IN
  /\ a # "none"
  /\ \/ lookup[a] = NoLookup /\ asset' = [asset EXCEPT ![a].status = "pending_verification"]
     \/ UNCHANGED asset
  /\ decided' = [decided EXCEPT ![k] = "none"]
  /\ UNCHANGED <<hour, challenge, zone, lookup, proof>>

(***************************************************************************)
(* Challenges                                                              *)
(***************************************************************************)

PendingExists(a) ==
  \E c \in Challenges : challenge[c].asset = a /\ challenge[c].status = "pending"

\* Project and organization may refuse, which changes nothing.
CreateChallenge(c, a) ==
  /\ challenge[c] = NoChallenge /\ lookup[a] = NoLookup
  /\ asset[a].type \in SupportedTypes /\ asset[a].status = "pending_verification"
  /\ ~PendingExists(a)
  /\ challenge' = [challenge EXCEPT ![c] = [status |-> "pending", asset |-> a, attempts |-> 0,
                                            expires |-> hour + ChallengeTTL]]
  /\ UNCHANGED <<hour, asset, zone, lookup, decided, proof>>

Closes(c, status) == challenge' = [challenge EXCEPT ![c].status = status]

\* What verify does before it asks the DNS: an ended challenge is answered as
\* it is.
BeginVerify(c) ==
  LET a == challenge[c].asset IN
  /\ challenge[c].status = "pending" /\ lookup[a] = NoLookup
  /\ \/ /\ hour >= challenge[c].expires
        /\ Closes(c, "expired")
        /\ UNCHANGED lookup
     \/ /\ hour < challenge[c].expires /\ asset[a].status = "pending_verification"
        /\ lookup' = [lookup EXCEPT ![a] = [challenge |-> c, step |-> "record"]]
        /\ UNCHANGED challenge
  /\ UNCHANGED <<hour, asset, zone, decided, proof>>

Asking(a, c, step) == lookup[a] = [challenge |-> c, step |-> step]

\* The record's name, then a name beside it that only a wildcard answers.
AskDns(a, c) ==
  /\ Asking(a, c, "record") /\ zone[c] # "nothing"
  /\ lookup' = [lookup EXCEPT ![a].step = "control"]
  /\ UNCHANGED <<hour, asset, challenge, zone, decided, proof>>

\* Broken: the answer to the control name is not looked at.
WildcardBroken(c, answered) == FALSE
Wildcard(c, answered) == answered /\ zone[c] = "wildcard"

\* The value was there. A control name that cannot be asked is no wildcard.
Accept(a, c) ==
  /\ Asking(a, c, "control")
  /\ \E answered \in BOOLEAN :
       /\ ~Wildcard(c, answered)
       /\ proof' = [proof EXCEPT ![c] = IF zone[c] = "wildcard" /\ answered
                                        THEN "known wildcard" ELSE "answer"]
  /\ Closes(c, "verified")
  /\ asset' = [asset EXCEPT ![a].status = "verified"]
  /\ lookup' = [lookup EXCEPT ![a] = NoLookup]
  /\ UNCHANGED <<hour, zone, decided>>

\* The value was not there, or the control name answered with it too.
Mismatch(a, c) ==
  LET n == challenge[c].attempts + 1 IN
  /\ \/ Asking(a, c, "record") /\ zone[c] = "nothing"
     \/ Asking(a, c, "control") /\ Wildcard(c, TRUE)
  /\ challenge' = [challenge EXCEPT
       ![c].attempts = n,
       ![c].status = IF n >= MaximumAttempts THEN "failed" ELSE "pending"]
  /\ lookup' = [lookup EXCEPT ![a] = NoLookup]
  /\ UNCHANGED <<hour, asset, zone, decided, proof>>

\* The DNS cannot be asked, or the transaction fails: as if nothing had been.
Inconclusive(a) ==
  /\ lookup[a] # NoLookup
  /\ lookup' = [lookup EXCEPT ![a] = NoLookup]
  /\ UNCHANGED <<hour, asset, challenge, zone, decided, proof>>

\* Broken: whatever has not been cancelled is.
CancellableBroken(c) == challenge[c].status \notin {"none", "cancelled"}
Cancellable(c) == challenge[c].status = "pending"

\* Waits for a verify that holds the challenge.
CancelChallenge(c) ==
  /\ Cancellable(c)
  /\ lookup[challenge[c].asset].challenge # c
  /\ Closes(c, "cancelled")
  /\ UNCHANGED <<hour, asset, zone, lookup, decided, proof>>

\* Whoever runs the zone publishes what create_challenge answered, or takes it
\* back; of ended challenges that does not matter.
Publish(c) ==
  /\ challenge[c].status = "pending"
  /\ zone' \in {[zone EXCEPT ![c] = how] : how \in {"nothing", "record", "wildcard"}}
  /\ UNCHANGED <<hour, asset, challenge, lookup, decided, proof>>

HourPasses ==
  /\ hour < LastHour /\ hour' = hour + 1
  /\ UNCHANGED <<asset, challenge, zone, lookup, decided, proof>>

VerificationNext ==
  \/ \E a \in OwnedAssets, p \in Payloads : RegisterAsset(a, p)
  \/ \E k \in Clients : WriteRequest(k) \/ \E a \in OwnedAssets : DecideRequest(k, a)
  \/ \E c \in Challenges, a \in OwnedAssets :
       CreateChallenge(c, a) \/ AskDns(a, c) \/ Accept(a, c) \/ Mismatch(a, c)
  \/ \E c \in Challenges :
       BeginVerify(c) \/ CancelChallenge(c) \/ Publish(c)
  \/ \E a \in OwnedAssets : Inconclusive(a)
  \/ HourPasses

VerificationSpec == VerificationInit /\ [][VerificationNext]_verificationVars

-----------------------------------------------------------------------------

ChallengesOf(a, status) ==
  {c \in Challenges : challenge[c].asset = a /\ challenge[c].status = status}

\* However requests, verifies, cancellations and the zone interleave: a
\* verified asset owes it to a challenge whose value its own zone answered,
\* and not only by a wildcard that was seen; an asset has at most one pending
\* challenge, and a host to ask for whenever it has one; a pending challenge
\* has attempts left.
VerifiedByProof ==
  \A a \in OwnedAssets :
    /\ asset[a].status = "verified" => \E c \in ChallengesOf(a, "verified") : proof[c] = "answer"
    /\ Cardinality(ChallengesOf(a, "pending")) <= 1
    /\ \A c \in ChallengesOf(a, "pending") :
         HasHostname(asset[a].target) /\ challenge[c].attempts < MaximumAttempts

\* "verified/expired/failed/cancelled are terminal." An asset, for its part,
\* loses its verification only to a request that had read it as a draft.
VerificationMoves ==
  [][/\ \A c \in Challenges :
          challenge[c].status \notin {"none", "pending"} => challenge'[c] = challenge[c]
     /\ \A a \in OwnedAssets : asset[a].status = "verified" /\ asset'[a] # asset[a] =>
          \E k \in Clients : decided[k] = a /\ decided'[k] = "none"
    ]_verificationVars

=============================================================================
