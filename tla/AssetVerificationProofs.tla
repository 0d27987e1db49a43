------------------------ MODULE AssetVerificationProofs ------------------------
(***************************************************************************)
(* Proofs about AssetVerification, for any number of assets, challenges    *)
(* and clients.                                                            *)
(*                                                                         *)
(* VerifiedByProof is not inductive: that a verify accepts a challenge     *)
(* which is still pending, and of the asset it will write, is what the     *)
(* locks are for (Locked); that a pending challenge has a host to ask for  *)
(* is a matter of the payload its asset was registered with (Named).       *)
(***************************************************************************)
EXTENDS AssetVerification, FiniteSetTheorems, TLAPS

Types == {p.type : p \in Payloads} \cup {"none"}
Targets == {p.target : p \in Payloads} \cup {"none"}

AssetRows ==
  [status : {"none", "draft", "pending_verification", "verified"}, type : Types, target : Targets]
ChallengeRows ==
  [status : {"none", "pending", "verified", "expired", "failed", "cancelled"},
   asset : OwnedAssets \cup {"none"}, attempts : Nat, expires : Nat]
Lookups == [challenge : Challenges \cup {"none"}, step : {"idle", "record", "control"}]

VerificationTypeOK ==
  /\ hour \in Nat
  /\ asset \in [OwnedAssets -> AssetRows]
  /\ challenge \in [Challenges -> ChallengeRows]
  /\ zone \in [Challenges -> {"nothing", "record", "wildcard"}]
  /\ lookup \in [OwnedAssets -> Lookups]
  /\ decided \in [Clients -> OwnedAssets \cup {"none"}]
  /\ proof \in [Challenges -> {"none", "answer", "known wildcard"}]

\* What can have a challenge has a host to ask for.
Named == \A a \in OwnedAssets : asset[a].type \in SupportedTypes => asset[a].target = "https url"

Pending(c) == challenge[c].status = "pending"

Proved(a) ==
  \E c \in Challenges :
    challenge[c].asset = a /\ challenge[c].status = "verified" /\ proof[c] = "answer"

Asked ==
  \A c \in Challenges : Pending(c) =>
    /\ challenge[c].asset \in OwnedAssets /\ asset[challenge[c].asset].type \in SupportedTypes
    /\ challenge[c].attempts < MaximumAttempts
    /\ \A d \in Challenges : Pending(d) /\ challenge[d].asset = challenge[c].asset => d = c

Locked ==
  \A a \in OwnedAssets, c \in Challenges :
    lookup[a].challenge = c => Pending(c) /\ challenge[c].asset = a

VerificationInv ==
  /\ VerificationTypeOK /\ Named /\ Asked /\ Locked
  /\ \A a \in OwnedAssets : asset[a].status = "verified" => Proved(a)

\* Nothing is registered, nothing is pending.
LEMMA VerificationInitially == VerificationInit => VerificationInv
<1> SUFFICES ASSUME VerificationInit PROVE VerificationInv
  OBVIOUS
<1> USE VerificationAssumption DEF VerificationInit
<1>1. NoAsset \in AssetRows /\ NoAsset.status = "none" /\ NoAsset.type = "none"
  BY DEF NoAsset, AssetRows, Types, Targets
<1>2. NoChallenge \in ChallengeRows /\ NoChallenge.status = "none"
  BY DEF NoChallenge, ChallengeRows
<1>3. NoLookup \in Lookups /\ NoLookup.challenge = "none"
  BY DEF NoLookup, Lookups
<1>4. VerificationTypeOK
  <2>1. hour \in Nat /\ asset \in [OwnedAssets -> AssetRows]
        /\ challenge \in [Challenges -> ChallengeRows] /\ lookup \in [OwnedAssets -> Lookups]
    BY <1>1, <1>2, <1>3
  <2>2. /\ zone \in [Challenges -> {"nothing", "record", "wildcard"}]
        /\ decided \in [Clients -> OwnedAssets \cup {"none"}]
        /\ proof \in [Challenges -> {"none", "answer", "known wildcard"}]
    OBVIOUS
  <2> QED BY <2>1, <2>2 DEF VerificationTypeOK
<1>5. Named
  BY <1>1 DEF Named, SupportedTypes
<1>6. Asked
  BY <1>2 DEF Asked, Pending
<1>7. Locked
  BY <1>3 DEF Locked
<1> QED BY <1>1, <1>4, <1>5, <1>6, <1>7 DEF VerificationInv

\* A step that registers nothing and creates no challenge keeps the invariant
\* if it changes pending challenges only, leaves them at their asset with
\* attempts left, and lets no verify hold a challenge that has ended.
LEMMA RowsKept ==
  ASSUME VerificationInv, VerificationTypeOK',
         \A a \in OwnedAssets : asset'[a].type = asset[a].type /\ asset'[a].target = asset[a].target,
         \A a \in OwnedAssets : asset'[a].status = "verified" =>
           asset[a].status = "verified" \/ Proved(a)',
         \A c \in Challenges :
           \/ challenge'[c] = challenge[c] /\ proof'[c] = proof[c]
           \/ /\ Pending(c) /\ challenge'[c].asset = challenge[c].asset
              /\ Pending(c)' => challenge'[c].attempts < MaximumAttempts,
         Locked'
  PROVE  VerificationInv'
<1>1. Named'
  BY DEF VerificationInv, Named
<1>2. \A c \in Challenges :
        Pending(c)' => /\ Pending(c) /\ challenge'[c].asset = challenge[c].asset
                       /\ challenge'[c].attempts < MaximumAttempts
  BY DEF VerificationInv, Asked, Pending
<1>3. Asked'
  <2> SUFFICES ASSUME NEW c \in Challenges, Pending(c)'
               PROVE  /\ challenge'[c].asset \in OwnedAssets
                      /\ asset'[challenge'[c].asset].type \in SupportedTypes
                      /\ challenge'[c].attempts < MaximumAttempts
                      /\ \A d \in Challenges :
                           Pending(d)' /\ challenge'[d].asset = challenge'[c].asset => d = c
    BY DEF Asked
  <2>1. /\ challenge[c].asset \in OwnedAssets /\ asset[challenge[c].asset].type \in SupportedTypes
        /\ \A d \in Challenges : Pending(d) /\ challenge[d].asset = challenge[c].asset => d = c
    BY <1>2 DEF VerificationInv, Asked
  <2> QED BY <1>2, <2>1
<1>4. ASSUME NEW a \in OwnedAssets, Proved(a) PROVE Proved(a)'
  <2>1. PICK c \in Challenges :
          challenge[c].asset = a /\ challenge[c].status = "verified" /\ proof[c] = "answer"
    BY <1>4 DEF Proved
  <2>2. ~Pending(c)
    BY <2>1 DEF Pending
  <2>3. challenge'[c] = challenge[c] /\ proof'[c] = proof[c]
    BY <2>2
  <2> QED BY <2>1, <2>3 DEF Proved
<1>5. \A a \in OwnedAssets : asset'[a].status = "verified" => Proved(a)'
  BY <1>4 DEF VerificationInv
<1> QED BY <1>1, <1>3, <1>5 DEF VerificationInv

\* An asset appears that no challenge can have been for.
LEMMA RegisterKeeps ==
  ASSUME VerificationInv, NEW a \in OwnedAssets, NEW p \in Payloads, RegisterAsset(a, p)
  PROVE  VerificationInv'
<1>1. PICK row : row = [status |-> "draft", type |-> p.type, target |-> p.target]
  OBVIOUS
<1>2. row \in AssetRows /\ row.status = "draft" /\ row.type = p.type /\ row.target = p.target
  BY <1>1 DEF AssetRows, Types, Targets
<1>3. /\ asset' = [asset EXCEPT ![a] = row] /\ Normalizes(p.type, p.target)
      /\ UNCHANGED <<hour, challenge, zone, lookup, decided, proof>>
      /\ asset[a].type = "none"
  BY <1>1 DEF RegisterAsset, NoAsset
<1>4. VerificationTypeOK'
  BY <1>2, <1>3 DEF VerificationInv, VerificationTypeOK
<1>5. \A b \in OwnedAssets : asset'[b] = IF b = a THEN row ELSE asset[b]
  BY <1>3 DEF VerificationInv, VerificationTypeOK
<1>6. row.type \in SupportedTypes => row.target = "https url"
  BY <1>2, <1>3 DEF Normalizes, SupportedTypes, UrlTypes
<1>7. Named'
  BY <1>5, <1>6 DEF VerificationInv, Named
<1>8. \A b \in OwnedAssets : asset[b].type \in SupportedTypes => asset'[b] = asset[b]
  BY <1>3, <1>5 DEF SupportedTypes
<1>9. Asked'
  BY <1>3, <1>8 DEF VerificationInv, Asked, Pending
<1>10. Locked'
  BY <1>3 DEF VerificationInv, Locked, Pending
<1>11. \A b \in OwnedAssets : asset'[b].status = "verified" => Proved(b)'
  <2>1. \A b \in OwnedAssets : Proved(b)' <=> Proved(b)
    BY <1>3 DEF Proved
  <2>2. \A b \in OwnedAssets : asset'[b].status = "verified" => asset[b].status = "verified"
    BY <1>2, <1>5
  <2> QED BY <2>1, <2>2 DEF VerificationInv
<1> QED BY <1>4, <1>7, <1>9, <1>10, <1>11 DEF VerificationInv

\* A challenge appears where none was pending.
LEMMA CreateKeeps ==
  ASSUME VerificationInv, NEW c \in Challenges, NEW a \in OwnedAssets, CreateChallenge(c, a)
  PROVE  VerificationInv'
<1>1. PICK row : row = [status |-> "pending", asset |-> a, attempts |-> 0,
                        expires |-> hour + ChallengeTTL]
  OBVIOUS
<1>2. /\ row \in ChallengeRows /\ row.status = "pending" /\ row.asset = a
      /\ row.attempts = 0
  <2>1. hour + ChallengeTTL \in Nat
    <3>1. hour \in Nat /\ ChallengeTTL \in Nat
      BY VerificationAssumption DEF VerificationInv, VerificationTypeOK
    <3> QED BY <3>1
  <2> QED BY <1>1, <2>1 DEF ChallengeRows
<1>3. /\ challenge' = [challenge EXCEPT ![c] = row]
      /\ UNCHANGED <<hour, asset, zone, lookup, decided, proof>>
      /\ challenge[c].status = "none" /\ asset[a].type \in SupportedTypes /\ ~PendingExists(a)
  BY <1>1 DEF CreateChallenge, NoChallenge
<1>4. VerificationTypeOK'
  BY <1>2, <1>3 DEF VerificationInv, VerificationTypeOK
<1>5. \A d \in Challenges : challenge'[d] = IF d = c THEN row ELSE challenge[d]
  BY <1>3 DEF VerificationInv, VerificationTypeOK
<1>6. Named'
  BY <1>3 DEF VerificationInv, Named
<1>7. /\ \A d \in Challenges : Pending(d)' <=> d = c \/ Pending(d)
      /\ ~Pending(c)
  BY <1>2, <1>3, <1>5 DEF Pending
<1>8. \A d \in Challenges : Pending(d) => challenge[d].asset # a
  BY <1>3 DEF PendingExists, Pending
<1>9. Asked'
  <2> SUFFICES ASSUME NEW x \in Challenges, Pending(x)'
               PROVE  /\ challenge'[x].asset \in OwnedAssets
                      /\ asset'[challenge'[x].asset].type \in SupportedTypes
                      /\ challenge'[x].attempts < MaximumAttempts
                      /\ \A d \in Challenges :
                           Pending(d)' /\ challenge'[d].asset = challenge'[x].asset => d = x
    BY DEF Asked
  <2>1. CASE x = c
    BY <1>2, <1>3, <1>5, <1>7, <1>8, <2>1, VerificationAssumption
  <2>2. CASE x # c
    <3>1. /\ challenge[x].asset \in OwnedAssets
          /\ asset[challenge[x].asset].type \in SupportedTypes
          /\ challenge[x].attempts < MaximumAttempts /\ challenge[x].asset # a
          /\ \A d \in Challenges : Pending(d) /\ challenge[d].asset = challenge[x].asset => d = x
      BY <1>7, <1>8, <2>2 DEF VerificationInv, Asked
    <3> QED BY <1>2, <1>3, <1>5, <1>7, <2>2, <3>1
  <2> QED BY <2>1, <2>2
<1>10. Locked'
  BY <1>3, <1>5, <1>7 DEF VerificationInv, Locked
<1>11. ASSUME NEW b \in OwnedAssets, Proved(b) PROVE Proved(b)'
  <2>1. PICK d \in Challenges :
          challenge[d].asset = b /\ challenge[d].status = "verified" /\ proof[d] = "answer"
    BY <1>11 DEF Proved
  <2> QED BY <1>3, <1>5, <2>1 DEF Proved
<1>12. \A b \in OwnedAssets : asset'[b].status = "verified" => Proved(b)'
  BY <1>3, <1>11 DEF VerificationInv
<1> QED BY <1>4, <1>6, <1>9, <1>10, <1>12 DEF VerificationInv

\* Nothing but the clock, the zone or a client's decision changes.
LEMMA OutsideKeeps ==
  ASSUME VerificationInv, VerificationTypeOK', UNCHANGED <<asset, challenge, lookup, proof>>
  PROVE  VerificationInv'
<1>1. \A a \in OwnedAssets : asset'[a] = asset[a]
  OBVIOUS
<1>2. \A c \in Challenges : challenge'[c] = challenge[c] /\ proof'[c] = proof[c]
  OBVIOUS
<1>3. Locked'
  BY DEF VerificationInv, Locked, Pending
<1> QED BY <1>1, <1>2, <1>3, RowsKept

\* What ends or counts a challenge that no verify holds any longer.
LEMMA ChallengeKeeps ==
  ASSUME VerificationInv, NEW c \in Challenges, Pending(c), NEW row \in ChallengeRows,
         row.asset = challenge[c].asset,
         row.status = "pending" => row.attempts < MaximumAttempts,
         challenge' = [challenge EXCEPT ![c] = row],
         lookup' \in [OwnedAssets -> Lookups],
         \A a \in OwnedAssets : lookup'[a].challenge \in {lookup[a].challenge, "none"},
         \A a \in OwnedAssets : lookup'[a].challenge # c,
         asset' \in [OwnedAssets -> AssetRows],
         \A a \in OwnedAssets : asset'[a].type = asset[a].type /\ asset'[a].target = asset[a].target,
         proof' \in [Challenges -> {"none", "answer", "known wildcard"}],
         \A d \in Challenges \ {c} : proof'[d] = proof[d],
         \A a \in OwnedAssets : asset'[a].status = "verified" =>
           \/ asset[a].status = "verified"
           \/ row.asset = a /\ row.status = "verified" /\ proof'[c] = "answer",
         UNCHANGED <<hour, zone, decided>>
  PROVE  VerificationInv'
<1>1. \A d \in Challenges : challenge'[d] = IF d = c THEN row ELSE challenge[d]
  BY DEF VerificationInv, VerificationTypeOK
<1>2. VerificationTypeOK'
  BY DEF VerificationInv, VerificationTypeOK
<1>3. Locked'
  <2> SUFFICES ASSUME NEW a \in OwnedAssets, NEW d \in Challenges, lookup'[a].challenge = d
               PROVE  Pending(d)' /\ challenge'[d].asset = a
    BY DEF Locked
  <2>1. d # c /\ lookup[a].challenge = d
    BY VerificationAssumption
  <2>2. Pending(d) /\ challenge[d].asset = a
    BY <2>1 DEF VerificationInv, Locked
  <2> QED BY <1>1, <2>1, <2>2 DEF Pending
<1>4. \A d \in Challenges :
        \/ challenge'[d] = challenge[d] /\ proof'[d] = proof[d]
        \/ /\ Pending(d) /\ challenge'[d].asset = challenge[d].asset
           /\ Pending(d)' => challenge'[d].attempts < MaximumAttempts
  BY <1>1 DEF Pending
<1>5. \A a \in OwnedAssets : asset'[a].status = "verified" =>
        asset[a].status = "verified" \/ Proved(a)'
  <2> SUFFICES ASSUME NEW a \in OwnedAssets, row.asset = a, row.status = "verified",
                      proof'[c] = "answer"
               PROVE  Proved(a)'
    OBVIOUS
  <2>1. challenge'[c] = row
    BY <1>1
  <2> QED BY <2>1 DEF Proved
<1> QED BY <1>2, <1>3, <1>4, <1>5, RowsKept

\* request_verification writes what it decided, or fails.
LEMMA WriteKeeps ==
  ASSUME VerificationInv, NEW k \in Clients, WriteRequest(k) PROVE VerificationInv'
<1>1. PICK a : a = decided[k]
  OBVIOUS
<1>2. /\ a \in OwnedAssets
      /\ decided' = [decided EXCEPT ![k] = "none"]
      /\ UNCHANGED <<hour, challenge, zone, lookup, proof>>
      /\ asset' = [asset EXCEPT ![a].status = "pending_verification"] \/ asset' = asset
  BY <1>1 DEF WriteRequest, VerificationInv, VerificationTypeOK
<1>3. PICK row : row = [asset[a] EXCEPT !.status = "pending_verification"]
  OBVIOUS
<1>4. /\ row \in AssetRows /\ row.type = asset[a].type /\ row.target = asset[a].target
      /\ row.status = "pending_verification"
  BY <1>2, <1>3 DEF VerificationInv, VerificationTypeOK, AssetRows
<1>5. \A b \in OwnedAssets : asset'[b] = asset[b] \/ (b = a /\ asset'[b] = row)
  BY <1>2, <1>3 DEF VerificationInv, VerificationTypeOK
<1>6. asset' \in [OwnedAssets -> AssetRows]
  BY <1>2, <1>3, <1>4 DEF VerificationInv, VerificationTypeOK
<1>7. VerificationTypeOK'
  BY <1>2, <1>6 DEF VerificationInv, VerificationTypeOK
<1>8. \A b \in OwnedAssets :
        /\ asset'[b].type = asset[b].type /\ asset'[b].target = asset[b].target
        /\ asset'[b].status = "verified" => asset[b].status = "verified"
  BY <1>4, <1>5
<1>9. \A c \in Challenges : challenge'[c] = challenge[c] /\ proof'[c] = proof[c]
  BY <1>2
<1>10. Locked'
  BY <1>2 DEF VerificationInv, Locked, Pending
<1> QED BY <1>7, <1>8, <1>9, <1>10, RowsKept

\* The row of a challenge that is closed.
LEMMA Closed ==
  ASSUME VerificationInv, NEW c \in Challenges,
         NEW status \in {"verified", "expired", "cancelled"}, Closes(c, status)
  PROVE  \E row \in ChallengeRows :
           /\ row.asset = challenge[c].asset /\ row.status = status
           /\ challenge' = [challenge EXCEPT ![c] = row]
<1>1. challenge \in [Challenges -> ChallengeRows]
  BY DEF VerificationInv, VerificationTypeOK
<1>2. PICK row : row = [challenge[c] EXCEPT !.status = status]
  OBVIOUS
<1>3. row \in ChallengeRows /\ row.asset = challenge[c].asset /\ row.status = status
  BY <1>1, <1>2 DEF ChallengeRows
<1>4. challenge' = [challenge EXCEPT ![c] = row]
  BY <1>1, <1>2 DEF Closes
<1> QED BY <1>3, <1>4

\* What a verify gives up: the lock of its asset, and with it the challenge.
LEMMA Released ==
  ASSUME VerificationInv, NEW a \in OwnedAssets, NEW c \in Challenges,
         lookup[a].challenge = c, lookup' = [lookup EXCEPT ![a] = NoLookup]
  PROVE  /\ lookup' \in [OwnedAssets -> Lookups] /\ Pending(c) /\ challenge[c].asset = a
         /\ \A b \in OwnedAssets : lookup'[b].challenge \in {lookup[b].challenge, "none"}
         /\ \A b \in OwnedAssets : lookup'[b].challenge # c
<1>1. NoLookup \in Lookups /\ NoLookup.challenge = "none"
  BY DEF NoLookup, Lookups
<1>2. \A b \in OwnedAssets : lookup'[b] = IF b = a THEN NoLookup ELSE lookup[b]
  BY DEF VerificationInv, VerificationTypeOK
<1>3. lookup' \in [OwnedAssets -> Lookups]
  BY <1>1 DEF VerificationInv, VerificationTypeOK
<1>4. /\ Pending(c) /\ challenge[c].asset = a
      /\ \A b \in OwnedAssets : lookup[b].challenge = c => b = a
  BY DEF VerificationInv, Locked
<1> QED BY <1>1, <1>2, <1>3, <1>4, VerificationAssumption

\* What verify decides before it asks: an expired challenge is closed, and
\* only a pending one is asked about.
LEMMA BeginKeeps ==
  ASSUME VerificationInv, NEW c \in Challenges, BeginVerify(c) PROVE VerificationInv'
<1>1. PICK a : a = challenge[c].asset
  OBVIOUS
<1>2. /\ Pending(c) /\ lookup[a] = NoLookup /\ UNCHANGED <<hour, asset, zone, decided, proof>>
      /\ \/ Closes(c, "expired") /\ lookup' = lookup
         \/ /\ lookup' = [lookup EXCEPT ![a] = [challenge |-> c, step |-> "record"]]
            /\ challenge' = challenge
  BY <1>1 DEF BeginVerify, Pending
<1>3. a \in OwnedAssets /\ lookup[a].challenge = "none"
  BY <1>1, <1>2 DEF VerificationInv, Asked, NoLookup
<1>4. VerificationTypeOK
  BY DEF VerificationInv
<1>5. CASE Closes(c, "expired") /\ lookup' = lookup
  <2>1. PICK row \in ChallengeRows :
          /\ row.asset = challenge[c].asset /\ row.status = "expired"
          /\ challenge' = [challenge EXCEPT ![c] = row]
    BY <1>5, Closed
  <2>2. \A b \in OwnedAssets : lookup[b].challenge # c
    BY <1>1, <1>3, VerificationAssumption DEF VerificationInv, Locked
  <2>3. /\ lookup' \in [OwnedAssets -> Lookups] /\ asset' \in [OwnedAssets -> AssetRows]
        /\ proof' \in [Challenges -> {"none", "answer", "known wildcard"}]
    BY <1>2, <1>4, <1>5 DEF VerificationTypeOK
  <2> QED BY <1>2, <1>5, <2>1, <2>2, <2>3, ChallengeKeeps
<1>6. CASE /\ lookup' = [lookup EXCEPT ![a] = [challenge |-> c, step |-> "record"]]
           /\ challenge' = challenge
  <2>1. PICK held : held = [challenge |-> c, step |-> "record"]
    OBVIOUS
  <2>2. held \in Lookups /\ held.challenge = c
    BY <2>1 DEF Lookups
  <2>3. VerificationTypeOK'
    BY <1>2, <1>3, <1>4, <1>6, <2>1, <2>2 DEF VerificationTypeOK
  <2>4. \A b \in OwnedAssets : lookup'[b] = IF b = a THEN held ELSE lookup[b]
    BY <1>4, <1>6, <2>1 DEF VerificationTypeOK
  <2>5. Locked'
    <3> SUFFICES ASSUME NEW b \in OwnedAssets, NEW d \in Challenges, lookup'[b].challenge = d
                 PROVE  Pending(d)' /\ challenge'[d].asset = b
      BY DEF Locked
    <3>1. Pending(d) /\ challenge[d].asset = b
      BY <1>1, <1>2, <2>2, <2>4 DEF VerificationInv, Locked
    <3> QED BY <1>6, <3>1 DEF Pending
  <2>6. /\ \A b \in OwnedAssets : asset'[b] = asset[b]
        /\ \A d \in Challenges : challenge'[d] = challenge[d] /\ proof'[d] = proof[d]
    BY <1>2, <1>6
  <2> QED BY <2>3, <2>5, <2>6, RowsKept
<1> QED BY <1>2, <1>5, <1>6

\* A verify that asks holds its challenge.
LEMMA AskingHolds ==
  ASSUME NEW a, NEW c, NEW step, Asking(a, c, step) PROVE lookup[a].challenge = c
BY DEF Asking

\* The name was answered; the same challenge is asked about beside it.
LEMMA AskKeeps ==
  ASSUME VerificationInv, NEW a \in OwnedAssets, NEW c \in Challenges, AskDns(a, c)
  PROVE  VerificationInv'
<1>1. PICK held : held = [challenge |-> c, step |-> "control"]
  OBVIOUS
<1>2. held \in Lookups /\ held.challenge = c
  BY <1>1 DEF Lookups
<1>3. VerificationTypeOK
  BY DEF VerificationInv
<1>4. /\ lookup' = [lookup EXCEPT ![a] = held] /\ lookup[a].challenge = c
      /\ UNCHANGED <<hour, asset, challenge, zone, decided, proof>>
  <2>1. Asking(a, c, "record") /\ lookup' = [lookup EXCEPT ![a].step = "control"]
        /\ UNCHANGED <<hour, asset, challenge, zone, decided, proof>>
    BY DEF AskDns
  <2>2. lookup[a] = [challenge |-> c, step |-> "record"]
    BY <2>1 DEF Asking
  <2>3. [lookup[a] EXCEPT !.step = "control"] = held
    BY <1>1, <2>2
  <2>4. lookup' = [lookup EXCEPT ![a] = held]
    BY <1>3, <2>1, <2>3 DEF VerificationTypeOK
  <2> QED BY <2>1, <2>4, AskingHolds
<1>5. VerificationTypeOK'
  BY <1>2, <1>3, <1>4 DEF VerificationTypeOK
<1>6. \A b \in OwnedAssets : lookup'[b].challenge = lookup[b].challenge
  BY <1>2, <1>3, <1>4 DEF VerificationTypeOK
<1>7. Locked'
  BY <1>4, <1>6 DEF VerificationInv, Locked, Pending
<1>8. /\ \A b \in OwnedAssets : asset'[b] = asset[b]
      /\ \A d \in Challenges : challenge'[d] = challenge[d] /\ proof'[d] = proof[d]
  BY <1>4
<1> QED BY <1>5, <1>7, <1>8, RowsKept

\* What is accepted was answered for, and not by a wildcard that was seen.
LEMMA AcceptKeeps ==
  ASSUME VerificationInv, NEW a \in OwnedAssets, NEW c \in Challenges, Accept(a, c)
  PROVE  VerificationInv'
<1>1. /\ lookup[a].challenge = c /\ Closes(c, "verified")
      /\ asset' = [asset EXCEPT ![a].status = "verified"]
      /\ lookup' = [lookup EXCEPT ![a] = NoLookup]
      /\ UNCHANGED <<hour, zone, decided>>
  BY AskingHolds DEF Accept
<1>2. PICK answered \in BOOLEAN :
        /\ ~Wildcard(c, answered)
        /\ proof' = [proof EXCEPT ![c] = IF zone[c] = "wildcard" /\ answered
                                         THEN "known wildcard" ELSE "answer"]
  BY DEF Accept
<1>3. proof' = [proof EXCEPT ![c] = "answer"]
  BY <1>2 DEF Wildcard
<1>4. /\ asset \in [OwnedAssets -> AssetRows]
      /\ proof \in [Challenges -> {"none", "answer", "known wildcard"}]
  BY DEF VerificationInv, VerificationTypeOK
<1>5. PICK row \in ChallengeRows :
        /\ row.asset = challenge[c].asset /\ row.status = "verified"
        /\ challenge' = [challenge EXCEPT ![c] = row]
  BY <1>1, Closed
<1>6. PICK won : won = [asset[a] EXCEPT !.status = "verified"]
  OBVIOUS
<1>7. won \in AssetRows /\ won.type = asset[a].type /\ won.target = asset[a].target
  BY <1>4, <1>6 DEF AssetRows
<1>8. /\ asset' \in [OwnedAssets -> AssetRows]
      /\ \A b \in OwnedAssets : asset'[b] = IF b = a THEN won ELSE asset[b]
  BY <1>1, <1>4, <1>6, <1>7
<1>9. /\ lookup' \in [OwnedAssets -> Lookups] /\ Pending(c) /\ challenge[c].asset = a
      /\ \A b \in OwnedAssets : lookup'[b].challenge \in {lookup[b].challenge, "none"}
      /\ \A b \in OwnedAssets : lookup'[b].challenge # c
  BY <1>1, Released
<1>10. /\ proof' \in [Challenges -> {"none", "answer", "known wildcard"}]
       /\ proof'[c] = "answer" /\ \A d \in Challenges \ {c} : proof'[d] = proof[d]
  BY <1>3, <1>4
<1>11. \A b \in OwnedAssets :
         /\ asset'[b].type = asset[b].type /\ asset'[b].target = asset[b].target
         /\ asset'[b].status = "verified" =>
              asset[b].status = "verified" \/ (row.asset = b /\ row.status = "verified")
  <2> SUFFICES ASSUME NEW b \in OwnedAssets
               PROVE  /\ asset'[b].type = asset[b].type /\ asset'[b].target = asset[b].target
                      /\ asset'[b].status = "verified" =>
                           \/ asset[b].status = "verified"
                           \/ row.asset = b /\ row.status = "verified"
    OBVIOUS
  <2>1. CASE b = a
    BY <1>5, <1>7, <1>8, <1>9, <2>1
  <2>2. CASE b # a
    BY <1>8, <2>2
  <2> QED BY <2>1, <2>2
<1>12. /\ \A b \in OwnedAssets : asset'[b].status = "verified" =>
             \/ asset[b].status = "verified"
             \/ row.asset = b /\ row.status = "verified" /\ proof'[c] = "answer"
       /\ \A b \in OwnedAssets :
            asset'[b].type = asset[b].type /\ asset'[b].target = asset[b].target
  BY <1>10, <1>11
<1>13. asset' \in [OwnedAssets -> AssetRows]
  BY <1>8
<1>14. /\ row.asset = challenge[c].asset /\ challenge' = [challenge EXCEPT ![c] = row]
       /\ row.status = "pending" => row.attempts < MaximumAttempts
  BY <1>5
<1>15. UNCHANGED <<hour, zone, decided>>
  BY <1>1
<1>16. /\ proof' \in [Challenges -> {"none", "answer", "known wildcard"}]
       /\ \A d \in Challenges \ {c} : proof'[d] = proof[d]
  BY <1>10
<1> QED BY <1>9, <1>12, <1>13, <1>14, <1>15, <1>16, ChallengeKeeps

\* A mismatch is counted, and the last one allowed ends the challenge.
LEMMA MismatchKeeps ==
  ASSUME VerificationInv, NEW a \in OwnedAssets, NEW c \in Challenges, Mismatch(a, c)
  PROVE  VerificationInv'
<1>1. /\ lookup[a].challenge = c /\ lookup' = [lookup EXCEPT ![a] = NoLookup]
      /\ UNCHANGED <<hour, asset, zone, decided, proof>>
  BY AskingHolds DEF Mismatch
<1>2. PICK n : n = challenge[c].attempts + 1
  OBVIOUS
<1>3. PICK status : status = IF n >= MaximumAttempts THEN "failed" ELSE "pending"
  OBVIOUS
<1>4. challenge' = [challenge EXCEPT ![c].attempts = n, ![c].status = status]
  BY <1>2, <1>3 DEF Mismatch
<1>5. /\ challenge \in [Challenges -> ChallengeRows] /\ asset \in [OwnedAssets -> AssetRows]
      /\ proof \in [Challenges -> {"none", "answer", "known wildcard"}]
  BY DEF VerificationInv, VerificationTypeOK
<1>6. n \in Nat /\ status \in {"failed", "pending"}
      /\ (status = "pending" => n < MaximumAttempts)
  <2>1. challenge[c].attempts \in Nat
    BY <1>5 DEF ChallengeRows
  <2>2. n \in Nat
    BY <1>2, <2>1
  <2> QED BY <1>3, <2>2, VerificationAssumption
<1>7. PICK row : row = [challenge[c] EXCEPT !.attempts = n, !.status = status]
  OBVIOUS
<1>8. /\ row \in ChallengeRows /\ row.asset = challenge[c].asset /\ row.status = status
      /\ row.attempts = n
  BY <1>5, <1>6, <1>7 DEF ChallengeRows
<1>9. challenge' = [challenge EXCEPT ![c] = row]
  BY <1>4, <1>5, <1>7
<1>10. /\ lookup' \in [OwnedAssets -> Lookups] /\ Pending(c)
       /\ \A b \in OwnedAssets : lookup'[b].challenge \in {lookup[b].challenge, "none"}
       /\ \A b \in OwnedAssets : lookup'[b].challenge # c
  BY <1>1, Released
<1> QED BY <1>1, <1>5, <1>6, <1>8, <1>9, <1>10, ChallengeKeeps

\* A verify that gives up leaves the rows as they were.
LEMMA InconclusiveKeeps ==
  ASSUME VerificationInv, NEW a \in OwnedAssets, Inconclusive(a) PROVE VerificationInv'
<1>1. /\ lookup' = [lookup EXCEPT ![a] = NoLookup]
      /\ UNCHANGED <<hour, asset, challenge, zone, decided, proof>>
  BY DEF Inconclusive
<1>2. NoLookup \in Lookups /\ NoLookup.challenge = "none"
  BY DEF NoLookup, Lookups
<1>3. VerificationTypeOK
  BY DEF VerificationInv
<1>4. \A b \in OwnedAssets : lookup'[b] = IF b = a THEN NoLookup ELSE lookup[b]
  BY <1>1, <1>3 DEF VerificationTypeOK
<1>5. VerificationTypeOK'
  BY <1>1, <1>2, <1>3 DEF VerificationTypeOK
<1>6. Locked'
  <2> SUFFICES ASSUME NEW b \in OwnedAssets, NEW d \in Challenges, lookup'[b].challenge = d
               PROVE  Pending(d)' /\ challenge'[d].asset = b
    BY DEF Locked
  <2>1. lookup[b].challenge = d
    BY <1>2, <1>4, VerificationAssumption
  <2>2. Pending(d) /\ challenge[d].asset = b
    BY <2>1 DEF VerificationInv, Locked
  <2> QED BY <1>1, <2>2 DEF Pending
<1>7. /\ \A b \in OwnedAssets : asset'[b] = asset[b]
      /\ \A d \in Challenges : challenge'[d] = challenge[d] /\ proof'[d] = proof[d]
  BY <1>1
<1> QED BY <1>5, <1>6, <1>7, RowsKept

\* What is cancelled is pending and held by no verify.
LEMMA CancelKeeps ==
  ASSUME VerificationInv, NEW c \in Challenges, CancelChallenge(c) PROVE VerificationInv'
<1>1. /\ Pending(c) /\ lookup[challenge[c].asset].challenge # c /\ Closes(c, "cancelled")
      /\ UNCHANGED <<hour, asset, zone, lookup, decided, proof>>
  BY DEF CancelChallenge, Cancellable, Pending
<1>2. PICK row \in ChallengeRows :
        /\ row.asset = challenge[c].asset /\ row.status = "cancelled"
        /\ challenge' = [challenge EXCEPT ![c] = row]
  BY <1>1, Closed
<1>3. \A b \in OwnedAssets : lookup[b].challenge # c
  BY <1>1 DEF VerificationInv, Locked
<1>4. /\ lookup \in [OwnedAssets -> Lookups] /\ asset \in [OwnedAssets -> AssetRows]
      /\ proof \in [Challenges -> {"none", "answer", "known wildcard"}]
  BY DEF VerificationInv, VerificationTypeOK
<1> QED BY <1>1, <1>2, <1>3, <1>4, ChallengeKeeps

\* The invariant is kept by every step.
LEMMA VerificationInvariant == VerificationSpec => []VerificationInv
<1>1. VerificationInv /\ [VerificationNext]_verificationVars => VerificationInv'
  <2> SUFFICES ASSUME VerificationInv, [VerificationNext]_verificationVars
               PROVE  VerificationInv'
    OBVIOUS
  <2>1. ASSUME NEW a \in OwnedAssets, NEW p \in Payloads, RegisterAsset(a, p)
        PROVE  VerificationInv'
    BY <2>1, RegisterKeeps
  <2>2. ASSUME NEW k \in Clients, WriteRequest(k) PROVE VerificationInv'
    BY <2>2, WriteKeeps
  <2>3. ASSUME NEW k \in Clients, NEW a \in OwnedAssets, DecideRequest(k, a)
        PROVE  VerificationInv'
    <3>1. VerificationTypeOK'
      BY <2>3 DEF DecideRequest, VerificationInv, VerificationTypeOK
    <3> QED BY <2>3, <3>1, OutsideKeeps DEF DecideRequest
  <2>4. ASSUME NEW c \in Challenges, NEW a \in OwnedAssets,
               CreateChallenge(c, a) \/ AskDns(a, c) \/ Accept(a, c) \/ Mismatch(a, c)
        PROVE  VerificationInv'
    BY <2>4, CreateKeeps, AskKeeps, AcceptKeeps, MismatchKeeps
  <2>5. ASSUME NEW c \in Challenges, BeginVerify(c) \/ CancelChallenge(c)
        PROVE  VerificationInv'
    BY <2>5, BeginKeeps, CancelKeeps
  <2>6. ASSUME NEW c \in Challenges, Publish(c) PROVE VerificationInv'
    <3>1. VerificationTypeOK'
      BY <2>6 DEF Publish, VerificationInv, VerificationTypeOK
    <3> QED BY <2>6, <3>1, OutsideKeeps DEF Publish
  <2>7. ASSUME NEW a \in OwnedAssets, Inconclusive(a) PROVE VerificationInv'
    BY <2>7, InconclusiveKeeps
  <2>8. CASE HourPasses
    <3>1. VerificationTypeOK'
      <4>1. hour' \in Nat
        <5>1. hour \in Nat /\ hour' = hour + 1
          BY <2>8 DEF HourPasses, VerificationInv, VerificationTypeOK
        <5> QED BY <5>1
      <4> QED BY <2>8, <4>1 DEF HourPasses, VerificationInv, VerificationTypeOK
    <3> QED BY <2>8, <3>1, OutsideKeeps DEF HourPasses
  <2>9. CASE UNCHANGED verificationVars
    <3>1. VerificationTypeOK'
      BY <2>9 DEF verificationVars, VerificationInv, VerificationTypeOK
    <3> QED BY <2>9, <3>1, OutsideKeeps DEF verificationVars
  <2> QED BY <2>1, <2>2, <2>3, <2>4, <2>5, <2>6, <2>7, <2>8, <2>9 DEF VerificationNext
<1> QED BY <1>1, VerificationInitially, PTL DEF VerificationSpec

\* A set in which any two elements are one has at most one element.
LEMMA AtMostOne ==
  ASSUME NEW S, \A x, y \in S : x = y PROVE Cardinality(S) <= 1
<1>1. CASE S = {}
  BY <1>1, FS_EmptySet
<1>2. CASE S # {}
  <2>1. PICK x \in S : TRUE
    BY <1>2
  <2>2. S = {x}
    BY <2>1
  <2> QED BY <2>2, FS_Singleton
<1> QED BY <1>1, <1>2

\* A verified asset owes it to a challenge whose value its own zone answered,
\* and an asset has at most one pending challenge, with a host to ask for and
\* attempts left.
THEOREM AssetsAreProved == VerificationSpec => []VerifiedByProof
<1>1. VerificationInv => VerifiedByProof
  <2> SUFFICES ASSUME VerificationInv, NEW a \in OwnedAssets
               PROVE  /\ asset[a].status = "verified" =>
                           \E c \in ChallengesOf(a, "verified") : proof[c] = "answer"
                      /\ Cardinality(ChallengesOf(a, "pending")) <= 1
                      /\ \A c \in ChallengesOf(a, "pending") :
                           /\ HasHostname(asset[a].target)
                           /\ challenge[c].attempts < MaximumAttempts
    BY DEF VerifiedByProof
  <2>1. asset[a].status = "verified" =>
          \E c \in ChallengesOf(a, "verified") : proof[c] = "answer"
    BY DEF VerificationInv, Proved, ChallengesOf
  <2>2. \A c \in ChallengesOf(a, "pending") :
          c \in Challenges /\ Pending(c) /\ challenge[c].asset = a
    BY DEF ChallengesOf, Pending
  <2>3. \A c, d \in ChallengesOf(a, "pending") : c = d
    BY <2>2 DEF VerificationInv, Asked
  <2>4. Cardinality(ChallengesOf(a, "pending")) <= 1
    BY <2>3, AtMostOne
  <2>5. \A c \in ChallengesOf(a, "pending") :
          HasHostname(asset[a].target) /\ challenge[c].attempts < MaximumAttempts
    BY <2>2 DEF VerificationInv, Asked, Named, HasHostname
  <2> QED BY <2>1, <2>4, <2>5
<1> QED BY <1>1, VerificationInvariant, PTL

\* What becomes of an ended challenge and of a verified asset in one step.
LEMMA EndedRowsStay ==
  ASSUME VerificationInv, VerificationNext
  PROVE  /\ \A c \in Challenges :
              challenge[c].status \notin {"none", "pending"} => challenge'[c] = challenge[c]
         /\ \A a \in OwnedAssets : asset[a].status = "verified" /\ asset'[a] # asset[a] =>
              \E k \in Clients : decided[k] = a /\ decided'[k] = "none"
<1>1. /\ challenge \in [Challenges -> ChallengeRows] /\ asset \in [OwnedAssets -> AssetRows]
      /\ decided \in [Clients -> OwnedAssets \cup {"none"}]
  BY DEF VerificationInv, VerificationTypeOK
<1>2. ASSUME NEW c \in Challenges, challenge[c].status \notin {"none", "pending"}
      PROVE  challenge'[c] = challenge[c]
  <2>1. ASSUME NEW d \in Challenges, NEW a \in OwnedAssets, CreateChallenge(d, a)
        PROVE  challenge'[c] = challenge[c]
    BY <1>1, <1>2, <2>1 DEF CreateChallenge, NoChallenge
  <2>2. ASSUME NEW d \in Challenges, NEW a \in OwnedAssets, Accept(a, d) \/ Mismatch(a, d)
        PROVE  challenge'[c] = challenge[c]
    <3>1. Pending(d)
      <4>1. lookup[a].challenge = d
        BY <2>2, AskingHolds DEF Accept, Mismatch
      <4> QED BY <4>1 DEF VerificationInv, Locked
    <3>2. d # c
      BY <1>2, <3>1 DEF Pending
    <3> QED BY <1>1, <2>2, <3>2 DEF Accept, Mismatch, Closes
  <2>3. ASSUME NEW d \in Challenges, BeginVerify(d) \/ CancelChallenge(d)
        PROVE  challenge'[c] = challenge[c]
    <3>1. d # c
      BY <1>2, <2>3 DEF BeginVerify, CancelChallenge, Cancellable
    <3> QED BY <1>1, <2>3, <3>1 DEF BeginVerify, CancelChallenge, Closes
  <2> QED
    BY <2>1, <2>2, <2>3
    DEF VerificationNext, RegisterAsset, WriteRequest, DecideRequest, AskDns, Publish,
        Inconclusive, HourPasses
<1>3. ASSUME NEW a \in OwnedAssets, asset[a].status = "verified", asset'[a] # asset[a]
      PROVE  \E k \in Clients : decided[k] = a /\ decided'[k] = "none"
  <2>1. ASSUME NEW b \in OwnedAssets, NEW p \in Payloads, RegisterAsset(b, p) PROVE FALSE
    BY <1>1, <1>3, <2>1 DEF RegisterAsset, NoAsset
  <2>2. ASSUME NEW k \in Clients, WriteRequest(k)
        PROVE  decided[k] = a /\ decided'[k] = "none"
    BY <1>1, <1>3, <2>2 DEF WriteRequest
  <2>3. ASSUME NEW d \in Challenges, NEW b \in OwnedAssets, Accept(b, d) PROVE FALSE
    <3>1. asset' = [asset EXCEPT ![b].status = "verified"]
      BY <2>3 DEF Accept
    <3>2. b = a
      BY <1>1, <1>3, <3>1
    <3>3. asset'[a] = [asset[a] EXCEPT !.status = "verified"]
      BY <1>1, <3>1, <3>2
    <3>4. [asset[a] EXCEPT !.status = "verified"] = asset[a]
      BY <1>1, <1>3 DEF AssetRows
    <3> QED BY <1>3, <3>3, <3>4
  <2> QED
    BY <1>3, <2>1, <2>2, <2>3
    DEF VerificationNext, DecideRequest, CreateChallenge, AskDns, Mismatch, BeginVerify,
        CancelChallenge, Publish, Inconclusive, HourPasses
<1> QED BY <1>2, <1>3

\* Ended challenges never change, and an asset loses its verification only to
\* a request that had read it as a draft.
THEOREM EndedChallengesStay == VerificationSpec => VerificationMoves
<1>1. VerificationInv /\ [VerificationNext]_verificationVars =>
        [/\ \A c \in Challenges :
              challenge[c].status \notin {"none", "pending"} => challenge'[c] = challenge[c]
         /\ \A a \in OwnedAssets : asset[a].status = "verified" /\ asset'[a] # asset[a] =>
              \E k \in Clients : decided[k] = a /\ decided'[k] = "none"
        ]_verificationVars
  BY EndedRowsStay
<1> QED BY <1>1, VerificationInvariant, PTL DEF VerificationSpec, VerificationMoves

=============================================================================
