-------------------------- MODULE AuthorizationProofs --------------------------
(***************************************************************************)
(* Proofs about Authorization, for any number of authorizations, readers,  *)
(* assets and any bounds.                                                  *)
(*                                                                         *)
(* The inductive invariant adds to the checked properties what a read      *)
(* holds on to: rows that were active once, those it marked over by now,   *)
(* and every row that was over before the read still to be examined or     *)
(* already marked.  That a row which was once active never becomes active  *)
(* again is what keeps the snapshot of a read sound.                       *)
(***************************************************************************)
EXTENDS Authorization, TLAPS

Recorded ==
  \A a \in Auths : status[a] \notin {"new", "draft"} =>
    submitted[a] = <<terms[a], window[a]>>

Activated ==
  \A a \in Auths : status[a] \in EverActive =>
    /\ terms[a] \in Acceptable
    /\ window[a][1] <= activatedAt[a] /\ activatedAt[a] < window[a][2]

ReadsHold ==
  \A r \in Readers :
    /\ \A a \in todo[r] : status[a] \in EverActive
    /\ \A a \in dirty[r] : status[a] \in EverActive /\ clock >= window[a][2]
    /\ \A a \in due[r] : clock >= window[a][2] /\ a \in todo[r] \cup dirty[r]

\* What is expired is over.
ExpiredIsOver ==
  \A a \in Auths : status[a] = "expired" => clock >= window[a][2]

Inv == TypeOK /\ Recorded /\ Activated /\ ExpiredIsOver /\ ReadsHold

\* The initial states satisfy the invariant.
LEMMA InitInv == Init => Inv
BY NAssumption DEF Init, Inv, TypeOK, Recorded, Activated, ExpiredIsOver, ReadsHold,
   Times, Terms, EverActive, Auths, Statuses

\* Every step keeps the state well typed.
LEMMA TypePreserved == TypeOK /\ [Next]_vars => TypeOK'
<1> SUFFICES ASSUME TypeOK, [Next]_vars PROVE TypeOK'
  OBVIOUS
<1> USE DEF TypeOK
<1>1. ASSUME NEW a \in Auths, Create(a) PROVE TypeOK'
  BY <1>1 DEF Create, Statuses, readVars
<1>2. ASSUME NEW a \in Auths, NEW t \in Terms, NEW w \in Times \X Times, Update(a, t, w)
      PROVE  TypeOK'
  <2>1. w \in Windows
    BY <1>2 DEF Update, InRange, Windows
  <2> QED BY <1>2, <2>1 DEF Update, readVars
<1>3. ASSUME NEW a \in Auths, Submit(a) PROVE TypeOK'
  BY <1>3 DEF Submit, Transition, Statuses, readVars
<1>4. ASSUME NEW a \in Auths, Activate(a) PROVE TypeOK'
  BY <1>4 DEF Activate, Transition, Statuses, readVars
<1>5. ASSUME NEW a \in Auths, Reject(a) PROVE TypeOK'
  BY <1>5 DEF Reject, Transition, Statuses, readVars
<1>6. ASSUME NEW a \in Auths, Revoke(a) PROVE TypeOK'
  BY <1>6 DEF Revoke, Transition, Statuses, readVars
<1>7. ASSUME NEW r \in Readers, NEW rows \in SUBSET Auths, BeginRead(r, rows)
      PROVE  TypeOK'
  BY <1>7 DEF BeginRead, SeenActive, rowVars
<1>8. ASSUME NEW r \in Readers, Examine(r) PROVE TypeOK'
  BY <1>8 DEF Examine, NextRows, rowVars
<1>9. ASSUME NEW r \in Readers, EndRead(r) PROVE TypeOK'
  BY <1>9 DEF EndRead, Leave, Statuses
<1>10. ASSUME NEW r \in Readers, AbandonRead(r) PROVE TypeOK'
  BY <1>10 DEF AbandonRead, Leave
<1>11. CASE Tick
  BY <1>11, NAssumption DEF Tick, Times, rowVars, readVars
<1>12. CASE Reverify
  BY <1>12 DEF Reverify, rowVars, readVars
<1>13. CASE UNCHANGED vars
  BY <1>13 DEF vars, rowVars, readVars
<1> QED
  BY <1>1, <1>2, <1>3, <1>4, <1>5, <1>6, <1>7, <1>8, <1>9, <1>10, <1>11, <1>12, <1>13
     DEF Next, Handle, Get, List

\* A handler or a read that gives up leaves what the reads hold on to.
LEMMA InvPreserved == Inv /\ [Next]_vars => Inv'
<1> SUFFICES ASSUME Inv, [Next]_vars PROVE Inv'
  OBVIOUS
<1>0. TypeOK'
  BY TypePreserved DEF Inv
<1> USE <1>0 DEF Inv
<1> USE DEF Recorded, Activated, ExpiredIsOver, ReadsHold, EverActive
<1>1. ASSUME NEW a \in Auths, Create(a) PROVE Inv'
  BY <1>1 DEF Create, readVars, TypeOK
<1>2. ASSUME NEW a \in Auths, NEW t \in Terms, NEW w \in Times \X Times, Update(a, t, w)
      PROVE  Inv'
  BY <1>2 DEF Update, Editable, readVars, TypeOK
<1>3. ASSUME NEW a \in Auths, Submit(a) PROVE Inv'
  BY <1>3 DEF Submit, Transition, readVars, TypeOK
<1>4. ASSUME NEW a \in Auths, Activate(a) PROVE Inv'
  BY <1>4 DEF Activate, Passes, BegunAndNotOver, Transition, readVars, TypeOK
<1>5. ASSUME NEW a \in Auths, Reject(a) PROVE Inv'
  BY <1>5 DEF Reject, Transition, readVars, TypeOK
<1>6. ASSUME NEW a \in Auths, Revoke(a) PROVE Inv'
  BY <1>6 DEF Revoke, Transition, readVars, TypeOK
<1>7. ASSUME NEW r \in Readers, NEW rows \in SUBSET Auths, BeginRead(r, rows)
      PROVE  Inv'
  BY <1>7 DEF BeginRead, SeenActive, rowVars, TypeOK
<1>8. ASSUME NEW r \in Readers, Examine(r) PROVE Inv'
  BY <1>8 DEF Examine, NextRows, Over, rowVars, TypeOK
<1>9. ASSUME NEW r \in Readers, EndRead(r) PROVE Inv'
  BY <1>9 DEF EndRead, Leave, TypeOK
<1>10. ASSUME NEW r \in Readers, AbandonRead(r) PROVE Inv'
  BY <1>10 DEF AbandonRead, Leave, TypeOK
<1>11. CASE Tick
  <2>1. /\ UNCHANGED <<rowVars, readVars>>
        /\ \A a \in Auths : clock >= window[a][2] => clock' >= window'[a][2]
    BY <1>11 DEF Tick, rowVars, readVars, TypeOK, Times, Windows
  <2> QED BY <2>1 DEF rowVars, readVars, TypeOK
<1>12. CASE Reverify
  BY <1>12 DEF Reverify, rowVars, readVars
<1>13. CASE UNCHANGED vars
  BY <1>13 DEF vars, rowVars, readVars
<1> QED
  BY <1>1, <1>2, <1>3, <1>4, <1>5, <1>6, <1>7, <1>8, <1>9, <1>10, <1>11, <1>12, <1>13
     DEF Next, Handle, Get, List

\* The invariant holds in every reachable state.
LEMMA Invariance == Spec => []Inv
BY InitInv, InvPreserved, PTL DEF Spec

\* Every reachable state is well typed: no row ever has a window outside the
\* longest validity period.
THEOREM RowsTypeCorrect == Spec => []TypeOK
BY Invariance, PTL DEF Inv

\* What was ever active is what was submitted and was acceptable, and it went
\* active within its window.
THEOREM ActiveIsAsSubmitted == Spec => []ActivatedAsSubmitted
<1>1. Inv => ActivatedAsSubmitted
  BY DEF Inv, Recorded, Activated, ActivatedAsSubmitted, EverActive
<1> QED BY <1>1, Invariance, PTL

\* Nothing is expired before its end, whatever a read's snapshot was.
THEOREM ExpiredRowsAreOver == Spec => []ExpiredIsOver
BY Invariance, PTL DEF Inv

\* The status of a row moves along the table of transitions, but for the one
\* exception a late read makes.
THEOREM StatusMovesAlong == Spec => StatusMoves
<1> DEFINE Moves ==
      \A a \in Auths : status'[a] # status[a] =>
        \/ status[a] = "new" /\ status'[a] = "draft"
        \/ status[a] = "revoked" /\ status'[a] = "expired"
        \/ status[a] # "new" /\ status'[a] \in Transitions[status[a]]
    Due == \A a \in Auths : status'[a] = "expired" => clock' >= window'[a][2]
    MovesWhenDue ==
      \A a \in Auths : status'[a] # status[a] =>
        /\ \/ status[a] = "new" /\ status'[a] = "draft"
           \/ status[a] = "revoked" /\ status'[a] = "expired"
           \/ status[a] # "new" /\ status'[a] \in Transitions[status[a]]
        /\ status'[a] = "expired" => clock' >= window'[a][2]
<1>1. Inv /\ [Next]_vars => [Moves]_vars
  <2> SUFFICES ASSUME Inv, [Next]_vars PROVE Moves \/ UNCHANGED vars
    OBVIOUS
  <2> USE DEF Inv, TypeOK, Transitions, Statuses
  <2>1. ASSUME NEW b \in Auths, Handle(b) PROVE Moves
    BY <2>1 DEF Handle, Create, Update, Submit, Activate, Reject, Revoke, Transition
  <2>2. ASSUME NEW r \in Readers, EndRead(r) PROVE Moves
    BY <2>2 DEF EndRead, ReadsHold, EverActive
  <2>3. ASSUME NEW r \in Readers, NEW rows, BeginRead(r, rows) PROVE Moves
    BY <2>3 DEF BeginRead, rowVars
  <2>4. ASSUME NEW r \in Readers, Examine(r) \/ AbandonRead(r) PROVE Moves
    BY <2>4 DEF Examine, AbandonRead, rowVars
  <2>5. CASE Tick \/ Reverify
    BY <2>5 DEF Tick, Reverify, rowVars
  <2> QED BY <2>1, <2>2, <2>3, <2>4, <2>5 DEF Next, Get, List
<1>2. Inv' => Due
  BY DEF Inv, ExpiredIsOver
<1>3. ASSUME [Moves]_vars, Due PROVE [MovesWhenDue]_vars
  <2> HIDE DEF Due
  <2>1. CASE Moves
    BY <2>1, <1>3 DEF Due
  <2>2. CASE UNCHANGED vars
    BY <2>2
  <2> QED BY <1>3, <2>1, <2>2
<1>4. QED BY <1>1, <1>2, <1>3, Invariance, PTL DEF Spec, StatusMoves

\* A read that completes leaves nothing active that was over when it began.
THEOREM ReadsExpireWhatIsDue == Spec => DueReadExpires
<1> DEFINE Expires ==
      \A r \in Readers : EndRead(r) => \A a \in due[r] : status'[a] # "active"
<1>1. Inv => Expires
  BY DEF Inv, TypeOK, ReadsHold, EndRead
<1>2. QED BY <1>1, Invariance, PTL DEF DueReadExpires

-----------------------------------------------------------------------------
(***************************************************************************)
(* The refinement: one handler, or one commit of a read, is a step of each *)
(* row's grant, or leaves it alone.                                        *)
(***************************************************************************)

\* Every handler and every read moves each row as a grant moves: what is active
\* keeps its terms, what ended stays ended (authorizations/service.py).
THEOREM GrantRefinement == Spec => ImplementsGrants
<1>1. Init => Grant!Init
  BY DEF Init, Grant!Init
<1>2. ASSUME Inv, [Next]_vars PROVE [Grant!Next]_Grant!vars
  <2> SUFFICES ASSUME NEW a \in Auths
               PROVE  Grant!Prepare(a) \/ Grant!Activate(a) \/ Grant!End(a) \/ Grant!Rest(a)
    BY DEF Grant!Next
  <2> DEFINE Pending == {"new", "draft", "submitted"}
             Kept    == terms'[a] = terms[a] /\ window'[a] = window[a]
  <2>1. status[a] \in Pending /\ status'[a] \in Pending => Grant!Prepare(a)
    BY DEF Grant!Prepare
  <2>2. status[a] \in Pending /\ status'[a] = "active" /\ Kept /\ BegunAndNotOver(a)
          => Grant!Activate(a)
    BY DEF Grant!Activate, BegunAndNotOver
  <2>3. status[a] \in EverActive \cup Pending /\ status'[a] \in Final /\ Kept
          => Grant!End(a) \/ Grant!Rest(a)
    BY DEF Grant!End, Grant!Rest, EverActive, Final
  <2>4. status'[a] = status[a] /\ Kept => Grant!Rest(a)
    BY DEF Grant!Rest
  <2> USE DEF Inv, TypeOK
  <2>5. ASSUME NEW b \in Auths, NEW t \in Terms, NEW w \in Times \X Times, Update(b, t, w)
        PROVE  Grant!Prepare(a) \/ Grant!Rest(a)
    BY <1>2, <2>1, <2>4, <2>5 DEF Update, Editable
  <2>6. ASSUME NEW b \in Auths, Create(b) \/ Submit(b)
        PROVE  Grant!Prepare(a) \/ Grant!Rest(a)
    BY <1>2, <2>1, <2>4, <2>6 DEF Create, Submit, Transition
  <2>7. ASSUME NEW b \in Auths, Activate(b)
        PROVE  Grant!Activate(a) \/ Grant!Rest(a)
    BY <1>2, <2>2, <2>4, <2>7 DEF Activate, Transition
  <2>8. ASSUME NEW b \in Auths, Reject(b) \/ Revoke(b)
        PROVE  Grant!End(a) \/ Grant!Rest(a)
    BY <1>2, <2>3, <2>4, <2>8 DEF Reject, Revoke, Transition, EverActive, Final
  <2>9. ASSUME NEW r \in Readers, EndRead(r)
        PROVE  Grant!End(a) \/ Grant!Rest(a)
    BY <1>2, <2>3, <2>4, <2>9 DEF EndRead, Leave, ReadsHold, Final
  <2>10. ASSUME \/ \E r \in Readers : \/ Examine(r) \/ AbandonRead(r) \/ List(r)
                                      \/ \E b \in Auths : Get(r, b)
                \/ Tick \/ Reverify \/ UNCHANGED vars
         PROVE  Grant!Rest(a)
    BY <2>4, <2>10 DEF Examine, AbandonRead, Leave, List, Get, BeginRead, Tick, Reverify,
       vars, rowVars
  <2> QED BY <1>2, <2>5, <2>6, <2>7, <2>8, <2>9, <2>10 DEF Next, Handle
<1> QED BY <1>1, <1>2, Invariance, PTL DEF Spec, ImplementsGrants, Grant!Spec

=============================================================================
