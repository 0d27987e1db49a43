---------------------------- MODULE Authorization ----------------------------
(***************************************************************************)
(* The authorizations of one project: drafted, edited, submitted,          *)
(* activated, rejected, revoked, and expired by whoever reads them once    *)
(* their time is over.                                                     *)
(*                                                                         *)
(* A handler that changes a row locks it first and runs as one step.  A    *)
(* read does not lock: it takes a snapshot of the rows, then marks those   *)
(* it saw active and finds over as expired, which locks each until the     *)
(* read's transaction ends.  Handlers that refuse leave no trace.          *)
(***************************************************************************)
EXTENDS Naturals, FiniteSets

CONSTANTS
  N,            \* authorizations, numbered in the order of their creation
  Readers,      \* concurrent get and list requests
  Assets,       \* assets a scope may name
  Grants,       \* everything else the terms say: tier, document, contacts
  Acceptable,   \* pairs of grant and scope that may be submitted and activated
  MaxTime,      \* bound of the clock
  MaxValidity   \* longest validity period

ASSUME NAssumption == N \in Nat \ {0} /\ MaxTime \in Nat /\ MaxValidity \in Nat
ASSUME AcceptableAssumption == \A t \in Acceptable : t[2] # {}

Auths == 1..N
Times == 0..MaxTime
Terms == Grants \X SUBSET Assets
\* valid_from and valid_until
Windows == {w \in Times \X Times : w[1] < w[2] /\ w[2] - w[1] <= MaxValidity}

VARIABLES
  clock,
  verified,     \* the assets that are verified right now
  status,       \* "new" before the row exists
  terms,        \* grant and scope of the row
  window,       \* valid_from and valid_until of the row
  activatedAt,  \* activated_at
  submitted,    \* terms and window that were submitted
  reading,      \* the reader is in its transaction
  todo,         \* rows it saw active and has not examined
  dirty,        \* rows it has marked expired and not committed
  due           \* rows that were over before the read and that it saw active

rowVars  == <<status, terms, window, activatedAt, submitted>>
readVars == <<reading, todo, dirty, due>>
vars     == <<clock, verified, rowVars, readVars>>

Statuses == {"draft", "submitted", "active", "expired", "revoked", "rejected"}
Final    == {"expired", "revoked", "rejected"}

Transitions ==
  [s \in Statuses |->
    IF s = "draft" THEN {"submitted"}
    ELSE IF s = "submitted" THEN {"active", "rejected"}
    ELSE IF s = "active" THEN {"revoked", "expired"} ELSE {}]

Init ==
  /\ clock = 0
  /\ verified \in SUBSET Assets
  /\ status = [a \in Auths |-> "new"]
  /\ terms \in [Auths -> Terms]
  /\ window \in [Auths -> Windows]
  /\ activatedAt = [a \in Auths |-> 0]
  /\ submitted = [a \in Auths |-> <<>>]
  /\ reading = [r \in Readers |-> FALSE]
  /\ todo = [r \in Readers |-> {}]
  /\ dirty = [r \in Readers |-> {}]
  /\ due = [r \in Readers |-> {}]

\* No read holds the row's lock.
Free(a) == \A r \in Readers : a \notin dirty[r]

\* The conditional update every transition ends with.
Transition(a, from, to) ==
  /\ status[a] = from
  /\ status' = [status EXCEPT ![a] = to]

(***************************************************************************)
(* Handlers                                                                *)
(***************************************************************************)

\* Rows are created in the order of their numbers.  What the payload says is
\* what terms and window of a new row already hold.
Create(a) ==
  /\ status[a] = "new"
  /\ \A b \in 1..(a - 1) : status[b] # "new"
  /\ terms[a][2] # {} /\ terms[a][2] \subseteq verified
  /\ status' = [status EXCEPT ![a] = "draft"]
  /\ UNCHANGED <<clock, verified, terms, window, activatedAt, submitted, readVars>>

\* Broken: the period is not held against the maximum.
InRangeBroken(w) == w[1] < w[2]
InRange(w) == w[1] < w[2] /\ w[2] - w[1] <= MaxValidity

\* Broken: a submitted row may be edited.
EditableBroken(a) == status[a] \in {"draft", "submitted"}
\* Broken: anything that is not closed may be edited.
EditableWhileOpen(a) == status[a] \in {"draft", "submitted", "active"}
Editable(a) == status[a] = "draft"

\* Scopes are replaced by scopes of verified assets, or left alone; an update
\* may leave a draft without any.
Update(a, t, w) ==
  /\ Free(a)
  /\ Editable(a) /\ InRange(w)
  /\ t[2] # terms[a][2] => t[2] \subseteq verified
  /\ terms' = [terms EXCEPT ![a] = t]
  /\ window' = [window EXCEPT ![a] = w]
  /\ UNCHANGED <<clock, verified, status, activatedAt, submitted, readVars>>

\* Time range, tier, core banking, document and scopes, against the assets as
\* they are.
Passes(a) ==
  /\ InRange(window[a])
  /\ terms[a] \in Acceptable /\ terms[a][2] \subseteq verified

Submit(a) ==
  /\ Free(a)
  /\ status[a] # "new" /\ "submitted" \in Transitions[status[a]]
  /\ Passes(a)
  /\ Transition(a, "draft", "submitted")
  /\ submitted' = [submitted EXCEPT ![a] = <<terms[a], window[a]>>]
  /\ UNCHANGED <<clock, verified, terms, window, activatedAt, readVars>>

BegunAndNotOver(a) == window[a][1] <= clock /\ clock < window[a][2]

Activate(a) ==
  /\ Free(a)
  /\ Passes(a) /\ BegunAndNotOver(a)
  /\ Transition(a, "submitted", "active")
  /\ activatedAt' = [activatedAt EXCEPT ![a] = clock]
  /\ UNCHANGED <<clock, verified, terms, window, submitted, readVars>>

Reject(a) ==
  /\ Free(a)
  /\ status[a] # "new" /\ "rejected" \in Transitions[status[a]]
  /\ Transition(a, "submitted", "rejected")
  /\ UNCHANGED <<clock, verified, terms, window, activatedAt, submitted, readVars>>

\* Broken: not yet over at valid_until.
OverBroken(a) == clock > window[a][2]
Over(a) == clock >= window[a][2]

\* A row that is over is refused; that it was marked expired is rolled back.
Revoke(a) ==
  /\ Free(a)
  /\ ~Over(a)
  /\ Transition(a, "active", "revoked")
  /\ UNCHANGED <<clock, verified, terms, window, activatedAt, submitted, readVars>>

(***************************************************************************)
(* Reads: get_for_tenant of one row, list_for_project of all               *)
(***************************************************************************)

\* Broken: a row is examined whatever its status was.
SeenActiveBroken(rows) == {a \in rows : status[a] # "new"}
SeenActive(rows) == {a \in rows : status[a] = "active"}

BeginRead(r, rows) ==
  /\ ~reading[r]
  /\ reading' = [reading EXCEPT ![r] = TRUE]
  /\ todo' = [todo EXCEPT ![r] = SeenActive(rows)]
  /\ due' = [due EXCEPT ![r] = {a \in rows : status[a] = "active" /\ clock >= window[a][2]}]
  /\ UNCHANGED <<clock, verified, rowVars, dirty>>

Get(r, a) == status[a] # "new" /\ BeginRead(r, {a})
List(r) == BeginRead(r, {a \in Auths : status[a] # "new"})

\* Broken: in no particular order.
NextRowsBroken(r) == todo[r]
\* Rows are read, and so examined, newest first.
NextRows(r) == {a \in todo[r] : \A b \in todo[r] : b <= a}

\* The row is marked by its key alone, whatever its status has become.
Examine(r) ==
  /\ \E a \in NextRows(r) :
       /\ todo' = [todo EXCEPT ![r] = @ \ {a}]
       /\ \/ ~Over(a) /\ UNCHANGED dirty
          \/ Over(a) /\ Free(a) /\ dirty' = [dirty EXCEPT ![r] = @ \cup {a}]
  /\ UNCHANGED <<clock, verified, rowVars, reading, due>>

Leave(r) ==
  /\ reading' = [reading EXCEPT ![r] = FALSE]
  /\ todo' = [todo EXCEPT ![r] = {}]
  /\ dirty' = [dirty EXCEPT ![r] = {}]
  /\ due' = [due EXCEPT ![r] = {}]
  /\ UNCHANGED <<clock, verified, terms, window, activatedAt, submitted>>

EndRead(r) ==
  /\ reading[r] /\ todo[r] = {}
  /\ status' = [a \in Auths |-> IF a \in dirty[r] THEN "expired" ELSE status[a]]
  /\ Leave(r)

\* The client goes away or the connection breaks: the read is rolled back.
AbandonRead(r) ==
  /\ reading[r]
  /\ UNCHANGED status
  /\ Leave(r)

(***************************************************************************)
(* The surroundings                                                        *)
(***************************************************************************)

Tick ==
  /\ clock < MaxTime
  /\ clock' = clock + 1
  /\ UNCHANGED <<verified, rowVars, readVars>>

\* Asset verifications come and go.
Reverify ==
  /\ verified' \in SUBSET Assets
  /\ UNCHANGED <<clock, rowVars, readVars>>

-----------------------------------------------------------------------------

Handle(a) ==
  \/ Create(a) \/ Submit(a) \/ Activate(a) \/ Reject(a) \/ Revoke(a)
  \/ \E t \in Terms, w \in Times \X Times : Update(a, t, w)

Next ==
  \/ \E a \in Auths : Handle(a)
  \/ \E r \in Readers :
       \/ Examine(r) \/ EndRead(r) \/ AbandonRead(r) \/ List(r)
       \/ \E a \in Auths : Get(r, a)
  \/ Tick \/ Reverify

Spec == Init /\ [][Next]_vars

\* A request that has begun is run on, and those that wait for a row's lock
\* are served in turn.
FairSpec ==
  Spec /\ \A r \in Readers : SF_vars(Examine(r)) /\ WF_vars(EndRead(r))

(***************************************************************************)
(* Properties                                                              *)
(***************************************************************************)

TypeOK ==
  /\ clock \in Times
  /\ verified \subseteq Assets
  /\ status \in [Auths -> Statuses \cup {"new"}]
  /\ terms \in [Auths -> Terms]
  /\ window \in [Auths -> Windows]
  /\ activatedAt \in [Auths -> Times]
  /\ submitted \in [Auths -> {<<>>} \cup (Terms \X Windows)]
  /\ reading \in [Readers -> BOOLEAN]
  /\ todo \in [Readers -> SUBSET Auths]
  /\ dirty \in [Readers -> SUBSET Auths]
  /\ due \in [Readers -> SUBSET Auths]

EverActive == {"active", "expired", "revoked"}

\* What is or was active is what was submitted, word for word, was acceptable,
\* and went active within its window.
ActivatedAsSubmitted ==
  \A a \in Auths : status[a] \in EverActive =>
    /\ submitted[a] = <<terms[a], window[a]>>
    /\ terms[a] \in Acceptable
    /\ window[a][1] <= activatedAt[a] /\ activatedAt[a] < window[a][2]

\* Every change of status is one the table of transitions lists, except that a
\* read which saw the row active may still expire it after it was revoked; and
\* only what is over is expired, however late a read acts on its snapshot.
StatusMoves ==
  [][\A a \in Auths : status'[a] # status[a] =>
       /\ \/ status[a] = "new" /\ status'[a] = "draft"
          \/ status[a] = "revoked" /\ status'[a] = "expired"
          \/ status[a] # "new" /\ status'[a] \in Transitions[status[a]]
       /\ status'[a] = "expired" => clock' >= window'[a][2]]_vars

\* "expired, revoked, and rejected are terminal", "no other transition is
\* permitted".
FinalIsFinal ==
  [][\A a \in Auths : status[a] \in Final => status'[a] = status[a]]_vars

\* What the rest of the system sees of the rows.
Grant == INSTANCE GrantLifecycle WITH
  phase <- [a \in Auths |->
              IF status[a] \in {"new", "draft", "submitted"} THEN "pending"
              ELSE IF status[a] = "active" THEN "active" ELSE "ended"],
  deal <- [a \in Auths |-> [terms |-> terms[a], window |-> window[a]]]

\* Every row is a grant: active only from within its window, and from then on
\* with the same terms, whichever of activation, revocation, edits and late
\* reads meet; once ended it stays ended.
ImplementsGrants == Grant!Spec

\* A read that completes leaves no row active that was over when it began.
DueReadExpires ==
  [][\A r \in Readers : EndRead(r) => \A a \in due[r] : status'[a] # "active"]_vars

\* Reads that hold and wait for rows never wait for each other: each that is
\* begun ends, in a commit or rolled back.
ReadsEnd == \A r \in Readers : reading[r] ~> ~reading[r]

=============================================================================
