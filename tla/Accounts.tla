-------------------------------- MODULE Accounts --------------------------------
(***************************************************************************)
(* User accounts of one organization and the tokens that stand for them.   *)
(*                                                                         *)
(* A token is accepted while the version it carries is the row's.  Every   *)
(* change of a role, of the activation or of a password is to revoke the   *)
(* tokens, and does so by writing the version it has READ plus one: rows   *)
(* are read without a lock, when the caller is authenticated or right      *)
(* after, and written when the transaction ends.                           *)
(***************************************************************************)
EXTENDS Naturals, FiniteSets

CONSTANTS
  Users,
  AccountRequests,  \* transactions under way: requests, scripts, a starting API
  MaxTokens,        \* bound on the tokens issued
  MaxChanges        \* bound on the revoking changes of one user

ASSUME AccountsAssumption ==
  /\ MaxTokens \in Nat /\ MaxChanges \in Nat
  /\ Users \cap {"none", "operator's shell", "starting", "started"} = {}

VARIABLES
  users,            \* row of each user
  tokens,           \* tokens issued
  transaction,      \* what each transaction has read and will write
  changes,          \* history: committed changes that revoke a user's tokens
  overlapped        \* history: users with a change written over a later one

accountVars == <<users, tokens, transaction, changes, overlapped>>

Unborn == [version |-> 0, role |-> "none", active |-> FALSE, bound |-> FALSE]
Deleted == [version |-> 0, role |-> "deleted", active |-> FALSE, bound |-> FALSE]
NewUser(role) == [version |-> 1, role |-> role, active |-> TRUE, bound |-> TRUE]
\* An administrator of the time before organizations.
Legacy == [NewUser("admin") EXCEPT !.bound = FALSE]

Live(row) == row.role \in {"admin", "operator"}
Administers(row) == row.role = "admin" /\ row.active /\ row.bound
Nobody == [actor |-> "none", step |-> "idle", writes |-> {}]

AccountsInit ==
  /\ users \in [Users -> {Unborn, Legacy, NewUser("admin")}]
  /\ tokens = {}
  /\ transaction = [t \in AccountRequests |-> Nobody]
  /\ changes = [u \in Users |-> 0]
  /\ overlapped = {}

(***************************************************************************)
(* Tokens                                                                  *)
(***************************************************************************)

\* The token says what it was issued for, and how many changes came before.
Login(u) ==
  /\ users[u].active /\ Cardinality(tokens) < MaxTokens
  /\ tokens' = tokens \cup {[user |-> u, role |-> users[u].role, bound |-> users[u].bound,
                             version |-> users[u].version, mark |-> changes[u]]}
  /\ UNCHANGED <<users, transaction, changes, overlapped>>

\* Broken: the version is not compared.
AcceptedBroken(token) ==
  LET row == users[token.user] IN
  row.active /\ row.role = token.role /\ row.bound = token.bound
Accepted(token) ==
  LET row == users[token.user] IN
  /\ row.active /\ row.role = token.role /\ row.bound = token.bound
  /\ row.version = token.version

(***************************************************************************)
(* A write is the row that was read and the row it is to become.           *)
(***************************************************************************)

Write(u, row) == [user |-> u, from |-> users[u], to |-> row]
Revoking(row) == [row EXCEPT !.version = @ + 1]

Prepare(t, actor, writes) ==
  /\ \A w \in writes : changes[w.user] < MaxChanges
  /\ transaction' = [transaction EXCEPT
       ![t] = [actor |-> actor, step |-> "writing", writes |-> writes]]
  /\ UNCHANGED <<users, tokens, changes, overlapped>>

\* An insert finds its e-mail free; an update finds its row; a row that is
\* gone may be deleted again.
Possible(w) ==
  CASE w.from = Unborn -> users[w.user] = Unborn
    [] w.to = Deleted -> TRUE
    [] OTHER -> Live(users[w.user])

\* Only the columns that differ from what was read are written.
Written(w) ==
  IF w.from = Unborn \/ w.to = Deleted THEN w.to
  ELSE [f \in DOMAIN w.to |-> IF w.to[f] # w.from[f] THEN w.to[f] ELSE users[w.user][f]]

\* A start keeps the rows it has disabled locked until it ends.
Flushable(t) ==
  \A w \in transaction[t].writes :
    /\ Possible(w)
    /\ \A other \in AccountRequests \ {t} : transaction[other].actor = "started" =>
         \A x \in transaction[other].writes : x.user # w.user

\* An administrator of an organization is let in, and acts later.
AdminEnters(t) ==
  /\ transaction[t] = Nobody
  /\ \E token \in tokens :
       /\ Accepted(token) /\ token.role = "admin" /\ token.bound
       /\ transaction' = [transaction EXCEPT
            ![t] = [actor |-> token.user, step |-> "admitted", writes |-> {}]]
  /\ UNCHANGED <<users, tokens, changes, overlapped>>

Admitted(t) == transaction[t].step = "admitted"

RegisterUser(t) ==
  /\ Admitted(t)
  /\ \E u \in Users, role \in {"admin", "operator"} :
       users[u] = Unborn /\ Prepare(t, transaction[t].actor, {Write(u, NewUser(role))})

\* Broken: administrators may demote, disable or delete themselves.
OthersBroken(t) == {u \in Users : Live(users[u]) /\ users[u].bound}
Others(t) == {u \in Users : Live(users[u]) /\ users[u].bound} \ {transaction[t].actor}

\* What the request sets as it is already is not written; nor is a name.
UpdateUser(t) ==
  /\ Admitted(t)
  /\ \E u \in Others(t), role \in {"admin", "operator"}, active \in BOOLEAN :
       LET row == [users[u] EXCEPT !.role = role, !.active = active] IN
       row # users[u] /\ Prepare(t, transaction[t].actor, {Write(u, Revoking(row))})

DeleteUser(t) ==
  /\ Admitted(t)
  /\ \E u \in Others(t) : Prepare(t, transaction[t].actor, {Write(u, Deleted)})

\* The row is the one its token was checked against.
ChangePassword(t) ==
  /\ transaction[t] = Nobody
  /\ \E token \in tokens :
       /\ Accepted(token)
       /\ Prepare(t, token.user, {Write(token.user, Revoking(users[token.user]))})

\* The script that recovers an administrator, or makes one.
ResetAdmin(t) ==
  /\ transaction[t] = Nobody
  /\ \E u \in Users :
       \/ /\ Live(users[u])
          /\ Prepare(t, "operator's shell", {Write(u, [NewUser("admin") EXCEPT
                                                         !.version = users[u].version + 1])})
       \/ /\ users[u] = Unborn
          /\ Prepare(t, "operator's shell", {Write(u, NewUser("admin"))})

\* A starting API reads the administrators without an organization...
BootstrapReads(t) ==
  LET legacy == {u \in Users : users[u].role = "admin" /\ users[u].active /\ ~users[u].bound} IN
  /\ transaction[t] = Nobody
  /\ Prepare(t, "starting", {Write(u, Revoking([users[u] EXCEPT !.active = FALSE])) : u \in legacy})

\* ...disables them, unless it has to wait, and makes one with an organization
\* when it sees none.
BootstrapDisables(t) ==
  LET disabled == transaction[t].writes
      Sees(u) == Administers(users[u]) /\ \A w \in disabled : w.user # u
      new == IF \E u \in Users : Sees(u) THEN {{}}
             ELSE {{Write(u, NewUser("admin"))} : u \in {v \in Users : users[v] = Unborn}}
  IN
  /\ transaction[t].actor = "starting" /\ Flushable(t)
  /\ \E ws \in new : Prepare(t, "started", disabled \cup ws)

-----------------------------------------------------------------------------

Commit(t) ==
  LET ws == transaction[t].writes
      Of(u) == CHOOSE w \in ws : w.user = u
      touched == {w.user : w \in ws}
  IN
  /\ transaction[t].step = "writing" /\ transaction[t].actor # "starting" /\ Flushable(t)
  /\ users' = [u \in Users |-> IF u \in touched THEN Written(Of(u)) ELSE users[u]]
  /\ changes' = [u \in Users |-> IF u \in touched THEN changes[u] + 1 ELSE changes[u]]
  /\ overlapped' = overlapped \cup {w.user : w \in {x \in ws : users[x.user].version # x.from.version}}
  /\ transaction' = [transaction EXCEPT ![t] = Nobody]
  /\ UNCHANGED tokens

\* The request is refused, or its write fails: nothing of it remains.
Abort(t) ==
  /\ transaction[t] # Nobody
  /\ transaction' = [transaction EXCEPT ![t] = Nobody]
  /\ UNCHANGED <<users, tokens, changes, overlapped>>

AccountsNext ==
  \/ \E u \in Users : Login(u)
  \/ \E t \in AccountRequests :
       \/ AdminEnters(t) \/ RegisterUser(t) \/ UpdateUser(t) \/ DeleteUser(t)
       \/ ChangePassword(t) \/ ResetAdmin(t) \/ BootstrapReads(t) \/ BootstrapDisables(t)
       \/ Commit(t) \/ Abort(t)

AccountsSpec == AccountsInit /\ [][AccountsNext]_accountVars

-----------------------------------------------------------------------------

Revoked(token) == token.mark < changes[token.user]

\* "revoke existing tokens": a token issued before a change of its user is
\* accepted no more.
RevokedStaysRevoked == \A token \in tokens : Revoked(token) => ~Accepted(token)

\* What the code does achieve: that fails only for a user two of whose changes
\* overlapped, the later one written over the version of the earlier.
RevokedUnlessOverlapped ==
  \A token \in tokens : Revoked(token) /\ Accepted(token) => token.user \in overlapped

\* "You cannot deactivate, demote, or delete your own account", so an
\* administrator remains: whoever leaves the organization without one had lost
\* its own rights since it was let in, or is a start that writes over the
\* account it had read before that account was recovered.
AdminRemains ==
  [][(\E u \in Users : Administers(users[u])) /\ (\A u \in Users : ~Administers(users'[u])) =>
       \E t \in AccountRequests :
         /\ transaction[t].step = "writing" /\ transaction'[t] = Nobody
         /\ \/ transaction[t].actor \in Users /\ ~Administers(users[transaction[t].actor])
            \/ /\ transaction[t].actor = "started"
               /\ \E w \in transaction[t].writes : users[w.user] # w.from
    ]_accountVars

=============================================================================
