---------------------------- MODULE AccountsProofs ----------------------------
(***************************************************************************)
(* Proofs about Accounts, for any number of users, tokens and transactions *)
(* under way.                                                              *)
(*                                                                         *)
(* A transaction writes what it made of rows it had read: each of its      *)
(* writes creates a user, deletes one or raises a version by one, and only *)
(* the last kind touches the row of its own actor (WritesHold).  As long   *)
(* as no change of a user was written over a later one, versions rise with *)
(* every change, so a token from before it carries a lower one             *)
(* (TokensHold).                                                           *)
(***************************************************************************)
EXTENDS Accounts, TLAPS

RowKinds ==
  [version : Nat, role : {"none", "deleted", "admin", "operator"}, active : BOOLEAN,
   bound : BOOLEAN]
WriteKinds == [user : Users, from : RowKinds, to : RowKinds]
Actors == Users \cup {"none", "operator's shell", "starting", "started"}

RowsHold ==
  /\ users \in [Users -> RowKinds]
  /\ \A u \in Users : users[u] = Unborn \/ users[u] = Deleted \/ Live(users[u])

Creates(w) == w.from = Unborn /\ w.to.version = 1 /\ Live(w.to) /\ w.to.active
Deletes(w) == w.to = Deleted /\ w.from # Unborn
Replaces(w) == Live(w.from) /\ Live(w.to) /\ w.to.version = w.from.version + 1

\* What a write may be, by who makes it.
Entitled(actor, w) ==
  /\ actor = "operator's shell" => ~Deletes(w) /\ Administers(w.to)
  /\ actor = "starting" => Replaces(w) /\ ~w.from.bound
  /\ actor = "started" => (Replaces(w) /\ ~w.from.bound) \/ Creates(w)
  /\ actor \in Users /\ w.user = actor =>
       /\ Replaces(w) /\ w.to.role = w.from.role
       /\ w.to.active = w.from.active /\ w.to.bound = w.from.bound

WritesHold ==
  /\ transaction \in [AccountRequests ->
       [actor : Actors, step : {"idle", "admitted", "writing"}, writes : SUBSET WriteKinds]]
  /\ \A t \in AccountRequests :
       /\ transaction[t].step = "writing" => transaction[t].actor # "none"
       /\ transaction[t].step = "admitted" => transaction[t].actor \in Users
       /\ transaction[t].actor \in Users => users[transaction[t].actor] # Unborn
       /\ \A w \in transaction[t].writes :
            /\ Creates(w) \/ Deletes(w) \/ Replaces(w)
            /\ w.from # Unborn => users[w.user] # Unborn
            /\ \A x \in transaction[t].writes : x.user = w.user => x = w
            /\ Entitled(transaction[t].actor, w)

TokensHold ==
  /\ changes \in [Users -> Nat]
  /\ \A token \in tokens :
       /\ token.user \in Users /\ token.mark \in Nat /\ token.version \in Nat
       /\ users[token.user] # Unborn
       /\ token.user \notin overlapped /\ Live(users[token.user]) =>
            /\ token.mark <= changes[token.user]
            /\ token.version <= users[token.user].version
            /\ token.mark < changes[token.user] => token.version < users[token.user].version

AccountsInv == RowsHold /\ WritesHold /\ TokensHold

\* A deleted user and one that never was are told apart by their role.
LEMMA Kinds ==
  /\ Unborn \in RowKinds /\ Deleted \in RowKinds /\ Unborn # Deleted
  /\ ~Live(Unborn) /\ ~Live(Deleted) /\ ~Administers(Unborn) /\ ~Administers(Deleted)
  /\ \A row \in RowKinds : Administers(row) => Live(row)
  /\ \A role \in {"admin", "operator"} :
       /\ NewUser(role) \in RowKinds /\ Live(NewUser(role))
       /\ NewUser(role).version = 1 /\ NewUser(role).active
  /\ Administers(NewUser("admin"))
BY DEF Unborn, Deleted, RowKinds, Live, NewUser, Administers

\* The accounts begin within the invariant.
LEMMA AccountsInitially == AccountsInit => AccountsInv
<1> SUFFICES ASSUME AccountsInit PROVE AccountsInv
  OBVIOUS
<1> USE AccountsAssumption DEF AccountsInit
<1>1. RowsHold
  <2>1. Legacy \in RowKinds /\ Live(Legacy)
    BY DEF Legacy, NewUser, RowKinds, Live
  <2> QED BY <2>1, Kinds DEF RowsHold
<1>2. WritesHold
  BY DEF WritesHold, Nobody, Actors, Entitled
<1>3. TokensHold
  BY DEF TokensHold
<1> QED BY <1>1, <1>2, <1>3 DEF AccountsInv

\* A row with another version is the same row in all else.
LEMMA OtherVersion ==
  ASSUME NEW row \in RowKinds, NEW n \in Nat
  PROVE  LET new == [row EXCEPT !.version = n] IN
         /\ new \in RowKinds /\ new.version = n
         /\ new.role = row.role /\ new.active = row.active /\ new.bound = row.bound
BY DEF RowKinds

\* A revoking change of a row raises its version and nothing else.
LEMMA RevokingRow ==
  ASSUME NEW row \in RowKinds
  PROVE  /\ Revoking(row) \in RowKinds /\ Revoking(row).version = row.version + 1
         /\ Revoking(row).role = row.role /\ Revoking(row).active = row.active
         /\ Revoking(row).bound = row.bound
<1>1. row.version + 1 \in Nat
  BY DEF RowKinds
<1> QED BY <1>1, OtherVersion DEF Revoking

\* What an update leaves: the columns it set, and the others as they are by now.
LEMMA WrittenRow ==
  ASSUME RowsHold, NEW w \in WriteKinds, Replaces(w), Possible(w)
  PROVE  /\ Written(w) \in RowKinds /\ Live(Written(w)) /\ Live(users[w.user])
         /\ Written(w).version = w.from.version + 1
         /\ Written(w).role \in {w.to.role, users[w.user].role}
         /\ Written(w).active \in {w.to.active, users[w.user].active}
         /\ Written(w).bound \in {w.to.bound, users[w.user].bound}
         /\ w.to.role = w.from.role => Written(w).role = users[w.user].role
         /\ w.to.active = w.from.active => Written(w).active = users[w.user].active
         /\ w.to.bound = w.from.bound => Written(w).bound = users[w.user].bound
<1>1. w.from \in RowKinds /\ w.to \in RowKinds /\ users[w.user] \in RowKinds
  BY DEF WriteKinds, RowsHold
<1>2. w.from # Unborn /\ w.to # Deleted
  BY Kinds DEF Replaces
<1>3. Live(users[w.user])
  BY <1>2 DEF Possible
<1>4. Written(w) = [f \in DOMAIN w.to |-> IF w.to[f] # w.from[f] THEN w.to[f]
                                         ELSE users[w.user][f]]
  BY <1>2 DEF Written
<1>5. DOMAIN w.to = {"version", "role", "active", "bound"}
  BY <1>1 DEF RowKinds
<1>6. Written(w) =
        [version |-> IF w.to.version # w.from.version THEN w.to.version ELSE users[w.user].version,
         role |-> IF w.to.role # w.from.role THEN w.to.role ELSE users[w.user].role,
         active |-> IF w.to.active # w.from.active THEN w.to.active ELSE users[w.user].active,
         bound |-> IF w.to.bound # w.from.bound THEN w.to.bound ELSE users[w.user].bound]
  BY <1>4, <1>5
<1> QED BY <1>1, <1>3, <1>6 DEF RowKinds, Replaces, Live

\* What has just been read may be written, by whoever is entitled to it.
LEMMA PrepareKeeps ==
  ASSUME AccountsInv, NEW t \in AccountRequests, NEW actor \in Actors, actor # "none",
         NEW writes \in SUBSET WriteKinds, Prepare(t, actor, writes),
         actor \in Users => users[actor] # Unborn,
         \A w \in writes :
           /\ Creates(w) \/ Deletes(w) \/ Replaces(w)
           /\ w.from # Unborn => users[w.user] # Unborn
           /\ \A x \in writes : x.user = w.user => x = w
           /\ Entitled(actor, w)
  PROVE  AccountsInv'
<1> USE DEF AccountsInv, Prepare
<1>1. RowsHold'
  BY DEF RowsHold
<1>2. TokensHold'
  BY DEF TokensHold
<1>3. /\ transaction' \in [AccountRequests ->
           [actor : Actors, step : {"idle", "admitted", "writing"}, writes : SUBSET WriteKinds]]
      /\ transaction'[t] = [actor |-> actor, step |-> "writing", writes |-> writes]
      /\ \A x \in AccountRequests \ {t} : transaction'[x] = transaction[x]
  BY DEF WritesHold
<1>4. ASSUME NEW x \in AccountRequests
      PROVE  /\ transaction'[x].step = "writing" => transaction'[x].actor # "none"
             /\ transaction'[x].step = "admitted" => transaction'[x].actor \in Users
             /\ transaction'[x].actor \in Users => users'[transaction'[x].actor] # Unborn
             /\ \A w \in transaction'[x].writes :
                  /\ Creates(w) \/ Deletes(w) \/ Replaces(w)
                  /\ w.from # Unborn => users'[w.user] # Unborn
                  /\ \A y \in transaction'[x].writes : y.user = w.user => y = w
                  /\ Entitled(transaction'[x].actor, w)
  <2>1. CASE x = t
    BY <1>3, <2>1
  <2>2. CASE x # t
    BY <1>3, <2>2 DEF WritesHold
  <2> QED BY <2>1, <2>2
<1>5. WritesHold'
  BY <1>3, <1>4 DEF WritesHold
<1> QED BY <1>1, <1>2, <1>5

\* Who is let in or gives up holds nothing that could be written.
LEMMA EmptyHanded ==
  ASSUME AccountsInv, NEW t \in AccountRequests, NEW actor \in Actors, NEW step \in {"idle", "admitted"},
         transaction' = [transaction EXCEPT ![t] = [actor |-> actor, step |-> step, writes |-> {}]],
         actor \in Users => users[actor] # Unborn, step = "admitted" => actor \in Users,
         UNCHANGED <<users, tokens, changes, overlapped>>
  PROVE  AccountsInv'
<1> USE DEF AccountsInv
<1>1. RowsHold' /\ TokensHold'
  BY DEF RowsHold, TokensHold
<1>2. /\ transaction' \in [AccountRequests ->
           [actor : Actors, step : {"idle", "admitted", "writing"}, writes : SUBSET WriteKinds]]
      /\ transaction'[t] = [actor |-> actor, step |-> step, writes |-> {}]
      /\ \A x \in AccountRequests \ {t} : transaction'[x] = transaction[x]
  BY DEF WritesHold
<1>3. ASSUME NEW x \in AccountRequests
      PROVE  /\ transaction'[x].step = "writing" => transaction'[x].actor # "none"
             /\ transaction'[x].step = "admitted" => transaction'[x].actor \in Users
             /\ transaction'[x].actor \in Users => users'[transaction'[x].actor] # Unborn
             /\ \A w \in transaction'[x].writes :
                  /\ Creates(w) \/ Deletes(w) \/ Replaces(w)
                  /\ w.from # Unborn => users'[w.user] # Unborn
                  /\ \A y \in transaction'[x].writes : y.user = w.user => y = w
                  /\ Entitled(transaction'[x].actor, w)
  <2>1. CASE x = t
    BY <1>2, <2>1
  <2>2. CASE x # t
    BY <1>2, <2>2 DEF WritesHold
  <2> QED BY <2>1, <2>2
<1>4. WritesHold'
  BY <1>2, <1>3 DEF WritesHold
<1> QED BY <1>1, <1>4

\* A new token is as recent as its user's row.
LEMMA LoginKeeps ==
  ASSUME AccountsInv, NEW u \in Users, Login(u) PROVE AccountsInv'
<1> USE DEF AccountsInv, Login
<1>1. RowsHold'
  BY DEF RowsHold
<1>2. WritesHold'
  BY DEF WritesHold, Entitled
<1>3. users[u] # Unborn /\ users[u].version \in Nat
  BY DEF Unborn, RowsHold, RowKinds
<1>4. TokensHold'
  BY <1>3 DEF TokensHold
<1> QED BY <1>1, <1>2, <1>4

\* An administrator writes of other rows than its own.
LEMMA AdministratorKeeps ==
  ASSUME AccountsInv, NEW t \in AccountRequests, RegisterUser(t) \/ UpdateUser(t) \/ DeleteUser(t)
  PROVE  AccountsInv'
<1> DEFINE actor == transaction[t].actor
<1> USE DEF AccountsInv
<1>1. actor \in Users /\ actor \in Actors /\ actor # "none" /\ users[actor] # Unborn
  BY AccountsAssumption DEF WritesHold, RegisterUser, UpdateUser, DeleteUser, Admitted, Actors
<1>2. actor \notin {"operator's shell", "starting", "started"}
  BY <1>1, AccountsAssumption
<1>3. ASSUME NEW w \in WriteKinds, Prepare(t, actor, {w}), w.user # actor,
             Creates(w) \/ Deletes(w) \/ Replaces(w),
             w.from # Unborn => users[w.user] # Unborn
      PROVE  AccountsInv'
  <2>1. Entitled(actor, w)
    BY <1>2, <1>3 DEF Entitled
  <2> QED BY <1>1, <1>3, <2>1, PrepareKeeps
<1>4. CASE RegisterUser(t)
  <2>1. PICK u \in Users, role \in {"admin", "operator"} :
          users[u] = Unborn /\ Prepare(t, actor, {Write(u, NewUser(role))})
    BY <1>4 DEF RegisterUser
  <2>2. /\ Write(u, NewUser(role)) \in WriteKinds /\ Creates(Write(u, NewUser(role)))
        /\ Write(u, NewUser(role)).user = u /\ Write(u, NewUser(role)).from = Unborn
    BY <2>1, Kinds DEF Write, WriteKinds, Creates
  <2> QED BY <1>1, <1>3, <2>1, <2>2
<1>5. CASE UpdateUser(t)
  <2>1. PICK u \in Others(t), role \in {"admin", "operator"}, active \in BOOLEAN :
          Prepare(t, actor, {Write(u, Revoking([users[u] EXCEPT !.role = role, !.active = active]))})
    BY <1>5 DEF UpdateUser
  <2> DEFINE w == Write(u, Revoking([users[u] EXCEPT !.role = role, !.active = active]))
  <2>2. u \in Users /\ u # actor /\ Live(users[u]) /\ users[u] \in RowKinds
    BY DEF Others, RowsHold
  <2>3. /\ Revoking([users[u] EXCEPT !.role = role, !.active = active]) \in RowKinds
        /\ Live(Revoking([users[u] EXCEPT !.role = role, !.active = active]))
        /\ Revoking([users[u] EXCEPT !.role = role, !.active = active]).version = users[u].version + 1
    <3> DEFINE row == [users[u] EXCEPT !.role = role, !.active = active]
    <3>1. row \in RowKinds /\ row.role = role /\ row.version = users[u].version
      BY <2>2 DEF RowKinds
    <3> HIDE DEF row
    <3>2. /\ Revoking(row) \in RowKinds /\ Live(Revoking(row))
          /\ Revoking(row).version = users[u].version + 1
      BY <3>1, RevokingRow DEF Live
    <3> QED BY <3>2 DEF row
  <2>4. w \in WriteKinds /\ Replaces(w) /\ w.user = u /\ w.from = users[u]
    BY <2>2, <2>3 DEF Write, WriteKinds, Replaces
  <2> HIDE DEF w
  <2> QED BY <1>3, <2>1, <2>2, <2>4 DEF w
<1>6. CASE DeleteUser(t)
  <2>1. PICK u \in Others(t) : Prepare(t, actor, {Write(u, Deleted)})
    BY <1>6 DEF DeleteUser
  <2>2. u \in Users /\ u # actor /\ Live(users[u]) /\ users[u] \in RowKinds /\ users[u] # Unborn
    BY Kinds DEF Others, RowsHold
  <2>3. /\ Write(u, Deleted) \in WriteKinds /\ Deletes(Write(u, Deleted))
        /\ Write(u, Deleted).user = u /\ Write(u, Deleted).from = users[u]
    BY <2>2, Kinds DEF Write, WriteKinds, Deletes
  <2> QED BY <1>3, <2>1, <2>2, <2>3
<1> QED BY <1>4, <1>5, <1>6

\* A user who changes its password changes nothing else of its row.
LEMMA ChangePasswordKeeps ==
  ASSUME AccountsInv, NEW t \in AccountRequests, ChangePassword(t) PROVE AccountsInv'
<1> USE DEF AccountsInv
<1>1. PICK token \in tokens :
        Accepted(token) /\ Prepare(t, token.user, {Write(token.user, Revoking(users[token.user]))})
  BY DEF ChangePassword
<1> DEFINE u == token.user
           w == Write(u, Revoking(users[u]))
<1>2. u \in Users /\ users[u] \in RowKinds /\ users[u] # Unborn /\ Live(users[u])
  BY <1>1 DEF TokensHold, RowsHold, Accepted, Unborn, Deleted
<1>3. /\ Revoking(users[u]) \in RowKinds /\ Live(Revoking(users[u]))
      /\ Revoking(users[u]).version = users[u].version + 1
      /\ Revoking(users[u]).role = users[u].role
      /\ Revoking(users[u]).active = users[u].active
      /\ Revoking(users[u]).bound = users[u].bound
  BY <1>2, RevokingRow DEF Live
<1>4. /\ w \in WriteKinds /\ Replaces(w) /\ w.user = u /\ w.from = users[u]
      /\ w.to.role = w.from.role /\ w.to.active = w.from.active /\ w.to.bound = w.from.bound
  BY <1>2, <1>3 DEF Write, WriteKinds, Replaces
<1> HIDE DEF w
<1>5. Prepare(t, u, {w})
  BY <1>1 DEF w
<1>6. u \in Actors /\ u \notin {"none", "operator's shell", "starting", "started"}
  BY <1>2, AccountsAssumption DEF Actors
<1>7. Entitled(u, w)
  BY <1>4, <1>6 DEF Entitled
<1>8. /\ \A x \in {w} : Creates(x) \/ Deletes(x) \/ Replaces(x)
      /\ \A x \in {w} : x.from # Unborn => users[x.user] # Unborn
      /\ \A x \in {w} : (\A y \in {w} : y.user = x.user => y = x) /\ Entitled(u, x)
      /\ {w} \in SUBSET WriteKinds
  BY <1>2, <1>4, <1>7
<1> HIDE DEF u
<1> QED BY <1>2, <1>5, <1>6, <1>8, PrepareKeeps

\* The recovered administrator is one, whatever it was.
LEMMA ResetAdminKeeps ==
  ASSUME AccountsInv, NEW t \in AccountRequests, ResetAdmin(t) PROVE AccountsInv'
<1> USE DEF AccountsInv
<1>1. PICK u \in Users : \E row :
        /\ Prepare(t, "operator's shell", {Write(u, row)})
        /\ \/ Live(users[u]) /\ row = [NewUser("admin") EXCEPT !.version = users[u].version + 1]
           \/ users[u] = Unborn /\ row = NewUser("admin")
  BY DEF ResetAdmin
<1>2. PICK row :
        /\ Prepare(t, "operator's shell", {Write(u, row)})
        /\ \/ Live(users[u]) /\ row = [NewUser("admin") EXCEPT !.version = users[u].version + 1]
           \/ users[u] = Unborn /\ row = NewUser("admin")
  BY <1>1
<1> DEFINE w == Write(u, row)
<1>3. users[u] \in RowKinds
  BY DEF RowsHold
<1>4. /\ row \in RowKinds /\ Administers(row) /\ row # Deleted
      /\ Creates(w) \/ Replaces(w)
  <2>1. CASE Live(users[u]) /\ row = [NewUser("admin") EXCEPT !.version = users[u].version + 1]
    <3>1. /\ row \in RowKinds /\ Administers(row) /\ Live(row)
          /\ row.version = users[u].version + 1
      <4>1. NewUser("admin") \in RowKinds /\ users[u].version + 1 \in Nat
        BY <1>3, Kinds DEF RowKinds
      <4>2. NewUser("admin").role = "admin" /\ NewUser("admin").active /\ NewUser("admin").bound
        BY DEF NewUser
      <4> QED BY <2>1, <4>1, <4>2, OtherVersion DEF Administers, Live
    <3> QED BY <2>1, <3>1, Kinds DEF Write, Replaces
  <2>2. CASE users[u] = Unborn /\ row = NewUser("admin")
    BY <2>2, Kinds DEF Write, Creates
  <2> QED BY <1>2, <2>1, <2>2
<1>5. w \in WriteKinds /\ w.user = u /\ w.from = users[u] /\ w.to = row
  BY <1>3, <1>4 DEF Write, WriteKinds
<1>6. Entitled("operator's shell", w)
  BY <1>4, <1>5, AccountsAssumption DEF Entitled, Deletes
<1>7. Prepare(t, "operator's shell", {w})
  BY <1>2
<1> HIDE DEF w
<1>8. /\ \A x \in {w} : Creates(x) \/ Deletes(x) \/ Replaces(x)
      /\ \A x \in {w} : x.from # Unborn => users[x.user] # Unborn
      /\ \A x \in {w} : (\A y \in {w} : y.user = x.user => y = x)
                        /\ Entitled("operator's shell", x)
      /\ {w} \in SUBSET WriteKinds
  BY <1>4, <1>5, <1>6
<1>9. "operator's shell" \in Actors /\ "operator's shell" \notin Users
  BY AccountsAssumption DEF Actors
<1> QED BY <1>7, <1>8, <1>9, PrepareKeeps

\* A starting API disables administrators without an organization only.
LEMMA BootstrapReadsKeeps ==
  ASSUME AccountsInv, NEW t \in AccountRequests, BootstrapReads(t) PROVE AccountsInv'
<1> USE DEF AccountsInv
<1> DEFINE legacy == {u \in Users : users[u].role = "admin" /\ users[u].active /\ ~users[u].bound}
           W(u) == Write(u, Revoking([users[u] EXCEPT !.active = FALSE]))
           ws == {W(u) : u \in legacy}
<1>1. Prepare(t, "starting", ws)
  BY DEF BootstrapReads
<1>2. ASSUME NEW u \in legacy
      PROVE  /\ W(u) \in WriteKinds /\ Replaces(W(u)) /\ ~W(u).from.bound
             /\ W(u).user = u /\ users[u] # Unborn
  <2> DEFINE row == [users[u] EXCEPT !.active = FALSE]
  <2>1. users[u] \in RowKinds /\ Live(users[u]) /\ users[u] # Unborn
    BY Kinds DEF RowsHold, Live
  <2>2. row \in RowKinds /\ Live(row) /\ row.version = users[u].version
    BY <2>1 DEF RowKinds, Live
  <2> HIDE DEF row
  <2>3. Revoking(row) \in RowKinds /\ Live(Revoking(row)) /\ Revoking(row).version = users[u].version + 1
    BY <2>2, RevokingRow DEF Live
  <2>4. W(u) = [user |-> u, from |-> users[u], to |-> Revoking(row)]
    BY DEF Write, row
  <2> QED BY <2>1, <2>3, <2>4 DEF WriteKinds, Replaces
<1> HIDE DEF W, legacy
<1>3. /\ ws \in SUBSET WriteKinds
      /\ \A w \in ws :
           /\ Replaces(w) /\ ~w.from.bound /\ users[w.user] # Unborn
           /\ \A x \in ws : x.user = w.user => x = w
  BY <1>2
<1>4. "starting" \in Actors /\ "starting" \notin Users
  BY AccountsAssumption DEF Actors
<1>5. \A w \in ws : Entitled("starting", w)
  BY <1>3, <1>4 DEF Entitled
<1> HIDE DEF ws
<1> QED BY <1>1, <1>3, <1>4, <1>5, PrepareKeeps

\* It may make one administrator besides, of a user it had not read.
LEMMA BootstrapDisablesKeeps ==
  ASSUME AccountsInv, NEW t \in AccountRequests, BootstrapDisables(t) PROVE AccountsInv'
<1> USE DEF AccountsInv
<1> DEFINE disabled == transaction[t].writes
<1>1. PICK ws : /\ Prepare(t, "started", disabled \cup ws)
                /\ \/ ws = {}
                   \/ \E u \in Users : users[u] = Unborn /\ ws = {Write(u, NewUser("admin"))}
  BY DEF BootstrapDisables
<1>2. transaction[t].actor = "starting"
  BY DEF BootstrapDisables
<1>3. /\ disabled \in SUBSET WriteKinds
      /\ \A w \in disabled :
           /\ Replaces(w) /\ ~w.from.bound /\ users[w.user] # Unborn
           /\ \A x \in disabled : x.user = w.user => x = w
  <2>1. ASSUME NEW w \in disabled PROVE Replaces(w) /\ ~w.from.bound /\ users[w.user] # Unborn
    <3>1. Entitled("starting", w)
      BY <1>2 DEF WritesHold
    <3>2. Replaces(w) /\ ~w.from.bound
      BY <3>1 DEF Entitled
    <3>3. w.from # Unborn
      BY <3>2, Kinds DEF Replaces
    <3> QED BY <3>2, <3>3 DEF WritesHold
  <2> QED BY <2>1 DEF WritesHold
<1> HIDE DEF disabled
<1>4. "started" \in Actors /\ "started" \notin Users
  BY AccountsAssumption DEF Actors
<1>5. \A w \in ws : w \in WriteKinds /\ Creates(w) /\ users[w.user] = Unborn /\ (\A x \in ws : x = w)
  BY <1>1, Kinds DEF Write, WriteKinds, Creates
<1>6. \A w \in disabled \cup ws :
        /\ Creates(w) \/ Replaces(w)
        /\ w.from # Unborn => users[w.user] # Unborn
        /\ \A x \in disabled \cup ws : x.user = w.user => x = w
        /\ Entitled("started", w)
  BY <1>3, <1>4, <1>5 DEF Entitled, Creates
<1>7. disabled \cup ws \in SUBSET WriteKinds
  BY <1>3, <1>5
<1> DEFINE all == disabled \cup ws
<1> HIDE DEF all
<1> QED BY <1>1, <1>4, <1>6, <1>7, PrepareKeeps DEF all

\* What a commit makes of each user's row.
LEMMA CommittedRows ==
  ASSUME AccountsInv, NEW t \in AccountRequests, Commit(t)
  PROVE  /\ users' \in [Users -> RowKinds] /\ changes' \in [Users -> Nat]
         /\ \A u \in Users :
              \/ users'[u] = users[u] /\ changes'[u] = changes[u]
              \/ \E w \in transaction[t].writes :
                   /\ w.user = u /\ Possible(w)
                   /\ users'[u] = Written(w) /\ changes'[u] = changes[u] + 1
                   /\ u \notin overlapped' => users[u].version = w.from.version
<1> DEFINE ws == transaction[t].writes
           Of(u) == CHOOSE w \in ws : w.user = u
<1> USE DEF AccountsInv
<1>1. /\ ws \subseteq WriteKinds
      /\ \A w \in ws : \A x \in ws : x.user = w.user => x = w
      /\ \A w \in ws : Possible(w) /\ (Creates(w) \/ Deletes(w) \/ Replaces(w))
  BY DEF WritesHold, Commit, Flushable
<1>2. users' = [u \in Users |-> IF u \in {w.user : w \in ws} THEN Written(Of(u)) ELSE users[u]]
  BY DEF Commit
<1>3. changes' = [u \in Users |-> IF u \in {w.user : w \in ws} THEN changes[u] + 1 ELSE changes[u]]
  BY DEF Commit
<1>4. \A w \in ws : w.user \notin overlapped' => users[w.user].version = w.from.version
  BY DEF Commit
<1>5. \A w \in ws : Of(w.user) = w
  BY <1>1
<1>6. \A w \in ws : Written(w) \in RowKinds
  <2> SUFFICES ASSUME NEW w \in ws PROVE Written(w) \in RowKinds
    OBVIOUS
  <2>1. CASE Replaces(w)
    BY <1>1, <2>1, WrittenRow
  <2>2. CASE Creates(w) \/ Deletes(w)
    BY <1>1, <2>2 DEF Written, Creates, Deletes, WriteKinds
  <2> QED BY <1>1, <2>1, <2>2
<1> HIDE DEF ws, Of
<1>7. users' \in [Users -> RowKinds]
  BY <1>2, <1>5, <1>6 DEF RowsHold
<1>8. changes' \in [Users -> Nat]
  BY <1>3 DEF TokensHold
<1>9. ASSUME NEW u \in Users
      PROVE  \/ users'[u] = users[u] /\ changes'[u] = changes[u]
             \/ \E w \in ws :
                  /\ w.user = u /\ Possible(w)
                  /\ users'[u] = Written(w) /\ changes'[u] = changes[u] + 1
                  /\ u \notin overlapped' => users[u].version = w.from.version
  <2>1. CASE u \in {w.user : w \in ws}
    BY <1>1, <1>2, <1>3, <1>4, <1>5, <2>1
  <2>2. CASE u \notin {w.user : w \in ws}
    BY <1>2, <1>3, <2>2
  <2> QED BY <2>1, <2>2
<1> QED BY <1>7, <1>8, <1>9 DEF ws

\* A commit leaves each row born, deleted or live, and newer where it was not
\* written over a later one.
LEMMA CommitKeeps ==
  ASSUME AccountsInv, NEW t \in AccountRequests, Commit(t) PROVE AccountsInv'
<1> USE DEF AccountsInv
<1>1. ASSUME NEW u \in Users, NEW w \in transaction[t].writes,
             w.user = u, Possible(w), users'[u] = Written(w)
      PROVE  \/ users[u] = Unborn /\ Live(users'[u])
             \/ users'[u] = Deleted
             \/ /\ Live(users[u]) /\ Live(users'[u])
                /\ users'[u].version = w.from.version + 1
  <2>1. w \in WriteKinds /\ (Creates(w) \/ Deletes(w) \/ Replaces(w))
    BY DEF WritesHold
  <2>2. CASE Creates(w)
    BY <1>1, <2>2 DEF Creates, Possible, Written
  <2>3. CASE Deletes(w)
    BY <1>1, <2>3 DEF Deletes, Written
  <2>4. CASE Replaces(w)
    BY <1>1, <2>1, <2>4, WrittenRow
  <2> QED BY <2>1, <2>2, <2>3, <2>4
<1>2. \A u \in Users :
        \/ users'[u] = users[u] \/ users'[u] = Deleted \/ Live(users'[u])
  BY <1>1, CommittedRows
<1>3. RowsHold'
  BY <1>2, CommittedRows DEF RowsHold
<1>4. \A u \in Users : users[u] # Unborn => users'[u] # Unborn
  BY <1>2, Kinds
<1>5. /\ transaction' \in [AccountRequests ->
           [actor : Actors, step : {"idle", "admitted", "writing"}, writes : SUBSET WriteKinds]]
      /\ transaction'[t] = Nobody
      /\ \A x \in AccountRequests \ {t} : transaction'[x] = transaction[x]
  BY DEF Commit, WritesHold, Nobody, Actors
<1>6. ASSUME NEW x \in AccountRequests
      PROVE  /\ transaction'[x].step = "writing" => transaction'[x].actor # "none"
             /\ transaction'[x].step = "admitted" => transaction'[x].actor \in Users
             /\ transaction'[x].actor \in Users => users'[transaction'[x].actor] # Unborn
             /\ \A w \in transaction'[x].writes :
                  /\ Creates(w) \/ Deletes(w) \/ Replaces(w)
                  /\ w.from # Unborn => users'[w.user] # Unborn
                  /\ \A y \in transaction'[x].writes : y.user = w.user => y = w
                  /\ Entitled(transaction'[x].actor, w)
  <2>1. CASE x = t
    <3>1. Nobody.actor = "none" /\ Nobody.step = "idle" /\ Nobody.writes = {}
      BY DEF Nobody
    <3> QED BY <1>5, <2>1, <3>1, AccountsAssumption
  <2>2. CASE x # t
    <3>1. \A w \in transaction[x].writes : w.user \in Users
      BY DEF WritesHold, WriteKinds
    <3> QED BY <1>4, <1>5, <2>2, <3>1 DEF WritesHold
  <2> QED BY <2>1, <2>2
<1>7. WritesHold'
  BY <1>5, <1>6 DEF WritesHold
<1>8. tokens' = tokens /\ overlapped \subseteq overlapped'
  BY DEF Commit
<1>9. ASSUME NEW token \in tokens, token.user \notin overlapped', Live(users'[token.user])
      PROVE  /\ token.mark <= changes'[token.user]
             /\ token.version <= users'[token.user].version
             /\ token.mark < changes'[token.user] => token.version < users'[token.user].version
  <2> DEFINE u == token.user
  <2>1. /\ u \in Users /\ users[u] # Unborn /\ u \notin overlapped
        /\ token.mark \in Nat /\ token.version \in Nat
        /\ users[u].version \in Nat /\ changes[u] \in Nat
    BY <1>8, <1>9 DEF TokensHold, RowsHold, RowKinds
  <2>2. CASE users'[u] = users[u] /\ changes'[u] = changes[u]
    BY <1>9, <2>1, <2>2 DEF TokensHold
  <2>3. ASSUME NEW w \in transaction[t].writes, w.user = u, Possible(w), users'[u] = Written(w),
               changes'[u] = changes[u] + 1, users[u].version = w.from.version
        PROVE  /\ token.mark <= changes'[u] /\ token.version < users'[u].version
    <3>1. Live(users[u]) /\ users'[u].version = users[u].version + 1
      BY <1>1, <1>9, <2>1, <2>3, Kinds
    <3> QED BY <2>1, <2>3, <3>1 DEF TokensHold
  <2>4. users'[u].version \in Nat
    BY <1>3, <2>1 DEF RowsHold, RowKinds
  <2>5. CASE \E w \in transaction[t].writes :
               /\ w.user = u /\ Possible(w)
               /\ users'[u] = Written(w) /\ changes'[u] = changes[u] + 1
               /\ u \notin overlapped' => users[u].version = w.from.version
    BY <1>9, <2>1, <2>3, <2>4, <2>5
  <2> QED BY <2>1, <2>2, <2>5, CommittedRows
<1>10. TokensHold'
  BY <1>4, <1>8, <1>9, CommittedRows DEF TokensHold
<1> QED BY <1>3, <1>7, <1>10

\* Every step keeps the invariant.
LEMMA AccountsInvPreserved == AccountsInv /\ [AccountsNext]_accountVars => AccountsInv'
<1> SUFFICES ASSUME AccountsInv, [AccountsNext]_accountVars PROVE AccountsInv'
  OBVIOUS
<1>1. ASSUME NEW t \in AccountRequests, AdminEnters(t) PROVE AccountsInv'
  <2>1. PICK token \in tokens :
          /\ Accepted(token)
          /\ transaction' = [transaction EXCEPT
               ![t] = [actor |-> token.user, step |-> "admitted", writes |-> {}]]
    BY <1>1 DEF AdminEnters
  <2>2. token.user \in Users /\ token.user \in Actors /\ users[token.user] # Unborn
    BY <2>1 DEF AccountsInv, TokensHold, Actors, Accepted, Unborn
  <2> QED BY <1>1, <2>1, <2>2, EmptyHanded DEF AdminEnters
<1>2. ASSUME NEW t \in AccountRequests, Abort(t) PROVE AccountsInv'
  <2>1. "none" \in Actors /\ "none" \notin Users
    BY AccountsAssumption DEF Actors
  <2> QED BY <1>2, <2>1, EmptyHanded DEF Abort, Nobody
<1>3. CASE UNCHANGED accountVars
  BY <1>3 DEF accountVars, AccountsInv, RowsHold, WritesHold, TokensHold, Possible
<1> QED
  BY <1>1, <1>2, <1>3, LoginKeeps, AdministratorKeeps, ChangePasswordKeeps, ResetAdminKeeps,
     BootstrapReadsKeeps, BootstrapDisablesKeeps, CommitKeeps DEF AccountsNext

\* The invariant holds in every reachable state.
LEMMA AccountsInvariance == AccountsSpec => []AccountsInv
BY AccountsInitially, AccountsInvPreserved, PTL DEF AccountsSpec

\* A token from before a revoking change is accepted no more, unless changes
\* of its user overlapped.
THEOREM TokensStayRevoked == AccountsSpec => []RevokedUnlessOverlapped
<1>1. AccountsInv => RevokedUnlessOverlapped
  <2> SUFFICES ASSUME AccountsInv, NEW token \in tokens, Revoked(token), Accepted(token),
                      token.user \notin overlapped
               PROVE  FALSE
    BY DEF RevokedUnlessOverlapped
  <2>1. Live(users[token.user])
    BY DEF AccountsInv, RowsHold, TokensHold, Accepted, Unborn, Deleted
  <2>2. token.version < users[token.user].version
    BY <2>1 DEF AccountsInv, TokensHold, Revoked
  <2> QED BY <2>2 DEF AccountsInv, TokensHold, RowsHold, RowKinds, Accepted
<1> QED BY <1>1, AccountsInvariance, PTL

\* An administrator remains, but where one acted that had lost its own rights,
\* or a start wrote over a row that had changed since it was read.
THEOREM AnAdminRemains == AccountsSpec => AdminRemains
<1> DEFINE Loses(t) ==
      /\ transaction[t].step = "writing" /\ transaction'[t] = Nobody
      /\ \/ transaction[t].actor \in Users /\ ~Administers(users[transaction[t].actor])
         \/ /\ transaction[t].actor = "started"
            /\ \E w \in transaction[t].writes : users[w.user] # w.from
<1>1. ASSUME AccountsInv, NEW t \in AccountRequests, Commit(t),
             NEW u \in Users, Administers(users[u]), \A x \in Users : ~Administers(users'[x])
      PROVE  Loses(t)
  <2> USE <1>1 DEF AccountsInv
  <2> DEFINE actor == transaction[t].actor
  <2>1. transaction[t].step = "writing" /\ transaction'[t] = Nobody /\ actor \notin {"none", "starting"}
    BY <1>1 DEF Commit, WritesHold
  <2>2. ASSUME NEW x \in Users, Administers(users[x])
        PROVE  \E w \in transaction[t].writes :
                 w.user = x /\ Possible(w) /\ users'[x] = Written(w)
    BY <1>1, <2>2, CommittedRows
  <2>3. ASSUME NEW x \in Users, Administers(users[x]), NEW w \in transaction[t].writes,
               w.user = x, Possible(w)
        PROVE  w \in WriteKinds /\ ~Creates(w) /\ (Deletes(w) \/ Replaces(w)) /\ Entitled(actor, w)
    <3>1. users[x] # Unborn
      BY <2>3, Kinds
    <3>2. w \in WriteKinds /\ (Creates(w) \/ Deletes(w) \/ Replaces(w)) /\ Entitled(actor, w)
      BY DEF WritesHold
    <3>3. ~Creates(w)
      <4> SUFFICES ASSUME Creates(w) PROVE FALSE
        OBVIOUS
      <4>1. w.from = Unborn /\ w.to # Deleted
        BY Kinds DEF Creates
      <4> QED BY <2>3, <3>1, <4>1 DEF Possible
    <3> QED BY <3>2, <3>3
  <2>4. CASE actor \in Users
    <3>1. ASSUME Administers(users[actor]) PROVE FALSE
      <4>1. PICK w \in transaction[t].writes :
              w.user = actor /\ Possible(w) /\ users'[actor] = Written(w)
        BY <2>2, <2>4, <3>1
      <4>2. /\ Replaces(w) /\ w \in WriteKinds /\ w.to.role = w.from.role
            /\ w.to.active = w.from.active /\ w.to.bound = w.from.bound
        BY <2>3, <2>4, <3>1, <4>1 DEF Entitled
      <4>3. Administers(users'[actor])
        <5>1. /\ Written(w).role = users[w.user].role
              /\ Written(w).active = users[w.user].active
              /\ Written(w).bound = users[w.user].bound
          BY <4>1, <4>2, WrittenRow
        <5> QED BY <3>1, <4>1, <5>1 DEF Administers
      <4> QED BY <1>1, <2>4, <4>3
    <3> QED BY <2>1, <2>4, <3>1
  <2>5. PICK w \in transaction[t].writes : w.user = u /\ Possible(w) /\ users'[u] = Written(w)
    BY <1>1, <2>2
  <2>6. w \in WriteKinds /\ ~Creates(w) /\ (Deletes(w) \/ Replaces(w)) /\ Entitled(actor, w)
    BY <1>1, <2>3, <2>5
  <2>7. CASE actor = "operator's shell"
    <3>1. Replaces(w) /\ Administers(w.to)
      BY <2>6, <2>7 DEF Entitled
    <3>2. /\ Written(w).role \in {w.to.role, users[w.user].role}
          /\ Written(w).active \in {w.to.active, users[w.user].active}
          /\ Written(w).bound \in {w.to.bound, users[w.user].bound}
      BY <2>5, <2>6, <3>1, WrittenRow
    <3>3. Administers(Written(w))
      BY <1>1, <2>5, <3>1, <3>2 DEF Administers
    <3> QED BY <1>1, <2>5, <3>3
  <2>8. CASE actor = "started"
    <3>1. ~w.from.bound
      BY <2>6, <2>8 DEF Entitled
    <3>2. users[u] # w.from
      BY <1>1, <3>1 DEF Administers
    <3> QED BY <2>1, <2>5, <2>8, <3>2
  <2>9. actor \in Actors
    BY DEF WritesHold
  <2> QED BY <2>1, <2>4, <2>7, <2>8, <2>9 DEF Actors
<1>2. ASSUME [AccountsNext]_accountVars PROVE users' = users \/ \E t \in AccountRequests : Commit(t)
  BY <1>2 DEF AccountsNext, accountVars, Login, AdminEnters, RegisterUser, UpdateUser, DeleteUser,
     ChangePassword, ResetAdmin, BootstrapReads, BootstrapDisables, Prepare, Abort
<1> DEFINE Remains ==
      (\E u \in Users : Administers(users[u])) /\ (\A u \in Users : ~Administers(users'[u])) =>
        \E t \in AccountRequests : Loses(t)
<1>3. AccountsInv /\ [AccountsNext]_accountVars => Remains
  BY <1>1, <1>2
<1>4. AccountsInv /\ [AccountsNext]_accountVars => [Remains]_accountVars
  BY <1>3
<1> QED BY <1>4, AccountsInvariance, PTL DEF AccountsSpec, AdminRemains

=============================================================================
