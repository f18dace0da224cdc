------------------------------ MODULE UserStore -----------------------------
(***************************************************************************)
(* The accounts: UserStore of user_store.py, the endpoints of bot.py that  *)
(* create, change and delete them, and the check that every admin request  *)
(* passes.                                                                 *)
(***************************************************************************)
EXTENDS AdminRequests, Sequences, FiniteSets

CONSTANT Users      \* usernames

VARIABLES
  users,            \* the table
  removed           \* history: the usernames that were ever deleted

userVars == <<users, removed>>

Roles == {"admin", "user"}
\* password is the request that set it; a row that update_item made has none.
Account == [role : Roles, disabled : BOOLEAN, password : Requests \cup {None, Initial}]

\* What a PATCH changes; the value of a password is the request that sets it.
Change == [field : {"role"}, value : Roles] \cup [field : {"password"}, value : {None}]
            \cup [field : {"disabled"}, value : BOOLEAN]

\* A PATCH, of which fewer and fewer changes are left to make.
Patch == [op : {"patch"}, actor : Users, target : Users, changes : Seq(Change)]

ASSUME UsersAssumption == None \notin Account /\ None \notin Patch

\* The body of a request, its path and its session cookie.
AccountJob(j) ==
  /\ j.op \in {"setup", "create", "delete", "patch"} => j.target \in Users
  /\ j.op \in {"delete", "patch"} => j.actor \in Users
  /\ j.op = "create" => j.role \in Roles
  /\ j.op = "patch" => j \in Patch /\ j.changes # <<>>

\* The first boot, or a deployment with two admins.
UsersInit ==
  /\ users \in {[u \in Users |-> None],
                [u \in Users |-> [role |-> "admin", disabled |-> FALSE, password |-> Initial]]}
  /\ removed = {}

UsersTypeOK == users \in [Users -> Account \cup {None}] /\ removed \subseteq Users

\* require_admin, for a session cookie of u; a get_item that fails refuses.
Authorized(u) ==
  /\ users[u] # None
  /\ ~users[u].disabled
  /\ users[u].role = "admin"

\* POST /api/auth/setup: the scan of _needs_setup.
Setup(r, j) ==
  /\ j.op = "setup"
  /\ \A u \in Users : users[u] = None
  /\ Serve(r, j, "create")
  /\ UNCHANGED userVars

\* POST /api/admin/users
StartCreate(r, j) ==
  /\ j.op = "create"
  /\ Authorized(j.actor)
  /\ Serve(r, j, "create")
  /\ UNCHANGED userVars

\* The get of create; one that fails is taken for a missing row.
CreateChecked(r) ==
  /\ at[r] = "create"
  /\ \/ Goto(r, "put")
     \/ (users[job[r].target] # None /\ Finish(r))
  /\ UNCHANGED userVars

NewAccount(r) ==
  [role |-> IF job[r].op = "setup" THEN "admin" ELSE job[r].role,
   disabled |-> FALSE, password |-> r]

\* A mutant of PutAccount: no ConditionExpression.
PutAccountAlways(r) ==
  /\ at[r] = "put"
  /\ users' = [users EXCEPT ![job[r].target] = NewAccount(r)]
  /\ Succeed(r)
  /\ UNCHANGED removed

\* The conditional put of create, which the store may refuse or lose.
PutAccount(r) ==
  /\ at[r] = "put"
  /\ \/ /\ users[job[r].target] = None
        /\ users' = [users EXCEPT ![job[r].target] = NewAccount(r)]
        /\ \/ job[r].op = "create" /\ Succeed(r)
           \/ Finish(r)
     \/ (Finish(r) /\ UNCHANGED users)
  /\ UNCHANGED removed

\* PATCH /api/admin/users/{username}, up to the get of its first field.
StartPatch(r, j) ==
  /\ j.op = "patch"
  /\ Authorized(j.actor)
  /\ Serve(r, j, "check")
  /\ UNCHANGED userVars

\* set_role, set_password or set_disabled: its get.  An admin cannot disable
\* their own account, but the fields before have been changed by then.
CheckField(r) ==
  LET change == Head(job[r].changes)
      self == change.field = "disabled" /\ change.value /\ job[r].target = job[r].actor
  IN  /\ at[r] = "check"
      /\ \/ (~self /\ users[job[r].target] # None /\ Goto(r, "update"))
         \/ Finish(r)
      /\ UNCHANGED userVars

\* update_item: what a missing row lacks reads as its default.
Updated(row, change, r) ==
  LET old == IF row = None THEN [role |-> "user", disabled |-> FALSE, password |-> None] ELSE row
  IN  CASE change.field = "role" -> [old EXCEPT !.role = change.value]
        [] change.field = "password" -> [old EXCEPT !.password = r]
        [] change.field = "disabled" -> [old EXCEPT !.disabled = change.value]

\* Its update, and on to the next field.
UpdateField(r) ==
  LET t == job[r].target
      rest == Tail(job[r].changes)
      update == users' = [users EXCEPT ![t] = Updated(@, Head(job[r].changes), r)]
  IN  /\ at[r] = "update"
      /\ \/ /\ update
            /\ job' = [job EXCEPT ![r].changes = rest]
            /\ at' = [at EXCEPT ![r] = IF rest = <<>> THEN "confirm" ELSE "check"]
         \/ ((update \/ UNCHANGED users) /\ Finish(r))
      /\ UNCHANGED removed

\* The get of the row that is answered.
Confirm(r) ==
  /\ at[r] = "confirm"
  /\ \/ (users[job[r].target] # None /\ Succeed(r))
     \/ Finish(r)
  /\ UNCHANGED userVars

\* A mutant of StartDelete: an admin may delete their own account.
StartDeleteAny(r, j) ==
  /\ j.op = "delete"
  /\ Authorized(j.actor)
  /\ Serve(r, j, "delete")
  /\ UNCHANGED userVars

\* DELETE /api/admin/users/{username}
StartDelete(r, j) ==
  /\ j.op = "delete"
  /\ Authorized(j.actor)
  /\ j.target # j.actor
  /\ Serve(r, j, "delete")
  /\ UNCHANGED userVars

DeleteAccount(r) ==
  LET t == job[r].target IN
  /\ at[r] = "delete"
  /\ \/ /\ users' = [users EXCEPT ![t] = None]
        /\ removed' = IF users[t] = None THEN removed ELSE removed \cup {t}
        /\ \/ (users[t] # None /\ Succeed(r))
           \/ Finish(r)
     \/ (Finish(r) /\ UNCHANGED userVars)

UserStart(r, j) == Setup(r, j) \/ StartCreate(r, j) \/ StartPatch(r, j) \/ StartDelete(r, j)

UserStep(r) ==
  \/ CreateChecked(r) \/ PutAccount(r) \/ CheckField(r) \/ UpdateField(r)
  \/ Confirm(r) \/ DeleteAccount(r)

-----------------------------------------------------------------------------
UsableAdmins == {u \in Users : Authorized(u) /\ users[u].password # None}

\* An account is created whole where there was none, keeps what is in it when
\* a create or a setup of the same name races with the first, changes in one
\* attribute at a time, by a PATCH of it, and disappears by a DELETE; a row
\* without a password is what a PATCH leaves of an account that was deleted
\* between its check and its update.
AccountLifecycle ==
  [][\A u \in Users :
       users'[u] # users[u] =>
         \E r \in Requests :
           /\ Steps(r)
           /\ job[r].target = u
           /\ \/ at[r] = "delete" /\ users'[u] = None
              \/ at[r] = "put" /\ users[u] = None /\ users'[u].password = r
              \/ /\ at[r] = "update"
                 /\ users[u] = None => u \in removed
                 /\ users[u] # None =>
                      Cardinality({f \in {"role", "disabled", "password"} :
                                     users'[u][f] # users[u][f]}) = 1]_userVars

\* A request leaves the platform without an admin who can log in only if it
\* demotes its own actor, or if its actor is no such admin any more by the
\* time it writes (two admins who remove each other at once).
LockOutIsStale ==
  [][UsableAdmins # {} /\ UsableAdmins' = {} =>
       \E r \in Requests :
         /\ Steps(r)
         /\ \/ job[r].actor \notin UsableAdmins
            \/ /\ at[r] = "update"
               /\ job[r].target = job[r].actor
               /\ Head(job[r].changes).field = "role"]_userVars
=============================================================================
