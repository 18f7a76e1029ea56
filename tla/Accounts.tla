------------------------------ MODULE Accounts ------------------------------
(***************************************************************************)
(* Local accounts and their sessions: the setup, login and logout of       *)
(* AuthController, the user management of UsersController, AuthService,    *)
(* TokenVersionStore and the check of every JWT on arrival.                *)
(*                                                                         *)
(* A step is one query or one SaveChanges; password hashing sits between   *)
(* them.  An id is that of one row of Users and never used twice; several  *)
(* may have the same email address, of which at most one exists.  A        *)
(* password stands for the number of times it was set.  As in License, an  *)
(* UPDATE or DELETE of a missing row and an INSERT of a present one fail.  *)
(***************************************************************************)
EXTENDS Naturals, FiniteSets

CONSTANTS
    Ids,           \* the accounts that may be opened
    Addresses,     \* the email addresses
    AddressOf,     \* the address that each account is opened with
    Requests,      \* the requests that may be in progress at one time
    Ops,           \* which operations are called
    FaultKinds,    \* what may go wrong: "db", "crash"
    MaxRequests,   \* bound: how many requests are made
    MaxFaults      \* bound: how many faults may happen

None == "none"
Roles == {"user", "admin"}
AdminOps == {"create", "role", "reset", "delete"}
OwnOps == {"logout", "change"}
AllOps == {"setup", "login"} \cup AdminOps \cup OwnOps

ASSUME AccountsAssumption ==
    /\ None \notin Ids /\ IsFiniteSet(Ids) /\ Ops \subseteq AllOps
    /\ AddressOf \in [Ids -> Addresses]
    /\ MaxRequests \in Nat /\ MaxFaults \in Nat

VARIABLES
    users,    \* the role of each account, or "unused" or "gone"
    pw,       \* the password of each account
    tver,     \* the sec_tokenver rows; a missing row counts as 0
    tokens,   \* the JWTs issued
    req,      \* the local state of each request
    begun,    \* how many requests have begun
    faults    \* how many faults have happened

dbVars == <<users, pw, tver>>
vars == <<dbVars, tokens, req, begun, faults>>

\* A JWT: its subject, role claim and version, and, as a history, the password
\* that it was issued for.
Token == [sub : Ids, role : Roles, tv : Nat, pw : Nat]

Idle == [pc |-> "idle", op |-> "login", id |-> None, role |-> "user",
         pw |-> 0, seen |-> 0, was |-> "user"]
Steps == {"idle", "check", "address", "insert", "credentials", "token", "find", "count",
          "saveRole", "delete", "savePw", "bumpRead", "bumpSave"}

\* A request that is to insert a row.
Opens(q) == q.pc \in {"check", "address", "insert"}

Exists(i) == users[i] \in Roles
Admins == {i \in Ids : users[i] = "admin"}

Init ==
    /\ users = [i \in Ids |-> "unused"] /\ pw = [i \in Ids |-> 0]
    /\ tver = [i \in Ids |-> 0] /\ tokens = {}
    /\ req = [r \in Requests |-> Idle] /\ begun = 0 /\ faults = 0

Goto(r, pc) == req' = [req EXCEPT ![r].pc = pc]
Return(r) == req' = [req EXCEPT ![r] = Idle]
Fault(kind) ==
    /\ kind \in FaultKinds /\ faults < MaxFaults /\ faults' = faults + 1

\* SaveChanges writes nothing, because it conflicts or the database fails.
Refused(r, conflict) ==
    /\ IF conflict THEN UNCHANGED faults ELSE Fault("db")
    /\ Return(r) /\ UNCHANGED <<dbVars, tokens, begun>>

-----------------------------------------------------------------------------
(* A request arrives; OnTokenValidated compares its version with the row.  *)

Valid(t) == t.tv = tver[t.sub]

Authorized(op, id) ==
    \/ op \in {"setup", "login"}
    \/ op \in AdminOps /\ \E t \in tokens : Valid(t) /\ t.role = "admin"
                                            /\ (op = "delete" => t.sub # id)
    \/ op \in OwnOps /\ \E t \in tokens : Valid(t) /\ t.sub = id

FirstStep(op) ==
    CASE op = "setup" -> "check" [] op = "login" -> "credentials"
      [] op = "create" -> "address" [] op = "logout" -> "bumpRead"
      [] OTHER -> "find"

\* A new row gets an id of its own.
Fresh(id) ==
    users[id] = "unused" /\ \A q \in Requests : Opens(req[q]) => req[q].id # id

Begin(r) ==
    /\ req[r].pc = "idle" /\ begun < MaxRequests
    /\ \E op \in Ops, id \in Ids, role \in Roles :
          /\ Authorized(op, id)
          /\ op \in {"setup", "create"} => Fresh(id)
          /\ op = "setup" => role = "admin"
          /\ req' = [req EXCEPT ![r] = [Idle EXCEPT !.pc = FirstStep(op), !.op = op,
                                          !.id = id, !.role = role]]
    /\ begun' = begun + 1
    /\ UNCHANGED <<dbVars, tokens, faults>>

-----------------------------------------------------------------------------
(* Setup and CreateUser.                                                   *)

CheckFirst(r) ==
    /\ req[r].pc = "check"
    /\ IF \E i \in Ids : Exists(i) THEN Return(r) ELSE Goto(r, "insert")
    /\ UNCHANGED <<dbVars, tokens, begun, faults>>

AddressHeld(r) ==
    \E i \in Ids : Exists(i) /\ AddressOf[i] = AddressOf[req[r].id]

CheckAddress(r) ==
    /\ req[r].pc = "address"
    /\ IF AddressHeld(r) THEN Return(r) ELSE Goto(r, "insert")
    /\ UNCHANGED <<dbVars, tokens, begun, faults>>

\* The unique index on the email address.
Taken_NoIndex(r) == FALSE
Taken(r) == AddressHeld(r)

Insert(r) ==
    LET i == req[r].id
    IN  /\ req[r].pc = "insert"
        /\ \/ /\ ~Taken(r)
              /\ users' = [users EXCEPT ![i] = req[r].role]
              /\ pw' = [pw EXCEPT ![i] = 1]
              /\ IF req[r].op = "setup"
                 THEN req' = [req EXCEPT ![r].pc = "token", ![r].pw = 1]
                 ELSE Return(r)
              /\ UNCHANGED <<tver, tokens, begun, faults>>
           \/ Refused(r, Taken(r))

-----------------------------------------------------------------------------
(* Login: the credentials are checked, and GenerateToken reads the version.*)

Credentials(r) ==
    LET i == req[r].id
    IN  /\ req[r].pc = "credentials"
        /\ IF Exists(i)
           THEN req' = [req EXCEPT ![r].pc = "token", ![r].role = users[i],
                                   ![r].pw = pw[i]]
           ELSE Return(r)
        /\ UNCHANGED <<dbVars, tokens, begun, faults>>

GenerateToken(r) ==
    /\ req[r].pc = "token"
    /\ tokens' = tokens \cup {[sub |-> req[r].id, role |-> req[r].role,
                               tv |-> tver[req[r].id], pw |-> req[r].pw]}
    /\ Return(r)
    /\ UNCHANGED <<dbVars, begun, faults>>

-----------------------------------------------------------------------------
(* UpdateUser, DeleteUser, ResetPassword and ChangeOwnPassword.            *)

Demotes(r) == users[req[r].id] = "admin" /\ req[r].role = "user"

AfterFind(r) ==
    CASE req[r].op = "role" -> IF Demotes(r) THEN "count" ELSE "saveRole"
      [] req[r].op = "delete" ->
            IF users[req[r].id] = "admin" THEN "count" ELSE "delete"
      [] OTHER -> "savePw"

Find(r) ==
    /\ req[r].pc = "find"
    /\ IF Exists(req[r].id)
       THEN req' = [req EXCEPT ![r].pc = AfterFind(r), ![r].was = users[req[r].id]]
       ELSE Return(r)
    /\ UNCHANGED <<dbVars, tokens, begun, faults>>

LastAdmin == Cardinality(Admins) <= 1

Count(r) ==
    /\ req[r].pc = "count"
    /\ IF LastAdmin THEN Return(r)
       ELSE Goto(r, IF req[r].op = "role" THEN "saveRole" ELSE "delete")
    /\ UNCHANGED <<dbVars, tokens, begun, faults>>

Missing_Upsert(r) == FALSE
Missing(r) == ~Exists(req[r].id)

\* Nothing is written for a role that was read as it should be.
SaveRole(r) ==
    LET same == req[r].was = req[r].role
    IN  /\ req[r].pc = "saveRole"
        /\ \/ /\ same \/ ~Missing(r)
              /\ users' = IF same THEN users
                          ELSE [users EXCEPT ![req[r].id] = req[r].role]
              /\ Return(r)
              /\ UNCHANGED <<pw, tver, tokens, begun, faults>>
           \/ Refused(r, ~same /\ Missing(r))

Delete(r) ==
    /\ req[r].pc = "delete"
    /\ \/ /\ ~Missing(r)
          /\ users' = [users EXCEPT ![req[r].id] = "gone"]
          /\ Return(r)
          /\ UNCHANGED <<pw, tver, tokens, begun, faults>>
       \/ Refused(r, Missing(r))

SavePassword(r) ==
    /\ req[r].pc = "savePw"
    /\ \/ /\ ~Missing(r)
          /\ pw' = [pw EXCEPT ![req[r].id] = @ + 1]
          /\ Goto(r, "bumpRead")
          /\ UNCHANGED <<users, tver, tokens, begun, faults>>
       \/ Refused(r, Missing(r))

-----------------------------------------------------------------------------
(* TokenVersionStore.IncrementAsync.                                       *)

BumpRead(r) ==
    /\ req[r].pc = "bumpRead"
    /\ req' = [req EXCEPT ![r].pc = "bumpSave", ![r].seen = tver[req[r].id]]
    /\ UNCHANGED <<dbVars, tokens, begun, faults>>

\* An INSERT conflicts with a row that has appeared, an UPDATE with nothing.
BumpConflicts(r) == req[r].seen = 0 /\ tver[req[r].id] # 0

BumpSave(r) ==
    /\ req[r].pc = "bumpSave"
    /\ \/ /\ ~BumpConflicts(r)
          /\ tver' = [tver EXCEPT ![req[r].id] = req[r].seen + 1]
          /\ Return(r)
          /\ UNCHANGED <<users, pw, tokens, begun, faults>>
       \/ Refused(r, BumpConflicts(r))

-----------------------------------------------------------------------------
\* The server process dies with the requests it was handling.
Crash ==
    /\ \E r \in Requests : req[r].pc # "idle"
    /\ Fault("crash")
    /\ req' = [r \in Requests |-> Idle]
    /\ UNCHANGED <<dbVars, tokens, begun>>

Step(r) ==
    \/ Begin(r) \/ CheckFirst(r) \/ CheckAddress(r) \/ Insert(r) \/ Credentials(r)
    \/ GenerateToken(r) \/ Find(r) \/ Count(r) \/ SaveRole(r) \/ Delete(r)
    \/ SavePassword(r) \/ BumpRead(r) \/ BumpSave(r)

Next == Crash \/ \E r \in Requests : Step(r)

Spec == Init /\ [][Next]_vars

-----------------------------------------------------------------------------
(* Properties.                                                             *)

\* The types of the rows, of the tokens and of the requests.
TypeOK ==
    /\ users \in [Ids -> Roles \cup {"unused", "gone"}]
    /\ pw \in [Ids -> Nat] /\ tver \in [Ids -> Nat]
    /\ tokens \subseteq Token
    /\ begun \in Nat /\ faults \in Nat
    /\ req \in [Requests ->
                 [pc : Steps, op : AllOps, id : Ids \cup {None}, role : Roles,
                  pw : Nat, seen : Nat, was : Roles]]

\* No two accounts have the same email address, although a creation checks the
\* address before it hashes the password and saves, the setup does not check it,
\* and a deletion frees it (AuthService.CreateUser, AuthController.Setup).
OnePerAddress ==
    \A i, j \in Ids :
        Exists(i) /\ Exists(j) /\ AddressOf[i] = AddressOf[j] => i = j

\* A deleted account does not come back, although requests that had read it
\* are still to save its role or its password (UpdateUser, DeleteUser).
DeletedStaysDeleted ==
    [][\A i \in Ids : users[i] = "gone" => users'[i] = "gone"]_vars

\* A server with accounts has an administrator: "Cannot demote the last
\* administrator."  Two removals that are counted before either is saved break
\* it (UpdateUser, DeleteUser).
AdminRemains == (\E i \in Ids : Exists(i)) => Admins # {}
=============================================================================
