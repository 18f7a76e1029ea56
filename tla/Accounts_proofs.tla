--------------------------- MODULE Accounts_proofs ---------------------------
(***************************************************************************)
(* Types, addresses and deletions, for any number of accounts, addresses,  *)
(* requests and faults, however the requests overlap.                      *)
(***************************************************************************)
EXTENDS Accounts, FiniteSetTheorems, TLAPS

-----------------------------------------------------------------------------
(* Types.  Every request that has begun is about a person.                 *)

About(r) == req[r].pc # "idle" => req[r].id \in Ids
TInv == TypeOK /\ \A r \in Requests : About(r)

RequestState ==
    [pc : Steps, op : AllOps, id : Ids \cup {None}, role : Roles,
     pw : Nat, seen : Nat, was : Roles]

\* The types, with the local state of a request under a name of its own.
LEMMA Typing ==
    TypeOK <=> /\ users \in [Ids -> Roles \cup {"unused", "gone"}]
               /\ pw \in [Ids -> Nat] /\ tver \in [Ids -> Nat]
               /\ tokens \subseteq Token
               /\ begun \in Nat /\ faults \in Nat
               /\ req \in [Requests -> RequestState]
  BY DEF TypeOK, RequestState

LEMMA IdleState == Idle \in RequestState /\ Idle.pc = "idle"
  BY DEF Idle, RequestState, Steps, AllOps, OwnOps, AdminOps, Roles

LEMMA InitTypes == Init => TInv
<1> SUFFICES ASSUME Init PROVE TInv
  OBVIOUS
<1>1. req \in [Requests -> RequestState] /\ \A r \in Requests : req[r].pc = "idle"
  BY IdleState DEF Init
<1>2. TypeOK
  BY <1>1, Typing DEF Init
<1> QED
  BY <1>1, <1>2 DEF TInv, About

\* The rows, tokens and counters after a step.
RowsOK ==
    /\ users' \in [Ids -> Roles \cup {"unused", "gone"}]
    /\ pw' \in [Ids -> Nat] /\ tver' \in [Ids -> Nat]
    /\ tokens' \subseteq Token
    /\ begun' \in Nat /\ faults' \in Nat

LEMMA RowsStay ==
    ASSUME TInv, UNCHANGED <<dbVars, tokens>>, begun' \in Nat, faults' \in Nat
    PROVE  RowsOK
  BY Typing DEF TInv, RowsOK, dbVars

\* A step of one request after which the rows and that request are well typed.
LEMMA LocalStep ==
    ASSUME TInv, NEW r \in Requests, NEW s, req' = [req EXCEPT ![r] = s],
           s \in RequestState, s.pc # "idle" => s.id \in Ids, RowsOK
    PROVE  TInv'
<1>1. req' \in [Requests -> RequestState] /\ req'[r] = s
  BY Typing DEF TInv
<1>2. TypeOK'
  BY <1>1 DEF TypeOK, RowsOK, RequestState
<1>3. \A q \in Requests : About(q)'
  BY <1>1, Typing DEF TInv, About
<1> QED
  BY <1>2, <1>3 DEF TInv

LEMMA ReturnStep ==
    ASSUME TInv, NEW r \in Requests, Return(r), RowsOK PROVE TInv'
  BY LocalStep, IdleState DEF Return

LEMMA GotoStep ==
    ASSUME TInv, NEW r \in Requests, NEW pc \in Steps, Goto(r, pc),
           req[r].pc # "idle", RowsOK
    PROVE  TInv'
<1> DEFINE s == [req[r] EXCEPT !.pc = pc]
<1>1. s \in RequestState /\ s.pc = pc /\ s.id = req[r].id
  BY Typing DEF TInv, RequestState
<1> QED
  BY <1>1, LocalStep DEF Goto, TInv, About

LEMMA FaultType == ASSUME TInv, NEW kind, Fault(kind) PROVE faults' \in Nat
  BY Typing DEF TInv, Fault

LEMMA RefusedStep ==
    ASSUME TInv, NEW r \in Requests, NEW conflict, Refused(r, conflict)
    PROVE  TInv'
<1>1. faults' \in Nat /\ begun' \in Nat
  BY FaultType, Typing DEF Refused, TInv
<1> QED
  BY <1>1, RowsStay, ReturnStep DEF Refused

-----------------------------------------------------------------------------
LEMMA BeginTypes == ASSUME TInv, NEW r \in Requests, Begin(r) PROVE TInv'
<1>1. PICK op \in Ops, id \in Ids, role \in Roles :
         req' = [req EXCEPT ![r] = [Idle EXCEPT !.pc = FirstStep(op), !.op = op,
                                      !.id = id, !.role = role]]
  BY DEF Begin
<1> DEFINE pc == FirstStep(op)
           s == [Idle EXCEPT !.pc = pc, !.op = op, !.id = id, !.role = role]
<1>2. pc \in Steps
  BY DEF Steps, FirstStep
<1>3. op \in AllOps
  BY AccountsAssumption
<1>4. s \in RequestState /\ s.id = id
  <2> HIDE DEF pc
  <2> QED
    BY <1>2, <1>3, IdleState DEF RequestState
<1>5. RowsOK
  BY RowsStay, Typing DEF Begin, TInv
<1>6. req' = [req EXCEPT ![r] = s]
  BY <1>1
<1> HIDE DEF s, pc
<1> QED
  BY <1>4, <1>5, <1>6, LocalStep

LEMMA CheckFirstTypes == ASSUME TInv, NEW r \in Requests, CheckFirst(r) PROVE TInv'
<1>1. RowsOK
  BY RowsStay, Typing DEF CheckFirst, TInv
<1> QED
  BY <1>1, ReturnStep, GotoStep DEF CheckFirst, Steps

LEMMA CheckAddressTypes ==
    ASSUME TInv, NEW r \in Requests, CheckAddress(r) PROVE TInv'
<1>1. RowsOK
  BY RowsStay, Typing DEF CheckAddress, TInv
<1> QED
  BY <1>1, ReturnStep, GotoStep DEF CheckAddress, Steps

LEMMA InsertTypes == ASSUME TInv, NEW r \in Requests, Insert(r) PROVE TInv'
<1> DEFINE i == req[r].id
           s == [req[r] EXCEPT !.pc = "token", !.pw = 1]
<1>1. i \in Ids /\ req[r] \in RequestState
  BY Typing DEF Insert, TInv, About
<1>2. CASE Refused(r, Taken(r))
  BY <1>2, RefusedStep
<1>3. CASE /\ users' = [users EXCEPT ![i] = req[r].role]
           /\ pw' = [pw EXCEPT ![i] = 1]
           /\ IF req[r].op = "setup"
              THEN req' = [req EXCEPT ![r].pc = "token", ![r].pw = 1]
              ELSE Return(r)
           /\ UNCHANGED <<tver, tokens, begun, faults>>
  <2>1. req[r].role \in Roles
    BY <1>1 DEF RequestState
  <2>2. RowsOK
    BY <1>1, <1>3, <2>1, Typing DEF RowsOK, TInv
  <2>3. CASE req[r].op = "setup"
    <3>1. req' = [req EXCEPT ![r] = s]
      BY <1>3, <2>3
    <3>2. s \in RequestState /\ s.id = i
      BY <1>1 DEF RequestState, Steps
    <3> HIDE DEF s
    <3> QED
      BY <1>1, <2>2, <3>1, <3>2, LocalStep
  <2>4. CASE req[r].op # "setup"
    BY <1>3, <2>2, <2>4, ReturnStep
  <2> QED
    BY <2>3, <2>4
<1> QED
  BY <1>2, <1>3 DEF Insert

LEMMA CredentialsTypes ==
    ASSUME TInv, NEW r \in Requests, Credentials(r) PROVE TInv'
<1> DEFINE i == req[r].id
           s == [req[r] EXCEPT !.pc = "token", !.role = users[i], !.pw = pw[i]]
<1>1. RowsOK
  BY RowsStay, Typing DEF Credentials, TInv
<1>2. CASE Exists(i)
  <2>1. req' = [req EXCEPT ![r] = s]
    BY <1>2 DEF Credentials
  <2>2. i \in Ids /\ users[i] \in Roles /\ pw[i] \in Nat
    BY <1>2, Typing DEF Credentials, TInv, About, Exists
  <2>3. s \in RequestState /\ s.id = i
    BY <2>2, Typing DEF TInv, RequestState, Steps
  <2> HIDE DEF s
  <2> QED
    BY <1>1, <2>1, <2>2, <2>3, LocalStep
<1>3. CASE ~Exists(i)
  BY <1>1, <1>3, ReturnStep DEF Credentials
<1> QED
  BY <1>2, <1>3

LEMMA GenerateTokenTypes ==
    ASSUME TInv, NEW r \in Requests, GenerateToken(r) PROVE TInv'
<1>1. req[r].id \in Ids /\ req[r] \in RequestState
  BY Typing DEF GenerateToken, TInv, About
<1>2. tokens' \subseteq Token
  BY <1>1, Typing DEF GenerateToken, TInv, Token, RequestState
<1>3. RowsOK
  BY <1>2, Typing DEF RowsOK, GenerateToken, TInv, dbVars
<1> QED
  BY <1>3, ReturnStep DEF GenerateToken

LEMMA FindTypes == ASSUME TInv, NEW r \in Requests, Find(r) PROVE TInv'
<1> DEFINE i == req[r].id
           pc == AfterFind(r)
           s == [req[r] EXCEPT !.pc = pc, !.was = users[i]]
<1>1. RowsOK
  BY RowsStay, Typing DEF Find, TInv
<1>2. CASE Exists(i)
  <2>1. req' = [req EXCEPT ![r] = s]
    BY <1>2 DEF Find
  <2>2. i \in Ids /\ users[i] \in Roles
    BY <1>2 DEF Find, TInv, About, Exists
  <2>3. pc \in Steps
    BY DEF AfterFind, Steps
  <2>4. s \in RequestState /\ s.id = i
    <3> HIDE DEF pc
    <3> QED
      BY <2>2, <2>3, Typing DEF TInv, RequestState
  <2> HIDE DEF s
  <2> QED
    BY <1>1, <2>1, <2>2, <2>4, LocalStep
<1>3. CASE ~Exists(i)
  BY <1>1, <1>3, ReturnStep DEF Find
<1> QED
  BY <1>2, <1>3

LEMMA CountTypes == ASSUME TInv, NEW r \in Requests, Count(r) PROVE TInv'
<1> DEFINE pc == IF req[r].op = "role" THEN "saveRole" ELSE "delete"
<1>1. RowsOK
  BY RowsStay, Typing DEF Count, TInv
<1>2. pc \in Steps /\ (LastAdmin \/ Goto(r, pc)) /\ req[r].pc # "idle"
  BY DEF Count, Steps
<1> HIDE DEF pc
<1> QED
  BY <1>1, <1>2, ReturnStep, GotoStep DEF Count

LEMMA SaveRoleTypes == ASSUME TInv, NEW r \in Requests, SaveRole(r) PROVE TInv'
<1> DEFINE same == req[r].was = req[r].role
<1>1. CASE Refused(r, ~same /\ Missing(r))
  BY <1>1, RefusedStep
<1>2. CASE /\ users' = IF same THEN users
                       ELSE [users EXCEPT ![req[r].id] = req[r].role]
           /\ Return(r)
           /\ UNCHANGED <<pw, tver, tokens, begun, faults>>
  <2>1. req[r].role \in Roles
    BY Typing DEF TInv, RequestState
  <2>2. RowsOK
    BY <1>2, <2>1, Typing DEF RowsOK, TInv
  <2> QED
    BY <1>2, <2>2, ReturnStep
<1> QED
  BY <1>1, <1>2 DEF SaveRole

LEMMA DeleteTypes == ASSUME TInv, NEW r \in Requests, Delete(r) PROVE TInv'
<1>1. CASE Refused(r, Missing(r))
  BY <1>1, RefusedStep
<1>2. CASE /\ users' = [users EXCEPT ![req[r].id] = "gone"]
           /\ Return(r)
           /\ UNCHANGED <<pw, tver, tokens, begun, faults>>
  <2>1. RowsOK
    BY <1>2, Typing DEF RowsOK, TInv
  <2> QED
    BY <1>2, <2>1, ReturnStep
<1> QED
  BY <1>1, <1>2 DEF Delete

LEMMA SavePasswordTypes ==
    ASSUME TInv, NEW r \in Requests, SavePassword(r) PROVE TInv'
<1>1. CASE Refused(r, Missing(r))
  BY <1>1, RefusedStep
<1>2. CASE /\ pw' = [pw EXCEPT ![req[r].id] = @ + 1]
           /\ Goto(r, "bumpRead")
           /\ UNCHANGED <<users, tver, tokens, begun, faults>>
  <2>1. RowsOK
    <3>1. pw \in [Ids -> Nat]
      BY Typing DEF TInv
    <3>2. pw[req[r].id] + 1 \in Nat
      BY <3>1 DEF SavePassword, TInv, About
    <3>3. pw' \in [Ids -> Nat]
      BY <1>2, <3>1, <3>2
    <3> QED
      BY <1>2, <3>3, Typing DEF RowsOK, TInv
  <2>2. req[r].pc # "idle" /\ "bumpRead" \in Steps
    BY DEF SavePassword, Steps
  <2> QED
    BY <1>2, <2>1, <2>2, GotoStep
<1> QED
  BY <1>1, <1>2 DEF SavePassword

LEMMA BumpReadTypes == ASSUME TInv, NEW r \in Requests, BumpRead(r) PROVE TInv'
<1> DEFINE s == [req[r] EXCEPT !.pc = "bumpSave", !.seen = tver[req[r].id]]
<1>1. RowsOK
  BY RowsStay, Typing DEF BumpRead, TInv
<1>2. req[r].id \in Ids
  BY DEF BumpRead, TInv, About
<1>3. s \in RequestState /\ s.id = req[r].id
  BY <1>2, Typing DEF TInv, RequestState, Steps
<1>4. req' = [req EXCEPT ![r] = s]
  BY DEF BumpRead
<1> HIDE DEF s
<1> QED
  BY <1>1, <1>2, <1>3, <1>4, LocalStep

LEMMA BumpSaveTypes == ASSUME TInv, NEW r \in Requests, BumpSave(r) PROVE TInv'
<1>1. CASE Refused(r, BumpConflicts(r))
  BY <1>1, RefusedStep
<1>2. CASE /\ tver' = [tver EXCEPT ![req[r].id] = req[r].seen + 1]
           /\ Return(r)
           /\ UNCHANGED <<users, pw, tokens, begun, faults>>
  <2>1. req[r].seen + 1 \in Nat
    BY Typing DEF TInv, RequestState
  <2>2. RowsOK
    BY <1>2, <2>1, Typing DEF RowsOK, TInv
  <2> QED
    BY <1>2, <2>2, ReturnStep
<1> QED
  BY <1>1, <1>2 DEF BumpSave

LEMMA CrashTypes == ASSUME TInv, Crash PROVE TInv'
<1>1. req' \in [Requests -> RequestState] /\ \A r \in Requests : req'[r].pc = "idle"
  BY IdleState DEF Crash
<1>2. faults' \in Nat
  BY FaultType DEF Crash
<1>3. TypeOK'
  BY <1>1, <1>2, Typing DEF TInv, Crash, dbVars, TypeOK, RequestState
<1> QED
  BY <1>1, <1>3 DEF TInv, About

LEMMA NextTypes == ASSUME TInv, [Next]_vars PROVE TInv'
<1>1. CASE UNCHANGED vars
  BY <1>1 DEF TInv, TypeOK, About, vars, dbVars
<1>2. CASE Crash
  BY <1>2, CrashTypes
<1>3. ASSUME NEW r \in Requests, Step(r) PROVE TInv'
  BY <1>3, BeginTypes, CheckFirstTypes, CheckAddressTypes, InsertTypes, CredentialsTypes,
     GenerateTokenTypes, FindTypes, CountTypes, SaveRoleTypes, DeleteTypes,
     SavePasswordTypes, BumpReadTypes, BumpSaveTypes DEF Step
<1> QED
  BY <1>1, <1>2, <1>3 DEF Next

\* Every request, refused write and crash keeps rows, tokens and requests
\* within their types.
THEOREM AccountsTypeCorrect == Spec => []TypeOK
<1>1. TInv => TypeOK
  BY DEF TInv
<1> QED
  BY <1>1, InitTypes, NextTypes, PTL DEF Spec

-----------------------------------------------------------------------------
(* Which rows are written, however requests overlap.                       *)

\* The row of one account is written.
Written(i, role) ==
    /\ i \in Ids /\ users'[i] = role
    /\ \A j \in Ids : j # i => users'[j] = users[j]

LEMMA Writing ==
    ASSUME TInv, NEW i \in Ids, NEW role, users' = [users EXCEPT ![i] = role]
    PROVE  Written(i, role)
  BY Typing DEF TInv, Written

LEMMA OthersStay ==
    ASSUME TInv, NEW r \in Requests, Step(r), NEW q \in Requests, q # r
    PROVE  req'[q] = req[q]
  BY Typing DEF TInv, Step, Begin, CheckFirst, CheckAddress, Insert, Credentials,
     GenerateToken, Find, Count, SaveRole, Delete, SavePassword, BumpRead, BumpSave,
     Refused, Goto, Return

LEMMA Ended ==
    ASSUME TInv, NEW r \in Requests, Return(r) PROVE req'[r] = Idle
  BY Typing DEF TInv, Return

\* A row is inserted under an address that nobody has, and written again or
\* deleted only while it exists.
LEMMA RowWrites ==
    ASSUME TInv, NEW r \in Requests, Step(r)
    PROVE  \/ UNCHANGED users
           \/ /\ req[r].pc = "insert" /\ ~Taken(r)
              /\ Written(req[r].id, req[r].role)
           \/ /\ Exists(req[r].id)
              /\ \E role \in Roles \cup {"gone"} : Written(req[r].id, role)
<1> DEFINE i == req[r].id
<1>1. req[r].role \in Roles /\ (req[r].pc # "idle" => i \in Ids)
  BY Typing DEF TInv, RequestState, About
<1>2. CASE Insert(r)
  <2>1. CASE Refused(r, Taken(r))
    BY <2>1 DEF Refused, dbVars
  <2>2. CASE ~Taken(r) /\ users' = [users EXCEPT ![i] = req[r].role]
    BY <1>1, <1>2, <2>2, Writing DEF Insert
  <2> QED
    BY <1>2, <2>1, <2>2 DEF Insert
<1>3. CASE SaveRole(r)
  <2>1. CASE UNCHANGED users
    BY <2>1
  <2>2. CASE Exists(i) /\ users' = [users EXCEPT ![i] = req[r].role]
    BY <1>1, <1>3, <2>2, Writing DEF SaveRole
  <2> QED
    BY <1>3, <2>1, <2>2 DEF SaveRole, Refused, Missing, dbVars
<1>4. CASE Delete(r)
  <2>1. CASE Refused(r, Missing(r))
    BY <2>1 DEF Refused, dbVars
  <2>2. CASE Exists(i) /\ users' = [users EXCEPT ![i] = "gone"]
    BY <1>1, <1>4, <2>2, Writing DEF Delete
  <2> QED
    BY <1>4, <2>1, <2>2 DEF Delete, Missing
<1>5. CASE ~Insert(r) /\ ~SaveRole(r) /\ ~Delete(r)
  BY <1>5 DEF Step, Begin, CheckFirst, CheckAddress, Credentials, GenerateToken, Find,
     Count, SavePassword, BumpRead, BumpSave, Refused, dbVars
<1> QED
  BY <1>2, <1>3, <1>4, <1>5

-----------------------------------------------------------------------------
(* Addresses: the index decides when the row is saved, so the check before *)
(* it does not matter, nor does an address that was freed in between.      *)

AInv == TInv /\ OnePerAddress

LEMMA InitAddresses == Init => AInv
  BY InitTypes DEF Init, AInv, OnePerAddress, Exists, Roles

LEMMA StepAddresses ==
    ASSUME AInv, NEW r \in Requests, Step(r) PROVE OnePerAddress'
<1> DEFINE i == req[r].id
<1>1. CASE UNCHANGED users
  BY <1>1 DEF AInv, OnePerAddress, Exists
<1>2. CASE ~Taken(r) /\ Written(i, req[r].role)
  <2>1. \A j \in Ids : Exists(j) => AddressOf[j] # AddressOf[i]
    BY <1>2 DEF Taken, AddressHeld
  <2>2. \A j \in Ids : j # i /\ Exists(j)' => Exists(j)
    BY <1>2 DEF Written, Exists
  <2> QED
    BY <2>1, <2>2 DEF AInv, OnePerAddress
<1>3. CASE Exists(i) /\ \E role \in Roles \cup {"gone"} : Written(i, role)
  <2>1. \A j \in Ids : Exists(j)' => Exists(j)
    BY <1>3 DEF Written, Exists
  <2> QED
    BY <2>1 DEF AInv, OnePerAddress
<1> QED
  BY <1>1, <1>2, <1>3, RowWrites DEF AInv

LEMMA NextAddresses == ASSUME AInv, [Next]_vars PROVE AInv'
<1>1. TInv'
  BY NextTypes DEF AInv
<1>2. CASE UNCHANGED users
  BY <1>1, <1>2 DEF AInv, OnePerAddress, Exists
<1> QED
  BY <1>1, <1>2, StepAddresses DEF AInv, Next, Crash, vars, dbVars

\* However creations, setups, deletions, failing saves and crashes interleave, no
\* two accounts have one email address (AuthService.CreateUser).
THEOREM AddressesAreUnique == Spec => []OnePerAddress
<1>1. AInv => OnePerAddress
  BY DEF AInv
<1> QED
  BY <1>1, InitAddresses, NextAddresses, PTL DEF Spec

-----------------------------------------------------------------------------
(* Deletions: the row that a request is to insert has not existed yet, and *)
(* no other request is to insert it.                                       *)

Opening(r) ==
    Opens(req[r]) =>
      /\ users[req[r].id] = "unused"
      /\ \A q \in Requests : q # r /\ Opens(req[q]) => req[q].id # req[r].id

FInv == TInv /\ \A r \in Requests : Opening(r)

LEMMA InitOpening == Init => FInv
  BY InitTypes, IdleState DEF Init, FInv, Opening, Opens

\* Only a request that has begun to insert a row goes on to insert it.
LEMMA OpensLater ==
    ASSUME FInv, NEW r \in Requests, Step(r), Opens(req'[r]), ~Begin(r)
    PROVE  /\ req[r].pc \in {"check", "address"} /\ req'[r].id = req[r].id
           /\ UNCHANGED users
<1>1. ~Return(r)
  BY Ended, IdleState DEF FInv, Opens
<1>2. req \in [Requests -> RequestState]
  BY Typing DEF FInv, TInv
<1>3. CASE CheckFirst(r) \/ CheckAddress(r)
  BY <1>1, <1>2, <1>3 DEF CheckFirst, CheckAddress, Goto, RequestState, dbVars
<1>4. CASE ~CheckFirst(r) /\ ~CheckAddress(r)
  <2>1. req'[r].pc \in {"token", AfterFind(r), "saveRole", "delete", "bumpRead", "bumpSave"}
    BY <1>1, <1>2, <1>4 DEF Step, Insert, Credentials, GenerateToken, Find, Count,
       SaveRole, Delete, SavePassword, BumpRead, BumpSave, Refused, Goto, RequestState
  <2> QED
    BY <2>1 DEF Opens, AfterFind
<1> QED
  BY <1>3, <1>4

LEMMA StepOpening ==
    ASSUME FInv, NEW r \in Requests, Step(r), NEW q \in Requests
    PROVE  Opening(q)'
<1> USE DEF FInv
<1>1. \A p \in Requests : p # r => req'[p] = req[p]
  BY OthersStay
<1>2. \A p \in Requests : Opens(req[p]) => req[p].id \in Ids
  BY DEF TInv, About, Opens
<1>3. CASE Begin(r)
  <2>1. PICK op \in Ops, id \in Ids, role \in Roles :
           /\ op \in {"setup", "create"} => Fresh(id)
           /\ req' = [req EXCEPT ![r] = [Idle EXCEPT !.pc = FirstStep(op), !.op = op,
                                          !.id = id, !.role = role]]
    BY <1>3 DEF Begin
  <2>2. req'[r].id = id /\ req'[r].pc = FirstStep(op) /\ users' = users
    BY <1>3, <2>1, Typing DEF TInv, Idle, Begin, dbVars
  <2>3. Opens(req'[r]) => Fresh(id)
    BY <2>1, <2>2 DEF Opens, FirstStep
  <2> QED
    BY <1>1, <2>2, <2>3 DEF Opening, Fresh
<1>4. CASE ~Begin(r)
  <2>1. \A p \in Requests : Opens(req'[p]) => Opens(req[p]) /\ req'[p].id = req[p].id
    BY <1>1, <1>4, OpensLater DEF Opens
  <2>2. Opens(req'[q]) => users'[req[q].id] = "unused"
    <3>1. SUFFICES ASSUME Opens(req'[q]) PROVE users'[req[q].id] = "unused"
      OBVIOUS
    <3>2. Opens(req[q]) /\ users[req[q].id] = "unused" /\ req[q].id \in Ids
      BY <1>2, <2>1, <3>1 DEF Opening
    <3>3. CASE q = r
      BY <1>4, <3>1, <3>2, <3>3, OpensLater
    <3>4. CASE q # r
      <4>1. req[r].pc = "insert" => req[r].id # req[q].id
        BY <3>2, <3>4 DEF Opening, Opens
      <4>2. Exists(req[r].id) => req[r].id # req[q].id
        BY <3>2 DEF Exists, Roles
      <4> QED
        BY <3>2, <4>1, <4>2, RowWrites DEF Written
    <3> QED
      BY <3>3, <3>4
  <2> QED
    BY <2>1, <2>2 DEF Opening
<1> QED
  BY <1>3, <1>4

LEMMA NextOpening == ASSUME FInv, [Next]_vars PROVE FInv'
<1>1. TInv'
  BY NextTypes DEF FInv
<1>2. CASE UNCHANGED vars
  BY <1>1, <1>2 DEF FInv, Opening, vars, dbVars
<1>3. CASE Crash
  <2>1. \A r \in Requests : req'[r].pc = "idle"
    BY <1>3, IdleState DEF Crash
  <2> QED
    BY <1>1, <2>1 DEF FInv, Opening, Opens
<1> QED
  BY <1>1, <1>2, <1>3, StepOpening DEF FInv, Next

LEMMA DeletedStays ==
    ASSUME FInv, [Next]_vars, NEW i \in Ids, users[i] = "gone"
    PROVE  users'[i] = "gone"
<1>1. CASE UNCHANGED users
  BY <1>1
<1>2. ASSUME NEW r \in Requests, Step(r) PROVE users'[i] = "gone"
  <2>1. req[r].pc = "insert" => req[r].id # i
    BY DEF FInv, Opening, Opens
  <2>2. Exists(req[r].id) => req[r].id # i
    BY DEF Exists, Roles
  <2> QED
    BY <1>1, <1>2, <2>1, <2>2, RowWrites DEF FInv, Written
<1> QED
  BY <1>1, <1>2 DEF Next, Crash, vars, dbVars

\* However late a role, a password or an insert is saved, the account that was
\* deleted meanwhile does not come back, not even when its address is used again.
THEOREM DeletionsAreFinal == Spec => DeletedStaysDeleted
<1>1. FInv /\ [Next]_vars => \A i \in Ids : users[i] = "gone" => users'[i] = "gone"
  BY DeletedStays
<1> QED
  BY <1>1, InitOpening, NextOpening, PTL DEF Spec, DeletedStaysDeleted
=============================================================================
