---------------------------- MODULE License_proofs ----------------------------
(***************************************************************************)
(* The install id, the seats and the stored license, for any number of     *)
(* requests, serials, endpoints and faults, however the requests overlap.  *)
(***************************************************************************)
EXTENDS License, TLAPS

-----------------------------------------------------------------------------
(* The inductive invariant: a request that is about to call the license    *)
(* server knows a serial and the install id that is stored.                *)

Informed(r) ==
    /\ req[r].pc # "idle" => req[r].serial \in Serials
    /\ req[r].pc = "post" => req[r].hw \in Requests /\ req[r].hw = install

IInv == TypeOK /\ OneInstall /\ \A r \in Requests : Informed(r)

RequestState ==
    [pc : Steps, kind : AllKinds, serial : Serials \cup {None},
     hw : Requests \cup {None}, act : Token \cup {NoToken},
     reused : BOOLEAN, cur : Token \cup {NoToken},
     prev : Token \cup {NoToken}, sawSetup : BOOLEAN]

\* The types, with the local state of a request under a name of its own.
LEMMA Typing ==
    TypeOK <=> /\ install \in Requests \cup {None}
               /\ lic \in Token \cup {NoToken} /\ setup \in BOOLEAN
               /\ seats \subseteq Token
               /\ minted \in Nat /\ begun \in Nat /\ faults \in Nat
               /\ req \in [Requests -> RequestState]
  BY DEF TypeOK, RequestState

LEMMA IdleState == Idle \in RequestState /\ Idle.pc = "idle"
  BY DEF Idle, RequestState, Steps, AllKinds

LEMMA InitInv == Init => IInv
<1> SUFFICES ASSUME Init PROVE IInv
  OBVIOUS
<1>1. req \in [Requests -> RequestState] /\ \A r \in Requests : req[r].pc = "idle"
  BY IdleState DEF Init
<1>2. TypeOK
  BY <1>1, Typing DEF Init
<1>3. OneInstall /\ \A r \in Requests : Informed(r)
  BY <1>1 DEF Init, OneInstall, Informed
<1> QED
  BY <1>2, <1>3 DEF IInv

-----------------------------------------------------------------------------
\* A step that leaves the install id and the seats alone, and after which the
\* request is well typed and informed, preserves the invariant.
LEMMA LocalStep ==
    ASSUME IInv, NEW r \in Requests, NEW s,
           req' = [req EXCEPT ![r] = s], s \in RequestState,
           s.pc # "idle" => s.serial \in Serials,
           s.pc = "post" => s.hw \in Requests /\ s.hw = install,
           lic' \in Token \cup {NoToken}, setup' \in BOOLEAN,
           begun' \in Nat, faults' \in Nat, UNCHANGED <<install, serverVars>>
    PROVE  IInv'
<1>1. req' \in [Requests -> RequestState] /\ req'[r] = s
  BY Typing DEF IInv
<1>2. TypeOK'
  BY <1>1, Typing DEF IInv, serverVars, TypeOK, RequestState
<1>3. OneInstall'
  BY DEF IInv, OneInstall, serverVars
<1>4. \A q \in Requests : Informed(q)'
  <2> SUFFICES ASSUME NEW q \in Requests PROVE Informed(q)'
    OBVIOUS
  <2>1. CASE q = r
    BY <1>1, <2>1 DEF Informed
  <2>2. CASE q # r
    BY <2>2, Typing DEF Informed, IInv
  <2> QED
    BY <2>1, <2>2
<1> QED
  BY <1>2, <1>3, <1>4 DEF IInv

\* The same for a step that ends the request, and for one that only moves on.
LEMMA ReturnStep ==
    ASSUME IInv, NEW r \in Requests, Return(r),
           lic' \in Token \cup {NoToken}, setup' \in BOOLEAN,
           begun' \in Nat, faults' \in Nat, UNCHANGED <<install, serverVars>>
    PROVE  IInv'
  BY LocalStep, IdleState DEF Return

LEMMA GotoStep ==
    ASSUME IInv, NEW r \in Requests, NEW pc \in Steps, Goto(r, pc),
           req[r].pc # "idle", pc # "post",
           lic' \in Token \cup {NoToken}, setup' \in BOOLEAN,
           begun' \in Nat, faults' \in Nat, UNCHANGED <<install, serverVars>>
    PROVE  IInv'
<1> DEFINE s == [req[r] EXCEPT !.pc = pc]
<1>1. req' = [req EXCEPT ![r] = s]
  BY DEF Goto
<1>2. s \in RequestState /\ s.pc = pc /\ s.serial = req[r].serial
  BY Typing DEF IInv, RequestState
<1>3. s.serial \in Serials
  BY <1>2 DEF IInv, Informed
<1> QED
  BY <1>1, <1>2, <1>3, LocalStep

\* Database and fault counters keep their types.
LEMMA FaultType == ASSUME IInv, NEW kind, Fault(kind) PROVE faults' \in Nat
  BY Typing DEF IInv, Fault

LEMMA RefusedStep ==
    ASSUME IInv, NEW r \in Requests, NEW conflict, Refused(r, conflict)
    PROVE  IInv'
<1>1. faults' \in Nat
  BY FaultType, Typing DEF Refused, IInv
<1> QED
  BY <1>1, ReturnStep, Typing DEF Refused, IInv, dbVars, serverVars

-----------------------------------------------------------------------------
(* The steps of a request.                                                 *)

LEMMA BeginInv == ASSUME IInv, NEW r \in Requests, Begin(r) PROVE IInv'
<1>1. PICK kind \in Kinds, serial \in Serials :
         req' = [req EXCEPT ![r] =
                   [Idle EXCEPT !.kind = kind, !.serial = serial,
                      !.pc = CASE kind = "activate" -> "install"
                               [] kind = "deactivate" -> "dread"
                               [] OTHER -> "gate"]]
  BY DEF Begin
<1> DEFINE pc == CASE kind = "activate" -> "install"
                   [] kind = "deactivate" -> "dread"
                   [] OTHER -> "gate"
           s == [Idle EXCEPT !.kind = kind, !.serial = serial, !.pc = pc]
<1>2. pc \in Steps /\ pc # "post"
  BY DEF Steps
<1>3. kind \in AllKinds
  BY LicenseAssumption
<1>4. s \in RequestState /\ s.pc = pc /\ s.serial = serial
  <2> HIDE DEF pc
  <2> QED
    BY <1>2, <1>3, IdleState DEF RequestState
<1>5. begun' \in Nat /\ faults' \in Nat
  BY Typing DEF Begin, IInv
<1>6. req' = [req EXCEPT ![r] = s]
  BY <1>1
<1> HIDE DEF s, pc
<1> QED
  BY <1>2, <1>4, <1>5, <1>6, LocalStep, Typing DEF Begin, IInv, dbVars, serverVars

LEMMA GateInv == ASSUME IInv, NEW r \in Requests, Gate(r) PROVE IInv'
<1>1. CASE setup
  BY <1>1, ReturnStep, Typing DEF Gate, IInv, dbVars, serverVars
<1>2. CASE ~setup
  <2> DEFINE pc == IF req[r].kind = "skip" THEN "skip" ELSE "install"
  <2>1. pc \in Steps /\ pc # "post" /\ Goto(r, pc) /\ req[r].pc # "idle"
    BY <1>2 DEF Gate, Steps
  <2> HIDE DEF pc
  <2> QED
    BY <2>1, GotoStep, Typing DEF Gate, IInv, dbVars, serverVars
<1> QED
  BY <1>1, <1>2

LEMMA ReadSetupInv == ASSUME IInv, NEW r \in Requests, ReadSetup(r) PROVE IInv'
<1> DEFINE pc == IF req[r].pc = "skip" THEN "skipSave" ELSE "save"
           s == [req[r] EXCEPT !.sawSetup = setup, !.pc = pc]
<1>1. req' = [req EXCEPT ![r] = s]
  BY Typing DEF ReadSetup, IInv
<1>2. pc \in Steps /\ pc # "post"
  BY DEF Steps
<1>3. s \in RequestState /\ s.pc = pc /\ s.serial = req[r].serial
  <2> HIDE DEF pc
  <2> QED
    BY <1>2, Typing DEF IInv, RequestState
<1>4. req[r].serial \in Serials
  BY DEF IInv, Informed, ReadSetup
<1> HIDE DEF s, pc
<1> QED
  BY <1>1, <1>2, <1>3, <1>4, LocalStep, Typing DEF ReadSetup, IInv, dbVars, serverVars

LEMMA SaveSkipInv == ASSUME IInv, NEW r \in Requests, SaveSkip(r) PROVE IInv'
<1>1. CASE Refused(r, SetupConflicts(r))
  BY <1>1, RefusedStep
<1>2. CASE setup' = TRUE /\ Return(r) /\ UNCHANGED <<install, lic, serverVars, begun, faults>>
  BY <1>2, ReturnStep, Typing DEF IInv
<1> QED
  BY <1>1, <1>2 DEF SaveSkip

LEMMA ReadInstallInv == ASSUME IInv, NEW r \in Requests, ReadInstall(r) PROVE IInv'
<1> DEFINE pc == IF install = None THEN "installSave" ELSE "post"
           s == [req[r] EXCEPT !.pc = pc, !.hw = install]
<1>1. req' = [req EXCEPT ![r] = s]
  BY DEF ReadInstall, AfterInstall
<1>2. pc \in Steps /\ (pc = "post" => install # None)
  BY DEF Steps
<1>3. install \in Requests \cup {None}
  BY Typing DEF IInv
<1>4. s \in RequestState /\ s.pc = pc /\ s.serial = req[r].serial /\ s.hw = install
  <2> HIDE DEF pc
  <2> QED
    BY <1>2, <1>3, Typing DEF IInv, RequestState
<1>5. req[r].serial \in Serials
  BY DEF IInv, Informed, ReadInstall
<1> HIDE DEF s, pc
<1> QED
  BY <1>1, <1>2, <1>3, <1>4, <1>5, LocalStep, Typing
  DEF ReadInstall, IInv, dbVars, serverVars

\* The id is stored only while there is none, so no seat has been counted yet
\* and nobody is at the license server.
LEMMA SaveInstallInv == ASSUME IInv, NEW r \in Requests, SaveInstall(r) PROVE IInv'
<1>1. CASE Refused(r, InstallConflicts)
  BY <1>1, RefusedStep
<1>2. CASE /\ ~InstallConflicts
           /\ install' = r
           /\ req' = [req EXCEPT ![r].pc = "post", ![r].hw = r]
           /\ UNCHANGED <<lic, setup, serverVars, begun, faults>>
  <2> DEFINE s == [req[r] EXCEPT !.pc = "post", !.hw = r]
  <2>1. req' = [req EXCEPT ![r] = s]
    BY <1>2
  <2>2. s \in RequestState /\ s.serial = req[r].serial /\ s.hw = r /\ s.pc = "post"
    BY ZenonT(30), Typing DEF IInv, RequestState, Steps
  <2>3. req[r].serial \in Serials
    BY DEF IInv, Informed, SaveInstall
  <2> HIDE DEF s
  <2>4. req' \in [Requests -> RequestState] /\ req'[r] = s
    BY <2>1, <2>2, Typing DEF IInv
  <2>5. TypeOK'
    BY <1>2, <2>4, Typing DEF IInv, serverVars, TypeOK, RequestState
  <2>6. install = None /\ None \notin Requests
    BY <1>2, LicenseAssumption DEF InstallConflicts
  <2>7. seats = {}
    BY <2>6, Typing DEF IInv, OneInstall, Token
  <2>8. OneInstall'
    BY <1>2, <2>7 DEF OneInstall, serverVars
  <2>9. \A q \in Requests : Informed(q)'
    <3> SUFFICES ASSUME NEW q \in Requests PROVE Informed(q)'
      OBVIOUS
    <3>1. CASE q = r
      BY <1>2, <2>2, <2>3, <2>4, <3>1 DEF Informed
    <3>2. CASE q # r
      <4>1. req'[q] = req[q]
        BY <2>1, <3>2, Typing DEF IInv
      <4>2. req[q].pc # "post"
        BY <2>6 DEF IInv, Informed
      <4> QED
        BY <4>1, <4>2 DEF IInv, Informed
    <3> QED
      BY <3>1, <3>2
  <2> QED
    BY <2>5, <2>8, <2>9 DEF IInv
<1> QED
  BY <1>1, <1>2 DEF SaveInstall

-----------------------------------------------------------------------------
(* The license server: a counted seat is the one it holds for this serial  *)
(* and id already, or a new one while it holds none.                       *)

LEMMA IssuedType ==
    ASSUME IInv, NEW r \in Requests, req[r].pc = "post"
    PROVE  /\ Issued(r) \in Token
           /\ Issued(r).serial = req[r].serial /\ Issued(r).hw = install
           /\ Held(r) # {} => Issued(r) \in seats
<1>1. req[r].serial \in Serials /\ req[r].hw \in Requests /\ req[r].hw = install
  BY DEF IInv, Informed
<1>2. minted \in Nat /\ seats \subseteq Token
  BY Typing DEF IInv
<1>3. CASE Held(r) = {}
  BY <1>1, <1>2, <1>3 DEF Issued, Token
<1>4. CASE Held(r) # {}
  <2>1. Issued(r) \in Held(r)
    BY <1>4 DEF Issued
  <2> QED
    BY <1>1, <1>2, <2>1 DEF Held
<1> QED
  BY <1>3, <1>4

LEMMA CountedSeats ==
    ASSUME IInv, NEW r \in Requests, req[r].pc = "post", Counted(r),
           UNCHANGED install
    PROVE  seats' \subseteq Token /\ minted' \in Nat /\ OneInstall'
<1>1. seats' \subseteq Token /\ minted' \in Nat
  BY IssuedType, Typing DEF Counted, IInv
<1>2. \A t \in seats' : t.hw = install'
  BY IssuedType DEF Counted, IInv, OneInstall
<1>3. ASSUME NEW t \in seats, t.serial = Issued(r).serial PROVE t = Issued(r)
  <2>1. t.serial = req[r].serial /\ t.hw = req[r].hw
    BY <1>3, IssuedType DEF IInv, OneInstall, Informed
  <2>2. t \in Held(r)
    BY <2>1 DEF Held
  <2>3. Issued(r) \in seats
    BY <2>2, IssuedType
  <2> QED
    BY <1>3, <2>3 DEF IInv, OneInstall
<1>4. \A t, u \in seats' : t.serial = u.serial => t = u
  BY <1>3 DEF Counted, IInv, OneInstall
<1> QED
  BY <1>1, <1>2, <1>4 DEF OneInstall

\* A step that changes only the seats and the request that is at it.
LEMMA SeatStep ==
    ASSUME IInv, NEW r \in Requests, NEW s,
           req' = [req EXCEPT ![r] = s], s \in RequestState,
           s.pc # "idle" => s.serial \in Serials, s.pc # "post",
           seats' \subseteq Token, minted' \in Nat, OneInstall',
           faults' \in Nat, UNCHANGED <<dbVars, begun>>
    PROVE  IInv'
<1>1. req' \in [Requests -> RequestState] /\ req'[r] = s
  BY Typing DEF IInv
<1>2. TypeOK'
  BY <1>1, Typing DEF IInv, dbVars, TypeOK, RequestState
<1>3. \A q \in Requests : Informed(q)'
  <2> SUFFICES ASSUME NEW q \in Requests PROVE Informed(q)'
    OBVIOUS
  <2>1. CASE q = r
    BY <1>1, <2>1 DEF Informed
  <2>2. CASE q # r
    BY <2>2, Typing DEF Informed, IInv, dbVars
  <2> QED
    BY <2>1, <2>2
<1> QED
  BY <1>2, <1>3 DEF IInv

LEMMA PostInv == ASSUME IInv, NEW r \in Requests, Post(r) PROVE IInv'
<1> DEFINE reused == Held(r) # {}
           s == [req[r] EXCEPT !.act = Issued(r), !.reused = reused, !.pc = "tier"]
<1>1. req' = [req EXCEPT ![r] = s]
  BY DEF Post
<1>2. reused \in BOOLEAN /\ Issued(r) \in Token
  BY IssuedType DEF Post
<1>3. s \in RequestState /\ s.pc = "tier" /\ s.serial = req[r].serial
  <2> HIDE DEF reused
  <2> QED
    BY ZenonT(30), <1>2, Typing DEF IInv, RequestState, Steps
<1>4. req[r].serial \in Serials
  BY DEF IInv, Informed, Post
<1>5. seats' \subseteq Token /\ minted' \in Nat /\ OneInstall'
  BY CountedSeats DEF Post, dbVars
<1>6. faults' \in Nat
  BY Typing DEF Post, IInv
<1> HIDE DEF s
<1> QED
  BY <1>1, <1>3, <1>4, <1>5, <1>6, SeatStep DEF Post

LEMMA PostRejectedInv ==
    ASSUME IInv, NEW r \in Requests, PostRejected(r) PROVE IInv'
  BY ReturnStep, Typing DEF PostRejected, IInv, dbVars, serverVars

LEMMA PostLostInv == ASSUME IInv, NEW r \in Requests, PostLost(r) PROVE IInv'
<1>1. seats' \subseteq Token /\ minted' \in Nat /\ OneInstall'
  BY CountedSeats DEF PostLost, dbVars
<1>2. faults' \in Nat
  BY FaultType DEF PostLost
<1> QED
  BY <1>1, <1>2, SeatStep, IdleState DEF PostLost, Return

-----------------------------------------------------------------------------
(* The license row.                                                        *)

LEMMA CheckTierInv == ASSUME IInv, NEW r \in Requests, CheckTier(r) PROVE IInv'
<1> DEFINE next == IF Acceptable(r) THEN "read" ELSE Rejection(r)
           cur == IF req[r].kind = "activate" THEN lic ELSE NoToken
           s == [req[r] EXCEPT !.pc = next, !.cur = cur]
<1>1. next \in Steps /\ next # "post"
  BY DEF Rejection, Steps
<1>2. CASE next = "idle"
  BY <1>2, ReturnStep, Typing DEF CheckTier, IInv, dbVars, serverVars
<1>3. CASE next # "idle"
  <2>1. req' = [req EXCEPT ![r] = s]
    BY <1>3 DEF CheckTier
  <2>2. cur \in Token \cup {NoToken}
    BY Typing DEF IInv
  <2>3. s \in RequestState /\ s.pc = next /\ s.serial = req[r].serial
    <3> HIDE DEF next, cur
    <3> QED
      BY <1>1, <2>2, Typing DEF IInv, RequestState
  <2>4. req[r].serial \in Serials
    BY DEF IInv, Informed, CheckTier
  <2> HIDE DEF s, next
  <2> QED
    BY <1>1, <2>1, <2>3, <2>4, LocalStep, Typing
    DEF CheckTier, IInv, dbVars, serverVars
<1> QED
  BY <1>2, <1>3

LEMMA ReadLicenseInv == ASSUME IInv, NEW r \in Requests, ReadLicense(r) PROVE IInv'
<1> DEFINE gone == req[r].cur # NoToken /\ lic = NoToken
           prev == IF req[r].cur # NoToken THEN req[r].cur ELSE lic
           pc == IF req[r].kind = "first" THEN "readSetup" ELSE "save"
           s == [req[r] EXCEPT !.prev = prev, !.pc = pc]
<1>1. CASE gone
  BY <1>1, ReturnStep, Typing DEF ReadLicense, IInv, dbVars, serverVars
<1>2. CASE ~gone
  <2>1. req' = [req EXCEPT ![r] = s]
    BY <1>2 DEF ReadLicense
  <2>2. prev \in Token \cup {NoToken} /\ pc \in Steps /\ pc # "post"
    BY Typing DEF IInv, RequestState, Steps
  <2>3. s \in RequestState /\ s.pc = pc /\ s.serial = req[r].serial
    <3> HIDE DEF prev, pc
    <3> QED
      BY <2>2, Typing DEF IInv, RequestState
  <2>4. req[r].serial \in Serials
    BY DEF IInv, Informed, ReadLicense
  <2> HIDE DEF s, pc, prev
  <2> QED
    BY <2>1, <2>2, <2>3, <2>4, LocalStep, Typing
    DEF ReadLicense, IInv, dbVars, serverVars
<1> QED
  BY <1>1, <1>2

LEMMA SaveLicenseInv == ASSUME IInv, NEW r \in Requests, SaveLicense(r) PROVE IInv'
<1>1. CASE Refused(r, SaveConflicts(r))
  BY <1>1, RefusedStep
<1>2. CASE /\ ~SaveConflicts(r)
           /\ lic' = req[r].act /\ setup' = SetupAfterSave(r)
           /\ IF PreviousSeat(r) = NoToken THEN Return(r) ELSE Goto(r, "release")
           /\ UNCHANGED <<install, serverVars, begun, faults>>
  <2>1. lic' \in Token \cup {NoToken} /\ setup' \in BOOLEAN
    BY <1>2, Typing DEF IInv, SetupAfterSave, RequestState
  <2>2. begun' \in Nat /\ faults' \in Nat
    BY <1>2, Typing DEF IInv
  <2>3. req[r].pc = "save" /\ "release" \in Steps
    BY DEF SaveLicense, Steps
  <2> QED
    BY <1>2, <2>1, <2>2, <2>3, ReturnStep, GotoStep
<1> QED
  BY <1>1, <1>2 DEF SaveLicense

LEMMA ReleaseActivationInv ==
    ASSUME IInv, NEW r \in Requests, ReleaseActivation(r) PROVE IInv'
<1>1. seats' \subseteq seats /\ minted' = minted /\ UNCHANGED <<dbVars, begun>>
  BY DEF ReleaseActivation
<1>2. faults' \in Nat
  BY FaultType, Typing DEF ReleaseActivation, IInv
<1>3. seats' \subseteq Token /\ minted' \in Nat /\ OneInstall'
  BY <1>1, Typing DEF IInv, OneInstall, dbVars
<1>4. CASE req[r].kind = "deactivate"
  <2> DEFINE s == [req[r] EXCEPT !.pc = "remove"]
  <2>1. req' = [req EXCEPT ![r] = s]
    BY <1>4 DEF ReleaseActivation, AfterRelease, Goto
  <2>2. s \in RequestState /\ s.pc = "remove" /\ s.serial = req[r].serial
    BY Typing DEF IInv, RequestState, Steps
  <2>3. req[r].serial \in Serials
    BY DEF IInv, Informed, ReleaseActivation
  <2> HIDE DEF s
  <2> QED
    BY <1>1, <1>2, <1>3, <2>1, <2>2, <2>3, SeatStep
<1>5. CASE req[r].kind # "deactivate"
  <2>1. Return(r)
    BY <1>5 DEF ReleaseActivation, AfterRelease
  <2> QED
    BY <1>1, <1>2, <1>3, <2>1, SeatStep, IdleState DEF Return
<1> QED
  BY <1>4, <1>5

LEMMA DeactivateReadInv ==
    ASSUME IInv, NEW r \in Requests, DeactivateRead(r) PROVE IInv'
<1> DEFINE s == [req[r] EXCEPT !.pc = "release", !.prev = lic]
<1>1. CASE lic = NoToken
  BY <1>1, ReturnStep, Typing DEF DeactivateRead, IInv, dbVars, serverVars
<1>2. CASE lic # NoToken
  <2>1. req' = [req EXCEPT ![r] = s]
    BY <1>2 DEF DeactivateRead
  <2>2. s \in RequestState /\ s.pc = "release" /\ s.serial = req[r].serial
    BY ZenonT(30), Typing DEF IInv, RequestState, Steps
  <2>3. req[r].serial \in Serials
    BY DEF IInv, Informed, DeactivateRead
  <2> HIDE DEF s
  <2> QED
    BY <2>1, <2>2, <2>3, LocalStep, Typing
    DEF DeactivateRead, IInv, dbVars, serverVars
<1> QED
  BY <1>1, <1>2

LEMMA RemoveInv == ASSUME IInv, NEW r \in Requests, Remove(r) PROVE IInv'
<1>1. CASE Refused(r, lic = NoToken)
  BY <1>1, RefusedStep
<1>2. CASE lic' = NoToken /\ Return(r) /\ UNCHANGED <<install, setup, serverVars, begun, faults>>
  BY <1>2, ReturnStep, Typing DEF IInv
<1> QED
  BY <1>1, <1>2 DEF Remove

LEMMA CrashInv == ASSUME IInv, Crash PROVE IInv'
<1>1. req' \in [Requests -> RequestState] /\ \A r \in Requests : req'[r].pc = "idle"
  BY IdleState DEF Crash
<1>2. faults' \in Nat
  BY FaultType DEF Crash
<1>3. TypeOK'
  BY <1>1, <1>2, Typing DEF IInv, Crash, dbVars, serverVars, TypeOK, RequestState
<1>4. OneInstall'
  BY DEF IInv, OneInstall, Crash, dbVars, serverVars
<1>5. \A r \in Requests : Informed(r)'
  BY <1>1 DEF Informed
<1> QED
  BY <1>3, <1>4, <1>5 DEF IInv

-----------------------------------------------------------------------------
LEMMA NextInv == ASSUME IInv, [Next]_vars PROVE IInv'
<1>1. CASE UNCHANGED vars
  BY <1>1, Typing DEF IInv, vars, dbVars, serverVars, TypeOK, OneInstall, Informed,
     RequestState
<1>2. CASE Crash
  BY <1>2, CrashInv
<1>3. ASSUME NEW r \in Requests, Step(r) PROVE IInv'
  BY <1>3, BeginInv, GateInv, ReadSetupInv, SaveSkipInv, ReadInstallInv,
     SaveInstallInv, PostInv, PostRejectedInv, PostLostInv, CheckTierInv,
     ReadLicenseInv, SaveLicenseInv, ReleaseActivationInv, DeactivateReadInv,
     RemoveInv DEF Step
<1> QED
  BY <1>1, <1>2, <1>3 DEF Next

\* Every activation, refused write, lost answer and crash keeps the rows, the
\* seats and the requests within their types.
THEOREM LicenseTypeCorrect == Spec => []TypeOK
<1>1. IInv => TypeOK
  BY DEF IInv
<1> QED
  BY <1>1, InitInv, NextInv, PTL DEF Spec

\* However many first requests race to create the install id, the server holds
\* seats of this server under the stored id only, and one per serial.
THEOREM SeatsOfOneInstall == Spec => []OneInstall
<1>1. IInv => OneInstall
  BY DEF IInv
<1> QED
  BY <1>1, InitInv, NextInv, PTL DEF Spec

-----------------------------------------------------------------------------
(* The stored license: what a request carries from the license server, and *)
(* so what it stores, was issued to the install id, which does not change  *)
(* once it is stored.                                                      *)

Carries(r) == req[r].act # NoToken => req[r].act.hw = install

CInv == IInv /\ StoredUnderInstall /\ \A r \in Requests : Carries(r)

LEMMA InitCarries == Init => CInv
  BY InitInv DEF Init, CInv, StoredUnderInstall, Carries, Idle

\* An activation in the database or in hand means that the id is stored.
LEMMA InstallStays ==
    ASSUME CInv, NEW r \in Requests, Step(r)
    PROVE  \/ UNCHANGED install
           \/ /\ lic = NoToken /\ lic' = NoToken
              /\ \A q \in Requests : req[q].act = NoToken
<1>1. CASE SaveInstall(r)
  <2>1. CASE Refused(r, InstallConflicts)
    BY <2>1 DEF Refused, dbVars
  <2>2. CASE ~InstallConflicts /\ UNCHANGED lic
    <3>1. install = None /\ None \notin Requests
      BY <2>2, LicenseAssumption DEF InstallConflicts
    <3>2. lic \in Token \cup {NoToken} /\ \A q \in Requests : req[q].act \in Token \cup {NoToken}
      BY Typing DEF CInv, IInv, RequestState
    <3>3. \A t \in Token : t.hw # install
      BY <3>1 DEF Token
    <3> QED
      BY <2>2, <3>2, <3>3 DEF CInv, StoredUnderInstall, Carries
  <2> QED
    BY <1>1, <2>1, <2>2 DEF SaveInstall
<1>2. CASE ~SaveInstall(r)
  BY <1>2 DEF Step, Begin, Gate, ReadSetup, SaveSkip, ReadInstall, Post, PostRejected,
     PostLost, CheckTier, ReadLicense, SaveLicense, ReleaseActivation, DeactivateRead,
     Remove, Refused, dbVars
<1> QED
  BY <1>1, <1>2

\* A request keeps the activation it has, or has none, or is given one.
LEMMA Activation ==
    ASSUME CInv, NEW r \in Requests, Step(r)
    PROVE  /\ \A q \in Requests : q # r => req'[q] = req[q]
           /\ req'[r].act \in {req[r].act, NoToken} \/ req'[r].act.hw = install
<1>1. req \in [Requests -> RequestState]
  BY Typing DEF CInv, IInv
<1>2. CASE Begin(r)
  BY <1>1, <1>2 DEF Begin, Idle
<1>3. CASE Post(r)
  BY <1>1, <1>3, IssuedType DEF Post, CInv, RequestState
<1>4. CASE ~Begin(r) /\ ~Post(r)
  BY <1>1, <1>4 DEF Step, Gate, ReadSetup, SaveSkip, ReadInstall, SaveInstall,
     PostRejected, PostLost, CheckTier, ReadLicense, SaveLicense, ReleaseActivation,
     AfterRelease, DeactivateRead, Remove, Refused, Goto, Return, Idle, RequestState
<1> QED
  BY <1>2, <1>3, <1>4

LEMMA StoresItsOwn ==
    ASSUME CInv, NEW r \in Requests, Step(r)
    PROVE  lic' \in {lic, NoToken, req[r].act}
  BY DEF Step, Begin, Gate, ReadSetup, SaveSkip, ReadInstall, SaveInstall, Post,
     PostRejected, PostLost, CheckTier, ReadLicense, SaveLicense, ReleaseActivation,
     DeactivateRead, Remove, Refused, dbVars

LEMMA NextCarries == ASSUME CInv, [Next]_vars PROVE CInv'
<1>1. IInv'
  BY NextInv DEF CInv
<1>2. CASE UNCHANGED vars
  BY <1>1, <1>2 DEF CInv, StoredUnderInstall, Carries, vars, dbVars
<1>3. CASE Crash
  <2>1. \A r \in Requests : req'[r].act = NoToken
    BY <1>3 DEF Crash, Idle
  <2> QED
    BY <1>1, <1>3, <2>1 DEF CInv, StoredUnderInstall, Carries, Crash, dbVars
<1>4. ASSUME NEW r \in Requests, Step(r) PROVE CInv'
  <2>1. CASE UNCHANGED install
    BY <1>1, <1>4, <2>1, Activation, StoresItsOwn DEF CInv, StoredUnderInstall, Carries
  <2>2. CASE /\ lic' = NoToken /\ \A q \in Requests : req[q].act = NoToken
             /\ ~UNCHANGED install
    <3>1. SaveInstall(r)
      BY <1>4, <2>2 DEF Step, Begin, Gate, ReadSetup, SaveSkip, ReadInstall, Post,
         PostRejected, PostLost, CheckTier, ReadLicense, SaveLicense,
         ReleaseActivation, DeactivateRead, Remove, Refused, dbVars
    <3>2. req'[r].act \in {req[r].act, NoToken}
      BY <3>1, Typing DEF SaveInstall, Refused, Return, Idle, CInv, IInv, RequestState
    <3> QED
      BY <1>1, <1>4, <2>2, <3>2, Activation DEF CInv, StoredUnderInstall, Carries
  <2> QED
    BY <1>4, <2>1, <2>2, InstallStays
<1> QED
  BY <1>2, <1>3, <1>4 DEF Next

\* However requests, faults and crashes interleave, the license that is stored is
\* one that was issued to the stored install id (Activate, ActivateFirstLaunch).
THEOREM LicenseOfThisInstall == Spec => []StoredUnderInstall
<1>1. CInv => StoredUnderInstall
  BY DEF CInv
<1> QED
  BY <1>1, InitCarries, NextCarries, PTL DEF Spec
=============================================================================
