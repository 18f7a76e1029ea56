------------------------------- MODULE License -------------------------------
(***************************************************************************)
(* Licensing by CellarController: Activate, ActivateFirstLaunch and        *)
(* Deactivate, as concurrent requests against the Settings table and the   *)
(* license server, which counts a seat per activation.                     *)
(*                                                                         *)
(* A step is the code between two awaits.  EF Core tracks what a request   *)
(* read: a second query for the same row keeps the values of the first, an *)
(* UPDATE or DELETE of a row that is gone fails, and so does an INSERT of  *)
(* a row that has appeared.  A failing call ends the request with an error *)
(* and leaves the license server as it is.                                 *)
(***************************************************************************)
EXTENDS Naturals, FiniteSets

CONSTANTS
    Serials,       \* the serial numbers the customer may type
    TierOf,        \* the tier the license server reports for a serial
    Requests,      \* the requests that may be in progress at one time
    Kinds,         \* which endpoints are called
    FaultKinds,    \* what may go wrong: "net", "db", "crash"
    MaxRequests,   \* bound: how many requests are made
    MaxFaults      \* bound: how many faults may happen

None == "none"
Tiers == {"standard", "pro", "ultra"}
AllKinds == {"activate", "first", "skip", "deactivate"}

ASSUME LicenseAssumption ==
    /\ TierOf \in [Serials -> Tiers] /\ Kinds \subseteq AllKinds
    /\ None \notin Serials \cup Requests
    /\ MaxRequests \in Nat /\ MaxFaults \in Nat

VARIABLES
    install,   \* the install_id row: None or the request that generated it
    lic,       \* the cellar_license row: NoToken or the activation it stores
    setup,     \* the setup_completed row is "true"
    seats,     \* the activations the license server counts for this server
    minted,    \* how many activations the license server has issued
    req,       \* the local state of each request
    begun,     \* how many requests have begun
    faults     \* how many faults have happened

dbVars == <<install, lic, setup>>
serverVars == <<seats, minted>>
vars == <<dbVars, serverVars, req, begun, faults>>

\* An activation: its serial, the hardware id it was made under, its number.
Token == [serial : Serials, hw : Requests, n : Nat]
NoToken == [serial |-> None, hw |-> None, n |-> 0]

Rank(tier) == CASE tier = "ultra" -> 2 [] tier = "pro" -> 1 [] OTHER -> 0
TierRank(l) == IF l = NoToken THEN 0 ELSE Rank(TierOf[l.serial])

Idle == [pc |-> "idle", kind |-> "skip", serial |-> None, hw |-> None,
         act |-> NoToken, reused |-> FALSE, cur |-> NoToken, prev |-> NoToken,
         sawSetup |-> FALSE]

Steps == {"idle", "gate", "skip", "skipSave", "install", "installSave", "post",
          "tier", "handback", "read", "readSetup", "save", "release", "dread",
          "remove"}

Init ==
    /\ install = None /\ lic = NoToken /\ setup = FALSE
    /\ seats = {} /\ minted = 0
    /\ req = [r \in Requests |-> Idle]
    /\ begun = 0 /\ faults = 0

Goto(r, pc) == req' = [req EXCEPT ![r].pc = pc]
Return(r) == req' = [req EXCEPT ![r] = Idle]
Fault(kind) ==
    /\ kind \in FaultKinds /\ faults < MaxFaults /\ faults' = faults + 1

\* SaveChanges writes nothing: the database refuses it or it conflicts with
\* what the request had read.  The request answers 500.
Refused(r, conflict) ==
    /\ IF conflict THEN UNCHANGED faults ELSE Fault("db")
    /\ Return(r) /\ UNCHANGED <<dbVars, serverVars, begun>>

Begin(r) ==
    /\ req[r].pc = "idle" /\ begun < MaxRequests
    /\ \E kind \in Kinds, s \in Serials :
          req' = [req EXCEPT ![r] =
                    [Idle EXCEPT !.kind = kind, !.serial = s,
                       !.pc = CASE kind = "activate" -> "install"
                                [] kind = "deactivate" -> "dread"
                                [] OTHER -> "gate"]]
    /\ begun' = begun + 1
    /\ UNCHANGED <<dbVars, serverVars, faults>>

-----------------------------------------------------------------------------
(* ActivateFirstLaunch: closed once setup is complete; the skip path.      *)

Gate(r) ==
    /\ req[r].pc = "gate"
    /\ IF setup THEN Return(r)
       ELSE Goto(r, IF req[r].kind = "skip" THEN "skip" ELSE "install")
    /\ UNCHANGED <<dbVars, serverVars, begun, faults>>

ReadSetup(r) ==
    /\ req[r].pc \in {"skip", "readSetup"}
    /\ req' = [req EXCEPT ![r].sawSetup = setup,
                 ![r].pc = IF @ = "skip" THEN "skipSave" ELSE "save"]
    /\ UNCHANGED <<dbVars, serverVars, begun, faults>>

SetupConflicts(r) == ~req[r].sawSetup /\ setup

SaveSkip(r) ==
    /\ req[r].pc = "skipSave"
    /\ \/ /\ ~SetupConflicts(r)
          /\ setup' = TRUE /\ Return(r)
          /\ UNCHANGED <<install, lic, serverVars, begun, faults>>
       \/ Refused(r, SetupConflicts(r))

-----------------------------------------------------------------------------
(* GetOrCreateInstallId: the row is read, and inserted if it was missing.  *)

AfterInstall == IF install = None THEN "installSave" ELSE "post"

ReadInstall(r) ==
    /\ req[r].pc = "install"
    /\ req' = [req EXCEPT ![r].pc = AfterInstall, ![r].hw = install]
    /\ UNCHANGED <<dbVars, serverVars, begun, faults>>

InstallConflicts_Upsert == FALSE

\* The primary key of Settings: another request has inserted the row.
InstallConflicts == install # None

SaveInstall(r) ==
    /\ req[r].pc = "installSave"
    /\ \/ /\ ~InstallConflicts
          /\ install' = r
          /\ req' = [req EXCEPT ![r].pc = "post", ![r].hw = r]
          /\ UNCHANGED <<lic, setup, serverVars, begun, faults>>
       \/ Refused(r, InstallConflicts)

-----------------------------------------------------------------------------
(* ActivateWithLicenseServer: the server counts a seat, or reuses the one  *)
(* it counts for this serial and hardware id.                              *)

Held(r) == {t \in seats : t.serial = req[r].serial /\ t.hw = req[r].hw}
Issued(r) == IF Held(r) # {} THEN CHOOSE t \in Held(r) : TRUE
             ELSE [serial |-> req[r].serial, hw |-> req[r].hw, n |-> minted + 1]

Counted(r) ==
    /\ seats' = seats \cup {Issued(r)}
    /\ minted' = IF Held(r) = {} THEN minted + 1 ELSE minted

Post(r) ==
    /\ req[r].pc = "post"
    /\ Counted(r)
    /\ req' = [req EXCEPT ![r].act = Issued(r), ![r].reused = Held(r) # {},
                          ![r].pc = "tier"]
    /\ UNCHANGED <<dbVars, begun, faults>>

\* The server rejects the serial, or cannot be reached.
PostRejected(r) ==
    /\ req[r].pc = "post"
    /\ Return(r)
    /\ UNCHANGED <<dbVars, serverVars, begun, faults>>

\* The seat is counted and the answer is lost, or comes after the timeout.
PostLost(r) ==
    /\ req[r].pc = "post" /\ Fault("net")
    /\ Counted(r) /\ Return(r)
    /\ UNCHANGED <<dbVars, begun>>

-----------------------------------------------------------------------------
(* The tier check, and the license row.                                    *)

IsValidUpgrade(current, target) == target > current

\* First launch takes any paid tier; Activate only one above the current one.
Acceptable(r) ==
    LET target == TierRank(req[r].act)
    IN  IF req[r].kind = "first" THEN target > 0
        ELSE IsValidUpgrade(TierRank(lic), target)

\* A rejected activation is handed back, unless the server reused it.
Rejection(r) == IF req[r].reused THEN "idle" ELSE "handback"

CheckTier(r) ==
    /\ req[r].pc = "tier"
    /\ LET next == IF Acceptable(r) THEN "read" ELSE Rejection(r)
       IN  IF next = "idle" THEN Return(r)
           ELSE req' = [req EXCEPT ![r].pc = next,
                          ![r].cur = IF req[r].kind = "activate" THEN lic ELSE NoToken]
    /\ UNCHANGED <<dbVars, serverVars, begun, faults>>

\* The row the tier check had read is tracked: its values stay, and adding a
\* second entity for it when it is gone throws.
ReadLicense(r) ==
    /\ req[r].pc = "read"
    /\ IF req[r].cur # NoToken /\ lic = NoToken THEN Return(r)
       ELSE req' = [req EXCEPT
                      ![r].prev = IF req[r].cur # NoToken THEN req[r].cur ELSE lic,
                      ![r].pc = IF req[r].kind = "first" THEN "readSetup" ELSE "save"]
    /\ UNCHANGED <<dbVars, serverVars, begun, faults>>

\* An UPDATE needs the row to be there still, an INSERT that it is not.
SaveConflicts(r) ==
    \/ (req[r].prev = NoToken) # (lic = NoToken)
    \/ req[r].kind = "first" /\ SetupConflicts(r)

\* The token to release once the new one is stored.  First launch keeps it.
PreviousSeat(r) ==
    IF req[r].kind = "first" \/ req[r].prev = req[r].act THEN NoToken ELSE req[r].prev

SetupAfterSave(r) == setup \/ req[r].kind = "first"

SaveLicense(r) ==
    /\ req[r].pc = "save"
    /\ \/ /\ ~SaveConflicts(r)
          /\ lic' = req[r].act /\ setup' = SetupAfterSave(r)
          /\ IF PreviousSeat(r) = NoToken THEN Return(r) ELSE Goto(r, "release")
          /\ UNCHANGED <<install, serverVars, begun, faults>>
       \/ Refused(r, SaveConflicts(r))

-----------------------------------------------------------------------------
(* ReleaseActivation, best effort; and Deactivate.                         *)

\* The token that is released at each of its three calls.
Released(r) == IF req[r].pc = "handback" THEN req[r].act ELSE req[r].prev

AfterRelease(r) ==
    IF req[r].kind = "deactivate" THEN Goto(r, "remove") ELSE Return(r)

ReleaseActivation(r) ==
    /\ req[r].pc \in {"handback", "release"}
    /\ \/ seats' = seats \ {Released(r)} /\ UNCHANGED faults
       \/ UNCHANGED seats /\ Fault("net")
    /\ AfterRelease(r)
    /\ UNCHANGED <<dbVars, minted, begun>>

DeactivateRead(r) ==
    /\ req[r].pc = "dread"
    /\ IF lic = NoToken THEN Return(r)
       ELSE req' = [req EXCEPT ![r].pc = "release", ![r].prev = lic]
    /\ UNCHANGED <<dbVars, serverVars, begun, faults>>

\* The row is deleted by its key, whatever it holds by now.
Remove(r) ==
    /\ req[r].pc = "remove"
    /\ \/ /\ lic # NoToken
          /\ lic' = NoToken /\ Return(r)
          /\ UNCHANGED <<install, setup, serverVars, begun, faults>>
       \/ Refused(r, lic = NoToken)

-----------------------------------------------------------------------------
\* The server process dies with the requests it was handling.
Crash ==
    /\ \E r \in Requests : req[r].pc # "idle"
    /\ Fault("crash")
    /\ req' = [r \in Requests |-> Idle]
    /\ UNCHANGED <<dbVars, serverVars, begun>>

Step(r) ==
    \/ Begin(r) \/ Gate(r) \/ ReadSetup(r) \/ SaveSkip(r)
    \/ ReadInstall(r) \/ SaveInstall(r)
    \/ Post(r) \/ PostRejected(r) \/ PostLost(r)
    \/ CheckTier(r) \/ ReadLicense(r) \/ SaveLicense(r)
    \/ ReleaseActivation(r) \/ DeactivateRead(r) \/ Remove(r)

Next == Crash \/ \E r \in Requests : Step(r)

Spec == Init /\ [][Next]_vars

-----------------------------------------------------------------------------
(* Properties.                                                             *)

\* The types of the rows, of the server's seats and of the requests.
TypeOK ==
    /\ install \in Requests \cup {None} /\ lic \in Token \cup {NoToken}
    /\ setup \in BOOLEAN /\ seats \subseteq Token
    /\ minted \in Nat /\ begun \in Nat /\ faults \in Nat
    /\ req \in [Requests ->
                 [pc : Steps, kind : AllKinds, serial : Serials \cup {None},
                  hw : Requests \cup {None}, act : Token \cup {NoToken},
                  reused : BOOLEAN, cur : Token \cup {NoToken},
                  prev : Token \cup {NoToken}, sawSetup : BOOLEAN]]

\* The install id is stable: however many first requests race to create it,
\* all seats are counted under the one that is stored, one per serial
\* (GetOrCreateInstallId).
OneInstall ==
    /\ \A t \in seats : t.hw = install
    /\ \A t, u \in seats : t.serial = u.serial => t = u

\* The stored license was issued to the install id that is stored, so that its
\* serial finds its seat again after an update or a lost answer, however many
\* first requests raced to create the id (GetOrCreateInstallId, Activate).
StoredUnderInstall == lic # NoToken => lic.hw = install

Deactivating(r) == req[r].kind = "deactivate" /\ req[r].pc = "release"

\* The license that is stored has a seat, and keeps it until it is replaced or
\* deactivated: "a reused one is this install's live activation and must be left
\* alone" (Activate).  Two activations of one serial at once break it.
StoredSeatHeld ==
    [][lic' # NoToken /\ (lic' # lic \/ lic \in seats) =>
         lic' \in seats' \/ \E r \in Requests : Deactivating(r)]_vars
=============================================================================
