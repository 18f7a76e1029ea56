---------------------------- MODULE PatchPipeline ----------------------------
(***************************************************************************)
(* The hot-patch pipeline of the core server: PatchService.ApplyAsync, its *)
(* two callers (the auto-update loop of UpdateBackgroundService and the    *)
(* apply-patch request of UpdateController), RecordAsync, the restart      *)
(* request and the boot hook ApplyPendingUpdates.                          *)
(*                                                                         *)
(* A step is the code between two awaits or two file-system calls.  Data   *)
(* is abstracted to where bytes came from: the content of a file is Orig   *)
(* (shipped with the build), Absent, a patch, or Garbage (bytes that do    *)
(* not match the manifest's sha256).  A file that a writer has truncated   *)
(* and not finished is torn.                                               *)
(***************************************************************************)
EXTENDS Naturals, Sequences, FiniteSets

CONSTANTS
    Patches,            \* the patch ids the repository may publish
    Files,              \* the paths patches may name
    Target,             \* the target of a path: "web", "app" or "data"
    BinaryExt,          \* the paths that end in .dll, .exe, .so or .dylib
    Manifest,           \* the ordered file list of a patch
    Silent,             \* the patches whose manifest has silent = true
    Signed,             \* the patches whose raw manifest verifies
    Defective,          \* patches listing an entry without a sha256, with an
                        \* unknown target or a path escaping its root
    SigningConfigured,  \* PATCH_SIGNING_PUBLIC_KEY is set
    Shipped,            \* the paths the installation comes with
    Loop,               \* the auto-update loop
    Manual,             \* the concurrent apply-patch requests
    Republish,          \* the repository may replace a published manifest
    FaultKinds,         \* what may go wrong: "net", "disk", "db", "kill", "boot"
    MaxFaults           \* bound: how many faults may happen

None == "none"
Orig == "orig"
Absent == "absent"
Garbage == "garbage"

Appliers == {Loop} \cup Manual
Content == Patches \cup {Orig, Absent, Garbage}
Range(s) == {s[i] : i \in 1..Len(s)}
FilesOf(p) == Range(Manifest[p])

ASSUME PatchesAssumption ==
    /\ {Orig, Absent, Garbage, None} \cap Patches = {}
    /\ Manifest \in [Patches -> Seq(Files)]
    /\ Silent \subseteq Patches /\ Signed \subseteq Patches
    /\ Defective \subseteq Patches
ASSUME FilesAssumption ==
    /\ Target \in [Files -> {"web", "app", "data"}]
    /\ BinaryExt \subseteq Files /\ Shipped \subseteq Files
ASSUME AppliersAssumption == Loop \notin Manual /\ None \notin Appliers
ASSUME SwitchesAssumption ==
    /\ {SigningConfigured, Republish} \subseteq BOOLEAN
    /\ MaxFaults \in Nat

VARIABLES
    up,          \* the host is serving (FALSE: stopped, or in the boot hook)
    stopping,    \* the restart request has asked the host to stop
    published,   \* the manifest the patch repository serves
    autoOn,      \* auto_check and auto_install_patches
    live,        \* the content of each path where the server uses it
    tmp,         \* the content of <path>.patch-tmp
    staged,      \* the content of pending-update/<path>
    torn,        \* the places whose last write was not finished
    backup,      \* patch-backups/<patch id>/<path>
    preboot,     \* patch-backups/pre-boot/<path>
    skipped,     \* the staged paths the running boot hook failed to swap
    done,        \* the update_patch_done rows
    okRows,      \* the number of successful update_applied rows per patch
    restartRow,  \* the patch named by the update_restart_pending row
    ap,          \* the local state of each applier
    vouched,     \* history: patches of which every file was verified
    faults       \* how many faults have happened

repoVars == <<published, autoOn>>
diskVars == <<live, tmp, staged, torn, backup, preboot>>
dbVars == <<done, okRows, restartRow>>
procVars == <<up, stopping, skipped>>
vars == <<repoVars, diskVars, dbVars, procVars, ap, vouched, faults>>

Idle == [pc |-> "idle", m |-> None, sig |-> "null", i |-> 1, ok |-> FALSE,
         at |-> None, seen |-> None, payload |-> [f \in Files |-> Absent]]

\* Both PatchService.hasBinaryFiles and ResolveTargetRoot decide this way.
IsBinary(f) == Target[f] = "app" \/ (Target[f] = "data" /\ f \in BinaryExt)
HasBinaryFiles(p) == \E f \in FilesOf(p) : IsBinary(f)

FileSteps == {"backup", "open", "writing", "move"}
Places == {"live", "tmp", "staged"}
Cur(a) == Manifest[ap[a].m][ap[a].i]      \* the file an applier is at
Last(a) == ap[a].i = Len(Manifest[ap[a].m])
Bytes(a) == ap[a].payload[Cur(a)]

\* Somebody holds the file at this place open for writing: a second open, and
\* the read that File.Copy does, fail with a sharing violation.
Held(place, f) ==
    \E b \in Appliers : /\ ap[b].pc = "writing" /\ ap[b].at = place
                        /\ Cur(b) = f

Init ==
    /\ up = TRUE /\ stopping = FALSE /\ skipped = {}
    /\ published \in Patches \cup {None} /\ autoOn \in BOOLEAN
    /\ live = [f \in Files |-> IF f \in Shipped THEN Orig ELSE Absent]
    /\ tmp = [f \in Files |-> Absent] /\ staged = tmp /\ torn = {}
    /\ backup = [p \in Patches |-> [f \in Files |-> Absent]]
    /\ preboot = [f \in Files |-> Absent]
    /\ done = {} /\ okRows = [p \in Patches |-> 0] /\ restartRow = None
    /\ ap = [a \in Appliers |-> Idle]
    /\ vouched = {} /\ faults = 0

-----------------------------------------------------------------------------
(* The environment: the repository, the administrator's settings.          *)

Publish ==
    /\ Republish
    /\ published' \in Patches \cup {None}
    /\ UNCHANGED <<autoOn, diskVars, dbVars, procVars, ap, vouched, faults>>

SaveSettings ==
    /\ up /\ autoOn' \in BOOLEAN
    /\ UNCHANGED <<published, diskVars, dbVars, procVars, ap, vouched, faults>>

-----------------------------------------------------------------------------
(* Deciding to apply.                                                      *)

Goto(a, pc) == ap' = [ap EXCEPT ![a].pc = pc]
Return(a) == ap' = [ap EXCEPT ![a] = Idle]

\* An exception leaves ApplyAsync or RecordAsync: the loop logs it, the
\* request answers 500.  What is on disk stays, and nothing is recorded.
Throw(a) == Return(a) /\ UNCHANGED <<diskVars, dbVars, vouched>>

\* The loop wakes up with updates enabled; an admin posts apply-patch.
Begin(a) ==
    /\ up /\ ap[a].pc = "idle" /\ (a = Loop => autoOn)
    /\ Goto(a, "fetch")
    /\ UNCHANGED <<diskVars, dbVars, vouched>>

\* A request must name the patch the manifest names, so it only ever applies
\* what was published when it fetched.
FetchManifest(a) ==
    /\ ap[a].pc = "fetch"
    /\ IF published = None
         THEN Return(a)
         ELSE ap' = [ap EXCEPT ![a].m = published,
                               ![a].pc = IF a = Loop THEN "check" ELSE "sig"]
    /\ UNCHANGED <<diskVars, dbVars, vouched>>

\* Only the loop looks at update_patch_done and at the silent flag.
Due_OnceEver(p) == done = {} /\ p \in Silent
Due(p) == p \notin done /\ p \in Silent

CheckDone(a) ==
    /\ ap[a].pc = "check"
    /\ IF Due(ap[a].m) THEN Goto(a, "sig") ELSE Return(a)
    /\ UNCHANGED <<diskVars, dbVars, vouched>>

\* VerifyManifestSignature on a raw manifest (None: it could not be fetched).
SignatureValid_Unchecked(m) == TRUE
SignatureValid(m) == m \in Signed

\* With a signing key the RAW manifest is fetched a second time, and what is
\* verified is that second answer.
VerifySignature(a) ==
    /\ ap[a].pc = "sig"
    /\ \/ /\ ~SigningConfigured
          /\ Goto(a, "gate")
       \/ /\ SigningConfigured /\ SignatureValid(published)
          /\ ap' = [ap EXCEPT ![a].sig = "true", ![a].pc = "gate"]
       \/ /\ SigningConfigured /\ ~SignatureValid(published)
          /\ Return(a)
    /\ UNCHANGED <<diskVars, dbVars, vouched>>

-----------------------------------------------------------------------------
(* ApplyAsync.                                                             *)

Refused(a) == \/ Len(Manifest[ap[a].m]) = 0
              \/ HasBinaryFiles(ap[a].m) /\ ap[a].sig # "true"

Gate(a) ==
    /\ ap[a].pc = "gate"
    /\ Goto(a, IF Refused(a) THEN "record" ELSE "download")
    /\ UNCHANGED <<diskVars, dbVars, vouched>>

\* Where phase 2 starts on a file.
Phase2_NoBackup(f) == "open"
Phase2(f) == IF IsBinary(f) THEN "open" ELSE "backup"

\* VerifySha256: the bytes are the ones the manifest of p describes.
Verified_NoHashCheck(p, bytes) == TRUE
Verified(p, bytes) == bytes = p

\* Phase 2 waits for the last file of the list.
Phase1Over_FirstFile(a) == TRUE
Phase1Over(a) == Last(a)

\* Phase 1 downloads and verifies one file after the other.  A failure is
\* recorded as a failed application (it returns a result, it does not throw).
Download(a, bytes) ==
    LET p == ap[a].m IN
    /\ ap[a].pc = "download"
    /\ IF p \in Defective \/ ~Verified(p, bytes)
         THEN Goto(a, "record") /\ UNCHANGED vouched
         ELSE /\ ap' = [ap EXCEPT
                          ![a].payload[Cur(a)] = bytes,
                          ![a].i = IF Phase1Over(a) THEN 1 ELSE @ + 1,
                          ![a].pc = IF Phase1Over(a)
                                      THEN Phase2(Manifest[p][1])
                                      ELSE "download"]
              /\ vouched' = IF Last(a) THEN vouched \cup {p} ELSE vouched
    /\ UNCHANGED <<diskVars, dbVars>>

\* Phase 2, a live file: keep a copy of what is there.
BackupFile(a) ==
    LET f == Cur(a) IN
    /\ ap[a].pc = "backup"
    /\ IF Held("live", f)
         THEN Throw(a)
         ELSE /\ backup' = IF live[f] = Absent THEN backup
                           ELSE [backup EXCEPT ![ap[a].m][f] = live[f]]
              /\ Goto(a, "open")
              /\ UNCHANGED <<live, tmp, staged, torn, preboot, dbVars, vouched>>

\* WriteAllBytesAsync opens and truncates <path>.patch-tmp, or the staged
\* file of a binary, and starts writing.
OpenFile(a) ==
    LET f == Cur(a)
        place == IF IsBinary(f) THEN "staged" ELSE "tmp" IN
    /\ ap[a].pc = "open"
    /\ IF Held(place, f)
         THEN Throw(a)
         ELSE /\ IF place = "staged"
                   THEN staged' = [staged EXCEPT ![f] = Bytes(a)] /\ UNCHANGED tmp
                   ELSE tmp' = [tmp EXCEPT ![f] = Bytes(a)] /\ UNCHANGED staged
              /\ torn' = torn \cup {<<place, f>>}
              /\ ap' = [ap EXCEPT ![a].pc = "writing", ![a].at = place]
              /\ UNCHANGED <<live, backup, preboot, dbVars, vouched>>

Advance_Early(r, a) == [r EXCEPT !.pc = "record", !.ok = TRUE, !.at = None]
\* The next file of the list, or the end of ApplyAsync.
Advance(r, a) ==
    IF Last(a) THEN [r EXCEPT !.pc = "record", !.ok = TRUE, !.at = None]
    ELSE [r EXCEPT !.i = @ + 1, !.pc = Phase2(Manifest[r.m][r.i + 1]),
                   !.at = None]

\* The write completes on whatever name the open file has by now.
CloseFile(a) ==
    LET f == Cur(a) IN
    /\ ap[a].pc = "writing"
    /\ torn' = torn \ {<<ap[a].at, f>>}
    /\ ap' = [ap EXCEPT ![a] = IF IsBinary(f) THEN Advance(@, a)
                               ELSE [@ EXCEPT !.pc = "move", !.at = None]]
    /\ UNCHANGED <<live, tmp, staged, backup, preboot, dbVars, vouched>>

\* A rename takes the open file of another writer along with the name.
Renamed(b, f) ==
    IF ap[b].pc = "writing" /\ Cur(b) = f
      THEN CASE ap[b].at = "tmp" -> "live"
             [] ap[b].at = "live" -> "gone"
             [] OTHER -> ap[b].at
      ELSE ap[b].at

\* File.Move(tmp, dest, overwrite): atomic, and it fails if the temporary
\* file is no longer there.
MoveFile(a) ==
    LET f == Cur(a) IN
    /\ ap[a].pc = "move"
    /\ IF tmp[f] = Absent
         THEN Throw(a)
         ELSE /\ live' = [live EXCEPT ![f] = tmp[f]]
              /\ tmp' = [tmp EXCEPT ![f] = Absent]
              /\ torn' = {t \in torn : t \notin {"tmp", "live"} \X {f}}
                         \cup (IF <<"tmp", f>> \in torn
                                 THEN {<<"live", f>>} ELSE {})
              /\ ap' = [b \in Appliers |->
                          IF b = a THEN Advance(ap[a], a)
                          ELSE [ap[b] EXCEPT !.at = Renamed(b, f)]]
              /\ UNCHANGED <<staged, backup, preboot, dbVars, vouched>>

-----------------------------------------------------------------------------
(* RecordAsync: it reads the restart row, then saves everything at once.   *)

NeedsRestart(a) == ap[a].ok /\ HasBinaryFiles(ap[a].m)

RecordRead(a) ==
    /\ ap[a].pc = "record"
    /\ ap' = [ap EXCEPT ![a].pc = "save",
                        ![a].seen = IF NeedsRestart(a) THEN restartRow ELSE None]
    /\ UNCHANGED <<diskVars, dbVars, vouched>>

\* SaveChanges fails as a whole when the update_patch_done row is there
\* already, or when the restart row came or went since it was read.
SaveConflicts_Upsert(a) ==
    /\ ap[a].ok
    /\ NeedsRestart(a) /\ (ap[a].seen = None) # (restartRow = None)
SaveConflicts(a) ==
    /\ ap[a].ok
    /\ \/ ap[a].m \in done
       \/ NeedsRestart(a) /\ (ap[a].seen = None) # (restartRow = None)

RecordSave(a) ==
    LET p == ap[a].m IN
    /\ ap[a].pc = "save"
    /\ IF ap[a].ok /\ ~SaveConflicts(a)
         THEN /\ done' = done \cup {p}
              /\ okRows' = [okRows EXCEPT ![p] = @ + 1]
              /\ restartRow' = IF NeedsRestart(a) THEN p ELSE restartRow
         ELSE UNCHANGED dbVars
    /\ Return(a)
    /\ UNCHANGED <<diskVars, vouched>>

\* An HTTP call, a file operation or the database fails.
CallFails(a) ==
    /\ faults < MaxFaults
    /\ faults' = faults + 1
    /\ \/ /\ \/ "net" \in FaultKinds /\ ap[a].pc \in {"fetch", "sig"}
             \/ "disk" \in FaultKinds /\ ap[a].pc \in FileSteps
             \/ "db" \in FaultKinds /\ ap[a].pc \in {"check", "record", "save"}
          /\ Throw(a)
       \/ "net" \in FaultKinds /\ Download(a, Garbage)

\* What an applier does when nothing goes wrong.
Step(a) ==
    \/ FetchManifest(a) \/ CheckDone(a) \/ VerifySignature(a)
    \/ Gate(a) \/ Download(a, ap[a].m)
    \/ BackupFile(a) \/ OpenFile(a) \/ CloseFile(a) \/ MoveFile(a)
    \/ RecordRead(a) \/ RecordSave(a)

Applying(a) ==
    /\ up
    /\ \/ (Begin(a) \/ Step(a)) /\ UNCHANGED faults
       \/ CallFails(a)
    /\ UNCHANGED <<repoVars, procVars>>

-----------------------------------------------------------------------------
(* Stopping and booting.                                                   *)

\* POST restart removes the row and stops the host a moment later.
Restart ==
    /\ up
    /\ restartRow' = None /\ stopping' = TRUE
    /\ UNCHANGED <<repoVars, diskVars, done, okRows, up, skipped, ap, vouched,
                   faults>>

Down ==
    /\ up' = FALSE /\ stopping' = FALSE
    /\ ap' = [a \in Appliers |-> Idle]
    /\ UNCHANGED <<repoVars, diskVars, dbVars, skipped, vouched>>

\* The host stops when the requests and the loop have drained.
Stop ==
    /\ up /\ stopping /\ \A a \in Appliers : ap[a].pc = "idle"
    /\ Down /\ UNCHANGED faults

Kill ==
    /\ up /\ "kill" \in FaultKinds /\ faults < MaxFaults
    /\ Down /\ faults' = faults + 1

\* ApplyPendingUpdates on one staged file: copy the file that is there, move
\* the staged one over it.  It trusts what it finds.
BootSwap(f) ==
    /\ ~up /\ staged[f] # Absent /\ f \notin skipped
    /\ preboot' = IF live[f] = Absent THEN preboot
                  ELSE [preboot EXCEPT ![f] = live[f]]
    /\ live' = [live EXCEPT ![f] = staged[f]]
    /\ staged' = [staged EXCEPT ![f] = Absent]
    /\ torn' = {t \in torn : t \notin {"staged", "live"} \X {f}}
               \cup (IF <<"staged", f>> \in torn THEN {<<"live", f>>} ELSE {})
    /\ UNCHANGED <<repoVars, tmp, backup, dbVars, procVars, ap, vouched, faults>>

\* The exception is logged and the loop goes on with the next file.
BootSwapFails(f) ==
    /\ "boot" \in FaultKinds /\ faults < MaxFaults
    /\ ~up /\ staged[f] # Absent /\ f \notin skipped
    /\ skipped' = skipped \cup {f} /\ faults' = faults + 1
    /\ UNCHANGED <<repoVars, diskVars, dbVars, up, stopping, ap, vouched>>

\* After the loop pending-update is deleted with everything left in it.
HookOver == \A f \in Files : staged[f] # Absent => f \in skipped
BootFinish ==
    /\ ~up /\ HookOver
    /\ staged' = [f \in Files |-> Absent]
    /\ torn' = {t \in torn : t[1] # "staged"}
    /\ up' = TRUE /\ skipped' = {}
    /\ UNCHANGED <<repoVars, live, tmp, backup, preboot, dbVars, stopping, ap,
                   vouched, faults>>

Boot == BootFinish \/ \E f \in Files : BootSwap(f) \/ BootSwapFails(f)

Next == \/ Publish \/ SaveSettings
        \/ \E a \in Appliers : Applying(a)
        \/ Restart \/ Stop \/ Kill
        \/ Boot

Spec == Init /\ [][Next]_vars

\* The loop keeps waking up and runs what it starts; the host, once down, is
\* brought back by the service manager and runs its boot hook to the end.
Fairness == WF_vars(Applying(Loop)) /\ WF_vars(Boot)
FairSpec == Spec /\ Fairness

-----------------------------------------------------------------------------
(* Properties.                                                             *)

Pc == {"idle", "fetch", "check", "sig", "gate", "download", "record", "save"}
      \cup FileSteps

ApplierState ==
    [pc : Pc, m : Patches \cup {None}, sig : {"null", "true"},
     i : Nat \ {0}, ok : BOOLEAN, at : Places \cup {"gone", None},
     seen : Patches \cup {None}, payload : [Files -> Content]]

\* The type invariant.
TypeOK ==
    /\ published \in Patches \cup {None}
    /\ {up, stopping, autoOn} \subseteq BOOLEAN
    /\ live \in [Files -> Content]
    /\ tmp \in [Files -> Content]
    /\ staged \in [Files -> Content]
    /\ torn \subseteq ({"live", "tmp", "staged", "gone"} \X Files)
    /\ backup \in [Patches -> [Files -> Content]]
    /\ preboot \in [Files -> Content]
    /\ skipped \subseteq Files
    /\ done \subseteq Patches
    /\ okRows \in [Patches -> 0..1]
    /\ restartRow \in Patches \cup {None}
    /\ ap \in [Appliers -> ApplierState]
    /\ vouched \subseteq Patches
    /\ faults \in Nat

OnDisk(f) == {live[f], tmp[f], staged[f]}

\* "Anything that fails verification aborts the whole patch", and phase 1
\* comes before phase 2 for the patch as a whole: whatever is downloaded,
\* retried, interrupted or raced, the bytes of a live, temporary or staged
\* file were shipped, or belong to a patch every file of which was verified.
VerifiedBeforeWritten ==
    \A f \in Files : OnDisk(f) \subseteq vouched \cup {Orig, Absent}

\* C-3, "Binary patches MUST be signed": the bytes of a binary come from a
\* patch whose manifest verified.  The signature is checked on a second
\* fetch, so this needs a repository that does not change in between.
BinariesSigned ==
    \A f \in Files : IsBinary(f) =>
        (OnDisk(f) \cap Patches) \subseteq Signed

\* What update_patch_done promises the next run of the loop: every file of a
\* done patch holds patched bytes, live or staged for the next boot.
DoneIsOnDisk ==
    \A p \in done : \A f \in FilesOf(p) :
        live[f] \in Patches \/ staged[f] \in Patches

\* The history shows one successful application of a patch exactly when it is
\* marked done, however many callers applied it.
RecordedOnce == \A p \in Patches : okRows[p] = IF p \in done THEN 1 ELSE 0

\* "The running server never serves a half-written file": no live file is
\* incomplete, while it is written, after a crash, or after a boot.
LiveWhole == \A t \in torn : t[1] # "live"

\* "Originals are backed up before being overwritten": a step that replaces
\* a live file leaves what it replaces in a backup directory.
BackupBeforeOverwrite ==
    [][\A f \in Files :
         live'[f] # live[f] /\ live[f] # Absent =>
            \/ preboot'[f] = live[f]
            \/ \E p \in Patches : backup'[p][f] = live[f]]_vars

\* A patch that stays published, is silent and may be applied, is applied by
\* the loop in the end, in spite of finitely many faults and of restarts.
Appliable(p) ==
    /\ p \in Silent /\ p \notin Defective /\ Len(Manifest[p]) > 0
    /\ SigningConfigured => p \in Signed
    /\ HasBinaryFiles(p) => SigningConfigured
AutoLands ==
    \A p \in {q \in Patches : Appliable(q)} :
        <>[](up /\ autoOn /\ published = p) => <>(p \in done)

\* The promise to the administrator, as an abstract specification: the patch
\* each file is made of, whoever applies patches and whatever fails.
Store == INSTANCE PatchStore WITH
    content <- live,
    serving <- up,
    Restarted <- {f \in Files : IsBinary(f)}
ImplementsStore == Store!StoreSpec
=============================================================================
