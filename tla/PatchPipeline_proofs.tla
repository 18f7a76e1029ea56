------------------------ MODULE PatchPipeline_proofs ------------------------
(***************************************************************************)
(* The safety of the patch pipeline for any number of patches, files and   *)
(* appliers, and for every kind and number of faults.                      *)
(***************************************************************************)
EXTENDS PatchPipeline, TLAPS

-----------------------------------------------------------------------------
(* The inductive invariant.                                                *)

\* The file holds patched bytes, live or waiting for the boot hook.
Delivered(f) == live[f] \in Patches \/ staged[f] \in Patches

HasManifest == {"check", "sig", "gate", "download", "record", "save"}
               \cup FileSteps
InList == {"download"} \cup FileSteps

\* What an applier knows at each program point.
LocalM(a) == ap[a].pc \in HasManifest => ap[a].m \in Patches
LocalEarly(a) ==
    ap[a].pc \in {"idle", "fetch", "check", "sig", "gate"} => ap[a].i = 1
LocalI(a) == ap[a].pc \in InList => ap[a].i \in 1..Len(Manifest[ap[a].m])
LocalDownload(a) ==
    ap[a].pc = "download" =>
        \A j \in 1..(ap[a].i - 1) : ap[a].payload[Manifest[ap[a].m][j]] = ap[a].m
LocalPayload(a) ==
    ap[a].pc \in FileSteps =>
        /\ ap[a].m \in vouched
        /\ \A j \in 1..Len(Manifest[ap[a].m]) :
              ap[a].payload[Manifest[ap[a].m][j]] = ap[a].m
LocalWritten(a) ==
    ap[a].pc \in FileSteps =>
        \A j \in 1..(ap[a].i - 1) : Delivered(Manifest[ap[a].m][j])
LocalStaged(a) ==
    ap[a].pc = "writing" /\ IsBinary(Cur(a)) => staged[Cur(a)] \in Patches
LocalOk(a) ==
    ap[a].ok => /\ ap[a].pc \in {"record", "save"}
                /\ \A j \in 1..Len(Manifest[ap[a].m]) :
                      Delivered(Manifest[ap[a].m][j])
Local(a) ==
    /\ LocalM(a) /\ LocalEarly(a) /\ LocalI(a) /\ LocalDownload(a) /\ LocalPayload(a)
    /\ LocalWritten(a) /\ LocalStaged(a) /\ LocalOk(a)

\* What any file may hold.
DiskOK ==
    /\ \A f \in Files : /\ live[f] \in vouched \cup {Orig, Absent}
                        /\ tmp[f] \in vouched \cup {Absent}
                        /\ staged[f] \in vouched \cup {Absent}

DownIsIdle == ~up => \A a \in Appliers : ap[a] = Idle

IInv ==
    /\ TypeOK
    /\ DiskOK
    /\ DownIsIdle
    /\ RecordedOnce
    /\ \A a \in Appliers : Local(a)

\* With a boot hook that never fails nothing staged is ever lost.
NothingSkipped == skipped = {}
DoneInv == IInv /\ NothingSkipped /\ DoneIsOnDisk

-----------------------------------------------------------------------------
(* Facts the steps share.                                                  *)

\* An entry of a manifest is a file.
LEMMA EntryIsFile ==
    ASSUME NEW p \in Patches, NEW j \in 1..Len(Manifest[p])
    PROVE  Manifest[p][j] \in Files /\ Len(Manifest[p]) \in Nat
  BY PatchesAssumption

\* The file an applier is at, in phase 1 and 2.
LEMMA CurIsFile ==
    ASSUME TypeOK, NEW a \in Appliers, Local(a), ap[a].pc \in InList
    PROVE  /\ ap[a].m \in Patches /\ Cur(a) \in Files
           /\ Len(Manifest[ap[a].m]) \in Nat
           /\ ap[a].i \in 1..Len(Manifest[ap[a].m])
  BY EntryIsFile DEF Local, LocalM, LocalI, HasManifest, InList, Cur

\* What phase 1 and 2 achieved is never undone while the server is up.
Kept ==
    /\ vouched \subseteq vouched'
    /\ \A f \in Files : /\ Delivered(f) => Delivered(f)'
                        /\ staged[f] \in Patches => staged'[f] \in Patches

\* Everything an applier holds but the name of its open file.
SameBut(b) ==
    /\ ap'[b].pc = ap[b].pc /\ ap'[b].m = ap[b].m /\ ap'[b].i = ap[b].i
    /\ ap'[b].ok = ap[b].ok /\ ap'[b].payload = ap[b].payload

\* A step that keeps what was achieved does not disturb another applier.
LEMMA OthersKeep ==
    ASSUME TypeOK, NEW b \in Appliers, Local(b), Kept, SameBut(b)
    PROVE  Local(b)'
<1>1. LocalM(b)' /\ LocalEarly(b)' /\ LocalI(b)' /\ LocalDownload(b)'
  BY DEF Local, LocalM, LocalEarly, LocalI, LocalDownload, SameBut
<1>2. LocalPayload(b)'
  BY DEF Local, LocalPayload, SameBut, Kept
<1>3. LocalWritten(b)'
  <2> SUFFICES ASSUME ap[b].pc \in FileSteps, NEW j \in 1..(ap[b].i - 1)
               PROVE  Delivered(Manifest[ap[b].m][j])'
    BY DEF LocalWritten, SameBut
  <2>1. j \in 1..Len(Manifest[ap[b].m])
    BY CurIsFile DEF InList
  <2>2. QED
    BY <2>1, CurIsFile, EntryIsFile
       DEF Local, LocalWritten, Kept, InList, SameBut, Delivered
<1>4. LocalStaged(b)'
  <2>1. Cur(b)' = Cur(b)
    BY DEF Cur, SameBut
  <2>2. ap[b].pc = "writing" => Cur(b) \in Files
    BY CurIsFile DEF InList, FileSteps
  <2>3. QED
    BY <2>1, <2>2 DEF Local, LocalStaged, SameBut, Kept
<1>5. LocalOk(b)'
  <2>1. CASE ap[b].ok
    <3>1. ap[b].m \in Patches
      BY <2>1 DEF Local, LocalOk, LocalM, HasManifest
    <3>2. QED
      BY <2>1, <3>1, EntryIsFile DEF Local, LocalOk, Kept, SameBut, Delivered
  <2>2. CASE ~ap[b].ok
    BY <2>2 DEF LocalOk, SameBut
  <2>3. QED
    BY <2>1, <2>2
<1>6. QED
  BY <1>1, <1>2, <1>3, <1>4, <1>5 DEF Local

\* A step of one applier: the rest of the invariant follows from what the step
\* keeps and from what the applier knows afterwards.
LEMMA StepOfOne ==
    ASSUME IInv, NEW a \in Appliers, up', Kept,
           TypeOK', DiskOK', RecordedOnce', Local(a)',
           \A b \in Appliers \ {a} : SameBut(b)
    PROVE  IInv'
<1>1. \A b \in Appliers : Local(b)'
  BY OthersKeep DEF IInv
<1>2. QED
  BY <1>1 DEF IInv, DownIsIdle

LEMMA IdleType == Idle \in ApplierState
  BY DEF Idle, Pc, Places, Content, ApplierState

\* Steps that leave disk and database alone.
LEMMA QuietStep ==
    ASSUME IInv, NEW a \in Appliers, up,
           UNCHANGED <<diskVars, dbVars, repoVars, procVars>>,
           vouched' \in {vouched, vouched \cup {ap[a].m}},
           vouched' \subseteq Patches, faults' \in Nat,
           ap' \in [Appliers -> ApplierState],
           \A b \in Appliers \ {a} : ap'[b] = ap[b],
           Local(a)'
    PROVE  IInv'
<1>1. Kept
  BY DEF Kept, Delivered, diskVars
<1>2. DiskOK' /\ RecordedOnce'
  BY DEF IInv, DiskOK, RecordedOnce, diskVars, dbVars
<1>3. TypeOK' /\ up'
  BY DEF IInv, TypeOK, diskVars, dbVars, repoVars, procVars
<1>4. \A b \in Appliers \ {a} : SameBut(b)
  BY DEF SameBut
<1>5. QED
  BY <1>1, <1>2, <1>3, <1>4, StepOfOne

LEMMA IdleIsLocal ==
    ASSUME NEW a \in Appliers, ap'[a] = Idle
    PROVE  Local(a)'
  BY DEF Local, LocalM, LocalEarly, LocalI, LocalDownload, LocalPayload,
         LocalWritten, LocalStaged, LocalOk, Idle, HasManifest, InList, FileSteps

\* An applier that gives up, after an exception or an early return.
LEMMA ReturnStep ==
    ASSUME IInv, NEW a \in Appliers, up, Return(a),
           UNCHANGED <<diskVars, dbVars, vouched, repoVars, procVars>>,
           faults' \in Nat
    PROVE  IInv'
<1>1. ap' \in [Appliers -> ApplierState]
  BY IdleType DEF IInv, TypeOK, Return
<1>2. ap'[a] = Idle /\ \A b \in Appliers \ {a} : ap'[b] = ap[b]
  BY DEF IInv, TypeOK, Return
<1>3. vouched' \subseteq Patches
  BY DEF IInv, TypeOK
<1>4. QED
  BY <1>1, <1>2, <1>3, IdleIsLocal, QuietStep

\* The fields of an applier that only moves on.
LEMMA GotoFields ==
    ASSUME TypeOK, NEW a \in Appliers, NEW q \in Pc, Goto(a, q)
    PROVE  /\ ap' \in [Appliers -> ApplierState]
           /\ \A b \in Appliers \ {a} : ap'[b] = ap[b]
           /\ ap'[a].pc = q /\ ap'[a].m = ap[a].m /\ ap'[a].i = ap[a].i
           /\ ap'[a].ok = ap[a].ok /\ ap'[a].payload = ap[a].payload
<1>1. /\ ap \in [Appliers -> ApplierState]
      /\ ap' = [ap EXCEPT ![a] = [ap[a] EXCEPT !.pc = q]]
  BY DEF TypeOK, Goto
<1>2. ap[a] \in ApplierState
  BY <1>1
<1>3. [ap[a] EXCEPT !.pc = q] \in ApplierState
  BY <1>2 DEF ApplierState
<1>4. /\ ap' \in [Appliers -> ApplierState]
      /\ \A b \in Appliers \ {a} : ap'[b] = ap[b]
      /\ ap'[a] = [ap[a] EXCEPT !.pc = q]
  BY <1>1, <1>3
<1> QED
  BY <1>2, <1>4 DEF ApplierState

\* An applier between two phases knows no more than its manifest.
LEMMA BetweenIsLocal ==
    ASSUME NEW a \in Appliers, ~ap'[a].ok, LocalEarly(a)',
           ap'[a].pc \in Pc \ InList,
           ap'[a].pc \in HasManifest => ap'[a].m \in Patches
    PROVE  Local(a)'
  BY DEF Local, LocalM, LocalEarly, LocalI, LocalDownload, LocalPayload,
         LocalWritten, LocalStaged, LocalOk, HasManifest, InList, FileSteps

-----------------------------------------------------------------------------
(* Deciding to apply: nothing but the applier changes.                     *)

LEMMA GotoStep ==
    ASSUME IInv, NEW a \in Appliers, up, NEW q \in Pc, Goto(a, q), Local(a)',
           UNCHANGED <<diskVars, dbVars, vouched, repoVars, procVars, faults>>
    PROVE  IInv'
<1>1. vouched' \subseteq Patches /\ faults' \in Nat
  BY DEF IInv, TypeOK
<1>2. QED
  BY <1>1, GotoFields, QuietStep DEF IInv

LEMMA BeginStep ==
    ASSUME IInv, NEW a \in Appliers, up, Begin(a),
           UNCHANGED <<repoVars, procVars, faults>>
    PROVE  IInv'
<1>1. Goto(a, "fetch") /\ "fetch" \in Pc
  BY DEF Begin, Pc
<1>2. Local(a)'
  BY <1>1, GotoFields, BetweenIsLocal DEF IInv, Begin, Local, LocalOk, LocalEarly,
     HasManifest, InList, FileSteps
<1>3. QED
  BY <1>1, <1>2, GotoStep DEF Begin

LEMMA FetchStep ==
    ASSUME IInv, NEW a \in Appliers, up, FetchManifest(a),
           UNCHANGED <<repoVars, procVars, faults>>
    PROVE  IInv'
<1>1. CASE published = None
  BY <1>1, ReturnStep DEF FetchManifest, IInv, TypeOK
<1>2. CASE published # None
  <2>1. /\ ap' \in [Appliers -> ApplierState]
        /\ \A b \in Appliers \ {a} : ap'[b] = ap[b]
        /\ ap'[a].m \in Patches /\ ap'[a].pc \in {"check", "sig"}
        /\ ap'[a].ok = ap[a].ok /\ ap'[a].i = ap[a].i
    BY <1>2 DEF FetchManifest, IInv, TypeOK, ApplierState, Pc
  <2>2. Local(a)'
    BY <2>1, BetweenIsLocal DEF IInv, FetchManifest, Local, LocalOk,
       LocalEarly, Pc, InList, FileSteps
  <2>3. vouched' \subseteq Patches /\ faults' \in Nat
    BY DEF IInv, TypeOK, FetchManifest
  <2>4. QED
    BY <2>1, <2>2, <2>3, QuietStep DEF FetchManifest
<1>3. QED
  BY <1>1, <1>2

LEMMA CheckStep ==
    ASSUME IInv, NEW a \in Appliers, up, CheckDone(a),
           UNCHANGED <<repoVars, procVars, faults>>
    PROVE  IInv'
<1>1. CASE Return(a)
  BY <1>1, ReturnStep DEF CheckDone, IInv, TypeOK
<1>2. CASE Goto(a, "sig")
  <2>1. "sig" \in Pc
    BY DEF Pc
  <2>2. Local(a)'
    BY <1>2, <2>1, GotoFields, BetweenIsLocal DEF IInv, CheckDone, Local, LocalM,
       LocalEarly, LocalOk, HasManifest, InList, FileSteps
  <2>3. QED
    BY <1>2, <2>1, <2>2, GotoStep DEF CheckDone
<1>3. QED
  BY <1>1, <1>2 DEF CheckDone

LEMMA SignatureStep ==
    ASSUME IInv, NEW a \in Appliers, up, VerifySignature(a),
           UNCHANGED <<repoVars, procVars, faults>>
    PROVE  IInv'
<1>1. CASE Return(a)
  BY <1>1, ReturnStep DEF VerifySignature, IInv, TypeOK
<1>2. CASE ~Return(a)
  <2>1. /\ ap' \in [Appliers -> ApplierState]
        /\ \A b \in Appliers \ {a} : ap'[b] = ap[b]
        /\ ap'[a].m = ap[a].m /\ ap'[a].pc = "gate" /\ ap'[a].ok = ap[a].ok
        /\ ap'[a].i = ap[a].i
    <3>1. CASE Goto(a, "gate")
      BY <3>1, GotoFields DEF IInv, Pc
    <3>2. CASE ap' = [ap EXCEPT ![a].sig = "true", ![a].pc = "gate"]
      <4>1. ap \in [Appliers -> ApplierState]
        BY DEF IInv, TypeOK
      <4>2. ap'[a] = [ap[a] EXCEPT !.sig = "true", !.pc = "gate"]
        BY <3>2, <4>1
      <4>3. ap'[a] \in ApplierState
        BY <4>1, <4>2 DEF ApplierState, Pc
      <4>4. QED
        BY <3>2, <4>1, <4>2, <4>3 DEF ApplierState
    <3>3. QED
      BY <1>2, <3>1, <3>2 DEF VerifySignature
  <2>2. Local(a)'
    BY <2>1, BetweenIsLocal DEF IInv, VerifySignature, Local, LocalM, LocalOk, LocalEarly,
       Pc, HasManifest, InList, FileSteps
  <2>3. vouched' \subseteq Patches /\ faults' \in Nat
    BY DEF IInv, TypeOK, VerifySignature
  <2>4. QED
    BY <2>1, <2>2, <2>3, QuietStep DEF VerifySignature
<1>3. QED
  BY <1>1, <1>2

-----------------------------------------------------------------------------
(* Phase 1.                                                                *)

LEMMA GateStep ==
    ASSUME IInv, NEW a \in Appliers, up, Gate(a),
           UNCHANGED <<repoVars, procVars, faults>>
    PROVE  IInv'
<1>1. ap[a].m \in Patches /\ ~ap[a].ok /\ ap[a].i = 1
  BY DEF IInv, Gate, Local, LocalM, LocalEarly, LocalOk, HasManifest, FileSteps
<1>2. CASE Refused(a)
  <2>1. Goto(a, "record") /\ "record" \in Pc
    BY <1>2 DEF Gate, Pc
  <2>2. Local(a)'
    BY <1>1, <2>1, GotoFields, BetweenIsLocal
       DEF IInv, LocalEarly, InList, FileSteps
  <2>3. QED
    BY <2>1, <2>2, GotoStep DEF Gate
<1>3. CASE ~Refused(a)
  <2>1. Goto(a, "download") /\ "download" \in Pc
    BY <1>3 DEF Gate, Pc
  <2>2. Len(Manifest[ap[a].m]) \in Nat \ {0}
    BY <1>1, <1>3, PatchesAssumption DEF Refused
  <2>3. Local(a)'
    BY <1>1, <2>1, <2>2, GotoFields DEF IInv, Local, LocalM, LocalEarly, LocalI,
       LocalDownload, LocalPayload, LocalWritten, LocalStaged, LocalOk,
       HasManifest, InList, FileSteps
  <2>4. QED
    BY <2>1, <2>3, GotoStep DEF Gate
<1>4. QED
  BY <1>2, <1>3

\* A failed download or hash ends in a recorded failure; the last verified
\* file opens phase 2 with every payload being the bytes of the patch.
LEMMA DownloadStep ==
    ASSUME IInv, NEW a \in Appliers, up, NEW bytes \in Content,
           Download(a, bytes), UNCHANGED <<repoVars, procVars>>,
           faults' \in Nat
    PROVE  IInv'
<1> DEFINE p == ap[a].m
           n == Len(Manifest[p])
<1>1. /\ ap[a].pc = "download" /\ Local(a) /\ TypeOK
      /\ ap \in [Appliers -> ApplierState] /\ vouched \subseteq Patches
  BY DEF IInv, Download, TypeOK
<1>2. /\ p \in Patches /\ Cur(a) \in Files /\ n \in Nat /\ ap[a].i \in 1..n
      /\ Cur(a) = Manifest[p][ap[a].i] /\ ~ap[a].ok
      /\ \A j \in 1..n : Manifest[p][j] \in Files
  BY <1>1, CurIsFile, EntryIsFile DEF InList, Cur, Local, LocalOk
<1>3. CASE p \in Defective \/ ~Verified(p, bytes)
  <2>1. Goto(a, "record") /\ "record" \in Pc /\ vouched' = vouched
    BY <1>3 DEF Download, Pc
  <2>2. Local(a)'
    BY <1>1, <1>2, <2>1, GotoFields, BetweenIsLocal
       DEF LocalEarly, InList, FileSteps
  <2>3. QED
    BY <1>1, <2>1, <2>2, GotoFields, QuietStep DEF Download
<1>4. CASE ~(p \in Defective \/ ~Verified(p, bytes))
  <2> DEFINE r == ap'[a]
             pl == [ap[a].payload EXCEPT ![Cur(a)] = bytes]
             ii == IF Last(a) THEN 1 ELSE ap[a].i + 1
             pc == IF Last(a) THEN Phase2(Manifest[p][1]) ELSE "download"
  <2>1. /\ bytes = p
        /\ ap' = [ap EXCEPT ![a] = [ap[a] EXCEPT !.payload = pl, !.i = ii,
                                                 !.pc = pc]]
        /\ vouched' = IF Last(a) THEN vouched \cup {p} ELSE vouched
    BY <1>1, <1>4 DEF Download, Verified, Phase1Over
  <2>2. /\ pl \in [Files -> Content] /\ ii \in Nat \ {0} /\ pc \in Pc
        /\ \A j \in 1..ap[a].i : pl[Manifest[p][j]] = p
    <3>1. ap[a].payload \in [Files -> Content]
      BY <1>1 DEF ApplierState
    <3>2. \A j \in 1..(ap[a].i - 1) : ap[a].payload[Manifest[p][j]] = p
      BY <1>1 DEF Local, LocalDownload
    <3>3. QED
      BY SMTT(30), <1>2, <2>1, <3>1, <3>2 DEF Phase2, Pc, FileSteps
  <2>3. /\ pc = (IF Last(a) THEN Phase2(Manifest[p][1]) ELSE "download")
        /\ ii = IF Last(a) THEN 1 ELSE ap[a].i + 1
    OBVIOUS
  <2> HIDE DEF pl, ii, pc
  <2>4. /\ r \in ApplierState /\ r.m = p /\ r.ok = ap[a].ok
        /\ r.i = ii /\ r.pc = pc /\ r.payload = pl
        /\ \A b \in Appliers \ {a} : ap'[b] = ap[b]
    BY ZenonT(30), <1>1, <2>1, <2>2 DEF ApplierState
  <2>5. ap' \in [Appliers -> ApplierState]
    BY <1>1, <2>1, <2>4
  <2>6. Local(a)'
    <3>1. CASE Last(a)
      <4>1. /\ r.pc \in {"open", "backup"} /\ r.i = 1 /\ p \in vouched'
            /\ \A j \in 1..n : r.payload[Manifest[p][j]] = p
        BY <1>2, <2>1, <2>2, <2>3, <2>4, <3>1 DEF Last, Phase2
      <4>2. QED
        BY <1>2, <2>4, <4>1 DEF Local, LocalM, LocalEarly, LocalI, LocalDownload,
           LocalPayload, LocalWritten, LocalStaged, LocalOk, HasManifest, InList,
           FileSteps
    <3>2. CASE ~Last(a)
      <4>1. /\ r.pc = "download" /\ r.i = ap[a].i + 1 /\ r.i \in 1..n
            /\ \A j \in 1..(r.i - 1) : r.payload[Manifest[p][j]] = p
        BY <1>2, <2>2, <2>3, <2>4, <3>2 DEF Last
      <4>2. QED
        BY <1>2, <2>4, <4>1 DEF Local, LocalM, LocalEarly, LocalI, LocalDownload,
           LocalPayload, LocalWritten, LocalStaged, LocalOk, HasManifest, InList,
           FileSteps
    <3>3. QED
      BY <3>1, <3>2
  <2>7. vouched' \in {vouched, vouched \cup {p}} /\ vouched' \subseteq Patches
    BY <1>1, <1>2, <2>1
  <2>8. UNCHANGED <<diskVars, dbVars, repoVars, procVars>>
    BY DEF Download
  <2>9. QED
    BY <2>4, <2>5, <2>6, <2>7, <2>8, QuietStep
<1>5. QED
  BY <1>3, <1>4

-----------------------------------------------------------------------------
(* Phase 2.                                                                *)

\* What is known while a file is written.
LEMMA InPhase2 ==
    ASSUME IInv, NEW a \in Appliers, ap[a].pc \in FileSteps
    PROVE  /\ TypeOK /\ Local(a) /\ ap \in [Appliers -> ApplierState]
           /\ ap[a].m \in Patches /\ ap[a].m \in vouched /\ ~ap[a].ok
           /\ Cur(a) = Manifest[ap[a].m][ap[a].i] /\ Cur(a) \in Files
           /\ Len(Manifest[ap[a].m]) \in Nat
           /\ ap[a].i \in 1..Len(Manifest[ap[a].m])
           /\ Bytes(a) = ap[a].m /\ Bytes(a) \in Patches
           /\ \A j \in 1..Len(Manifest[ap[a].m]) : Manifest[ap[a].m][j] \in Files
<1>1. TypeOK /\ Local(a) /\ ap \in [Appliers -> ApplierState]
  BY DEF IInv, TypeOK
<1>2. ap[a].pc \in InList /\ ~ap[a].ok /\ ap[a].m \in vouched
  BY <1>1 DEF InList, Local, LocalOk, LocalPayload, FileSteps
<1>3. /\ ap[a].m \in Patches /\ Cur(a) \in Files
      /\ Len(Manifest[ap[a].m]) \in Nat
      /\ ap[a].i \in 1..Len(Manifest[ap[a].m])
  BY <1>1, <1>2, CurIsFile
<1>4. Bytes(a) = ap[a].m
  BY <1>1, <1>3 DEF Bytes, Cur, Local, LocalPayload
<1>5. QED
  BY <1>1, <1>2, <1>3, <1>4, EntryIsFile DEF Cur

\* An applier of phase 2 that stays on its file.
LEMMA OnSameFile ==
    ASSUME IInv, NEW a \in Appliers, ap[a].pc \in FileSteps, ap'[a].pc \in FileSteps,
           ap'[a].m = ap[a].m, ap'[a].i = ap[a].i, ap'[a].ok = ap[a].ok,
           ap'[a].payload = ap[a].payload, vouched' = vouched,
           LocalWritten(a)', LocalStaged(a)'
    PROVE  Local(a)'
<1>1. Local(a) /\ ~ap[a].ok
  BY InPhase2
<1>2. LocalM(a)' /\ LocalI(a)'
  BY InPhase2 DEF LocalM, LocalI
<1>3. LocalEarly(a)' /\ LocalDownload(a)'
  BY DEF LocalEarly, LocalDownload, FileSteps
<1>4. LocalPayload(a)'
  BY <1>1 DEF Local, LocalPayload
<1>5. LocalOk(a)'
  BY <1>1 DEF LocalOk
<1> QED
  BY <1>2, <1>3, <1>4, <1>5 DEF Local

\* Finishing a file that is then delivered.
LEMMA AdvanceIsLocal ==
    ASSUME IInv, NEW a \in Appliers, ap[a].pc \in FileSteps, Kept,
           ap'[a] = Advance(ap[a], a),
           NEW f, f = Cur(a), live'[f] \in Patches \/ staged'[f] \in Patches
    PROVE  ap'[a] \in ApplierState /\ Local(a)'
<1> DEFINE r == ap'[a]
           p == ap[a].m
           n == Len(Manifest[p])
<1>1. /\ p \in Patches /\ ap[a].i \in 1..n /\ n \in Nat /\ ~ap[a].ok
      /\ ap[a] \in ApplierState /\ p \in vouched' /\ f = Manifest[p][ap[a].i]
      /\ \A j \in 1..n : Manifest[p][j] \in Files
  BY InPhase2 DEF Kept
<1>2. \A j \in 1..ap[a].i : \/ live'[Manifest[p][j]] \in Patches
                            \/ staged'[Manifest[p][j]] \in Patches
  <2> TAKE j \in 1..ap[a].i
  <2>1. CASE j = ap[a].i
    BY <2>1, <1>1
  <2>2. CASE j # ap[a].i
    <3>1. j \in 1..(ap[a].i - 1) /\ Manifest[p][j] \in Files
      BY <2>2, <1>1
    <3>2. live[Manifest[p][j]] \in Patches \/ staged[Manifest[p][j]] \in Patches
      BY <3>1 DEF IInv, Local, LocalWritten, Delivered
    <3>3. QED
      BY <3>1, <3>2 DEF Kept, Delivered
  <2>3. QED
    BY <2>1, <2>2
<1>3. \A j \in 1..n : ap[a].payload[Manifest[p][j]] = p
  BY DEF IInv, Local, LocalPayload
<1>4. CASE Last(a)
  <2>1. r = [ap[a] EXCEPT !.pc = "record", !.ok = TRUE, !.at = None]
    BY <1>4 DEF Advance
  <2>2. /\ r \in ApplierState /\ r.m = p /\ r.pc = "record" /\ r.ok
        /\ r.i = ap[a].i
    BY <1>1, <2>1 DEF ApplierState, Pc
  <2>3. \A j \in 1..n : \/ live'[Manifest[p][j]] \in Patches
                         \/ staged'[Manifest[p][j]] \in Patches
    BY <1>1, <1>2, <1>4 DEF Last
  <2>4. QED
    BY <1>1, <2>2, <2>3 DEF Delivered, Local, LocalM, LocalEarly, LocalI, LocalDownload,
       LocalPayload, LocalWritten, LocalStaged, LocalOk, HasManifest, InList,
       FileSteps
<1>5. CASE ~Last(a)
  <2> DEFINE q == Phase2(Manifest[p][ap[a].i + 1])
             k == ap[a].i + 1
  <2>0. /\ r = [ap[a] EXCEPT !.i = k, !.pc = q, !.at = None]
        /\ q \in {"open", "backup"} /\ k = ap[a].i + 1
    BY <1>5 DEF Advance, Phase2
  <2>1. k \in 1..n
    BY <1>1, <1>5 DEF Last
  <2> HIDE DEF q, k
  <2>2. /\ r \in ApplierState /\ r.m = p /\ ~r.ok /\ r.pc \in {"open", "backup"}
        /\ r.i = ap[a].i + 1 /\ r.i \in 1..n /\ r.payload = ap[a].payload
    <3>1. k \in Nat \ {0} /\ q \in Pc
      BY <1>1, <2>0, <2>1 DEF Pc, FileSteps
    <3>2. r \in ApplierState
      BY <1>1, <2>0, <3>1 DEF ApplierState
    <3>3. r.m = p /\ r.ok = ap[a].ok /\ r.pc = q /\ r.i = k
          /\ r.payload = ap[a].payload
      BY <1>1, <2>0 DEF ApplierState
    <3>4. QED
      BY <1>1, <2>0, <2>1, <3>2, <3>3
  <2>3. \A j \in 1..(r.i - 1) : \/ live'[Manifest[p][j]] \in Patches
                                 \/ staged'[Manifest[p][j]] \in Patches
    <3>1. r.i - 1 = ap[a].i
      BY <1>1, <2>2
    <3> HIDE DEF r, n
    <3> QED
      BY <1>2, <3>1
  <2>4. QED
    BY <1>1, <1>3, <2>2, <2>3 DEF Delivered, Local, LocalM, LocalEarly, LocalI,
       LocalDownload, LocalPayload, LocalWritten, LocalStaged, LocalOk,
       HasManifest, InList, FileSteps
<1>6. QED
  BY <1>4, <1>5

\* A step of phase 2 that goes on: type and disk are what remain to be shown.
LEMMA FileStep ==
    ASSUME IInv, NEW a \in Appliers, up, Kept,
           live' \in [Files -> Content], tmp' \in [Files -> Content],
           staged' \in [Files -> Content],
           backup' \in [Patches -> [Files -> Content]],
           torn' \subseteq ({"live", "tmp", "staged", "gone"} \X Files),
           DiskOK', ap' \in [Appliers -> ApplierState], Local(a)',
           \A b \in Appliers \ {a} : SameBut(b),
           UNCHANGED <<preboot, dbVars, vouched, repoVars, procVars, faults>>
    PROVE  IInv'
<1>1. TypeOK' /\ RecordedOnce' /\ up'
  BY DEF IInv, TypeOK, RecordedOnce, dbVars, repoVars, procVars
<1>2. QED
  BY <1>1, StepOfOne

LEMMA BackupStep ==
    ASSUME IInv, NEW a \in Appliers, up, BackupFile(a),
           UNCHANGED <<repoVars, procVars, faults>>
    PROVE  IInv'
<1>1. ap[a].pc = "backup" /\ ap[a].pc \in FileSteps
  BY DEF BackupFile, FileSteps
<1>2. CASE Throw(a)
  <2>1. faults' \in Nat
    BY DEF IInv, TypeOK
  <2>2. QED
    BY <1>2, <2>1, ReturnStep DEF Throw
<1>3. CASE ~Held("live", Cur(a))
  <2>1. /\ Goto(a, "open") /\ "open" \in Pc
        /\ backup' = IF live[Cur(a)] = Absent THEN backup
                     ELSE [backup EXCEPT ![ap[a].m][Cur(a)] = live[Cur(a)]]
        /\ UNCHANGED <<live, tmp, staged, torn, preboot, dbVars, vouched>>
    BY <1>3 DEF BackupFile, Pc, FileSteps
  <2>2. backup' \in [Patches -> [Files -> Content]]
    BY <1>1, <2>1, InPhase2 DEF TypeOK
  <2>3. Kept /\ DiskOK'
    BY <2>1 DEF Kept, Delivered, IInv, DiskOK
  <2>4. Local(a)'
    <3>1. /\ ap'[a].pc = "open" /\ ap'[a].m = ap[a].m /\ ap'[a].i = ap[a].i
          /\ ap'[a].ok = ap[a].ok /\ ap'[a].payload = ap[a].payload
      BY <1>1, <2>1, InPhase2, GotoFields
    <3>2. LocalStaged(a)'
      BY <3>1 DEF LocalStaged
    <3>3. LocalWritten(a)'
      BY <1>1, <2>1, <3>1, InPhase2 DEF Local, LocalWritten, Delivered
    <3> QED
      BY <1>1, <2>1, <3>1, <3>2, <3>3, OnSameFile DEF FileSteps
  <2>5. \A b \in Appliers \ {a} : SameBut(b)
    BY <2>1, GotoFields DEF SameBut, IInv
  <2>6. QED
    BY <2>1, <2>2, <2>3, <2>4, <2>5, GotoFields, FileStep DEF IInv, TypeOK
<1>4. QED
  BY <1>2, <1>3 DEF BackupFile

LEMMA OpenStep ==
    ASSUME IInv, NEW a \in Appliers, up, OpenFile(a),
           UNCHANGED <<repoVars, procVars, faults>>
    PROVE  IInv'
<1> DEFINE f == Cur(a)
           place == IF IsBinary(f) THEN "staged" ELSE "tmp"
<1>1. /\ ap[a].pc = "open" /\ ap[a].pc \in FileSteps
      /\ place \in {"staged", "tmp"}
  BY DEF OpenFile, FileSteps
<1>2. CASE Throw(a)
  <2>1. faults' \in Nat
    BY DEF IInv, TypeOK
  <2>2. QED
    BY <1>2, <2>1, ReturnStep DEF Throw
<1>3. CASE ~Held(place, f)
  <2>1. /\ IF IsBinary(f)
             THEN staged' = [staged EXCEPT ![f] = Bytes(a)] /\ UNCHANGED tmp
             ELSE tmp' = [tmp EXCEPT ![f] = Bytes(a)] /\ UNCHANGED staged
        /\ torn' = torn \cup {<<place, f>>}
        /\ ap' = [ap EXCEPT ![a].pc = "writing", ![a].at = place]
        /\ UNCHANGED <<live, backup, preboot, dbVars, vouched>>
    BY <1>3 DEF OpenFile
  <2> HIDE DEF place
  <2>2. /\ TypeOK /\ f \in Files /\ Bytes(a) = ap[a].m /\ ap[a].m \in vouched
        /\ ap[a].m \in Patches /\ ap \in [Appliers -> ApplierState]
    BY <1>1, InPhase2
  <2>3. /\ tmp' \in [Files -> Content] /\ staged' \in [Files -> Content]
        /\ torn' \subseteq ({"live", "tmp", "staged", "gone"} \X Files)
    <3>1. tmp' \in [Files -> Content] /\ staged' \in [Files -> Content]
      BY <2>1, <2>2 DEF TypeOK, Content
    <3>2. <<place, f>> \in {"live", "tmp", "staged", "gone"} \X Files
      BY <1>1, <2>2
    <3>3. torn \subseteq ({"live", "tmp", "staged", "gone"} \X Files)
      BY <2>2 DEF TypeOK
    <3>4. QED
      BY <2>1, <3>1, <3>2, <3>3
  <2>4. Kept /\ DiskOK'
    BY <2>1, <2>2 DEF Kept, Delivered, IInv, DiskOK, TypeOK
  <2>5. /\ ap'[a] = [ap[a] EXCEPT !.pc = "writing", !.at = place]
        /\ \A b \in Appliers \ {a} : ap'[b] = ap[b]
    BY <2>1, <2>2
  <2>6. /\ ap'[a] \in ApplierState /\ ap'[a].pc = "writing"
        /\ ap'[a].m = ap[a].m /\ ap'[a].i = ap[a].i /\ ap'[a].ok = ap[a].ok
        /\ ap'[a].payload = ap[a].payload
    BY <1>1, <2>2, <2>5 DEF ApplierState, Pc, FileSteps, Places
  <2>7. ap' \in [Appliers -> ApplierState]
    BY <2>1, <2>2, <2>5, <2>6
  <2>8. Local(a)'
    <3>1. Cur(a)' = f
      BY <2>6 DEF Cur
    <3>2. LocalStaged(a)'
      BY <2>1, <2>2, <3>1 DEF LocalStaged, TypeOK
    <3>3. LocalWritten(a)'
      BY <1>1, <2>1, <2>2, <2>4, <2>6, InPhase2
         DEF Local, LocalWritten, Delivered, Kept
    <3>4. QED
      BY <1>1, <2>1, <2>6, <3>2, <3>3, OnSameFile DEF FileSteps
  <2>9. QED
    BY <2>1, <2>2, <2>3, <2>4, <2>5, <2>7, <2>8, FileStep DEF SameBut, TypeOK
<1>4. QED
  BY <1>2, <1>3 DEF OpenFile

LEMMA CloseStep ==
    ASSUME IInv, NEW a \in Appliers, up, CloseFile(a),
           UNCHANGED <<repoVars, procVars, faults>>
    PROVE  IInv'
<1> DEFINE f == Cur(a)
<1>1. /\ ap[a].pc = "writing" /\ ap[a].pc \in FileSteps
      /\ UNCHANGED <<live, tmp, staged, backup, preboot, dbVars, vouched>>
      /\ torn' \subseteq torn
      /\ ap' = [ap EXCEPT ![a] = IF IsBinary(f) THEN Advance(ap[a], a)
                                 ELSE [ap[a] EXCEPT !.pc = "move", !.at = None]]
  BY DEF CloseFile, FileSteps, IInv, TypeOK
<1>2. /\ TypeOK /\ f \in Files /\ ap \in [Appliers -> ApplierState]
  BY <1>1, InPhase2
<1>3. Kept /\ DiskOK'
  BY <1>1 DEF Kept, Delivered, IInv, DiskOK
<1>4. \A b \in Appliers \ {a} : ap'[b] = ap[b]
  BY <1>1, <1>2
<1>5. ap'[a] \in ApplierState /\ Local(a)'
  <2>1. CASE IsBinary(f)
    <3>1. staged[f] \in Patches
      BY <1>1, <2>1 DEF IInv, Local, LocalStaged
    <3>2. ap'[a] = Advance(ap[a], a) /\ staged'[f] \in Patches
      BY <1>1, <1>2, <2>1, <3>1
    <3>3. QED
      BY <1>1, <1>3, <3>2, AdvanceIsLocal
  <2>2. CASE ~IsBinary(f)
    <3>1. ap'[a] = [ap[a] EXCEPT !.pc = "move", !.at = None]
      BY <1>1, <1>2, <2>2
    <3>2. /\ ap'[a] \in ApplierState /\ ap'[a].pc = "move"
          /\ ap'[a].m = ap[a].m /\ ap'[a].i = ap[a].i /\ ap'[a].ok = ap[a].ok
          /\ ap'[a].payload = ap[a].payload
      <4>1. ap[a] \in ApplierState /\ "move" \in Pc
        BY <1>2 DEF Pc, FileSteps
      <4>2. ap'[a] \in ApplierState
        BY <3>1, <4>1 DEF ApplierState
      <4>3. QED
        BY <3>1, <4>1, <4>2 DEF ApplierState
    <3>3. LocalWritten(a)'
      BY <1>1, <1>3, <3>2, InPhase2 DEF Local, LocalWritten, Delivered, Kept
    <3>4. QED
      <4>1. LocalStaged(a)'
        BY <3>2 DEF LocalStaged
      <4> QED
        BY <1>1, <3>2, <3>3, <4>1, OnSameFile DEF FileSteps
  <2>3. QED
    BY <2>1, <2>2
<1>6. ap' \in [Appliers -> ApplierState]
  BY <1>1, <1>2, <1>5
<1>7. QED
  BY <1>1, <1>2, <1>3, <1>4, <1>5, <1>6, FileStep DEF SameBut, TypeOK

\* A rename may take the open file of others along, and that is all it does
\* to them.
LEMMA MoveStep ==
    ASSUME IInv, NEW a \in Appliers, up, MoveFile(a),
           UNCHANGED <<repoVars, procVars, faults>>
    PROVE  IInv'
<1> DEFINE f == Cur(a)
<1>1. ap[a].pc = "move" /\ ap[a].pc \in FileSteps
  BY DEF MoveFile, FileSteps
<1>2. CASE tmp[f] = Absent
  <2>1. Throw(a) /\ faults' \in Nat
    BY <1>2 DEF MoveFile, IInv, TypeOK
  <2>2. QED
    BY <2>1, ReturnStep DEF Throw
<1>3. CASE tmp[f] # Absent
  <2> DEFINE others(b) == [ap[b] EXCEPT !.at = Renamed(b, f)]
  <2>1. /\ live' = [live EXCEPT ![f] = tmp[f]]
        /\ tmp' = [tmp EXCEPT ![f] = Absent]
        /\ torn' = {t \in torn : t \notin {"tmp", "live"} \X {f}}
                   \cup (IF <<"tmp", f>> \in torn
                           THEN {<<"live", f>>} ELSE {})
        /\ ap' = [b \in Appliers |-> IF b = a THEN Advance(ap[a], a)
                                     ELSE others(b)]
        /\ UNCHANGED <<staged, backup, preboot, dbVars, vouched>>
    BY <1>3 DEF MoveFile
  <2>2. /\ TypeOK /\ f \in Files /\ ap \in [Appliers -> ApplierState]
        /\ tmp[f] \in vouched /\ tmp[f] \in Patches
    BY <1>1, <1>3, InPhase2 DEF IInv, DiskOK, TypeOK
  <2>3. Kept /\ DiskOK'
    BY <2>1, <2>2 DEF Kept, Delivered, IInv, DiskOK, TypeOK
  <2>4. /\ live' \in [Files -> Content] /\ tmp' \in [Files -> Content]
        /\ staged' \in [Files -> Content]
        /\ backup' \in [Patches -> [Files -> Content]]
    BY <2>1, <2>2 DEF TypeOK, Content
  <2>5. torn' \subseteq ({"live", "tmp", "staged", "gone"} \X Files)
    <3>1. <<"live", f>> \in {"live", "tmp", "staged", "gone"} \X Files
      BY <2>2
    <3>2. torn \subseteq ({"live", "tmp", "staged", "gone"} \X Files)
      BY <2>2 DEF TypeOK
    <3>3. QED
      BY <2>1, <3>1, <3>2
  <2>6. ap'[a] \in ApplierState /\ Local(a)'
    <3>1. ap'[a] = Advance(ap[a], a) /\ live'[f] \in Patches
      BY <2>1, <2>2 DEF TypeOK
    <3>2. QED
      BY <1>1, <2>3, <3>1, AdvanceIsLocal
  <2>7. ASSUME NEW b \in Appliers \ {a}
        PROVE  ap'[b] \in ApplierState /\ SameBut(b)
    <3> DEFINE at == Renamed(b, f)
    <3>1. ap[b] \in ApplierState
      BY <2>2
    <3>2. at \in Places \cup {"gone", None}
      BY <3>1 DEF Renamed, ApplierState, Places
    <3>3. ap'[b] = [ap[b] EXCEPT !.at = at]
      BY <2>1
    <3> HIDE DEF at
    <3>4. ap'[b] \in ApplierState
      BY <3>1, <3>2, <3>3 DEF ApplierState
    <3>5. QED
      BY <3>1, <3>3, <3>4 DEF ApplierState, SameBut
  <2>8. ap' \in [Appliers -> ApplierState]
    BY <2>1, <2>6, <2>7
  <2>9. QED
    BY <2>1, <2>3, <2>4, <2>5, <2>6, <2>7, <2>8, FileStep
<1>4. QED
  BY <1>2, <1>3

-----------------------------------------------------------------------------
(* Recording, failing.                                                     *)

LEMMA RecordReadStep ==
    ASSUME IInv, NEW a \in Appliers, up, RecordRead(a),
           UNCHANGED <<repoVars, procVars, faults>>
    PROVE  IInv'
<1> DEFINE seen == IF NeedsRestart(a) THEN restartRow ELSE None
<1>1. /\ ap[a].pc = "record" /\ TypeOK /\ Local(a)
      /\ ap \in [Appliers -> ApplierState] /\ seen \in Patches \cup {None}
  BY DEF RecordRead, IInv, TypeOK
<1>2. /\ ap' = [ap EXCEPT ![a].pc = "save", ![a].seen = seen]
      /\ UNCHANGED <<diskVars, dbVars, vouched>>
  BY DEF RecordRead
<1> HIDE DEF seen
<1>3. /\ ap'[a] = [ap[a] EXCEPT !.pc = "save", !.seen = seen]
      /\ \A b \in Appliers \ {a} : ap'[b] = ap[b]
  BY <1>1, <1>2
<1>4. ap'[a] \in ApplierState
  BY <1>1, <1>3 DEF ApplierState, Pc
<1>5. /\ ap'[a].pc = "save" /\ ap'[a].m = ap[a].m /\ ap'[a].ok = ap[a].ok
      /\ ap'[a].i = ap[a].i
  BY <1>1, <1>3 DEF ApplierState
<1>6. Local(a)'
  BY <1>1, <1>2, <1>5 DEF Local, LocalM, LocalEarly, LocalI, LocalDownload,
     LocalPayload, LocalWritten, LocalStaged, LocalOk, HasManifest, InList,
     FileSteps, Delivered, diskVars
<1>7. ap' \in [Appliers -> ApplierState]
  BY <1>1, <1>2, <1>3, <1>4
<1>8. vouched' \subseteq Patches /\ faults' \in Nat
  BY <1>2 DEF IInv, TypeOK
<1>9. QED
  BY <1>2, <1>3, <1>6, <1>7, <1>8, QuietStep

LEMMA RecordSaveStep ==
    ASSUME IInv, NEW a \in Appliers, up, RecordSave(a),
           UNCHANGED <<repoVars, procVars, faults>>
    PROVE  IInv'
<1>1. /\ TypeOK /\ RecordedOnce /\ DiskOK /\ ap \in [Appliers -> ApplierState]
      /\ ap[a].m \in Patches
  BY DEF RecordSave, IInv, TypeOK, Local, LocalM, HasManifest
<1>2. CASE UNCHANGED dbVars
  <2>1. faults' \in Nat /\ Return(a) /\ UNCHANGED <<diskVars, vouched>>
    BY DEF IInv, TypeOK, RecordSave
  <2>2. QED
    BY <1>2, <2>1, ReturnStep
<1>3. CASE ~UNCHANGED dbVars
  <2>1. /\ done' = done \cup {ap[a].m} /\ ap[a].m \notin done
        /\ okRows' = [okRows EXCEPT ![ap[a].m] = @ + 1]
        /\ restartRow' \in {ap[a].m, restartRow}
        /\ Return(a) /\ UNCHANGED <<diskVars, vouched>>
    BY <1>3 DEF RecordSave, SaveConflicts
  <2>2. /\ ap'[a] = Idle /\ \A b \in Appliers \ {a} : ap'[b] = ap[b]
        /\ ap' \in [Appliers -> ApplierState]
    BY <1>1, <2>1, IdleType DEF Return
  <2>3. RecordedOnce'
    BY <1>1, <2>1 DEF RecordedOnce, TypeOK
  <2>4. okRows' \in [Patches -> 0..1]
    BY <1>1, <2>1 DEF RecordedOnce, TypeOK
  <2>5. TypeOK' /\ up'
    BY <1>1, <2>1, <2>2, <2>4 DEF TypeOK, diskVars, repoVars, procVars
  <2>6. Kept /\ DiskOK'
    BY <1>1, <2>1 DEF Kept, Delivered, DiskOK, diskVars
  <2>7. QED
    BY <2>2, <2>3, <2>5, <2>6, IdleIsLocal, StepOfOne DEF SameBut
<1>4. QED
  BY <1>2, <1>3

LEMMA FailStep ==
    ASSUME IInv, NEW a \in Appliers, up, CallFails(a),
           UNCHANGED <<repoVars, procVars>>
    PROVE  IInv'
<1>1. faults' \in Nat
  BY DEF CallFails, IInv, TypeOK
<1>2. CASE Throw(a)
  BY <1>1, <1>2, ReturnStep DEF Throw
<1>3. CASE Download(a, Garbage)
  BY <1>1, <1>3, DownloadStep DEF Content
<1>4. QED
  BY <1>2, <1>3 DEF CallFails

LEMMA ApplyingStep ==
    ASSUME IInv, NEW a \in Appliers, Applying(a)
    PROVE  IInv'
<1>1. up /\ UNCHANGED <<repoVars, procVars>>
  BY DEF Applying
<1>2. CASE CallFails(a)
  BY <1>1, <1>2, FailStep
<1>3. CASE (Begin(a) \/ Step(a)) /\ UNCHANGED faults
  <2>1. CASE Download(a, ap[a].m)
    <3>1. ap[a].m \in Content /\ faults' \in Nat
      BY <1>3, <2>1 DEF Download, IInv, TypeOK, Local, LocalM, HasManifest, Content
    <3>2. QED
      BY <1>1, <2>1, <3>1, DownloadStep
  <2>2. QED
    BY <1>1, <1>3, <2>1, BeginStep, FetchStep, CheckStep, SignatureStep, GateStep,
       BackupStep, OpenStep, CloseStep, MoveStep, RecordReadStep, RecordSaveStep
       DEF Step
<1>4. QED
  BY <1>2, <1>3 DEF Applying

-----------------------------------------------------------------------------
(* The environment, stopping and booting.                                  *)

LEMMA EnvStep ==
    ASSUME IInv, Publish \/ SaveSettings
    PROVE  IInv'
<1>1. TypeOK'
  BY DEF IInv, TypeOK, Publish, SaveSettings, diskVars, dbVars, procVars
<1>2. UNCHANGED <<diskVars, dbVars, procVars, ap, vouched>>
  BY DEF Publish, SaveSettings
<1>3. DiskOK' /\ DownIsIdle' /\ RecordedOnce'
  BY <1>2 DEF IInv, DiskOK, DownIsIdle, RecordedOnce, diskVars, dbVars, procVars
<1>4. \A b \in Appliers : Local(b)'
  <2> TAKE b \in Appliers
  <2>1. Kept /\ SameBut(b)
    BY <1>2 DEF Kept, SameBut, Delivered, diskVars
  <2>2. QED
    BY <2>1, OthersKeep DEF IInv
<1>5. QED
  BY <1>1, <1>3, <1>4 DEF IInv

LEMMA RestartStep ==
    ASSUME IInv, Restart
    PROVE  IInv'
<1>1. TypeOK'
  BY DEF IInv, TypeOK, Restart, diskVars, repoVars
<1>2. UNCHANGED <<diskVars, done, okRows, up, ap, vouched>>
  BY DEF Restart
<1>3. DiskOK' /\ DownIsIdle' /\ RecordedOnce'
  BY <1>2 DEF IInv, DiskOK, DownIsIdle, RecordedOnce, diskVars
<1>4. \A b \in Appliers : Local(b)'
  <2> TAKE b \in Appliers
  <2>1. Kept /\ SameBut(b)
    BY <1>2 DEF Kept, SameBut, Delivered, diskVars
  <2>2. QED
    BY <2>1, OthersKeep DEF IInv
<1>5. QED
  BY <1>1, <1>3, <1>4 DEF IInv

LEMMA DownStep ==
    ASSUME IInv, Down, faults' \in Nat
    PROVE  IInv'
<1>1. ap' = [a \in Appliers |-> Idle] /\ ap' \in [Appliers -> ApplierState]
  BY IdleType DEF Down
<1>2. TypeOK'
  BY <1>1 DEF IInv, TypeOK, Down, diskVars, dbVars, repoVars
<1>3. DiskOK' /\ DownIsIdle' /\ RecordedOnce'
  BY <1>1 DEF IInv, DiskOK, DownIsIdle, RecordedOnce, Down, diskVars, dbVars
<1>4. QED
  BY <1>1, <1>2, <1>3, IdleIsLocal DEF IInv

\* The boot hook runs while nobody applies anything.
LEMMA BootStep ==
    ASSUME IInv, Boot
    PROVE  IInv'
<1>1. /\ TypeOK /\ DiskOK /\ RecordedOnce
      /\ ~up /\ \A a \in Appliers : ap'[a] = Idle
  BY DEF IInv, DownIsIdle, Boot, BootSwap, BootSwapFails, BootFinish
<1>2. TypeOK' /\ DiskOK'
  <2>1. CASE \E f \in Files : BootSwap(f)
    <3>1. PICK f \in Files : BootSwap(f)
      BY <2>1
    <3>2. /\ torn \subseteq ({"live", "tmp", "staged", "gone"} \X Files)
          /\ <<"live", f>> \in {"live", "tmp", "staged", "gone"} \X Files
      BY <1>1 DEF TypeOK
    <3>3. torn' \subseteq ({"live", "tmp", "staged", "gone"} \X Files)
      BY <3>1, <3>2 DEF BootSwap
    <3>4. TypeOK'
      BY <1>1, <3>1, <3>3 DEF TypeOK, BootSwap, Content, repoVars, dbVars, procVars
    <3>5. DiskOK'
      BY <1>1, <3>1 DEF TypeOK, DiskOK, BootSwap
    <3>6. QED
      BY <3>4, <3>5
  <2>2. CASE \E f \in Files : BootSwapFails(f)
    BY <1>1, <2>2 DEF TypeOK, DiskOK, BootSwapFails, repoVars, dbVars, diskVars
  <2>3. CASE BootFinish
    <3>1. torn' \subseteq torn
      BY <2>3 DEF BootFinish
    <3>2. QED
      BY <1>1, <2>3, <3>1 DEF TypeOK, DiskOK, BootFinish, Content, repoVars, dbVars
  <2>4. QED
    BY <2>1, <2>2, <2>3 DEF Boot
<1>3. RecordedOnce' /\ DownIsIdle'
  BY <1>1 DEF RecordedOnce, DownIsIdle, Boot, BootSwap, BootSwapFails, BootFinish,
     dbVars
<1>4. QED
  BY <1>1, <1>2, <1>3, IdleIsLocal DEF IInv

-----------------------------------------------------------------------------
(* The theorems.                                                           *)

LEMMA InitInv == Init => IInv
<1> SUFFICES ASSUME Init PROVE IInv
  OBVIOUS
<1>1. ap \in [Appliers -> ApplierState] /\ \A a \in Appliers : ap[a] = Idle
  BY IdleType DEF Init
<1>2. TypeOK
  <2>1. /\ live \in [Files -> Content] /\ tmp \in [Files -> Content]
        /\ staged \in [Files -> Content] /\ preboot \in [Files -> Content]
        /\ backup \in [Patches -> [Files -> Content]]
    BY DEF Init, Content
  <2>2. okRows \in [Patches -> 0..1]
    BY DEF Init
  <2>3. QED
    BY <1>1, <2>1, <2>2 DEF Init, TypeOK
<1>3. DiskOK /\ DownIsIdle /\ RecordedOnce
  BY DEF Init, DiskOK, DownIsIdle, RecordedOnce
<1>4. \A a \in Appliers : Local(a)
  BY <1>1 DEF Local, LocalM, LocalEarly, LocalI, LocalDownload, LocalPayload,
     LocalWritten, LocalStaged, LocalOk, Idle, HasManifest, InList, FileSteps
<1>5. QED
  BY <1>2, <1>3, <1>4 DEF IInv

LEMMA NextInv == IInv /\ [Next]_vars => IInv'
<1> SUFFICES ASSUME IInv, [Next]_vars PROVE IInv'
  OBVIOUS
<1>1. CASE UNCHANGED vars
  <2>1. TypeOK' /\ DiskOK' /\ DownIsIdle' /\ RecordedOnce'
    BY <1>1 DEF IInv, TypeOK, DiskOK, DownIsIdle, RecordedOnce, vars, repoVars,
       diskVars, dbVars, procVars
  <2>2. \A b \in Appliers : Local(b)'
    <3> TAKE b \in Appliers
    <3>1. Kept /\ SameBut(b)
      BY <1>1 DEF Kept, SameBut, Delivered, vars, diskVars
    <3>2. QED
      BY <3>1, OthersKeep DEF IInv
  <2>3. QED
    BY <2>1, <2>2 DEF IInv
<1>2. CASE Stop \/ Kill
  <2>1. Down /\ faults' \in Nat
    BY <1>2 DEF Stop, Kill, IInv, TypeOK
  <2>2. QED
    BY <2>1, DownStep
<1>3. QED
  BY <1>1, <1>2, EnvStep, ApplyingStep, RestartStep, BootStep DEF Next

\* Every state of the pipeline is well-typed.
THEOREM TypeCorrect == Spec => []TypeOK
<1>1. IInv => TypeOK
  BY DEF IInv
<1>2. QED
  BY <1>1, InitInv, NextInv, PTL DEF Spec

LEMMA Invariance == Spec => []IInv
  BY InitInv, NextInv, PTL DEF Spec

\* Bytes that do not match the manifest never reach a file, and no byte of a
\* patch is on disk before all of the patch has been verified, for any number
\* of appliers and whatever fails.
THEOREM AllVerifiedFirst == Spec => []VerifiedBeforeWritten
<1>1. IInv => VerifiedBeforeWritten
  BY PatchesAssumption
     DEF IInv, TypeOK, DiskOK, VerifiedBeforeWritten, OnDisk
<1>2. QED
  BY <1>1, Invariance, PTL

\* A patch is in the history as applied once, exactly when it is marked done.
THEOREM AppliedOnce == Spec => []RecordedOnce
<1>1. IInv => RecordedOnce
  BY DEF IInv
<1>2. QED
  BY <1>1, Invariance, PTL

-----------------------------------------------------------------------------
(* Nothing that was delivered is lost, as long as the boot hook does not   *)
(* fail: only then does it delete files it has not swapped.                *)

\* A step that delivers keeps, and a boot that skips nothing loses nothing.
LEMMA DeliveredStays ==
    ASSUME IInv, NothingSkipped, "boot" \notin FaultKinds, Next,
           NEW f \in Files, Delivered(f)
    PROVE  Delivered(f)'
<1>1. CASE UNCHANGED <<live, staged>>
  BY <1>1 DEF Delivered
<1>2. CASE \E g \in Files : BootSwap(g)
  BY <1>2 DEF BootSwap, Delivered, IInv, TypeOK, DiskOK
<1>3. CASE BootFinish
  <2>1. live[f] \in Patches
    BY <1>3, PatchesAssumption
       DEF BootFinish, HookOver, NothingSkipped, Delivered, Absent
  <2>2. QED
    BY <1>3, <2>1 DEF BootFinish, Delivered
<1>4. ASSUME NEW a \in Appliers, MoveFile(a)
      PROVE  Delivered(f)'
  <2>1. ap[a].pc \in FileSteps /\ TypeOK
    BY <1>4 DEF MoveFile, FileSteps, IInv
  <2>2. Cur(a) \in Files /\ (tmp[Cur(a)] # Absent => tmp[Cur(a)] \in Patches)
    BY <2>1, InPhase2 DEF IInv, DiskOK, TypeOK
  <2>3. QED
    BY <1>4, <2>1, <2>2 DEF MoveFile, Throw, diskVars, Delivered, TypeOK
<1>5. ASSUME NEW a \in Appliers, OpenFile(a)
      PROVE  Delivered(f)'
  <2>1. ap[a].pc \in FileSteps /\ TypeOK
    BY <1>5 DEF OpenFile, FileSteps, IInv
  <2>2. Cur(a) \in Files /\ Bytes(a) \in Patches
    BY <2>1, InPhase2
  <2>3. QED
    BY <1>5, <2>1, <2>2 DEF OpenFile, Throw, diskVars, Delivered, TypeOK
<1>6. CASE \E a \in Appliers : Applying(a)
  <2>1. PICK a \in Appliers : Applying(a)
    BY <1>6
  <2>2. QED
    BY <1>1, <1>4, <1>5, <2>1 DEF Applying, CallFails, Step, Throw, Begin,
       FetchManifest, CheckDone, VerifySignature, Gate, Download, BackupFile,
       CloseFile, RecordRead, RecordSave, diskVars
<1>7. QED
  BY <1>1, <1>2, <1>3, <1>6 DEF Next, Publish, SaveSettings, Restart, Stop, Kill,
     Down, Boot, BootSwapFails, diskVars

\* A patch becomes done only when all of it has been delivered.
LEMMA DoneIsDelivered ==
    ASSUME IInv, Next, NEW p \in done' \ done
    PROVE  /\ p \in Patches /\ UNCHANGED <<live, staged>>
           /\ \A f \in FilesOf(p) : Delivered(f)
<1>1. PICK a \in Appliers : RecordSave(a)
  BY ZenonT(30) DEF Next, Publish, SaveSettings, Restart, Stop, Kill, Down, Boot, BootSwap,
     BootSwapFails, BootFinish, Applying, CallFails, Step, Throw, Begin,
     FetchManifest, CheckDone, VerifySignature, Gate, Download, BackupFile,
     OpenFile, CloseFile, MoveFile, RecordRead, dbVars
<1>2. p = ap[a].m /\ ap[a].ok /\ ap[a].pc = "save"
  BY <1>1 DEF RecordSave, dbVars
<1>3. p \in Patches /\ UNCHANGED <<live, staged>>
  BY <1>1, <1>2 DEF RecordSave, diskVars, IInv, Local, LocalM, HasManifest
<1>4. \A j \in 1..Len(Manifest[p]) : Delivered(Manifest[p][j])
  BY <1>2 DEF IInv, Local, LocalOk
<1>5. QED
  BY <1>3, <1>4 DEF FilesOf, Range

\* Every file of a patch marked done holds patched bytes or waits for the
\* next boot, provided the boot hook never fails.
THEOREM DoneDelivered ==
    "boot" \notin FaultKinds => (Spec => []DoneIsOnDisk)
<1> SUFFICES ASSUME "boot" \notin FaultKinds PROVE Spec => []DoneIsOnDisk
  OBVIOUS
<1>1. Init => DoneInv
  BY InitInv DEF DoneInv, NothingSkipped, DoneIsOnDisk, Init
<1>2. DoneInv /\ [Next]_vars => DoneInv'
  <2> SUFFICES ASSUME DoneInv, [Next]_vars PROVE DoneInv'
    OBVIOUS
  <2>1. IInv'
    BY NextInv DEF DoneInv
  <2>2. NothingSkipped'
    BY DEF DoneInv, NothingSkipped, Next, vars, procVars, Publish, SaveSettings,
       Applying, Restart, Stop, Kill, Down, Boot, BootSwap, BootSwapFails,
       BootFinish
  <2>3. DoneIsOnDisk'
    <3>1. CASE UNCHANGED vars
      BY <3>1 DEF vars, diskVars, dbVars, DoneInv, DoneIsOnDisk
    <3>2. CASE Next
      <4> SUFFICES ASSUME NEW p \in done', NEW f \in FilesOf(p)
                   PROVE  Delivered(f)'
        BY DEF DoneIsOnDisk, Delivered
      <4>1. CASE p \in done
        <5>1. Delivered(f)
          BY <4>1 DEF DoneInv, DoneIsOnDisk, Delivered
        <5>2. f \in Files
          BY <4>1, PatchesAssumption
             DEF DoneInv, IInv, TypeOK, FilesOf, Range
        <5>3. QED
          BY <3>2, <5>1, <5>2, DeliveredStays DEF DoneInv
      <4>2. CASE p \notin done
        BY <3>2, <4>2, DoneIsDelivered DEF DoneInv, Delivered
      <4>3. QED
        BY <4>1, <4>2
    <3>3. QED
      BY <3>1, <3>2
  <2>4. QED
    BY <2>1, <2>2, <2>3 DEF DoneInv
<1>3. DoneInv => DoneIsOnDisk
  BY DEF DoneInv
<1>4. QED
  BY <1>1, <1>2, <1>3, PTL DEF Spec
=============================================================================
