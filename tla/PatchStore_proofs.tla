-------------------------- MODULE PatchStore_proofs --------------------------
(***************************************************************************)
(* The pipeline implements PatchStore, for any number of appliers and      *)
(* whatever fails; and if the update loop is the only applier, a copy      *)
(* precedes every replacement of a file.                                   *)
(***************************************************************************)
EXTENDS PatchPipeline_proofs

-----------------------------------------------------------------------------
(* What a patch may write: only files its manifest names, and in place only *)
(* those the process has not loaded.                                        *)

\* Only files that are replaced in place are backed up and moved.
Kind(a) == ap[a].pc \in {"backup", "move"} => ~IsBinary(Cur(a))

\* A staged or temporary file is one that its patch names.
StagedNamed == \A f \in Files : staged[f] \in Patches => f \in FilesOf(staged[f])
TmpNamed == \A f \in Files : tmp[f] \in Patches => f \in FilesOf(tmp[f])

StoreInv == IInv /\ StagedNamed /\ TmpNamed /\ \A a \in Appliers : Kind(a)

\* Only OpenFile stages, and only the file it is at.
LEMMA StagedStep ==
    ASSUME IInv, StagedNamed, Next
    PROVE  StagedNamed'
<1>1. CASE staged' = staged
  BY <1>1 DEF StagedNamed
<1>2. CASE BootFinish \/ \E f \in Files : BootSwap(f)
  BY <1>2, PatchesAssumption DEF BootFinish, BootSwap, StagedNamed, IInv, TypeOK
<1>3. ASSUME NEW a \in Appliers, OpenFile(a)
      PROVE  StagedNamed'
  <2>1. /\ Cur(a) \in Files /\ Bytes(a) = ap[a].m /\ Cur(a) \in FilesOf(ap[a].m)
        /\ TypeOK
    BY <1>3, InPhase2 DEF OpenFile, FileSteps, FilesOf, Range
  <2>2. staged' \in {staged, [staged EXCEPT ![Cur(a)] = ap[a].m]}
    BY <1>3, <2>1 DEF OpenFile, Throw, diskVars
  <2> QED
    BY <2>1, <2>2 DEF StagedNamed, TypeOK
<1>4. CASE \E a \in Appliers : Applying(a)
  <2>1. PICK a \in Appliers : Applying(a)
    BY <1>4
  <2> QED
    BY <1>1, <1>3, <2>1 DEF Applying, CallFails, Step, Throw, Begin,
       FetchManifest, CheckDone, VerifySignature, Gate, Download, BackupFile,
       CloseFile, MoveFile, RecordRead, RecordSave, diskVars
<1> QED
  BY <1>1, <1>2, <1>4 DEF Next, Publish, SaveSettings, Restart, Stop, Kill,
     Down, Boot, BootSwapFails, diskVars

\* OpenFile writes the temporary file of the file it is at; a move takes one
\* away.
LEMMA TmpStep ==
    ASSUME IInv, TmpNamed, Next
    PROVE  TmpNamed'
<1>1. CASE tmp' = tmp
  BY <1>1 DEF TmpNamed
<1>2. ASSUME NEW a \in Appliers, OpenFile(a)
      PROVE  TmpNamed'
  <2>1. /\ Cur(a) \in Files /\ Bytes(a) = ap[a].m /\ Cur(a) \in FilesOf(ap[a].m)
        /\ TypeOK
    BY <1>2, InPhase2 DEF OpenFile, FileSteps, FilesOf, Range
  <2>2. tmp' \in {tmp, [tmp EXCEPT ![Cur(a)] = ap[a].m]}
    BY <1>2, <2>1 DEF OpenFile, Throw, diskVars
  <2> QED
    BY <2>1, <2>2 DEF TmpNamed, TypeOK
<1>3. ASSUME NEW a \in Appliers, MoveFile(a)
      PROVE  TmpNamed'
  <2>1. tmp' \in {tmp, [tmp EXCEPT ![Cur(a)] = Absent]}
    BY <1>3 DEF MoveFile, Throw, diskVars
  <2> QED
    BY <2>1, PatchesAssumption DEF TmpNamed, IInv, TypeOK
<1>4. CASE \E a \in Appliers : Applying(a)
  <2>1. PICK a \in Appliers : Applying(a)
    BY <1>4
  <2> QED
    BY <1>1, <1>2, <1>3, <2>1 DEF Applying, CallFails, Step, Throw, Begin,
       FetchManifest, CheckDone, VerifySignature, Gate, Download, BackupFile,
       CloseFile, RecordRead, RecordSave, diskVars
<1> QED
  BY <1>1, <1>4 DEF Next, Publish, SaveSettings, Restart, Stop, Kill, Down, Boot,
     BootSwap, BootSwapFails, BootFinish, diskVars

\* An applier whose place in its manifest stays as it is.
LEMMA KindKept ==
    ASSUME NEW a \in Appliers, Kind(a), ap'[a].pc = ap[a].pc, ap'[a].m = ap[a].m,
           ap'[a].i = ap[a].i
    PROVE  Kind(a)'
  BY DEF Kind, Cur, IsBinary

\* An applier that comes to a file.
LEMMA KindOfNew ==
    ASSUME NEW a \in Appliers, NEW p, NEW k,
           ap'[a].pc = Phase2(Manifest[p][k]), ap'[a].m = p, ap'[a].i = k
    PROVE  Kind(a)'
<1>1. Cur(a)' = Manifest[p][k]
  BY DEF Cur
<1> QED
  BY <1>1 DEF Phase2, Kind, IsBinary

LEMMA KindOfAdvance ==
    ASSUME IInv, NEW a \in Appliers, ap'[a] = Advance(ap[a], a)
    PROVE  Kind(a)'
<1>1. ap[a] \in ApplierState
  BY DEF IInv, TypeOK
<1>2. CASE Last(a)
  <2>1. ap'[a].pc = "record"
    BY <1>1, <1>2 DEF Advance, ApplierState
  <2> QED
    BY <2>1 DEF Kind
<1>3. CASE ~Last(a)
  <2> DEFINE k == ap[a].i + 1
             q == Phase2(Manifest[ap[a].m][k])
  <2>1. ap'[a] = [ap[a] EXCEPT !.i = k, !.pc = q, !.at = None]
    BY <1>3 DEF Advance
  <2> HIDE DEF q, k
  <2>2. ap'[a].pc = q /\ ap'[a].m = ap[a].m /\ ap'[a].i = k
    BY <1>1, <2>1 DEF ApplierState
  <2> QED
    BY <2>2, KindOfNew DEF q
<1> QED
  BY <1>2, <1>3

\* The first file comes after the last download.
LEMMA KindOfDownload ==
    ASSUME IInv, NEW a \in Appliers, NEW bytes \in Content, Download(a, bytes)
    PROVE  Kind(a)'
<1>1. ap[a] \in ApplierState /\ ap \in [Appliers -> ApplierState]
  BY DEF IInv, TypeOK
<1>2. CASE ap'[a].pc \notin FileSteps
  BY <1>2 DEF Kind, FileSteps
<1>3. CASE ap'[a].pc \in FileSteps
  <2>1. /\ ap'[a].pc = Phase2(Manifest[ap[a].m][1])
        /\ ap'[a].m = ap[a].m /\ ap'[a].i = 1
    BY <1>1, <1>3 DEF Download, Goto, Phase1Over, FileSteps, ApplierState
  <2> QED
    BY <2>1, KindOfNew
<1> QED
  BY <1>2, <1>3

\* The steps of one applier.
LEMMA KindOfStep ==
    ASSUME IInv, NEW a \in Appliers, Kind(a), Applying(a)
    PROVE  Kind(a)'
<1>1. ap[a] \in ApplierState /\ ap \in [Appliers -> ApplierState]
  BY DEF IInv, TypeOK
<1>2. CASE Throw(a)
  BY <1>1, <1>2 DEF Throw, Return, Kind, Idle
<1>3. CASE Download(a, ap[a].m) \/ Download(a, Garbage)
  <2>1. ap[a].m \in Content /\ Garbage \in Content
    BY <1>3 DEF Download, IInv, TypeOK, Local, LocalM, HasManifest, Content
  <2> QED
    BY <1>3, <2>1, KindOfDownload
<1>4. CASE (BackupFile(a) \/ OpenFile(a)) /\ ~Throw(a)
  <2>1. ap'[a].pc \in {"open", "writing"}
    BY <1>1, <1>4 DEF BackupFile, OpenFile, Goto, ApplierState
  <2> QED
    BY <2>1 DEF Kind
<1>5. CASE CloseFile(a)
  <2>1. CASE IsBinary(Cur(a))
    <3>1. ap'[a] = Advance(ap[a], a)
      BY <1>1, <1>5, <2>1 DEF CloseFile
    <3> QED
      BY <3>1, KindOfAdvance
  <2>2. CASE ~IsBinary(Cur(a))
    <3>1. ap'[a] = [ap[a] EXCEPT !.pc = "move", !.at = None]
      BY <1>1, <1>5, <2>2 DEF CloseFile
    <3>2. ap'[a].m = ap[a].m /\ ap'[a].i = ap[a].i
      BY <1>1, <3>1 DEF ApplierState
    <3>3. Cur(a)' = Cur(a)
      BY <3>2 DEF Cur
    <3> QED
      BY <2>2, <3>3 DEF Kind, IsBinary
  <2> QED
    BY <2>1, <2>2
<1>6. CASE MoveFile(a) /\ ~Throw(a)
  <2>1. ap'[a] = Advance(ap[a], a)
    BY <1>1, <1>6 DEF MoveFile
  <2> QED
    BY <2>1, KindOfAdvance
<1>7. CASE Begin(a) \/ FetchManifest(a) \/ CheckDone(a) \/ VerifySignature(a)
             \/ Gate(a) \/ RecordRead(a) \/ RecordSave(a)
  <2>1. ap'[a].pc \notin FileSteps
    BY <1>1, <1>7 DEF Begin, FetchManifest, CheckDone, VerifySignature, Gate,
       RecordRead, RecordSave, Goto, Return, Idle, FileSteps, ApplierState
  <2> QED
    BY <2>1 DEF Kind, FileSteps
<1> QED
  BY <1>2, <1>3, <1>4, <1>5, <1>6, <1>7 DEF Applying, CallFails, Step

\* One applier leaves the others where they are.
LEMMA OthersStay ==
    ASSUME IInv, NEW a \in Appliers, NEW b \in Appliers \ {a}, Applying(a)
    PROVE  ap'[b].pc = ap[b].pc /\ ap'[b].m = ap[b].m /\ ap'[b].i = ap[b].i
<1>1. ap[b] \in ApplierState /\ ap \in [Appliers -> ApplierState]
  BY DEF IInv, TypeOK
<1>2. CASE ap'[b] = ap[b]
  BY <1>2
<1>3. CASE MoveFile(a) /\ ~Throw(a)
  <2>1. ap'[b] = [ap[b] EXCEPT !.at = Renamed(b, Cur(a))]
    BY <1>3 DEF MoveFile
  <2> QED
    BY <1>1, <2>1 DEF ApplierState
<1> QED
  BY <1>1, <1>2, <1>3 DEF Applying, CallFails, Step, Throw, Return, Begin,
     FetchManifest, CheckDone, VerifySignature, Gate, Goto, Download, BackupFile,
     OpenFile, CloseFile, RecordRead, RecordSave

LEMMA KindStep ==
    ASSUME StoreInv, Next, NEW b \in Appliers
    PROVE  Kind(b)'
<1>1. IInv /\ Kind(b)
  BY DEF StoreInv
<1>2. CASE ap' = ap
  BY <1>1, <1>2, KindKept
<1>3. CASE Stop \/ Kill
  BY <1>3 DEF Stop, Kill, Down, Kind, Idle
<1>4. ASSUME NEW a \in Appliers, Applying(a)
      PROVE  Kind(b)'
  BY <1>1, <1>4, KindOfStep, OthersStay, KindKept
<1> QED
  BY <1>2, <1>3, <1>4 DEF Next, Publish, SaveSettings, Restart, Boot, BootSwap,
     BootSwapFails, BootFinish, procVars

LEMMA StoreInvInit == Init => StoreInv
<1> SUFFICES ASSUME Init PROVE StoreInv
  OBVIOUS
<1>1. \A a \in Appliers : Kind(a)
  BY DEF Init, Kind, Idle
<1>2. StagedNamed /\ TmpNamed
  BY PatchesAssumption DEF Init, StagedNamed, TmpNamed
<1> QED
  BY <1>1, <1>2, InitInv DEF StoreInv

LEMMA StoreInvNext == StoreInv /\ [Next]_vars => StoreInv'
<1> SUFFICES ASSUME StoreInv, [Next]_vars PROVE StoreInv'
  OBVIOUS
<1>1. IInv'
  BY NextInv DEF StoreInv
<1>2. CASE UNCHANGED vars
  <2>1. UNCHANGED <<ap, tmp, staged>>
    BY <1>2 DEF vars, diskVars
  <2> QED
    BY <1>1, <2>1, KindKept DEF StoreInv, StagedNamed, TmpNamed
<1>3. CASE Next
  BY <1>1, <1>3, StagedStep, TmpStep, KindStep DEF StoreInv
<1> QED
  BY <1>2, <1>3

\* The two steps that replace a live file.
LEMMA LiveChanges ==
    ASSUME IInv, Next, NEW f \in Files, live'[f] # live[f]
    PROVE  \/ BootSwap(f)
           \/ \E a \in Appliers :
                 /\ ap[a].pc = "move" /\ f = Cur(a) /\ tmp[f] # Absent
                 /\ live' = [live EXCEPT ![f] = tmp[f]]
                 /\ UNCHANGED <<backup, up, vouched>>
<1>1. live' # live /\ TypeOK
  BY DEF IInv
<1>2. CASE \E g \in Files : BootSwap(g)
  BY <1>1, <1>2 DEF BootSwap, TypeOK
<1>3. ASSUME NEW a \in Appliers, Applying(a)
      PROVE  /\ ap[a].pc = "move" /\ f = Cur(a) /\ tmp[f] # Absent
             /\ live' = [live EXCEPT ![f] = tmp[f]]
             /\ UNCHANGED <<backup, up, vouched>>
  <2>1. MoveFile(a)
    BY <1>1, <1>3 DEF Applying, CallFails, Step, Throw, Begin, FetchManifest,
       CheckDone, VerifySignature, Gate, Download, BackupFile, OpenFile, CloseFile,
       RecordRead, RecordSave, diskVars
  <2>2. /\ live' = [live EXCEPT ![Cur(a)] = tmp[Cur(a)]] /\ tmp[Cur(a)] # Absent
        /\ backup' = backup /\ vouched' = vouched /\ ap[a].pc = "move"
    BY <1>1, <2>1 DEF MoveFile, Throw, diskVars
  <2> QED
    BY <1>1, <1>3, <2>2 DEF TypeOK, Applying, procVars
<1> QED
  BY <1>1, <1>2, <1>3 DEF Next, Publish, SaveSettings, Restart, Stop, Kill, Down,
     Boot, BootSwapFails, BootFinish, diskVars

-----------------------------------------------------------------------------
(* The refinement.                                                          *)

LEMMA StoreInitial == Init => Store!StoreInit
  BY DEF Init, Store!StoreInit, Orig, Absent

\* Every step is a step of the store or leaves it as it is.
LEMMA StoreStep ==
    ASSUME StoreInv, Next, TypeOK'
    PROVE  [Store!StoreNext]_(Store!storeVars)
<1>1. IInv /\ TypeOK /\ DiskOK
  BY DEF StoreInv, IInv
<1>2. ASSUME NEW f \in Files, live'[f] # live[f]
      PROVE  Store!StoreNext
  <2>1. CASE BootSwap(f)
    <3>1. /\ live' = [live EXCEPT ![f] = staged[f]] /\ UNCHANGED <<up, vouched>>
          /\ staged[f] \in vouched /\ ~up
      BY <1>1, <2>1 DEF BootSwap, DiskOK, procVars
    <3>2. staged[f] \in Patches /\ f \in FilesOf(staged[f])
      BY <1>1, <3>1 DEF TypeOK, StoreInv, StagedNamed
    <3> QED
      BY <3>1, <3>2 DEF Store!StoreNext, Store!Replace, FilesOf, Range
  <2>2. ASSUME NEW a \in Appliers, ap[a].pc = "move", f = Cur(a), tmp[f] # Absent,
               live' = [live EXCEPT ![f] = tmp[f]], UNCHANGED <<up, vouched>>
        PROVE  Store!StoreNext
    <3>1. tmp[f] \in vouched /\ ~IsBinary(f)
      BY <1>1, <2>2 DEF DiskOK, StoreInv, Kind
    <3>2. tmp[f] \in Patches /\ f \in FilesOf(tmp[f])
      BY <1>1, <3>1 DEF TypeOK, StoreInv, TmpNamed
    <3> QED
      BY <2>2, <3>1, <3>2 DEF Store!StoreNext, Store!Replace, FilesOf, Range
  <2> QED
    BY <1>1, <1>2, <2>1, <2>2, LiveChanges
<1>3. CASE live' = live /\ vouched' # vouched
  <2>1. PICK a \in Appliers : Applying(a)
    BY <1>3 DEF Next, Publish, SaveSettings, Restart, Stop, Kill, Down, Boot,
       BootSwap, BootSwapFails, BootFinish
  <2>2. /\ ap[a].m \in Patches /\ vouched' = vouched \cup {ap[a].m} /\ up' = up
    BY <1>1, <1>3, <2>1 DEF Applying, CallFails, Step, Throw, Begin, FetchManifest,
       CheckDone, VerifySignature, Gate, Download, BackupFile, OpenFile, CloseFile,
       MoveFile, RecordRead, RecordSave, procVars, IInv, Local, LocalM, HasManifest
  <2> QED
    BY <1>1, <1>3, <2>2 DEF Store!StoreNext, Store!Vouch
<1>4. CASE live' = live /\ vouched' = vouched /\ up' # up
  <2>1. up' = ~up
    BY <1>1, <1>4 DEF TypeOK
  <2> QED
    BY <1>1, <1>4, <2>1 DEF Store!StoreNext, Store!StopOrStart
<1>5. CASE UNCHANGED <<live, vouched, up>>
  BY <1>5 DEF Store!storeVars
<1>6. live' # live => \E f \in Files : live'[f] # live[f]
  BY <1>1 DEF TypeOK
<1> QED
  BY <1>2, <1>3, <1>4, <1>5, <1>6

\* The pipeline implements its store: however many appliers race and whatever
\* fails, a file only ever changes to the bytes of a patch that names it and
\* was verified as a whole, and a loaded file only while the host is down.
THEOREM PipelineIsAStore == Spec => ImplementsStore
<1>1. StoreInv /\ StoreInv' /\ [Next]_vars => [Store!StoreNext]_(Store!storeVars)
  <2> SUFFICES ASSUME StoreInv, StoreInv', [Next]_vars
               PROVE  [Store!StoreNext]_(Store!storeVars)
    OBVIOUS
  <2>1. CASE UNCHANGED vars
    BY <2>1 DEF vars, diskVars, procVars, Store!storeVars
  <2>2. CASE Next
    BY <2>2, StoreStep DEF StoreInv, IInv
  <2> QED
    BY <2>1, <2>2
<1> QED
  BY <1>1, StoreInvInit, StoreInvNext, StoreInitial, PTL
     DEF Spec, ImplementsStore, Store!StoreSpec

-----------------------------------------------------------------------------
(* One applier: what it has saved stays as it is until it moves the file.   *)

\* Nobody posts apply-patch: the update loop is the only applier.
OneApplier == Manual = {}

\* What an applier is about to replace is in its backup.
BackedUp(a) ==
    ap[a].pc \in {"open", "writing", "move"} /\ ~IsBinary(Cur(a)) =>
        live[Cur(a)] \in {Absent, backup[ap[a].m][Cur(a)]}

SerialInv == StoreInv /\ BackedUp(Loop)

\* An applier that comes to a file backs it up first, or does not replace it.
LEMMA BackedUpAtNew ==
    ASSUME NEW a \in Appliers, NEW p, NEW k,
           ap'[a].pc = Phase2(Manifest[p][k]), ap'[a].m = p, ap'[a].i = k
    PROVE  BackedUp(a)'
<1>1. Cur(a)' = Manifest[p][k]
  BY DEF Cur
<1> QED
  BY <1>1 DEF Phase2, BackedUp, IsBinary

LEMMA BackedUpAdvance ==
    ASSUME IInv, NEW a \in Appliers, ap'[a] = Advance(ap[a], a)
    PROVE  BackedUp(a)'
<1>1. ap[a] \in ApplierState
  BY DEF IInv, TypeOK
<1>2. CASE Last(a)
  <2>1. ap'[a].pc = "record"
    BY <1>1, <1>2 DEF Advance, ApplierState
  <2> QED
    BY <2>1 DEF BackedUp
<1>3. CASE ~Last(a)
  <2> DEFINE k == ap[a].i + 1
             q == Phase2(Manifest[ap[a].m][k])
  <2>1. ap'[a] = [ap[a] EXCEPT !.i = k, !.pc = q, !.at = None]
    BY <1>3 DEF Advance
  <2> HIDE DEF q, k
  <2>2. ap'[a].pc = q /\ ap'[a].m = ap[a].m /\ ap'[a].i = k
    BY <1>1, <2>1 DEF ApplierState
  <2> QED
    BY <2>2, BackedUpAtNew DEF q
<1> QED
  BY <1>2, <1>3

LEMMA BackedUpStays ==
    ASSUME NEW a \in Appliers, BackedUp(a), UNCHANGED <<live, backup>>,
           ap[a].pc \in {"open", "writing", "move"}, ap'[a].m = ap[a].m,
           ap'[a].i = ap[a].i
    PROVE  BackedUp(a)'
  BY DEF BackedUp, Cur, IsBinary

\* Writing one file: backup, open, write, move.
LEMMA BackedUpFile ==
    ASSUME IInv, NEW a \in Appliers, BackedUp(a),
           BackupFile(a) \/ OpenFile(a) \/ CloseFile(a) \/ MoveFile(a)
    PROVE  BackedUp(a)'
<1>1. /\ TypeOK /\ ap \in [Appliers -> ApplierState] /\ ap[a] \in ApplierState
      /\ ap[a].m \in Patches /\ Cur(a) \in Files
  <2>1. ap[a].pc \in FileSteps
    BY DEF BackupFile, OpenFile, CloseFile, MoveFile, FileSteps
  <2> QED
    BY <2>1, InPhase2
<1>2. CASE Throw(a)
  BY <1>1, <1>2 DEF Throw, Return, BackedUp, Idle
<1>3. CASE BackupFile(a) /\ ~Throw(a)
  <2>1. /\ live' = live
        /\ backup' = IF live[Cur(a)] = Absent THEN backup
                     ELSE [backup EXCEPT ![ap[a].m][Cur(a)] = live[Cur(a)]]
        /\ ap'[a] = [ap[a] EXCEPT !.pc = "open"]
    BY <1>1, <1>3 DEF BackupFile, Goto
  <2>2. ap'[a].m = ap[a].m /\ ap'[a].i = ap[a].i
    BY <1>1, <2>1 DEF ApplierState
  <2>3. Cur(a)' = Cur(a)
    BY <2>2 DEF Cur
  <2>4. live'[Cur(a)] \in {Absent, backup'[ap[a].m][Cur(a)]}
    BY <1>1, <2>1 DEF TypeOK
  <2> QED
    BY <2>2, <2>3, <2>4 DEF BackedUp
<1>4. CASE OpenFile(a) /\ ~Throw(a)
  <2>1. /\ ap[a].pc = "open" /\ UNCHANGED <<live, backup>>
        /\ ap'[a].m = ap[a].m /\ ap'[a].i = ap[a].i
    BY <1>1, <1>4 DEF OpenFile, ApplierState
  <2> QED
    BY <2>1, BackedUpStays
<1>5. CASE CloseFile(a)
  <2>1. ap[a].pc = "writing" /\ UNCHANGED <<live, backup>>
    BY <1>5 DEF CloseFile
  <2>2. CASE IsBinary(Cur(a))
    <3>1. ap'[a] = Advance(ap[a], a)
      BY <1>1, <1>5, <2>2 DEF CloseFile
    <3> QED
      BY <3>1, BackedUpAdvance
  <2>3. CASE ~IsBinary(Cur(a))
    <3>1. ap'[a].m = ap[a].m /\ ap'[a].i = ap[a].i
      BY <1>1, <1>5, <2>3 DEF CloseFile, ApplierState
    <3> QED
      BY <2>1, <3>1, BackedUpStays
  <2> QED
    BY <2>2, <2>3
<1>6. CASE MoveFile(a) /\ ~Throw(a)
  <2>1. ap'[a] = Advance(ap[a], a)
    BY <1>1, <1>6 DEF MoveFile
  <2> QED
    BY <2>1, BackedUpAdvance
<1> QED
  BY <1>2, <1>3, <1>4, <1>5, <1>6

LEMMA BackedUpDownload ==
    ASSUME IInv, NEW a \in Appliers, NEW bytes \in Content, Download(a, bytes)
    PROVE  BackedUp(a)'
<1>1. ap[a] \in ApplierState /\ ap \in [Appliers -> ApplierState]
  BY DEF IInv, TypeOK
<1>2. CASE ap'[a].pc \notin FileSteps
  BY <1>2 DEF BackedUp, FileSteps
<1>3. CASE ap'[a].pc \in FileSteps
  <2>1. /\ ap'[a].pc = Phase2(Manifest[ap[a].m][1])
        /\ ap'[a].m = ap[a].m /\ ap'[a].i = 1
    BY <1>1, <1>3 DEF Download, Goto, Phase1Over, FileSteps, ApplierState
  <2> QED
    BY <2>1, BackedUpAtNew
<1> QED
  BY <1>2, <1>3

\* Nothing but the applier disturbs what it knows.
LEMMA SerialStep ==
    ASSUME OneApplier, SerialInv, Next
    PROVE  BackedUp(Loop)'
<1>1. Loop \in Appliers /\ BackedUp(Loop) /\ IInv
  BY DEF Appliers, SerialInv, StoreInv
<1>2. CASE UNCHANGED <<ap, live, backup>>
  BY <1>1, <1>2 DEF BackedUp, Cur, IsBinary
<1>3. CASE Boot \/ Stop \/ Kill
  <2>1. ap'[Loop] = Idle
    BY <1>1, <1>3 DEF IInv, DownIsIdle, Boot, BootSwap, BootSwapFails, BootFinish,
       Stop, Kill, Down
  <2> QED
    BY <2>1 DEF BackedUp, Idle
<1>4. CASE \E a \in Appliers : Applying(a)
  <2>1. Applying(Loop)
    BY <1>4 DEF OneApplier, Appliers
  <2>2. CASE Download(Loop, ap[Loop].m) \/ Download(Loop, Garbage)
    <3>1. ap[Loop].m \in Content /\ Garbage \in Content
      BY <1>1, <2>2 DEF Download, IInv, TypeOK, Local, LocalM, HasManifest, Content
    <3> QED
      BY <1>1, <2>2, <3>1, BackedUpDownload
  <2>3. CASE BackupFile(Loop) \/ OpenFile(Loop) \/ CloseFile(Loop) \/ MoveFile(Loop)
    BY <1>1, <2>3, BackedUpFile
  <2>4. CASE Begin(Loop) \/ FetchManifest(Loop) \/ CheckDone(Loop) \/ Gate(Loop)
               \/ VerifySignature(Loop) \/ RecordRead(Loop) \/ RecordSave(Loop)
               \/ Throw(Loop)
    <3>1. ap \in [Appliers -> ApplierState]
      BY <1>1 DEF IInv, TypeOK
    <3>2. ap'[Loop].pc \notin FileSteps
      BY <1>1, <2>4, <3>1 DEF Begin, FetchManifest, CheckDone, VerifySignature, Gate,
         RecordRead, RecordSave, Throw, Goto, Return, Idle, FileSteps, ApplierState
    <3> QED
      BY <3>2 DEF BackedUp, FileSteps
  <2> QED
    BY <2>1, <2>2, <2>3, <2>4 DEF Applying, CallFails, Step
<1> QED
  BY <1>2, <1>3, <1>4 DEF Next, Publish, SaveSettings, Restart, diskVars

LEMMA SerialInit == Init => SerialInv
<1> SUFFICES ASSUME Init PROVE SerialInv
  OBVIOUS
<1>1. ap[Loop] = Idle
  BY DEF Init, Appliers
<1>2. BackedUp(Loop)
  BY <1>1 DEF BackedUp, Idle
<1> QED
  BY <1>2, StoreInvInit DEF SerialInv

LEMMA SerialNext ==
    ASSUME OneApplier, SerialInv, [Next]_vars
    PROVE  SerialInv'
<1>1. StoreInv'
  BY StoreInvNext DEF SerialInv
<1>2. CASE UNCHANGED vars
  <2>1. UNCHANGED <<ap, live, backup>>
    BY <1>2 DEF vars, diskVars
  <2> QED
    BY <1>1, <2>1 DEF SerialInv, BackedUp, Cur, IsBinary
<1>3. CASE Next
  BY <1>1, <1>3, SerialStep DEF SerialInv
<1> QED
  BY <1>2, <1>3

\* One applier never replaces a file of which it has not left a copy,
\* whatever fails and whenever the server is killed.
THEOREM BackupsPrecede ==
    ASSUME OneApplier
    PROVE  Spec => BackupBeforeOverwrite
<1> DEFINE Saved(f) == live'[f] # live[f] /\ live[f] # Absent =>
                          \/ preboot'[f] = live[f]
                          \/ \E p \in Patches : backup'[p][f] = live[f]
           AllSaved == \A f \in Files : Saved(f)
<1>1. SerialInv /\ [Next]_vars => [AllSaved]_vars
  <2> SUFFICES ASSUME SerialInv, Next, NEW f \in Files,
                      live'[f] # live[f], live[f] # Absent
               PROVE  \/ preboot'[f] = live[f]
                      \/ \E p \in Patches : backup'[p][f] = live[f]
    BY DEF AllSaved, Saved
  <2>1. CASE BootSwap(f)
    BY <2>1 DEF BootSwap, SerialInv, StoreInv, IInv, TypeOK
  <2>2. CASE ap[Loop].pc = "move" /\ f = Cur(Loop) /\ backup' = backup
    <3>1. ap[Loop].m \in Patches
      BY <2>2, InPhase2 DEF SerialInv, StoreInv, FileSteps, Appliers
    <3>2. live[f] = backup[ap[Loop].m][f]
      BY <2>2 DEF SerialInv, StoreInv, Kind, BackedUp, Appliers
    <3> QED
      BY <2>2, <3>1, <3>2
  <2> QED
    BY <2>1, <2>2, LiveChanges DEF SerialInv, StoreInv, OneApplier, Appliers
<1>2. SerialInv /\ [Next]_vars => SerialInv'
  BY SerialNext
<1>3. BackupBeforeOverwrite <=> [][AllSaved]_vars
  BY DEF BackupBeforeOverwrite, AllSaved, Saved
<1> HIDE DEF AllSaved
<1> QED
  BY <1>1, <1>2, <1>3, SerialInit, PTL DEF Spec
=============================================================================
