-------------------------- MODULE SecureExportProofs --------------------------
(***************************************************************************)
(* What SecureExport promises of its files, for any number of processes    *)
(* that export to the same destination, any faults and any rows: they are  *)
(* their owner's alone, the one at the destination is whole, what has      *)
(* findings or was never finished does not stay without a fault, and every *)
(* process gets its umask back.                                            *)
(*                                                                         *)
(* The umask of a process depends on its step alone; with it every file is *)
(* created privately. A file that is being written under a name is the one *)
(* that has the name, which TypeOK says of the handles: so a write meets a *)
(* file, and keeps its mode.                                               *)
(***************************************************************************)
EXTENDS SecureExport, TLAPS

Private(f) == f # NoFile => f.mode = Secure /\ directory = Secure

(* What every process knows of its own umask, handle and directory. *)
ProcessInv ==
  \A e \in Exporters :
    /\ umask[e] = IF pc[e] \in WriteSteps THEN Secure ELSE Inherited
    /\ pc[e] \in WriteSteps => directory = Secure
    /\ pc[e] \in {"scan", "purge"} => directory = Secure
    /\ handle[e] = "temporary" => temporary # NoFile
    /\ handle[e] = "target" => target # NoFile

Types ==
  /\ directory \in Modes
  /\ temporary \in File \cup {NoFile}
  /\ target \in File \cup {NoFile}
  /\ umask \in [Exporters -> Modes]
  /\ pc \in [Exporters -> Steps]
  /\ handle \in [Exporters -> {"none", "temporary", "target", "lost"}]
  /\ rows \in [Exporters -> RowSets]

IInv == Types /\ ProcessInv /\ Private(temporary) /\ Private(target)

USE DEF Modes, File, Steps, WriteSteps, HoldSteps, Private

(* A file is not the absence of one. *)
LEMMA FilesAreThere == \A f \in File : f # NoFile
  BY NoFileAssumption

(* The state the first export of any process starts from. *)
LEMMA InitIInv == Init => IInv
  BY DEF Init, IInv, Types, ProcessInv

(* Every action of one process keeps the invariant. *)
LEMMA NextIInv == IInv /\ [Next]_vars => IInv'
<1> SUFFICES ASSUME IInv, [Next]_vars PROVE IInv'
  OBVIOUS
<1> USE FilesAreThere DEF IInv, Types, ProcessInv
<1>1. CASE UNCHANGED vars
  BY <1>1 DEF vars, files, history
<1>2. CASE Terminated
  BY <1>2 DEF Terminated, vars, files, history
<1>3. ASSUME NEW e \in Exporters, Step(e) PROVE IInv'
  <2> USE DEF GoTo, End, files, history
  <2>1. CASE Request(e)
    BY <2>1 DEF Request
  <2>2. CASE Refuse(e)
    BY <2>2 DEF Refuse
  <2>3. CASE PrepareDirectory(e)
    BY <2>3 DEF PrepareDirectory
  <2>4. CASE DirectoryFails(e)
    BY <2>4 DEF DirectoryFails, Fault
  <2>5. CASE OpenTemporary(e)
    <3>1. umask[e] = Secure /\ directory = Secure
      BY <2>5 DEF OpenTemporary
    <3>2. temporary' = [content |-> Partial, mode |-> Secure]
      BY <2>5, <3>1 DEF OpenTemporary
    <3>3. temporary' \in File /\ temporary' # NoFile
      BY <3>2
    <3>4. Types'
      BY <2>5, <3>3 DEF OpenTemporary
    <3>5. ProcessInv'
      BY <2>5, <3>3 DEF OpenTemporary
    <3>6. directory' = Secure /\ target' = target
      BY <2>5, <3>1 DEF OpenTemporary
    <3>7. temporary'.mode = Secure
      BY <3>2
    <3>8. Private(temporary)' /\ Private(target)'
      BY <3>1, <3>6, <3>7
    <3> QED
      BY <3>4, <3>5, <3>8
  <2>6. CASE Write(e)
    BY <2>6 DEF Write, Contents
  <2>7. CASE ChmodTemporary(e)
    BY <2>7 DEF ChmodTemporary
  <2>8. CASE Replace(e)
    BY <2>8 DEF Replace, HandlesAfter
  <2>9. CASE ChmodTarget(e)
    BY <2>9 DEF ChmodTarget
  <2>10. CASE WriteFails(e)
    BY <2>10 DEF WriteFails, Fault, Raise, HandlesAfter, Unlinked
  <2>11. CASE NameIsGone(e)
    BY <2>11 DEF NameIsGone, Raise, HandlesAfter, Unlinked
  <2>12. CASE CleanupFails(e)
    BY <2>12 DEF CleanupFails
  <2>13. CASE ScanPasses(e)
    BY <2>13 DEF ScanPasses
  <2>14. CASE ScanFinds(e)
    BY <2>14 DEF ScanFinds
  <2>15. CASE ScanRaises(e)
    BY <2>15 DEF ScanRaises, Fault
  <2>16. CASE Purge(e)
    BY <2>16 DEF Purge, HandlesAfter, Unlinked
  <2>17. CASE PurgeFails(e)
    BY <2>17 DEF PurgeFails, Fault
  <2>18. CASE Die(e)
    BY <2>18 DEF Die, Fault
  <2> QED
    BY <1>3, <2>1, <2>2, <2>3, <2>4, <2>5, <2>6, <2>7, <2>8, <2>9, <2>10, <2>11,
       <2>12, <2>13, <2>14, <2>15, <2>16, <2>17, <2>18 DEF Step
<1> QED
  BY <1>1, <1>2, <1>3 DEF Next

LEMMA Invariance == Spec => []IInv
  BY InitIInv, NextIInv, PTL DEF Spec

(* A file of an export can be opened by its owner only from the moment it  *)
(* has a name, whatever fails, dies or runs at the same time               *)
(* (storage_guard.py write_parquet_securely).                              *)
THEOREM FilesStayOwnerOnly == Spec => []FilesAreOwnerOnly
<1>1. IInv => FilesAreOwnerOnly
  BY DEF IInv, FilesAreOwnerOnly
<1> QED
  BY <1>1, Invariance, PTL

(* Outside the write every process has the umask it was started with       *)
(* (storage_guard.py secure_umask).                                        *)
THEOREM UmasksAreGivenBack == Spec => []UmaskIsGivenBack
<1>1. IInv => UmaskIsGivenBack
  BY DEF IInv, ProcessInv, UmaskIsGivenBack
<1> QED
  BY <1>1, Invariance, PTL

-----------------------------------------------------------------------------
(* As long as no two exports have had the temporary file at the same time, *)
(* only the writer itself touches the file it writes: it finds it as it    *)
(* left it, and renames it when it is whole.                               *)
Undisturbed ==
  /\ \A e, f \in Exporters : pc[e] \in HoldSteps /\ pc[f] \in HoldSteps => e = f
  /\ \A e \in Exporters :
       /\ handle[e] # "none" => pc[e] = "write"
       /\ handle[e] # "target"
       /\ handle[e] = "temporary" => temporary.content = Partial
       /\ handle[e] = "lost" => temporary = NoFile
       /\ pc[e] \in {"chmod", "replace"} /\ temporary # NoFile =>
            temporary.content # Partial
  /\ target # NoFile => target.content # Partial

WholeInv == collided \/ Undisturbed

LEMMA InitWholeInv == Init => WholeInv
  BY DEF Init, WholeInv, Undisturbed

(* Every action of one process keeps it: opening a file that another holds *)
(* is a collision, and only the holder renames.                            *)
LEMMA NextWholeInv == IInv /\ WholeInv /\ [Next]_vars => WholeInv'
<1> SUFFICES ASSUME IInv, WholeInv, [Next]_vars PROVE WholeInv'
  OBVIOUS
<1> USE PartialAssumption, FilesAreThere DEF IInv, Types, ProcessInv, WholeInv, Undisturbed
<1>1. CASE UNCHANGED vars
  BY <1>1 DEF vars, files, history
<1>2. CASE Terminated
  BY <1>2 DEF Terminated, vars, files, history
<1>3. ASSUME NEW e \in Exporters, Step(e) PROVE WholeInv'
  <2> USE DEF GoTo, End, files, history
  <2>1. CASE Request(e)
    BY <2>1 DEF Request
  <2>2. CASE Refuse(e)
    BY <2>2 DEF Refuse
  <2>3. CASE PrepareDirectory(e)
    BY <2>3 DEF PrepareDirectory
  <2>4. CASE DirectoryFails(e)
    BY <2>4 DEF DirectoryFails, Fault
  <2>5. CASE OpenTemporary(e)
    BY <2>5 DEF OpenTemporary
  <2>6. CASE Write(e)
    <3>1. CASE collided
      BY <2>6, <3>1 DEF Write
    <3>2. CASE ~collided /\ handle[e] = "temporary"
      <4>1. \A f \in Exporters \ {e} : pc[f] \notin HoldSteps /\ handle[f] = "none"
        BY <2>6, <3>2 DEF Write
      <4>2. Contents(e, temporary) = {rows[e]}
        BY <3>2, <4>1 DEF Contents
      <4>3. temporary' = [temporary EXCEPT !.content = rows[e]] /\ target' = target
        BY <2>6, <3>2, <4>2 DEF Write
      <4>4. temporary \in File
        BY <3>2
      <4>5. temporary'.content = rows[e] /\ rows[e] \in RowSets
        BY <4>3, <4>4
      <4>6. pc' = [pc EXCEPT ![e] = "chmod"] /\ handle' = [handle EXCEPT ![e] = "none"]
        BY <2>6 DEF Write
      <4> QED
        BY <3>2, <4>1, <4>3, <4>5, <4>6
    <3>3. CASE ~collided /\ handle[e] # "temporary"
      <4>1. handle[e] = "lost" /\ UNCHANGED <<temporary, target>>
        BY <2>6, <3>3 DEF Write
      <4>2. \A f \in Exporters \ {e} : pc[f] \notin HoldSteps
        BY <2>6, <3>3 DEF Write
      <4>3. pc' = [pc EXCEPT ![e] = "chmod"] /\ handle' = [handle EXCEPT ![e] = "none"]
        BY <2>6 DEF Write
      <4>4. \A f \in Exporters \ {e} : handle[f] = "none"
        BY <3>3, <4>2
      <4>5. temporary = NoFile
        BY <3>3, <4>1
      <4>6. \A f \in Exporters : f # e => pc'[f] = pc[f] /\ handle'[f] = "none"
        BY <4>3, <4>4
      <4>7. pc'[e] = "chmod" /\ handle'[e] = "none"
        BY <4>3
      <4>8. target' # NoFile => target'.content # Partial
        BY <3>3, <4>1
      <4> QED
        BY <4>1, <4>2, <4>5, <4>6, <4>7, <4>8
    <3> QED
      BY <3>1, <3>2, <3>3
  <2>7. CASE ChmodTemporary(e)
    BY <2>7 DEF ChmodTemporary
  <2>8. CASE Replace(e)
    BY <2>8 DEF Replace, HandlesAfter
  <2>9. CASE ChmodTarget(e)
    BY <2>9 DEF ChmodTarget
  <2>10. CASE WriteFails(e)
    BY <2>10 DEF WriteFails, Fault, Raise, HandlesAfter, Unlinked
  <2>11. CASE NameIsGone(e)
    BY <2>11 DEF NameIsGone, Raise, HandlesAfter, Unlinked
  <2>12. CASE CleanupFails(e)
    BY <2>12 DEF CleanupFails
  <2>13. CASE ScanPasses(e)
    BY <2>13 DEF ScanPasses
  <2>14. CASE ScanFinds(e)
    BY <2>14 DEF ScanFinds
  <2>15. CASE ScanRaises(e)
    BY <2>15 DEF ScanRaises, Fault
  <2>16. CASE Purge(e)
    BY <2>16 DEF Purge, HandlesAfter, Unlinked
  <2>17. CASE PurgeFails(e)
    BY <2>17 DEF PurgeFails, Fault
  <2>18. CASE Die(e)
    BY <2>18 DEF Die, Fault
  <2> QED
    BY <1>3, <2>1, <2>2, <2>3, <2>4, <2>5, <2>6, <2>7, <2>8, <2>9, <2>10, <2>11,
       <2>12, <2>13, <2>14, <2>15, <2>16, <2>17, <2>18 DEF Step
<1> QED
  BY <1>1, <1>2, <1>3 DEF Next

(* No reader of the destination sees a half-written file unless two        *)
(* exports had the temporary file at the same time, for any number of      *)
(* exports and deaths (storage_guard.py write_parquet_securely).           *)
THEOREM DestinationStaysWhole == Spec => []DestinationIsNeverPartial
<1>1. WholeInv => DestinationIsNeverPartial
  BY DEF WholeInv, Undisturbed, DestinationIsNeverPartial
<1> QED
  BY <1>1, InitWholeInv, NextWholeInv, Invariance, PTL DEF Spec

-----------------------------------------------------------------------------
(* Without faults, a file under the temporary name is held by an export    *)
(* that will rename it, or purge it when it fails; and one with findings   *)
(* at the destination is about to be scanned, or to be purged.             *)
LeftInv ==
  faults = 0 =>
    /\ temporary # NoFile => \E e \in Exporters : pc[e] \in HoldSteps
    /\ target # NoFile /\ target.content \in Dirty =>
         collided \/ \E e \in Exporters : pc[e] \in {"chmod target", "scan", "purge"}

(* A fault is counted. *)
LEMMA FaultsShow == \A n \in Nat : n + 1 # 0 /\ n + 2 # 0
  OBVIOUS

LEMMA InitLeftInv == Init => LeftInv
  BY DEF Init, LeftInv

LEMMA NextLeftInv == IInv /\ WholeInv /\ faults \in Nat /\ LeftInv /\ [Next]_vars => LeftInv'
<1> SUFFICES ASSUME IInv, WholeInv, faults \in Nat, LeftInv, [Next]_vars PROVE LeftInv'
  OBVIOUS
<1> USE PartialAssumption, RowSetsAssumption DEF IInv, Types, LeftInv
<1>1. CASE UNCHANGED vars
  BY <1>1 DEF vars, files, history
<1>2. CASE Terminated
  BY <1>2 DEF Terminated, vars, files, history
<1>3. ASSUME NEW e \in Exporters, Step(e) PROVE LeftInv'
  <2> USE DEF GoTo, End, files, history
  <2>1. CASE Request(e) \/ Refuse(e) \/ PrepareDirectory(e)
    BY <2>1 DEF Request, Refuse, PrepareDirectory
  <2>2. CASE OpenTemporary(e)
    BY <2>2 DEF OpenTemporary
  <2>3. CASE Write(e)
    <3>1. pc' = [pc EXCEPT ![e] = "chmod"] /\ pc[e] = "write"
      BY <2>3 DEF Write
    <3>2. temporary' # NoFile => temporary # NoFile
      BY <2>3 DEF Write, ProcessInv
    <3>3. collided \/ target' = target
      BY <2>3 DEF Write, WholeInv, Undisturbed
    <3>4. faults' = faults /\ collided' = collided
      BY <2>3 DEF Write
    <3> QED
      BY <3>1, <3>2, <3>3, <3>4
  <2>4. CASE ChmodTemporary(e)
    BY <2>4 DEF ChmodTemporary
  <2>5. CASE Replace(e)
    BY <2>5 DEF Replace
  <2>6. CASE ChmodTarget(e)
    BY <2>6 DEF ChmodTarget
  <2>7. CASE WriteFails(e) \/ CleanupFails(e) \/ DirectoryFails(e) \/ PurgeFails(e) \/ Die(e)
    <3>1. faults' = faults + 1 \/ faults' = faults + 2
      BY <2>7 DEF WriteFails, CleanupFails, DirectoryFails, PurgeFails, Die, Fault
    <3>2. faults' # 0
      BY <3>1, FaultsShow
    <3> QED
      BY <3>2
  <2>8. CASE NameIsGone(e)
    BY <2>8 DEF NameIsGone, Raise
  <2>9. CASE ScanPasses(e) \/ ScanFinds(e)
    BY <2>9 DEF ScanPasses, ScanFinds
  <2>10. CASE ScanRaises(e)
    <3>1. CASE faults' = faults + 1
      <4>1. faults' # 0
        BY <3>1, FaultsShow
      <4> QED
        BY <4>1
    <3>2. CASE UNCHANGED history /\ (target = NoFile \/ target.content = Partial)
      <4>1. target = NoFile \/ target.content \notin Dirty
        BY <3>2
      <4>2. pc' = [pc EXCEPT ![e] = "idle"] /\ pc[e] = "scan" /\ UNCHANGED files
        BY <2>10 DEF ScanRaises
      <4> QED
        BY <3>2, <4>1, <4>2
    <3> QED
      BY <2>10, <3>1, <3>2 DEF ScanRaises, Fault
  <2>11. CASE Purge(e)
    BY <2>11 DEF Purge
  <2> QED
    BY <1>3, <2>1, <2>2, <2>3, <2>4, <2>5, <2>6, <2>7, <2>8, <2>9, <2>10, <2>11 DEF Step
<1> QED
  BY <1>1, <1>2, <1>3 DEF Next

-----------------------------------------------------------------------------
(* The rest of TypeOK. *)
Counted ==
  /\ \A e \in Exporters : pc[e] = "write" <=> handle[e] # "none"
  /\ outcome \in [Exporters -> Outcomes]
  /\ exports \in 0..MaxExports
  /\ faults \in 0..MaxFaults
  /\ alone \in [Exporters -> BOOLEAN]
  /\ collided \in BOOLEAN

LEMMA InitCounted == Init => Counted
<1> SUFFICES ASSUME Init PROVE Counted
  OBVIOUS
<1>1. exports \in 0..MaxExports /\ faults \in 0..MaxFaults
  BY BoundsAssumption DEF Init
<1>2. alone \in [Exporters -> BOOLEAN] /\ collided \in BOOLEAN
  BY Zenon DEF Init
<1>3. /\ outcome \in [Exporters -> Outcomes]
      /\ \A e \in Exporters : pc[e] = "write" <=> handle[e] # "none"
  BY DEF Init, Outcomes
<1> QED
  BY <1>1, <1>2, <1>3 DEF Counted

(* One more, within the bound. *)
LEMMA WithinBound ==
  \A max \in Nat : \A n \in 0..max :
    /\ n < max => n + 1 \in 0..max
    /\ n + 2 <= max => n + 2 \in 0..max
  OBVIOUS

LEMMA NextCounted == IInv /\ Counted /\ [Next]_vars => Counted'
<1> SUFFICES ASSUME IInv, Counted, [Next]_vars PROVE Counted'
  OBVIOUS
<1> USE DEF IInv, Types, Counted, Outcomes
<1>1. CASE UNCHANGED vars
  BY <1>1 DEF vars, files, history
<1>2. CASE Terminated
  BY <1>2 DEF Terminated, vars, files, history
<1>3. ASSUME NEW e \in Exporters, Step(e) PROVE Counted'
  <2> USE DEF GoTo, End, files, history
  <2>1. exports' \in 0..MaxExports
    <3>1. \/ exports' = exports
          \/ exports' = exports + 1 /\ exports < MaxExports
      <4>1. CASE Request(e) \/ Refuse(e)
        BY <4>1 DEF Request, Refuse
      <4>2. CASE exports' = exports
        BY <4>2
      <4> QED
        BY <1>3, <4>1, <4>2
           DEF Step, PrepareDirectory, DirectoryFails, OpenTemporary, Write, ChmodTemporary,
               Replace, ChmodTarget, WriteFails, NameIsGone, CleanupFails, ScanPasses,
               ScanFinds, ScanRaises, Purge, PurgeFails, Die, Raise, Fault
    <3>2. exports \in 0..MaxExports /\ MaxExports \in Nat
      BY BoundsAssumption
    <3> HIDE DEF IInv, Types, Counted
    <3> QED
      BY <3>1, <3>2, WithinBound, Zenon
  <2>2. faults' \in 0..MaxFaults
    <3>1. \/ faults' = faults
          \/ faults' = faults + 1 /\ faults < MaxFaults
          \/ faults' = faults + 2 /\ faults + 2 <= MaxFaults
      BY <1>3 DEF Step, Request, Refuse, PrepareDirectory, DirectoryFails, OpenTemporary,
           Write, ChmodTemporary, Replace, ChmodTarget, WriteFails, NameIsGone, CleanupFails,
           ScanPasses, ScanFinds, ScanRaises, Purge, PurgeFails, Die, Raise, Fault
    <3>2. faults \in 0..MaxFaults /\ MaxFaults \in Nat
      BY BoundsAssumption
    <3> HIDE DEF IInv, Types, Counted
    <3> QED
      BY <3>1, <3>2, WithinBound, Zenon
  <2>3. alone' \in [Exporters -> BOOLEAN] /\ collided' \in BOOLEAN
    <3>1. CASE Request(e)
      BY <3>1 DEF Request
    <3>2. CASE OpenTemporary(e)
      BY <3>2 DEF OpenTemporary
    <3>3. CASE UNCHANGED <<alone, collided>>
      BY <3>3
    <3> QED
      BY <1>3, <3>1, <3>2, <3>3
         DEF Step, Refuse, PrepareDirectory, DirectoryFails,
           Write, ChmodTemporary, Replace, ChmodTarget, WriteFails, NameIsGone, CleanupFails,
           ScanPasses, ScanFinds, ScanRaises, Purge, PurgeFails, Die, Raise, Fault
  <2>4. outcome' \in [Exporters -> Outcomes]
    BY <1>3 DEF Step, Request, Refuse, PrepareDirectory, DirectoryFails, OpenTemporary,
           Write, ChmodTemporary, Replace, ChmodTarget, WriteFails, NameIsGone, CleanupFails,
           ScanPasses, ScanFinds, ScanRaises, Purge, PurgeFails, Die, Raise
  <2>5. \A f \in Exporters : pc'[f] = "write" <=> handle'[f] # "none"
    <3>1. CASE OpenTemporary(e)
      BY <3>1 DEF OpenTemporary
    <3>2. CASE Write(e) \/ CleanupFails(e) \/ Die(e)
      BY <3>2 DEF Write, CleanupFails, Die
    <3>3. CASE Replace(e)
      BY <3>3 DEF Replace, HandlesAfter
    <3>4. CASE Purge(e)
      BY <3>4 DEF Purge, HandlesAfter, Unlinked
    <3>5. CASE WriteFails(e) \/ NameIsGone(e)
      <4>1. Raise(e)
        BY <3>5 DEF WriteFails, NameIsGone
      <4> QED
        BY <4>1 DEF Raise, HandlesAfter, Unlinked
    <3>6. CASE handle' = handle /\ pc[e] # "write" /\ \E p \in Steps \ {"write"} : GoTo(e, p)
      BY <3>6
    <3> QED
      BY <1>3, <3>1, <3>2, <3>3, <3>4, <3>5, <3>6
         DEF Step, Request, Refuse, PrepareDirectory, DirectoryFails, ChmodTemporary,
             ChmodTarget, ScanPasses, ScanFinds, ScanRaises, PurgeFails
  <2> QED
    BY <2>1, <2>2, <2>3, <2>4, <2>5
<1> QED
  BY <1>1, <1>2, <1>3 DEF Next

(* The variables keep their types, and a file is open exactly during its   *)
(* write, under a name that is there or lost.                              *)
THEOREM ExportTypeCorrect == Spec => []TypeOK
<1>1. IInv /\ Counted => TypeOK
  BY DEF IInv, Types, ProcessInv, Counted, TypeOK
<1> QED
  BY <1>1, InitCounted, NextCounted, Invariance, PTL DEF Spec

(* Without a fault or a collision, rows with findings do not stay at the   *)
(* destination once every export has ended (secure_export.py               *)
(* _write_and_scan).                                                       *)
THEOREM FindingsDoNotStay == Spec => []FindingsNeedAFault
<1>1. Counted => faults \in Nat
  BY DEF Counted
<1>2. Counted /\ LeftInv => FindingsNeedAFault
  <2> SUFFICES ASSUME faults \in 0..MaxFaults, LeftInv, ~FindingsNeedAFault PROVE FALSE
    BY DEF Counted
  <2>1. faults = 0
    BY BoundsAssumption DEF FindingsNeedAFault
  <2> QED
    BY <2>1 DEF LeftInv, FindingsNeedAFault
<1> QED
  BY <1>1, <1>2, InitCounted, NextCounted, InitLeftInv, NextLeftInv,
     InitWholeInv, NextWholeInv, Invariance, PTL DEF Spec

-----------------------------------------------------------------------------
(* An export that began after all others had ended, and during which none  *)
(* began: what it has written stays what it wrote.                         *)
AloneAt(e) ==
  /\ \A f \in Exporters \ {e} : pc[f] = "idle"
  /\ pc[e] = "write" => handle[e] = "temporary" /\ temporary.content = Partial
  /\ pc[e] \in {"chmod", "replace"} => temporary # NoFile /\ temporary.content = rows[e]
  /\ pc[e] \in {"chmod target", "scan", "purge"} =>
       temporary = NoFile /\ target # NoFile /\ target.content = rows[e]
  /\ outcome[e] \in {"passed", "purged", "write failed", "scan raised"} => temporary = NoFile
  /\ outcome[e] = "passed" =>
       target # NoFile /\ target.content = rows[e] /\ rows[e] \notin Dirty

AloneInv ==
  \A e \in Exporters :
    /\ pc[e] # "idle" => outcome[e] = "none"
    /\ alone[e] => AloneAt(e)

LEMMA InitAloneInv == Init => AloneInv
  BY DEF Init, AloneInv, AloneAt

(* A step of an export that is under way: no other is alone. *)
LEMMA OwnStep ==
  ASSUME IInv, Counted, AloneInv, NEW e \in Exporters, pc[e] # "idle",
         alone' = alone,
         \A f \in Exporters \ {e} : pc'[f] = pc[f] /\ outcome'[f] = outcome[f],
         pc'[e] # "idle" => outcome'[e] = "none",
         alone[e] => AloneAt(e)'
  PROVE  AloneInv'
  BY DEF AloneInv, AloneAt

LEMMA NextAloneInv == IInv /\ Counted /\ AloneInv /\ [Next]_vars => AloneInv'
<1> SUFFICES ASSUME IInv, Counted, AloneInv, [Next]_vars PROVE AloneInv'
  OBVIOUS
<1>1. CASE UNCHANGED vars
  BY <1>1 DEF vars, files, history, AloneInv, AloneAt
<1>2. CASE Terminated
  BY <1>2 DEF Terminated, vars, files, history, AloneInv, AloneAt
<1>3. ASSUME NEW e \in Exporters, Step(e) PROVE AloneInv'
  <2> USE DEF GoTo, End, files, history, IInv, Types
  <2>1. CASE Request(e)
    <3>1. /\ \A f \in Exporters \ {e} : ~alone'[f]
          /\ alone'[e] => \A f \in Exporters \ {e} : pc[f] = "idle"
      BY <2>1, Zenon DEF Request
    <3>2. /\ pc'[e] = "directory" /\ outcome'[e] = "none"
          /\ \A f \in Exporters \ {e} : pc'[f] = pc[f] /\ outcome'[f] = outcome[f]
      BY <2>1 DEF Request, Counted
    <3>3. alone'[e] => AloneAt(e)'
      BY <3>1, <3>2 DEF AloneAt
    <3> QED
      BY <3>1, <3>2, <3>3 DEF AloneInv
  <2>2. CASE Refuse(e)
    <3>1. /\ pc[e] = "idle" /\ pc' = pc /\ outcome' = [outcome EXCEPT ![e] = "refused"]
          /\ \A f \in Exporters \ {e} : rows'[f] = rows[f]
          /\ UNCHANGED <<files, handle, alone>>
      BY <2>2 DEF Refuse
    <3>2. ASSUME NEW f \in Exporters \ {e}, alone[f] PROVE AloneAt(f)'
      <4>1. AloneAt(f) /\ outcome'[f] = outcome[f] /\ rows'[f] = rows[f]
        BY <3>1, <3>2 DEF AloneInv, Counted
      <4>2. pc' = pc /\ UNCHANGED <<temporary, target, handle>>
        BY <3>1
      <4> QED
        BY <4>1, <4>2 DEF AloneAt
    <3>3. alone[e] => AloneAt(e)'
      BY <3>1 DEF AloneInv, AloneAt, Counted
    <3> QED
      BY <3>1, <3>2, <3>3 DEF AloneInv, Counted
  <2>3. ASSUME pc[e] # "idle" PROVE AloneInv'
    <3> DEFINE Others ==
          /\ alone' = alone
          /\ \A f \in Exporters \ {e} : pc'[f] = pc[f] /\ outcome'[f] = outcome[f]
          /\ pc'[e] # "idle" => outcome'[e] = "none"
    <3>1. outcome[e] = "none" /\ (alone[e] => AloneAt(e))
      BY <2>3 DEF AloneInv
    <3>2. Others
      BY <1>3, <2>3, <3>1
         DEF Step, Request, Refuse, PrepareDirectory, DirectoryFails, OpenTemporary,
             Write, ChmodTemporary, Replace, ChmodTarget, WriteFails, NameIsGone, CleanupFails,
             ScanPasses, ScanFinds, ScanRaises, Purge, PurgeFails, Die, Raise, Fault, Counted
    <3>3. ASSUME alone[e] PROVE AloneAt(e)'
      <4> USE <3>1, <3>3 DEF AloneAt, Counted
      <4>1. CASE PrepareDirectory(e)
        BY <4>1 DEF PrepareDirectory
      <4>2. CASE OpenTemporary(e)
        <5>1. temporary' \in File /\ temporary'.content = Partial
          BY <4>2 DEF OpenTemporary
        <5> QED
          BY <4>2, <5>1 DEF OpenTemporary
      <4>3. CASE Write(e)
        <5>1. \A f \in Exporters \ {e} : handle[f] = "none"
          OBVIOUS
        <5>2. Contents(e, temporary) = {rows[e]}
          BY <4>3, <5>1 DEF Write, Contents
        <5>3. temporary' = [temporary EXCEPT !.content = rows[e]]
          BY <4>3, <5>2 DEF Write
        <5>4. temporary \in File
          BY <4>3 DEF Write, ProcessInv
        <5>5. temporary' \in File /\ temporary'.content = rows[e]
          BY <5>3, <5>4
        <5> QED
          BY <4>3, <5>5, FilesAreThere DEF Write
      <4>4. CASE ChmodTemporary(e)
        <5>1. temporary' \in File /\ temporary'.content = temporary.content
          BY <4>4 DEF ChmodTemporary
        <5> QED
          BY <4>4, <5>1, FilesAreThere DEF ChmodTemporary
      <4>5. CASE Replace(e)
        BY <4>5 DEF Replace
      <4>6. CASE ChmodTarget(e)
        <5>1. target' \in File /\ target'.content = target.content
          BY <4>6 DEF ChmodTarget
        <5> QED
          BY <4>6, <5>1, FilesAreThere DEF ChmodTarget
      <4>7. CASE WriteFails(e) \/ NameIsGone(e)
        <5>1. Raise(e)
          BY <4>7 DEF WriteFails, NameIsGone
        <5> QED
          BY <5>1 DEF Raise
      <4>8. CASE CleanupFails(e) \/ DirectoryFails(e) \/ PurgeFails(e) \/ Die(e)
        <5>1. /\ pc' = [pc EXCEPT ![e] = "idle"]
              /\ outcome'[e] \in {"cleanup failed", "directory failed", "none"}
          BY <4>8 DEF CleanupFails, DirectoryFails, PurgeFails, Die
        <5> QED
          BY <5>1
      <4>9. CASE ScanPasses(e)
        BY <4>9 DEF ScanPasses
      <4>10. CASE ScanFinds(e)
        BY <4>10 DEF ScanFinds
      <4>11. CASE ScanRaises(e)
        <5>1. /\ pc[e] = "scan" /\ pc' = [pc EXCEPT ![e] = "idle"]
              /\ outcome'[e] = "scan raised" /\ UNCHANGED <<temporary, target, rows>>
          BY <4>11 DEF ScanRaises
        <5> QED
          BY <5>1
      <4>12. CASE Purge(e)
        BY <4>12 DEF Purge
      <4> QED
        BY <1>3, <2>3, <4>1, <4>2, <4>3, <4>4, <4>5, <4>6, <4>7, <4>8, <4>9, <4>10, <4>11, <4>12
           DEF Step, Request, Refuse
    <3> QED
      BY <2>3, <3>2, <3>3, OwnStep
  <2> QED
    BY <1>3, <2>1, <2>2, <2>3
       DEF Step, PrepareDirectory, DirectoryFails, OpenTemporary,
           Write, ChmodTemporary, Replace, ChmodTarget, WriteFails, NameIsGone, CleanupFails,
           ScanPasses, ScanFinds, ScanRaises, Purge, PurgeFails, Die
<1> QED
  BY <1>1, <1>2, <1>3 DEF Next

LEMMA AloneInvariance == Spec => [](Counted /\ AloneInv)
  BY InitCounted, NextCounted, InitAloneInv, NextAloneInv, Invariance, PTL DEF Spec

(* An export that passed with no other at the same time has its own rows   *)
(* at the destination, without a finding.                                  *)
THEOREM PassedExportsAreThere == Spec => []PassedExportIsAtDestination
<1>1. AloneInv => PassedExportIsAtDestination
  BY DEF AloneInv, AloneAt, PassedExportIsAtDestination
<1> QED
  BY <1>1, AloneInvariance, PTL

(* Nor has it left a temporary file, and without faults no exports do,     *)
(* however they overlap.                                                   *)
THEOREM NoTemporaryIsLeft == Spec => []EndedExportLeavesNoTemporary
<1>1. AloneInv /\ LeftInv => EndedExportLeavesNoTemporary
  BY DEF AloneInv, AloneAt, LeftInv, EndedExportLeavesNoTemporary
<1>2. Counted => faults \in Nat
  BY DEF Counted
<1> QED
  BY <1>1, <1>2, AloneInvariance, InitLeftInv, NextLeftInv,
     InitWholeInv, NextWholeInv, Invariance, PTL DEF Spec
=============================================================================
