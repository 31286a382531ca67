----------------------------- MODULE SecureExport -----------------------------
(***************************************************************************)
(* The controlled export of the ML dataset (secure_export.py and           *)
(* storage_guard.py): processes that export to one destination, one after  *)
(* the other or at the same time. Each writes the temporary file, renames  *)
(* it onto the destination, scans what is there and purges it when the     *)
(* scan finds something. The temporary name is the same for all, and       *)
(* nothing keeps two exports apart. A system call may fail, a process may  *)
(* die between any two of them and be run again.                           *)
(*                                                                         *)
(* A file is its content and its mode; a mode is named by the umask that   *)
(* would give it. A file that is being written is known to its writer by   *)
(* the name it has now: renaming and unlinking do not close it.            *)
(***************************************************************************)
EXTENDS Integers

CONSTANTS Exporters,   \* processes that export
          RowSets,     \* rows an export may be asked to write
          Blocked,     \* those the contract or the scan before the write refuses
          Dirty,       \* those in which the scan of the written file finds something
          Inherited,   \* umask a process is started with
          Secure,      \* umask 077 and modes 0600, 0700: the owner alone
          Partial,     \* content of a file that is not, or not well, written
          NoFile,      \* no file of that name
          MaxExports,  \* bound: calls of export_ticket_v1_securely
          MaxFaults    \* bound: failing calls and deaths

ASSUME RowSetsAssumption == Blocked \subseteq RowSets /\ Dirty \subseteq RowSets
ASSUME PartialAssumption == Partial \notin RowSets
ASSUME NoFileAssumption == NoFile \notin [content : RowSets \cup {Partial}, mode : {Inherited, Secure}]
ASSUME BoundsAssumption == MaxExports \in Nat /\ MaxFaults \in Nat

VARIABLES
  directory,  \* mode of the parent directory
  temporary,  \* the file .<name>.tmp in it
  target,     \* the file at the destination
  umask,      \* umask of each process
  pc,         \* its next step
  handle,     \* name of the file it is writing
  rows,       \* rows of its export in progress, or of its last one
  outcome,    \* what its last export came to
  exports,    \* exports so far, for the bound
  faults,     \* faults so far, for the bound
  alone,      \* history: no other export ran since its last one began
  collided    \* history: two exports had the temporary name at the same time

files == <<directory, temporary, target>>
history == <<exports, faults, alone, collided>>
vars == <<files, umask, pc, handle, rows, outcome, history>>

Modes == {Inherited, Secure}
File == [content : RowSets \cup {Partial}, mode : Modes]
HoldSteps == {"write", "chmod", "replace"}
WriteSteps == {"open", "chmod target"} \cup HoldSteps
Steps == {"idle", "directory", "scan", "purge"} \cup WriteSteps
Outcomes == {"none", "refused", "passed", "purged", "write failed",
             "directory failed", "scan raised", "cleanup failed"}

GoTo(e, step) == pc' = [pc EXCEPT ![e] = step]

End(e, result) ==
  /\ pc' = [pc EXCEPT ![e] = "idle"]
  /\ outcome' = [outcome EXCEPT ![e] = result]

Fault ==
  /\ faults < MaxFaults
  /\ faults' = faults + 1
  /\ UNCHANGED <<exports, alone, collided>>

(* The name of every open file, the one that e closes excepted, after the  *)
(* names in renamed have changed.                                          *)
HandlesAfter(renamed, e) ==
  [f \in Exporters |-> IF f = e THEN "none"
                       ELSE IF handle[f] \in DOMAIN renamed THEN renamed[handle[f]]
                       ELSE handle[f]]
Unlinked(name) == [n \in {name} |-> "lost"]

-----------------------------------------------------------------------------
Init ==
  /\ directory \in Modes
  /\ temporary = NoFile
  /\ target = NoFile
  /\ umask = [e \in Exporters |-> Inherited]
  /\ pc = [e \in Exporters |-> "idle"]
  /\ handle = [e \in Exporters |-> "none"]
  /\ rows \in [Exporters -> RowSets]
  /\ outcome = [e \in Exporters |-> "none"]
  /\ exports = 0
  /\ faults = 0
  /\ alone = [e \in Exporters |-> TRUE]
  /\ collided = FALSE

(* The request is valid, and so are the destination, the contract and the  *)
(* scan of the rows in memory.                                             *)
Request(e) ==
  /\ pc[e] = "idle"
  /\ exports < MaxExports
  /\ exports' = exports + 1
  /\ \E r \in RowSets \ Blocked : rows' = [rows EXCEPT ![e] = r]
  /\ outcome' = [outcome EXCEPT ![e] = "none"]
  /\ alone' = [f \in Exporters |-> f = e /\ \A g \in Exporters \ {e} : pc[g] = "idle"]
  /\ GoTo(e, "directory")
  /\ UNCHANGED <<files, umask, handle, faults, collided>>

(* One of them is not: nothing has been written. *)
Refuse(e) ==
  /\ pc[e] = "idle"
  /\ exports < MaxExports
  /\ exports' = exports + 1
  /\ \E r \in RowSets : rows' = [rows EXCEPT ![e] = r]
  /\ End(e, "refused")
  /\ UNCHANGED <<files, umask, handle, faults, alone, collided>>

(* Fault: the export does not restrict its umask. *)
PrepareDirectoryOnly(e) ==
  /\ pc[e] = "directory"
  /\ directory' = Secure
  /\ GoTo(e, "open")
  /\ UNCHANGED <<temporary, target, umask, handle, rows, outcome, history>>

(* prepare_secure_parent_directory, and the entry into secure_umask. *)
PrepareDirectory(e) ==
  /\ pc[e] = "directory"
  /\ directory' = Secure
  /\ umask' = [umask EXCEPT ![e] = Secure]
  /\ GoTo(e, "open")
  /\ UNCHANGED <<temporary, target, handle, rows, outcome, history>>

(* _write_parquet opens the temporary file: a file there, be it of an      *)
(* export in progress, is truncated and keeps its mode.                    *)
OpenTemporary(e) ==
  /\ pc[e] = "open"
  /\ temporary' = [content |-> Partial,
                   mode |-> IF temporary = NoFile THEN umask[e] ELSE temporary.mode]
  /\ handle' = [handle EXCEPT ![e] = "temporary"]
  /\ collided' = (collided \/ \E f \in Exporters \ {e} : pc[f] \in HoldSteps)
  /\ GoTo(e, "write")
  /\ UNCHANGED <<directory, target, umask, rows, outcome, exports, faults, alone>>

(* The rest of _write_parquet: two that write one file at a time, or one   *)
(* over the other's end, may spoil it.                                     *)
Contents(e, file) ==
  {rows[e]} \cup
    IF \/ file.content # Partial
       \/ \E f \in Exporters \ {e} : handle[f] = handle[e]
    THEN {Partial} ELSE {}

(* Fault: the prepared export is written instead of its rows. *)
WriteWrapped(e) ==
  /\ pc[e] = "write" /\ handle[e] = "temporary"
  /\ temporary' = [temporary EXCEPT !.content = <<rows[e], target>>]
  /\ handle' = [handle EXCEPT ![e] = "none"]
  /\ GoTo(e, "chmod")
  /\ UNCHANGED <<directory, target, umask, rows, outcome, history>>

(* Fault: the file is renamed before all of it is written. *)
WriteUnflushed(e) ==
  /\ pc[e] = "write"
  /\ handle' = [handle EXCEPT ![e] = "none"]
  /\ GoTo(e, "chmod")
  /\ UNCHANGED <<files, umask, rows, outcome, history>>

(* The file is the one that was opened, whatever its name is by now. *)
Write(e) ==
  /\ pc[e] = "write"
  /\ \/ /\ handle[e] = "temporary"
        /\ \E c \in Contents(e, temporary) : temporary' = [temporary EXCEPT !.content = c]
        /\ UNCHANGED target
     \/ /\ handle[e] = "target"
        /\ \E c \in Contents(e, target) : target' = [target EXCEPT !.content = c]
        /\ UNCHANGED temporary
     \/ handle[e] = "lost" /\ UNCHANGED <<temporary, target>>
  /\ handle' = [handle EXCEPT ![e] = "none"]
  /\ GoTo(e, "chmod")
  /\ UNCHANGED <<directory, umask, rows, outcome, history>>

ChmodTemporary(e) ==
  /\ pc[e] = "chmod" /\ temporary # NoFile
  /\ temporary' = [temporary EXCEPT !.mode = Secure]
  /\ GoTo(e, "replace")
  /\ UNCHANGED <<directory, target, umask, handle, rows, outcome, history>>

(* The rename is atomic; an earlier export at the destination is gone. *)
Replace(e) ==
  /\ pc[e] = "replace" /\ temporary # NoFile
  /\ target' = temporary
  /\ temporary' = NoFile
  /\ handle' = HandlesAfter([n \in {"temporary", "target"} |->
                               IF n = "temporary" THEN "target" ELSE "lost"], e)
  /\ GoTo(e, "chmod target")
  /\ UNCHANGED <<directory, umask, rows, outcome, history>>

(* The last call of the try block; secure_umask gives the old umask back. *)
ChmodTarget(e) ==
  /\ pc[e] = "chmod target" /\ target # NoFile
  /\ target' = [target EXCEPT !.mode = Secure]
  /\ umask' = [umask EXCEPT ![e] = Inherited]
  /\ GoTo(e, "scan")
  /\ UNCHANGED <<directory, temporary, handle, rows, outcome, history>>

(* Fault: the except clause purges the destination's name. *)
RaisePurgingTarget(e) ==
  /\ target' = NoFile
  /\ umask' = [umask EXCEPT ![e] = Inherited]
  /\ handle' = HandlesAfter(Unlinked("target"), e)
  /\ End(e, "write failed")
  /\ UNCHANGED <<directory, temporary, rows>>

(* Fault: the umask is given back on success only, there is no finally. *)
RaiseKeepingUmask(e) ==
  /\ temporary' = NoFile
  /\ handle' = HandlesAfter(Unlinked("temporary"), e)
  /\ End(e, "write failed")
  /\ UNCHANGED <<directory, target, umask, rows>>

(* A call of the try block raises: whatever has the temporary name is      *)
(* purged, the umask given back. A failing chmod of the destination leaves *)
(* it there.                                                               *)
Raise(e) ==
  /\ temporary' = NoFile
  /\ umask' = [umask EXCEPT ![e] = Inherited]
  /\ handle' = HandlesAfter(Unlinked("temporary"), e)
  /\ End(e, "write failed")
  /\ UNCHANGED <<directory, target, rows>>

WriteFails(e) ==
  /\ pc[e] \in WriteSteps
  /\ Fault
  /\ Raise(e)

(* Another export has renamed or purged the file of that name. *)
NameIsGone(e) ==
  /\ \/ pc[e] \in {"chmod", "replace"} /\ temporary = NoFile
     \/ pc[e] = "chmod target" /\ target = NoFile
  /\ Raise(e)
  /\ UNCHANGED history

(* The purge in the except clause raises too: the temporary file stays.    *)
CleanupFails(e) ==
  /\ pc[e] \in WriteSteps
  /\ temporary # NoFile
  /\ faults + 2 <= MaxFaults
  /\ faults' = faults + 2
  /\ umask' = [umask EXCEPT ![e] = Inherited]
  /\ handle' = [handle EXCEPT ![e] = "none"]
  /\ End(e, "cleanup failed")
  /\ UNCHANGED <<files, rows, exports, alone, collided>>

(* mkdir or chmod of the directory raises, nothing is open yet. *)
DirectoryFails(e) ==
  /\ pc[e] = "directory"
  /\ Fault
  /\ directory' \in {directory, Secure}
  /\ End(e, "directory failed")
  /\ UNCHANGED <<temporary, target, umask, handle, rows>>

(* Fault: the verdict of the scan is not looked at. *)
ScanPassesAnything(e) ==
  /\ pc[e] = "scan"
  /\ End(e, "passed")
  /\ UNCHANGED <<files, umask, handle, rows, history>>

(* What is at the destination is scanned, whoever wrote it. *)
ScanPasses(e) ==
  /\ pc[e] = "scan" /\ target # NoFile
  /\ target.content \notin Dirty \cup {Partial}
  /\ End(e, "passed")
  /\ UNCHANGED <<files, umask, handle, rows, history>>

ScanFinds(e) ==
  /\ pc[e] = "scan" /\ target # NoFile
  /\ target.content \in Dirty
  /\ GoTo(e, "purge")
  /\ UNCHANGED <<files, umask, handle, rows, outcome, history>>

(* Fault: the scan's purge is given the temporary name. *)
PurgeTemporary(e) ==
  /\ pc[e] = "purge"
  /\ temporary' = NoFile
  /\ handle' = HandlesAfter(Unlinked("temporary"), e)
  /\ End(e, "purged")
  /\ UNCHANGED <<directory, target, umask, rows, history>>

(* A file that is gone counts as purged. *)
Purge(e) ==
  /\ pc[e] = "purge"
  /\ target' = NoFile
  /\ handle' = HandlesAfter(Unlinked("target"), e)
  /\ End(e, "purged")
  /\ UNCHANGED <<directory, temporary, umask, rows, history>>

(* unlink raises: the rows with findings stay at the destination. *)
PurgeFails(e) ==
  /\ pc[e] = "purge"
  /\ Fault
  /\ End(e, "cleanup failed")
  /\ UNCHANGED <<files, umask, handle, rows>>

(* The scanner raises, and nothing catches it: no file, an unreadable one, *)
(* or a fault (no memory, a library that fails).                           *)
ScanRaises(e) ==
  /\ pc[e] = "scan"
  /\ \/ Fault
     \/ target = NoFile /\ UNCHANGED history
     \/ target # NoFile /\ target.content = Partial /\ UNCHANGED history
  /\ End(e, "scan raised")
  /\ UNCHANGED <<files, umask, handle, rows>>

(* The process dies; the next one starts with its own umask. *)
Die(e) ==
  /\ pc[e] # "idle"
  /\ Fault
  /\ End(e, "none")
  /\ umask' = [umask EXCEPT ![e] = Inherited]
  /\ handle' = [handle EXCEPT ![e] = "none"]
  /\ UNCHANGED <<files, rows>>

Terminated ==
  /\ exports = MaxExports /\ \A e \in Exporters : pc[e] = "idle"
  /\ UNCHANGED vars

Step(e) ==
  \/ Request(e) \/ Refuse(e) \/ PrepareDirectory(e) \/ DirectoryFails(e)
  \/ OpenTemporary(e) \/ Write(e) \/ ChmodTemporary(e) \/ Replace(e) \/ ChmodTarget(e)
  \/ WriteFails(e) \/ NameIsGone(e) \/ CleanupFails(e)
  \/ ScanPasses(e) \/ ScanFinds(e) \/ ScanRaises(e) \/ Purge(e) \/ PurgeFails(e)
  \/ Die(e)

Next == Terminated \/ \E e \in Exporters : Step(e)

Spec == Init /\ [][Next]_vars

-----------------------------------------------------------------------------
(* The types of the variables; a file that is open has a name or is lost.  *)
TypeOK ==
  /\ directory \in Modes
  /\ temporary \in File \cup {NoFile}
  /\ target \in File \cup {NoFile}
  /\ umask \in [Exporters -> Modes]
  /\ pc \in [Exporters -> Steps]
  /\ handle \in [Exporters -> {"none", "temporary", "target", "lost"}]
  /\ \A e \in Exporters : pc[e] = "write" <=> handle[e] # "none"
  /\ \A e \in Exporters : handle[e] = "temporary" => temporary # NoFile
  /\ rows \in [Exporters -> RowSets]
  /\ outcome \in [Exporters -> Outcomes]
  /\ exports \in 0..MaxExports
  /\ faults \in 0..MaxFaults
  /\ alone \in [Exporters -> BOOLEAN]
  /\ collided \in BOOLEAN

(* From the moment a file has a name, under the temporary one too, only    *)
(* its owner can open it: it is created under the restricted umask, in a   *)
(* restricted directory, and never loses that, faults, reruns and exports  *)
(* at the same time included (storage_guard.py write_parquet_securely).    *)
FilesAreOwnerOnly ==
  \A f \in {temporary, target} :
    f # NoFile => f.mode = Secure /\ directory = Secure

(* A reader of the destination never sees a file that is half written,     *)
(* whenever a process dies, unless two exports had the temporary file at   *)
(* the same time: exports that overlap otherwise are harmless here.        *)
DestinationIsNeverPartial ==
  target # NoFile /\ target.content = Partial => collided

(* Rows with findings stay at the destination only if something failed or  *)
(* died, or two exports had the temporary file at the same time: else the  *)
(* last export that renamed to it scans what it wrote and purges it.       *)
FindingsNeedAFault ==
  (\A e \in Exporters : pc[e] = "idle") /\ target # NoFile /\ target.content \in Dirty =>
    faults > 0 \/ collided

(* An export that passed with no other at the same time left its own rows  *)
(* at the destination, and they have no finding, whatever earlier exports, *)
(* collisions and deaths left there.                                       *)
PassedExportIsAtDestination ==
  \A e \in Exporters : outcome[e] = "passed" /\ alone[e] =>
    target # NoFile /\ target.content = rows[e] /\ rows[e] \notin Dirty

(* An export that comes to write, with no other at the same time, leaves   *)
(* no temporary file behind, whether it returns or raises, not even that   *)
(* of a process that died before it; and without faults no exports leave   *)
(* one, however they collide.                                              *)
EndedExportLeavesNoTemporary ==
  /\ \A e \in Exporters :
       outcome[e] \in {"passed", "purged", "write failed", "scan raised"} /\ alone[e] =>
         temporary = NoFile
  /\ faults = 0 /\ (\A e \in Exporters : pc[e] = "idle") => temporary = NoFile

(* The caller of an export keeps its umask, on every path out of the write. *)
UmaskIsGivenBack ==
  \A e \in Exporters : pc[e] \notin WriteSteps => umask[e] = Inherited

(* "Write the prepared export, then purge it if post-write scan fails"     *)
(* (secure_export.py:175): a scan that fails by raising is one too.        *)
FailedScanPurgesExport ==
  \A e \in Exporters : outcome[e] \in {"purged", "scan raised"} => target = NoFile
=============================================================================
