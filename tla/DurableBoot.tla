----------------------------- MODULE DurableBoot -----------------------------
(***************************************************************************)
(* How a terminal with the native store starts: the gates of the native    *)
(* process over what the disk still holds, the epoch floor it writes, and  *)
(* the boot of the window, which must choose between the native store and  *)
(* the IndexedDB it was migrated from, or refuse to run.                   *)
(***************************************************************************)
EXTENDS Naturals

CONSTANT MaxStarts  \* bound of the exploration

ASSUME BootAssumption == MaxStarts \in Nat

VARIABLES
  disk,       \* floor file, status of the newest epoch in the manifest, domain files
  native,     \* the native process
  authority,  \* the store the window works on, or why it does not
  migrated,   \* the terminal has worked on the native store
  starts

bootVars == <<disk, native, authority, migrated, starts>>

(* Never started; migrated by an earlier release; left by one in the       *)
(* middle of its migration, which wrote the floor on commit only.  The     *)
(* files of an enrolment, which need a floor as domain files do, are left  *)
(* out.                                                                    *)
Disks == {[floor |-> FALSE, manifest |-> "absent", files |-> "none"],
          [floor |-> TRUE, manifest |-> "COMMITTED", files |-> "all"],
          [floor |-> FALSE, manifest |-> "COPYING", files |-> "some"]}

BootTypeOK ==
  /\ disk \in [floor : BOOLEAN, manifest : {"absent", "COPYING", "COMMITTED"}, files : {"none", "some", "all"}]
  /\ native \in {"down", "checked", "up", "refused"}
  /\ authority \in {"none", "starting", "blocked", "native", "copied", "legacy"}
  /\ migrated \in BOOLEAN
  /\ starts \in 0..MaxStarts

BootInit ==
  /\ disk \in Disks
  /\ native = "down" /\ authority = "none"
  /\ migrated = (disk.manifest = "COMMITTED")
  /\ starts = 0

-----------------------------------------------------------------------------
(* A committed migration has its row, and all its files.                   *)
CommittedStateValid == disk.manifest = "COMMITTED" /\ disk.files = "all"
DurableFilesExist == disk.manifest # "absent" \/ disk.files # "none"

(* The gates: what the floor allows, and, under a floor, the manifest.     *)
StartupIntegrity ==
  IF disk.floor
    THEN IF disk.manifest # "absent" THEN CommittedStateValid ELSE disk.files = "none"
    ELSE ~DurableFilesExist
Start ==
  /\ native = "down" /\ starts < MaxStarts /\ starts' = starts + 1
  /\ native' = IF StartupIntegrity THEN "checked" ELSE "refused"
  /\ UNCHANGED <<disk, authority, migrated>>

(* The floor is written before the window starts, whatever the disk holds. *)
WriteFloor ==
  /\ native = "checked"
  /\ disk' = [disk EXCEPT !.floor = TRUE]
  /\ native' = "up" /\ authority' = "starting"
  /\ UNCHANGED <<migrated, starts>>

-----------------------------------------------------------------------------
(* The window asks for the manifest.  A missing one is an answer only if   *)
(* nothing was ever there; else, like a broken one, it blocks the window.  *)
MutPriorStateExists == DurableFilesExist  (* mutant: the floor is no trace of a store *)
PriorStateExists == disk.floor \/ DurableFilesExist
ManifestReadable == IF disk.manifest = "absent" THEN ~PriorStateExists
                    ELSE disk.manifest = "COMMITTED" => disk.files = "all"

(* With no committed epoch the cutover copies IndexedDB to a new one, and  *)
(* goes on with the copy or, if that failed, with IndexedDB.  The gates    *)
(* and the floor leave no way to it, but for a change of either.           *)
Cutover ==
  \E copied \in BOOLEAN :
    /\ authority' = IF copied THEN "copied" ELSE "legacy"
    /\ disk' = [disk EXCEPT !.manifest = IF copied THEN "COMMITTED" ELSE "COPYING",
                            !.files = IF copied THEN "all" ELSE "some"]
BootNativeDurableStore ==
  /\ native = "up" /\ authority = "starting"
  /\ IF ~ManifestReadable THEN authority' = "blocked" /\ UNCHANGED disk
     ELSE IF disk.manifest = "COMMITTED" THEN authority' = "native" /\ UNCHANGED disk
     ELSE Cutover
  /\ migrated' = (migrated \/ authority' \in {"native", "copied"})
  /\ UNCHANGED <<native, starts>>

Stop ==
  /\ native # "down"
  /\ native' = "down" /\ authority' = "none"
  /\ UNCHANGED <<disk, migrated, starts>>

(* Something else removes files while the terminal is off.                 *)
LoseFiles ==
  /\ native = "down"
  /\ \/ disk' = [disk EXCEPT !.floor = FALSE]
     \/ disk' = [disk EXCEPT !.manifest = "absent"]
     \/ disk.files # "none" /\ disk' = [disk EXCEPT !.files = "some"]
     \/ disk' = [disk EXCEPT !.files = "none"]
  /\ UNCHANGED <<native, authority, migrated, starts>>

BootNext == Start \/ WriteFloor \/ BootNativeDurableStore \/ Stop \/ LoseFiles
BootSpec == BootInit /\ [][BootNext]_bootVars

-----------------------------------------------------------------------------
(* A terminal that has worked on the native store never works on IndexedDB *)
(* again, nor on a new copy of it, whatever files it lost in between and   *)
(* wherever it stopped: it would not have the sales taken since.           *)
MigrationIsFinal == [][migrated => authority' \notin {"legacy", "copied"}]_bootVars

(* A floor alone, without a manifest and without domain files, keeps no    *)
(* terminal from working.                                                  *)
FloorNeedsNoManifest ==
  disk.manifest = "absent" /\ disk.files = "none" => authority # "blocked"
=============================================================================
