------------------------------- MODULE Backup -------------------------------
(***************************************************************************)
(* The copies kept on the shop's disk: AutoBackupService looks every few   *)
(* minutes whether the day's backup is due, an administrator may press     *)
(* "Back up now" beside it, and BackupService.runLocalBackup has pg_dump   *)
(* write a file, pg_restore list it, the older files pruned and the outcome *)
(* recorded.  Dumps fail, the power is cut, and a restore puts the settings *)
(* row back to an earlier day.                                             *)
(***************************************************************************)
EXTENDS Integers, Sequences, FiniteSets, SequencesExt

CONSTANTS timer, admin,    \* who runs a backup: the service's timer, the button
          Day,             \* instants in a day
          Times,           \* the times of day the backup may be set to
          DefaultTime,     \* the one the settings start with
          Keep,            \* backupKeep, as set on the settings page
          MaxTime,         \* bound: the last instant
          MaxTroubles      \* bound: failures, power cuts, restores, prunings cut short

Writers == {timer, admin}

ASSUME BackupAssumption ==
    /\ timer # admin /\ Writers \intersect {"good", "partial"} = {}
    /\ Day \in Nat \ {0} /\ Times \subseteq 0..(Day - 1) /\ DefaultTime \in Times
    /\ Keep \in 1..30 /\ MaxTime \in Nat /\ MaxTroubles \in Nat

VARIABLES now,         \* the clock
          on,          \* the server runs
          autoBackupEnabled, backupTime, lastBackupAt, lastBackupStatus,
          doing,       \* where each writer is
          folder,      \* the kj_*.dump files, oldest modification first
          verified,    \* a backup has been verified in this folder
          troubles

settings == <<autoBackupEnabled, backupTime, lastBackupAt, lastBackupStatus>>
backupVars == <<now, on, settings, doing, folder, verified, troubles>>

\* A file is somebody's who still writes or checks it, a verified dump, or what an
\* attempt that failed left behind.
Files == Writers \union {"good", "partial"}

\* No backup yet: before every slot.
Never == 0 - Day

BackupInit ==
    /\ now = 0 /\ on = TRUE
    /\ autoBackupEnabled = FALSE /\ backupTime = DefaultTime
    /\ lastBackupAt = Never /\ lastBackupStatus = "none"
    /\ doing = [w \in Writers |-> "idle"]
    /\ folder = <<>>
    /\ verified = FALSE
    /\ troubles = 0

\* Something goes wrong, once more.
Trouble == troubles < MaxTroubles /\ troubles' = troubles + 1

-----------------------------------------------------------------------------
\* Mutant: today's slot, also while it is still to come.
TodaysSlot(n, time) == n - (n % Day) + time

\* The most recent instant the backup was scheduled for.
lastScheduled(n, time) == n - ((n - time) % Day)

Due == autoBackupEnabled /\ lastBackupAt < lastScheduled(now, backupTime)

\* The timer fires: nothing while its last run is under way, or when none is due.
CheckDue ==
    /\ on
    /\ doing[timer] = "idle"
    /\ Due
    /\ doing' = [doing EXCEPT ![timer] = "starting"]
    /\ UNCHANGED <<now, on, settings, folder, verified, troubles>>

\* An administrator presses the button.
BackUpNow ==
    /\ on
    /\ doing[admin] = "idle"
    /\ doing' = [doing EXCEPT ![admin] = "starting"]
    /\ UNCHANGED <<now, on, settings, folder, verified, troubles>>

-----------------------------------------------------------------------------
\* w's file was written to: it is the newest now.
Touched(w) ==
    IF Contains(folder, w)
      THEN Append(RemoveAt(folder, CHOOSE i \in DOMAIN folder : folder[i] = w), w)
      ELSE folder

\* w's file becomes f and nobody's.
Turned(w, f) == [i \in DOMAIN folder |-> IF folder[i] = w THEN f ELSE folder[i]]

\* The newest files, as many as are kept.
Newest(files) == SubSeq(files, Len(files) - Keep + 1, Len(files))

\* Mutant: one file too many goes.
PruneOneMore(files) == IF Len(files) < Keep THEN files ELSE Tail(Newest(files))

\* The older files are unlinked.
prune(files) == IF Len(files) <= Keep THEN files ELSE Newest(files)

\* They are unlinked from the newest of them on, and prune gives up at the first that
\* cannot be, or before, with nothing but a warning ("prune skipped").
PruneSkipped(files) ==
    {SubSeq(files, 1, left) \o Newest(files) : left \in 1..(Len(files) - Keep)}

\* pg_dump opens its file.
StartDump(w) ==
    /\ doing[w] = "starting"
    /\ doing' = [doing EXCEPT ![w] = "dumping"]
    /\ folder' = Append(folder, w)
    /\ UNCHANGED <<now, on, settings, verified, troubles>>

\* pg_dump writes some more.
WriteDump(w) ==
    /\ doing[w] = "dumping"
    /\ folder' = Touched(w)
    /\ UNCHANGED <<now, on, settings, doing, verified, troubles>>

\* pg_dump is done.
EndDump(w) ==
    /\ doing[w] = "dumping"
    /\ doing' = [doing EXCEPT ![w] = "verifying"]
    /\ folder' = Touched(w)
    /\ UNCHANGED <<now, on, settings, verified, troubles>>

\* pg_restore lists the dump, which must still be there, and the older files go, or
\* some of them.  The number to keep is read in between; nothing is taken to happen
\* meanwhile.
Verify(w) ==
    /\ doing[w] = "verifying"
    /\ Contains(folder, w)
    /\ doing' = [doing EXCEPT ![w] = "recording"]
    /\ \/ folder' = prune(Turned(w, "good")) /\ UNCHANGED troubles
       \/ folder' \in PruneSkipped(Turned(w, "good")) /\ Trouble
    /\ verified' = TRUE
    /\ UNCHANGED <<now, on, settings>>

\* The outcome is written to the settings row.
Record(w) ==
    /\ doing[w] = "recording"
    /\ doing' = [doing EXCEPT ![w] = "idle"]
    /\ lastBackupAt' = now
    /\ lastBackupStatus' = "ok"
    /\ UNCHANGED <<now, on, autoBackupEnabled, backupTime, folder, verified, troubles>>

\* What runLocalBackup does when any part of it fails: the file stays where it is,
\* the failure is recorded, if that works, and the writer is free again.
BreakOff(w) ==
    /\ doing' = [doing EXCEPT ![w] = "idle"]
    /\ folder' = Turned(w, "partial")
    /\ lastBackupStatus' \in {"failed", lastBackupStatus}
    /\ UNCHANGED <<now, on, autoBackupEnabled, backupTime, lastBackupAt, verified>>

\* No folder, no program, no connection, a full disk, a dump that cannot be listed,
\* no settings row to write to.
Fail(w) == doing[w] # "idle" /\ Trouble /\ BreakOff(w)

\* Its file was pruned under it by the other writer.
FindGone(w) ==
    /\ doing[w] = "verifying"
    /\ ~Contains(folder, w)
    /\ BreakOff(w)
    /\ UNCHANGED troubles

-----------------------------------------------------------------------------
\* The power is cut, or the server killed: what was being written stays as it is.
PowerCut ==
    /\ on
    /\ Trouble
    /\ on' = FALSE
    /\ doing' = [w \in Writers |-> "idle"]
    /\ folder' = [i \in DOMAIN folder |-> IF folder[i] \in Writers THEN "partial" ELSE folder[i]]
    /\ UNCHANGED <<now, settings, verified>>

PowerOn ==
    /\ ~on
    /\ on' = TRUE
    /\ UNCHANGED <<now, settings, doing, folder, verified, troubles>>

Tick ==
    /\ now < MaxTime
    /\ now' = now + 1
    /\ UNCHANGED <<on, settings, doing, folder, verified, troubles>>

\* The settings page.
Configure(enabled, time) ==
    /\ on
    /\ autoBackupEnabled' = enabled
    /\ backupTime' = time
    /\ UNCHANGED <<now, on, lastBackupAt, lastBackupStatus, doing, folder, verified, troubles>>

\* A dump is restored, from the folder or uploaded: the settings row is again what
\* it was when the dump was taken.
Restore(enabled, time, last, status) ==
    /\ on
    /\ Trouble
    /\ last <= now
    /\ autoBackupEnabled' = enabled
    /\ backupTime' = time
    /\ lastBackupAt' = last
    /\ lastBackupStatus' = status
    /\ UNCHANGED <<now, on, doing, folder, verified>>

-----------------------------------------------------------------------------
Statuses == {"none", "ok", "failed"}

\* What the server does by itself once a backup has begun.
Proceed(w) == StartDump(w) \/ EndDump(w) \/ Verify(w) \/ Record(w) \/ FindGone(w)

BackupNext ==
    \/ CheckDue \/ BackUpNow
    \/ \E w \in Writers : Proceed(w) \/ WriteDump(w) \/ Fail(w)
    \/ PowerCut \/ PowerOn \/ Tick
    \/ \E enabled \in BOOLEAN, time \in Times : Configure(enabled, time)
    \/ \E enabled \in BOOLEAN, time \in Times, last \in {Never} \union 0..MaxTime,
          status \in Statuses : Restore(enabled, time, last, status)

BackupSpec == BackupInit /\ [][BackupNext]_backupVars

\* The timer goes on firing, the programs end, and the machine is switched on again.
BackupFairness == WF_backupVars(CheckDue) /\ WF_backupVars(PowerOn) /\ \A w \in Writers : WF_backupVars(Proceed(w))

BackupFairSpec == BackupSpec /\ BackupFairness

-----------------------------------------------------------------------------
\* The settings, the clock and the files are well formed, and a file belongs to a
\* writer only while that writer is at it: no writer is at two files.
BackupTypeOK ==
    /\ now \in 0..MaxTime /\ on \in BOOLEAN
    /\ autoBackupEnabled \in BOOLEAN /\ backupTime \in Times
    /\ lastBackupAt \in {Never} \union 0..now /\ lastBackupStatus \in Statuses
    /\ doing \in [Writers -> {"idle", "starting", "dumping", "verifying", "recording"}]
    /\ folder \in Seq(Files)
    /\ \A i, j \in DOMAIN folder : folder[i] = folder[j] /\ folder[i] \in Writers => i = j
    /\ \A i \in DOMAIN folder :
           folder[i] \in Writers => doing[folder[i]] \in {"dumping", "verifying"}
    /\ verified \in BOOLEAN /\ troubles \in 0..MaxTroubles

\* What attempts that failed or were cut off left behind, under names like any other.
Partials == {i \in DOMAIN folder : folder[i] = "partial"}

\* Once a backup has been verified the folder has a verified dump, whoever prunes while
\* the other one writes and whatever is cut short, until failures have cost it: all
\* the files that are kept but one are then what failed attempts left, and the one
\* is at most the other writer's.  So with N files kept the last good copy outlives
\* N - 2 failures.  With one file kept nothing of the kind holds: the file kept may
\* be the one the other writer is at, and the folder is only never empty.
AlwaysACopy ==
    verified =>
        \/ Contains(folder, "good")
        \/ Len(folder) >= Keep /\ Cardinality(Partials) >= Keep - 1

\* A slot that has come is backed up in the end, after failures, in spite of a
\* backup run by hand, and also when the machine was off at the time
\* (AutoBackupService: "self-heals across downtime").
CaughtUp == Due ~> ~Due

-----------------------------------------------------------------------------
\* What the repository says and the code does not keep.

Copies(files) == Len(SelectSeq(files, LAMBDA f : f = "good"))

\* "a failed backup never costs an existing copy" (runLocalBackup): a backup that
\* was verified adds a copy to those there are, up to the number to keep.  What a
\* failed pg_dump left in the folder is counted as one and outlives older good ones.
FailedCostsNothing ==
    [][(\E w \in Writers : doing[w] = "verifying" /\ doing'[w] = "recording")
           => Copies(folder') >= Keep \/ Copies(folder') > Copies(folder)]_backupVars
=============================================================================
