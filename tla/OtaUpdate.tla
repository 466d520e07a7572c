----------------------------- MODULE OtaUpdate -----------------------------
(***************************************************************************)
(* Over-the-air updates of one core service (commd, gateway or factory) by *)
(* kaonic-installer (installer.rs): apply_update, and validate_on_boot,    *)
(* which the installer runs whenever it starts.                            *)
(*                                                                         *)
(* A copy or a write truncates the file before it fills it, and the        *)
(* installer can be interrupted in between: the file is then Torn.  A      *)
(* version stands for its binary, for that binary's SHA-256 in the stored  *)
(* hash, and for its number in the version file.  What apply_update        *)
(* rejects before it touches the device (a bad ZIP, checksum or signature) *)
(* changes nothing and is left out.                                        *)
(***************************************************************************)
EXTENDS Naturals

CONSTANTS
    Versions,         \* the packages that exist
    Broken,           \* those whose service does not stay up
    None,             \* no such file; not running
    Torn,             \* a file cut off while it was written
    MaxFaults         \* bound: copies and writes that fail in a behaviour

ASSUME OtaAssumption ==
    /\ Broken \subseteq Versions
    /\ None \notin Versions /\ Torn \notin Versions /\ None # Torn
    /\ MaxFaults \in Nat

VARIABLES
    polled,           \* the service's health is polled: all but the gateway's
    bin,              \* Target.binary_path
    bak,              \* Target.backup_path
    hash,             \* Target.hash_path
    version,          \* Target.version_path
    running,          \* the version the service runs
    op,               \* what the installer is doing, with which package, and
                      \* (history) the binary it found
    faults            \* copies and writes that failed

vars == <<polled, bin, bak, hash, version, running, op, faults>>
stored == <<bak, hash, version>>

File == Versions \cup {None, Torn}

At(s) == op.pc = s
Goto(s) == op' = [op EXCEPT !.pc = s]
Idle == [pc |-> "idle", new |-> None, found |-> None]
Boot == [Idle EXCEPT !.pc = "validate"]

Init ==
    /\ polled \in BOOLEAN
    /\ bin \in Versions \cup {None} /\ bin \notin Broken
    /\ bak = None
    /\ hash \in {None, bin}           \* images may come without a hash
    /\ version = hash
    /\ running = None
    /\ op = Boot
    /\ faults = 0

\* A copy or a write may fail half-way.
Fault ==
    /\ faults < MaxFaults
    /\ faults' = faults + 1

\* What is running once systemctl has started what the binary is now.
Started == IF bin \in Versions \ Broken THEN bin ELSE None

-----------------------------------------------------------------------------
(* validate_on_boot                                                        *)

\* (mutant) A mismatch is let pass.
NeverCorrupt == FALSE

\* A torn hash is that of no binary, not even of a torn one.
Corrupt ==
    /\ bin # None \/ bak # None
    /\ hash # None
    /\ hash = Torn \/ hash # bin

Validate ==
    /\ At("validate")
    /\ IF Corrupt
       THEN op' = [op EXCEPT !.pc = "restore", !.found = bin] /\ running' = None
       ELSE op' = Idle /\ UNCHANGED running
    /\ UNCHANGED <<polled, bin, stored, faults>>

\* restore_backup, at boot and after a failed update: nothing without a
\* backup, and a failure of the copy is not noticed.
RestoreBegin ==
    /\ At("restore")
    /\ IF bak = None THEN Goto("restart") /\ UNCHANGED bin
                     ELSE Goto("restoring") /\ bin' = Torn
    /\ UNCHANGED <<polled, stored, running, faults>>

RestoreEnd ==
    /\ At("restoring")
    /\ \/ bin' = bak /\ UNCHANGED faults
       \/ Fault /\ UNCHANGED bin
    /\ Goto("restart")
    /\ UNCHANGED <<polled, stored, running>>

Restart ==
    /\ At("restart")
    /\ running' = Started
    /\ op' = Idle
    /\ UNCHANGED <<polled, bin, stored, faults>>

-----------------------------------------------------------------------------
(* apply_update, from where it touches the device.                         *)

Update(v) ==
    /\ At("idle")
    /\ op' = [pc |-> "backup", new |-> v, found |-> bin]
    /\ running' = None
    /\ UNCHANGED <<polled, bin, stored, faults>>

\* backup_current: a failure of the copy is not noticed either.
BackupBegin ==
    /\ At("backup")
    /\ IF bin = None THEN Goto("copy") /\ UNCHANGED bak
                     ELSE Goto("saving") /\ bak' = Torn
    /\ UNCHANGED <<polled, bin, hash, version, running, faults>>

\* (mutant) The backup is made of the new binary.
BackupOfNew == op.new

BackupOf == bin

BackupEnd ==
    /\ At("saving")
    /\ \/ bak' = BackupOf /\ UNCHANGED faults
       \/ Fault /\ UNCHANGED bak
    /\ Goto("copy")
    /\ UNCHANGED <<polled, bin, hash, version, running>>

CopyBegin ==
    /\ At("copy")
    /\ bin' = Torn
    /\ Goto("copying")
    /\ UNCHANGED <<polled, stored, running, faults>>

\* When this copy fails the request ends there, the service stopped.
CopyEnd ==
    /\ At("copying")
    /\ \/ bin' = op.new /\ Goto("start") /\ UNCHANGED faults
       \/ Fault /\ op' = Idle /\ UNCHANGED bin
    /\ UNCHANGED <<polled, stored, running>>

Start ==
    /\ At("start")
    /\ running' = Started
    /\ Goto("poll")
    /\ UNCHANGED <<polled, bin, stored, faults>>

\* (mutant) Whoever is polled is taken to be well.
AlwaysHealthy == TRUE

\* The gateway's health is assumed, it restarts by itself.
Healthy == polled => running # None

Poll ==
    /\ At("poll")
    /\ IF Healthy
       THEN Goto("record") /\ UNCHANGED running
       ELSE Goto("restore") /\ running' = None
    /\ UNCHANGED <<polled, bin, stored, faults>>

RecordBegin ==
    /\ At("record")
    /\ hash' = Torn
    /\ Goto("recording")
    /\ UNCHANGED <<polled, bin, bak, version, running, faults>>

\* A failure to write the hash or the version is not noticed.
RecordEnd ==
    /\ At("recording")
    /\ \/ hash' = op.new /\ UNCHANGED faults
       \/ Fault /\ UNCHANGED hash
    /\ Goto("version")
    /\ UNCHANGED <<polled, bin, bak, version, running>>

RecordVersion ==
    /\ At("version")
    /\ \/ version' = op.new /\ UNCHANGED faults
       \/ Fault /\ version' = Torn
    /\ op' = Idle
    /\ UNCHANGED <<polled, bin, bak, hash, running>>

-----------------------------------------------------------------------------
\* A crash of the installer, or a loss of power after which systemd starts
\* the service; the installer then starts, too.
Interrupt ==
    /\ op' = Boot
    /\ running' \in {running, None, Started}
    /\ UNCHANGED <<polled, bin, stored, faults>>

ServiceDies ==
    /\ running # None
    /\ running' = None
    /\ UNCHANGED <<polled, bin, stored, op, faults>>

Next ==
    \/ Validate \/ RestoreBegin \/ RestoreEnd \/ Restart
    \/ \E v \in Versions : Update(v)
    \/ BackupBegin \/ BackupEnd \/ CopyBegin \/ CopyEnd \/ Start \/ Poll
    \/ RecordBegin \/ RecordEnd \/ RecordVersion
    \/ Interrupt \/ ServiceDies

Spec == Init /\ [][Next]_vars

-----------------------------------------------------------------------------
OpRecord ==
    [pc : {"idle", "validate", "restore", "restoring", "restart", "backup", "saving",
           "copy", "copying", "start", "poll", "record", "recording", "version"},
     new : Versions \cup {None}, found : File]

TypeOK ==
    /\ polled \in BOOLEAN
    /\ bin \in File /\ bak \in File /\ hash \in File /\ version \in File
    /\ running \in Versions \cup {None}
    /\ op \in OpRecord
    /\ faults \in 0..MaxFaults

\* At rest the binary is the one whose hash is on record, at whatever moments
\* updates and boots were interrupted before; unless a copy or write failed
\* for good, or an interruption hit the recording of the hash itself
\* (installer.rs apply_update, validate_on_boot).
InstalledIsRecorded ==
    At("idle") /\ faults = 0 /\ hash \in Versions => bin = hash

\* ... and, where the health is polled, one that did come up once.
InstalledIsHealthy ==
    At("idle") /\ faults = 0 /\ hash \in Versions /\ polled => bin \notin Broken

\* A rolled back update leaves the binary that was there before it
\* (installer.rs restore_backup).
RollbackRestores ==
    At("restart") /\ op.new # None /\ op.found \in Versions /\ faults = 0
        => bin = op.found

\* "Validate the installed binary against the stored hash, restoring backup if
\* corrupt": validation never replaces a good binary by a torn backup.
BootKeepsGood ==
    At("restart") /\ op.new = None /\ op.found \in Versions /\ faults = 0
        => bin \in Versions
=============================================================================
