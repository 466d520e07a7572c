-------------------------- MODULE OtaUpdateProofs --------------------------
(***************************************************************************)
(* What OtaUpdate guarantees for any set of versions, however many         *)
(* interruptions there are and wherever they hit.                          *)
(***************************************************************************)
EXTENDS OtaUpdate, TLAPS

LEMMA InitType == Init => TypeOK
BY OtaAssumption DEF Init, TypeOK, OpRecord, File, Boot, Idle

LEMMA StartedType == TypeOK => Started \in Versions \cup {None}
BY DEF TypeOK, Started

LEMMA NextType == TypeOK /\ [Next]_vars => TypeOK'
<1> SUFFICES ASSUME TypeOK, [Next]_vars PROVE TypeOK'
    OBVIOUS
<1>. USE OtaAssumption, StartedType DEF At, Goto, OpRecord, File, stored
<1>1. CASE Validate
    <2>1. CASE Corrupt
        BY <1>1, <2>1 DEF TypeOK, Validate
    <2>2. CASE ~Corrupt
        <3>1. op' = Idle /\ UNCHANGED <<polled, bin, bak, hash, version, running, faults>>
            BY <1>1, <2>2 DEF Validate
        <3> QED BY <3>1 DEF TypeOK, Idle
    <2> QED BY <2>1, <2>2
<1>2. CASE RestoreBegin
    BY <1>2 DEF TypeOK, RestoreBegin
<1>3. CASE RestoreEnd
    BY <1>3 DEF TypeOK, RestoreEnd, Fault
<1>4. CASE Restart
    BY <1>4 DEF TypeOK, Restart, Idle
<1>5. ASSUME NEW v \in Versions, Update(v) PROVE TypeOK'
    BY <1>5 DEF TypeOK, Update
<1>6. CASE BackupBegin
    BY <1>6 DEF TypeOK, BackupBegin
<1>7. CASE BackupEnd
    BY <1>7 DEF TypeOK, BackupEnd, BackupOf, Fault
<1>8. CASE CopyBegin
    BY <1>8 DEF TypeOK, CopyBegin
<1>9. CASE CopyEnd
    BY <1>9 DEF TypeOK, CopyEnd, Fault, Idle
<1>10. CASE Start
    BY <1>10 DEF TypeOK, Start
<1>11. CASE Poll
    BY <1>11 DEF TypeOK, Poll
<1>12. CASE RecordBegin
    BY <1>12 DEF TypeOK, RecordBegin
<1>13. CASE RecordEnd
    BY <1>13 DEF TypeOK, RecordEnd, Fault
<1>14. CASE RecordVersion
    BY <1>14 DEF TypeOK, RecordVersion, Fault, Idle
<1>15. CASE Interrupt
    BY <1>15 DEF TypeOK, Interrupt, Boot, Idle
<1>16. CASE ServiceDies
    BY <1>16 DEF TypeOK, ServiceDies
<1>17. CASE UNCHANGED vars
    BY <1>17 DEF TypeOK, vars
<1> QED
    BY <1>1, <1>2, <1>3, <1>4, <1>5, <1>6, <1>7, <1>8, <1>9, <1>10, <1>11, <1>12,
       <1>13, <1>14, <1>15, <1>16, <1>17 DEF Next

\* The files, the service and the installer's step always have the values they
\* should (installer.rs).
THEOREM OtaTypeCorrect == Spec => []TypeOK
BY InitType, NextType, PTL DEF Spec

-----------------------------------------------------------------------------
(* The inductive invariant: where the version on record is at each step.   *)

\* Steps at which the binary is the recorded one, and at which the backup is.
InBinary == {"idle", "backup", "saving", "restart"}
InBackup == {"copy", "copying", "start", "poll", "record", "restore", "restoring"}

RecordedSomewhere ==
    hash \in Versions =>
        /\ op.pc \in InBinary => bin = hash
        /\ op.pc \in InBackup => bak = hash
        /\ At("validate") => hash \in {bin, bak}

\* What an update has done with its package by then.
PackageInPlace ==
    /\ op.pc \in {"backup", "saving", "copy", "copying", "start", "poll", "record",
                  "recording", "version"} => op.new \in Versions
    /\ op.pc \in {"start", "poll", "record", "recording", "version"} => bin = op.new
    /\ At("recording") => hash = Torn
    /\ At("version") => hash = op.new
    /\ At("validate") => op.new = None

\* What was found is still to be found.
FoundSomewhere ==
    op.new # None /\ op.found \in Versions =>
        /\ op.pc \in {"backup", "saving", "restart"} => bin = op.found
        /\ op.pc \in InBackup => bak = op.found

\* What is recorded, or about to be, has run.
RecordedRan ==
    polled =>
        /\ hash \notin Broken
        /\ op.pc \in {"record", "recording", "version"} => op.new \notin Broken
        /\ running \notin Broken
        /\ At("poll") => running \in {None, op.new}

OtaInv ==
    faults = 0 =>
        RecordedSomewhere /\ PackageInPlace /\ FoundSomewhere /\ RecordedRan

LEMMA InitOta == Init => OtaInv
BY OtaAssumption DEF Init, OtaInv, RecordedSomewhere, PackageInPlace, FoundSomewhere,
   RecordedRan, InBinary, InBackup, At, Boot, Idle

LEMMA NextOta == TypeOK /\ OtaInv /\ [Next]_vars => OtaInv'
<1> SUFFICES ASSUME TypeOK, OtaInv, [Next]_vars, faults' = 0
             PROVE  (RecordedSomewhere /\ PackageInPlace /\ FoundSomewhere /\ RecordedRan)'
    BY DEF OtaInv
<1>. USE OtaAssumption DEF At, Goto, stored, InBinary, InBackup
\* No fault so far, and none now.
<1>0. faults = 0 /\ ~Fault /\ UNCHANGED faults
    <2>1. faults \in Nat /\ (UNCHANGED faults \/ Fault)
        BY DEF TypeOK, Next, Validate, RestoreBegin, RestoreEnd, Restart, Update, BackupBegin,
               BackupEnd, CopyBegin, CopyEnd, Start, Poll, RecordBegin, RecordEnd,
               RecordVersion, Interrupt, ServiceDies, vars
    <2> QED BY <2>1 DEF Fault
<1>. DEFINE Inv == RecordedSomewhere /\ PackageInPlace /\ FoundSomewhere /\ RecordedRan
<1>inv. Inv /\ op \in OpRecord
    BY <1>0 DEF OtaInv, TypeOK
<1>. USE <1>0, <1>inv DEF OpRecord, RecordedSomewhere, PackageInPlace, FoundSomewhere, RecordedRan
<1>1. CASE Validate
    <2>1. CASE Corrupt
        BY <1>1, <2>1 DEF Validate, Corrupt
    <2>2. CASE ~Corrupt
        <3>1. op' = Idle /\ UNCHANGED <<polled, bin, bak, hash, version, running, faults>>
            BY <1>1, <2>2 DEF Validate
        <3>2. hash \in Versions => bin = hash
            BY <1>1, <2>2 DEF Validate, Corrupt
        <3> QED BY <3>1, <3>2 DEF Idle
    <2> QED BY <2>1, <2>2
<1>2. CASE RestoreBegin
    BY <1>2 DEF RestoreBegin
<1>3. CASE RestoreEnd
    BY <1>3 DEF RestoreEnd
<1>4. CASE Restart
    BY <1>4 DEF Restart, Started, Idle
<1>5. ASSUME NEW v \in Versions, Update(v) PROVE Inv'
    BY <1>5 DEF Update
<1>6. CASE BackupBegin
    BY <1>6 DEF BackupBegin
<1>7. CASE BackupEnd
    BY <1>7 DEF BackupEnd, BackupOf
<1>8. CASE CopyBegin
    BY <1>8 DEF CopyBegin
<1>9. CASE CopyEnd
    BY <1>9 DEF CopyEnd
<1>10. CASE Start
    BY <1>10 DEF Start, Started
<1>11. CASE Poll
    BY <1>11 DEF Poll, Healthy
<1>12. CASE RecordBegin
    BY <1>12 DEF RecordBegin
<1>13. CASE RecordEnd
    BY <1>13 DEF RecordEnd
<1>14. CASE RecordVersion
    BY <1>14 DEF RecordVersion, Idle
<1>15. CASE Interrupt
    <2>1. op' = [pc |-> "validate", new |-> None, found |-> None]
        BY <1>15 DEF Interrupt, Boot, Idle
    <2>2. UNCHANGED <<polled, bin, bak, hash>>
        BY <1>15 DEF Interrupt
    <2>3. hash \in Versions => hash \in {bin, bak}
        OBVIOUS
    <2>4. polled => running' \notin Broken
        BY <1>15 DEF Interrupt, Started
    <2> QED BY <2>1, <2>2, <2>3, <2>4
<1>16. CASE ServiceDies
    BY <1>16 DEF ServiceDies
<1>17. CASE UNCHANGED vars
    BY <1>17 DEF vars
<1> QED
    BY <1>1, <1>2, <1>3, <1>4, <1>5, <1>6, <1>7, <1>8, <1>9, <1>10, <1>11, <1>12,
       <1>13, <1>14, <1>15, <1>16, <1>17 DEF Next

LEMMA OtaInvariant == Spec => []OtaInv
BY InitOta, NextOta, OtaTypeCorrect, PTL DEF Spec

\* At rest the binary is the one whose hash is on record, wherever updates and
\* boots were interrupted, as long as no copy failed for good.
THEOREM BinaryIsRecorded == Spec => []InstalledIsRecorded
<1>1. OtaInv => InstalledIsRecorded
    BY DEF OtaInv, InstalledIsRecorded, RecordedSomewhere, InBinary, At
<1> QED BY <1>1, OtaInvariant, PTL

\* A version that never came up is never at rest where health is polled.
THEOREM BinaryIsHealthy == Spec => []InstalledIsHealthy
<1>1. OtaInv => InstalledIsHealthy
    BY DEF OtaInv, InstalledIsHealthy, RecordedSomewhere, RecordedRan, InBinary, At
<1> QED BY <1>1, OtaInvariant, PTL

\* A rolled back update leaves the binary that was there before it.
THEOREM RollbackIsExact == Spec => []RollbackRestores
<1>1. OtaInv => RollbackRestores
    BY DEF OtaInv, RollbackRestores, FoundSomewhere, At
<1> QED BY <1>1, OtaInvariant, PTL
=============================================================================
