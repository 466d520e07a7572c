-------------------------- MODULE InstallerUpgrade --------------------------
(***************************************************************************)
(* The gateway replaces the binary of kaonic-installer                     *)
(* (http/installer.rs, replace_installer_binary): the upload is written to *)
(* a temporary file beside it, whose name is always the same, and renamed  *)
(* over it while the service is stopped.  Uploads run beside each other.   *)
(* That the service stops in the middle of whatever it is doing is the     *)
(* interruption PluginInstall has.                                         *)
(***************************************************************************)
EXTENDS Naturals

CONSTANTS
    Upgrades,         \* POSTs of a binary
    Broken,           \* those whose binary does not run: only an empty one is refused
    Shipped,          \* the binary that is there first
    NoFile,           \* no file, nobody
    MaxErrors         \* bound: calls that fail, and kills of the gateway

ASSUME UpgradeAssumption ==
    /\ Broken \subseteq Upgrades /\ Shipped \notin Upgrades
    /\ NoFile \notin Upgrades \cup {Shipped} /\ MaxErrors \in Nat

VARIABLES
    file,             \* inodes, named for who made them: whose bytes are in
                      \* it, whether all of them, and whether it is executable
    temp,             \* .kaonic-installer.upgrade.tmp
    target,           \* the installer's binary
    service,          \* the installer runs
    pc,               \* the upgrades
    open,             \* the inode each is writing
    errors,
    killed,           \* history: the gateway was killed
    unstarted,        \* history: a systemctl start failed
    overlapped        \* history: two upgrades were under way at one time

upgradeVars == <<file, temp, target, service, pc, open, errors, killed, unstarted, overlapped>>
Inodes == Upgrades \cup {Shipped}
flags == <<killed, unstarted, overlapped>>

Good(f) == f.whole /\ f.exec
Runs(f) == Good(f) /\ f.of \notin Broken
Advance(u, s) == pc' = [pc EXCEPT ![u] = s]
Rest == \A u \in Upgrades : pc[u] \in {"new", "ok", "error"}
Errs == errors < MaxErrors /\ errors' = errors + 1

UpgradeInit ==
    /\ file = [i \in Inodes |-> [of |-> i, whole |-> TRUE, exec |-> i = Shipped]]
    /\ temp = NoFile
    /\ target = Shipped
    /\ service = TRUE
    /\ pc = [u \in Upgrades |-> "new"]
    /\ open = [u \in Upgrades |-> NoFile]
    /\ errors = 0
    /\ killed = FALSE /\ unstarted = FALSE /\ overlapped = FALSE

\* upgrade_installer_binary: an empty or unreadable body.
RefuseBody(u) ==
    /\ pc[u] = "new"
    /\ Advance(u, "error")
    /\ UNCHANGED <<file, temp, target, service, open, errors, flags>>

\* (mutant) The binary itself is written.
WrittenInPlace(u) == target

\* The file the upload is written to: the temporary one, left over or not.
WrittenFile(u) == IF temp = NoFile THEN u ELSE temp

\* fs::write opens and truncates ...
OpenTemp(u) ==
    LET i == WrittenFile(u)
    IN  /\ pc[u] = "new"
        /\ temp' = i
        /\ open' = [open EXCEPT ![u] = i]
        /\ file' = [file EXCEPT ![i] = [of |-> u, whole |-> FALSE, exec |-> @.exec]]
        /\ overlapped' = (overlapped \/ ~Rest)
        /\ Advance(u, "write")
        /\ UNCHANGED <<target, service, errors, killed, unstarted>>

\* ... and writes: what is in the file is whole if nobody else wrote to it.
WriteTemp(u) ==
    LET i == open[u]
    IN  /\ pc[u] = "write"
        /\ \E whole \in (IF file[i].of = u THEN {TRUE} ELSE BOOLEAN) :
              file' = [file EXCEPT ![i] = [of |-> u, whole |-> whole, exec |-> @.exec]]
        /\ open' = [open EXCEPT ![u] = NoFile]
        /\ Advance(u, "chmod")
        /\ UNCHANGED <<temp, target, service, errors, flags>>

\* The disk is full: the temporary file stays.
WriteFails(u) ==
    /\ pc[u] = "write" /\ Errs
    /\ open' = [open EXCEPT ![u] = NoFile]
    /\ Advance(u, "error")
    /\ UNCHANGED <<file, temp, target, service, flags>>

\* make_executable, by the file's name ...
MakeExecutable(u) ==
    /\ pc[u] = "chmod" /\ temp # NoFile
    /\ file' = [file EXCEPT ![temp].exec = TRUE]
    /\ Advance(u, "stop")
    /\ UNCHANGED <<temp, target, service, open, errors, flags>>

\* ... which another upgrade may have renamed or removed, or the chmod fails: what
\* goes by that name is removed.
ChmodFails(u) ==
    /\ pc[u] = "chmod"
    /\ IF temp = NoFile THEN UNCHANGED errors ELSE Errs
    /\ temp' = NoFile
    /\ Advance(u, "error")
    /\ UNCHANGED <<file, target, service, open, flags>>

StopService(u) ==
    /\ pc[u] = "stop"
    /\ \/ service' = FALSE /\ Advance(u, "rename") /\ UNCHANGED <<temp, errors>>
       \/ Errs /\ temp' = NoFile /\ Advance(u, "error") /\ UNCHANGED service
    /\ UNCHANGED <<file, target, open, flags>>

RenameTemp(u) ==
    /\ pc[u] = "rename"
    /\ \/ /\ temp # NoFile
          /\ target' = temp /\ temp' = NoFile
          /\ Advance(u, "start") /\ UNCHANGED errors
       \/ /\ IF temp = NoFile THEN UNCHANGED errors ELSE Errs
          /\ Advance(u, "restart") /\ UNCHANGED <<temp, target>>
    /\ UNCHANGED <<file, service, open, flags>>

\* systemctl start, which is done when the unit is begun: that the binary then
\* exits at once, or is none for this machine, nobody is told.
StartService(u) ==
    /\ pc[u] \in {"start", "restart"}
    /\ temp' = IF pc[u] = "restart" THEN NoFile ELSE temp
    /\ \/ /\ service' = Runs(file[target])
          /\ Advance(u, IF pc[u] = "start" THEN "ok" ELSE "error")
          /\ UNCHANGED <<errors, unstarted>>
       \/ Errs /\ unstarted' = TRUE /\ Advance(u, "error") /\ UNCHANGED service
    /\ UNCHANGED <<file, target, open, killed, overlapped>>

\* The gateway is killed, or its own restart is asked for.
Kill ==
    /\ ~Rest /\ Errs
    /\ pc' = [u \in Upgrades |-> IF pc[u] = "new" THEN "new" ELSE "error"]
    /\ open' = [u \in Upgrades |-> NoFile]
    /\ killed' = TRUE
    /\ UNCHANGED <<file, temp, target, service, unstarted, overlapped>>

UpgradeNext ==
    \/ \E u \in Upgrades :
          \/ RefuseBody(u) \/ OpenTemp(u) \/ WriteTemp(u) \/ WriteFails(u)
          \/ MakeExecutable(u) \/ ChmodFails(u) \/ StopService(u) \/ RenameTemp(u)
          \/ StartService(u)
    \/ Kill

UpgradeSpec == UpgradeInit /\ [][UpgradeNext]_upgradeVars

-----------------------------------------------------------------------------
(* Properties.                                                             *)

\* Types.
UpgradeTypeOK ==
    /\ file \in [Inodes -> [of : Inodes, whole : BOOLEAN, exec : BOOLEAN]]
    /\ temp \in Inodes \cup {NoFile} /\ target \in Inodes
    /\ service \in BOOLEAN
    /\ pc \in [Upgrades -> {"new", "write", "chmod", "stop", "rename", "start", "restart",
                           "ok", "error"}]
    /\ open \in [Upgrades -> Inodes \cup {NoFile}]
    /\ errors \in 0..MaxErrors
    /\ killed \in BOOLEAN /\ unstarted \in BOOLEAN /\ overlapped \in BOOLEAN

\* One upgrade after the other never leaves a torn binary, not even when a call
\* fails, the gateway is killed or an earlier upgrade has left its temporary
\* file; and when none was cut short the installer runs again, unless systemctl
\* could not start it or the binary an upload has put there does not run.  The
\* last is no error to anybody: that upload is answered as done.  A later one
\* that runs brings the installer back.
UpgradeSafe ==
    ~overlapped =>
        /\ Good(file[target])
        /\ Rest /\ ~killed /\ ~unstarted => service \/ file[target].of \in Broken
=============================================================================
