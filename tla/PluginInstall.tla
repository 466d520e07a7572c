--------------------------- MODULE PluginInstall ---------------------------
(***************************************************************************)
(* Installing, updating, controlling and deleting one plugin in            *)
(* kaonic-installer (plugins.rs), with the interruptions the code provides *)
(* for: a step is one rename, write or systemctl call, the installer can   *)
(* be interrupted between any two of them (a crash or a loss of power),    *)
(* and what it finds on the disk when it is back is all it knows.          *)
(*                                                                         *)
(* Of a plugin's files the model keeps the four that decide whether a      *)
(* directory is a usable plugin (package.zip and the signatures are moved, *)
(* removed and restored with them).  Writing a file cuts it short first.   *)
(* A half-written file of the live directory counts as absent there: the   *)
(* checksum, without which nothing is usable, is written last.  A unit     *)
(* file that is written over another, in systemd_dir or in the rollback    *)
(* directory, is Torn in between: whether it is whole is never looked at.  *)
(* A rename within the plugin's directory does not fail.                   *)
(* systemctl's exit status is never looked at; that it cannot be spawned   *)
(* at all, the one error it can return, is left out.  Other plugins, what  *)
(* they own, and two requests at the same time are left out, too.          *)
(***************************************************************************)
EXTENDS Naturals, Sequences

CONSTANTS
    Versions,         \* packages that may be uploaded
    None,             \* no such file, no row, not running
    Torn,             \* a unit file of which a part is missing
    Linked,           \* the versions whose manifest asks for the bin_path symlink
    MaxFaults         \* bound: writes that fail in a behaviour

ASSUME PluginAssumption ==
    /\ None \notin Versions
    /\ Torn \notin Versions \cup {None}
    /\ Linked \subseteq Versions
    /\ MaxFaults \in Nat

VARIABLES
    live,             \* plugin_dir: the version each file is of
    saved,            \* plugin_dir/.rollback, likewise
    savedDir,         \* .rollback exists
    savedLink,        \* .rollback has the symlink's metadata
    unit,             \* the version the unit in systemd_dir is of
    bin,              \* the symlink: none, ours, or something of another's
    row,              \* the version in the database
    enabled,          \* ... and its `enabled`
    running,          \* the version the service runs
    op,               \* the request or the boot under way
    faults,           \* writes that failed
    sound,            \* history: the operation found all in order, and was
                      \* not interrupted so far
    kept,             \* history: the version that was complete when the
                      \* last install or update began
    divided           \* history: since then, an interruption left some of the
                      \* files in one directory and some in the other

vars == <<live, saved, savedDir, savedLink, unit, bin, row, enabled, running,
          op, faults, sound, kept, divided>>

Parts == {"current", "manifest", "service", "hash"}
Empty == [x \in Parts |-> None]
Whole(v) == [x \in Parts |-> v]
Maybe == Versions \cup {None}
UnitFile == Maybe \cup {Torn}
Content(x) == IF x = "service" THEN UnitFile ELSE Maybe
Directory == {d \in [Parts -> UnitFile] : \A x \in Parts : d[x] \in Content(x)}

IdleOp == [pc |-> "idle", why |-> "boot", new |-> None, old |-> None,
           start |-> FALSE, stop |-> FALSE, i |-> 1, recovering |-> TRUE]
At(s) == op.pc = s
Goto(s) == op' = [op EXCEPT !.pc = s]
GotoPart(s, i) == op' = [op EXCEPT !.pc = s, !.i = i]
Done == op' = IdleOp
Boot == [IdleOp EXCEPT !.pc = "recover"]

files == <<live, saved, savedDir, savedLink>>
system == <<unit, bin, running>>
db == <<row, enabled>>
history == <<sound, kept, divided>>

\* (mutant) The checksum stays where it is.
MoveOrderNoHash == <<"current", "manifest", "service">>

\* The files in the order in which prepare_rollback moves them away, in which
\* install_plugin writes them, and in which rollback_install puts them back.
MoveOrder == <<"current", "manifest", "service", "hash">>
WriteOrder == <<"current", "manifest", "service", "hash">>
RestoreOrder == <<"current", "manifest", "service", "hash">>

\* What the properties ask for: program, manifest and checksum of one version,
\* and a unit file; that may be of another version, when an interruption left
\* that one installed, or Torn, by a copy that was cut short.
Complete(d) ==
    /\ \A x \in Parts : d[x] # None
    /\ d["manifest"] = d["current"] /\ d["hash"] = d["current"]

\* Every file, from where it is now.
Merged == [x \in Parts |-> IF live[x] # None THEN live[x] ELSE saved[x]]

VersionOf(d) == IF Complete(d) THEN d["current"] ELSE None

\* (mutant) The checksum is not looked at.
UsableUnchecked(d) == \A x \in Parts \ {"hash"} : d[x] # None

\* discover_plugin_record: every file there, and the checksum the binary's.
Usable(d) == (\A x \in Parts : d[x] # None) /\ d["hash"] = d["current"]

Init ==
    /\ live \in {Whole(v) : v \in Maybe}        \* a preinstalled plugin, or none
    /\ saved = Empty /\ savedDir = FALSE /\ savedLink = FALSE
    /\ unit = live["current"]
    /\ bin \in {"none", "other"}
    /\ row = None /\ enabled = FALSE
    /\ running = None
    /\ op = Boot
    /\ faults = 0
    /\ sound = FALSE
    /\ kept = live["current"] /\ divided = FALSE

-----------------------------------------------------------------------------
(* initialize_store: at boot, and at the start of every upload.            *)

CleanupRollback ==
    /\ saved' = Empty
    /\ savedDir' = FALSE
    /\ savedLink' = FALSE

\* recover_plugins_after_interruption
Recover ==
    /\ At("recover")
    /\ IF ~savedDir \/ (~Usable(live) /\ ~Usable(saved))
       THEN /\ Goto("discover")
            /\ UNCHANGED files
       ELSE IF Usable(live)
       THEN /\ Goto("discover")
            /\ CleanupRollback
            /\ UNCHANGED live
       ELSE /\ op' = [op EXCEPT !.pc = "undo", !.old = row]
            /\ UNCHANGED files
    /\ UNCHANGED <<system, db, faults, history>>

\* discover_plugins: a row for usable files without one; whether systemd
\* has the unit enabled is read from it.
Discover ==
    /\ At("discover")
    /\ Goto("reconcile")
    /\ IF row = None /\ Usable(live)
       THEN row' = live["manifest"] /\ enabled' \in BOOLEAN
       ELSE UNCHANGED db
    /\ UNCHANGED <<files, system, faults, history>>

\* reconcile_plugin_bin_paths; a foreign file at the path fails the whole.
Reconcile ==
    /\ At("reconcile")
    /\ LET wanted == row \in Linked /\ live["current"] # None IN
       /\ bin' = IF wanted /\ bin = "none" THEN "ours" ELSE bin
       /\ IF op.why = "boot" \/ (wanted /\ bin = "other") THEN Done ELSE Goto("begin")
    /\ UNCHANGED <<files, unit, running, db, faults, history>>

-----------------------------------------------------------------------------
(* install_plugin                                                          *)

\* All there, registered, and linked as its manifest asks; or nothing at all.
InOrder ==
    /\ live = Whole(row)
    /\ unit \in {row, None}
    /\ bin # "other" => (bin = "ours" <=> row \in Linked)

Install(v) ==
    /\ At("idle")
    /\ op' = [Boot EXCEPT !.why = "install", !.new = v]
    /\ sound' = FALSE
    /\ UNCHANGED <<files, system, db, faults, kept, divided>>

\* The record, and whether the service runs, are read; the rollback directory
\* is made anew.
Begin ==
    /\ At("begin")
    /\ op' = [op EXCEPT !.pc = "move", !.i = 1, !.old = row, !.recovering = FALSE,
                        !.start = row = None \/ running # None,
                        !.stop = row # None \/ unit # None]
    /\ saved' = Empty /\ savedDir' = TRUE /\ savedLink' = FALSE
    /\ sound' = InOrder
    /\ kept' = VersionOf(live) /\ divided' = FALSE
    /\ UNCHANGED <<live, system, db, faults>>

\* prepare_rollback: the files are moved away one by one ...
Move ==
    /\ At("move") /\ op.i <= Len(MoveOrder)
    /\ LET x == MoveOrder[op.i] IN
       /\ saved' = IF live[x] # None THEN [saved EXCEPT ![x] = live[x]] ELSE saved
       /\ live' = [live EXCEPT ![x] = None]
    /\ GotoPart("move", op.i + 1)
    /\ UNCHANGED <<savedDir, savedLink, system, db, faults, history>>

\* The request ends with an error, with the files still moved away.
GivesUp ==
    /\ faults < MaxFaults
    /\ faults' = faults + 1
    /\ Done
    /\ sound' = FALSE

\* ... and the installed unit is copied over the stored one, which is among
\* them: it is cut short first, and stays so when the copy fails.
SaveUnit ==
    /\ At("move") /\ op.i > Len(MoveOrder)
    /\ \/ /\ unit = None
          /\ Goto("savelink")
          /\ UNCHANGED <<saved, faults, sound>>
       \/ /\ unit # None
          /\ saved' = [saved EXCEPT !["service"] = Torn]
          /\ Goto("copy")
          /\ UNCHANGED <<faults, sound>>
       \/ unit # None /\ GivesUp /\ UNCHANGED saved
    /\ UNCHANGED <<live, savedDir, savedLink, system, db, kept, divided>>

CopyUnit ==
    /\ At("copy")
    /\ \/ /\ saved' = [saved EXCEPT !["service"] = unit]
          /\ Goto("savelink")
          /\ UNCHANGED <<faults, sound>>
       \/ GivesUp /\ UNCHANGED saved
    /\ UNCHANGED <<live, savedDir, savedLink, system, db, kept, divided>>

\* (mutant) What the symlink was is not noted.
SavesLinkNever == FALSE

SavesLink == op.old \in Linked /\ bin = "ours"

\* prepare_bin_path_rollback: likewise when the symlink is someone else's.
SaveLink ==
    /\ At("savelink")
    /\ IF op.old \in Linked /\ bin = "other"
       THEN /\ Done
            /\ sound' = FALSE
            /\ UNCHANGED savedLink
       ELSE /\ savedLink' = SavesLink
            /\ Goto("stop")
            /\ UNCHANGED sound
    /\ UNCHANGED <<live, saved, savedDir, system, db, faults, kept, divided>>

StopOld ==
    /\ At("stop")
    /\ running' = IF op.stop THEN None ELSE running
    /\ GotoPart("write", 1)
    /\ UNCHANGED <<files, unit, bin, db, faults, history>>

\* An error from here on: stop the service, and roll back.
Fail ==
    /\ Goto("undo")
    /\ running' = None

WriteFails ==
    /\ faults < MaxFaults
    /\ faults' = faults + 1
    /\ Fail

Write ==
    /\ At("write") /\ op.i <= Len(WriteOrder)
    /\ \/ /\ live' = [live EXCEPT ![WriteOrder[op.i]] = op.new]
          /\ GotoPart("write", op.i + 1)
          /\ UNCHANGED <<running, faults>>
       \/ WriteFails /\ UNCHANGED live
    /\ UNCHANGED <<saved, savedDir, savedLink, unit, bin, db, history>>

\* The unit in systemd_dir: cut short, and written.
WriteUnit ==
    /\ At("write") /\ op.i > Len(WriteOrder)
    /\ \/ unit' = Torn /\ Goto("unit") /\ UNCHANGED <<running, faults>>
       \/ WriteFails /\ UNCHANGED unit
    /\ UNCHANGED <<files, bin, db, history>>

UnitWritten ==
    /\ At("unit")
    /\ \/ unit' = op.new /\ Goto("link") /\ UNCHANGED <<running, faults>>
       \/ WriteFails /\ UNCHANGED unit
    /\ UNCHANGED <<files, bin, db, history>>

\* install_bin_path: first the symlink of the version before goes.
Link ==
    /\ At("link")
    /\ IF bin = "other" /\ {op.old, op.new} \cap Linked # {}
       THEN Fail /\ UNCHANGED bin
       ELSE /\ bin' = IF op.new \in Linked THEN "ours"
                      ELSE IF op.old \in Linked THEN "none" ELSE bin
            /\ Goto("start")
            /\ UNCHANGED running
    /\ UNCHANGED <<files, unit, db, faults, history>>

\* Start it, unless it was known and not running, and poll: it may be dead.
StartNew ==
    /\ At("start")
    /\ \/ /\ running' = IF op.start /\ running = None THEN live["current"] ELSE running
          /\ Goto("row")
       \/ op.start /\ Fail
    /\ UNCHANGED <<files, unit, bin, db, faults, history>>

\* upsert_plugin
Register ==
    /\ At("row")
    /\ \/ /\ row' = op.new
          /\ enabled' = IF op.old = None THEN TRUE ELSE enabled
          /\ Goto("clean")
          /\ UNCHANGED <<running, faults>>
       \/ WriteFails /\ UNCHANGED db
    /\ UNCHANGED <<files, unit, bin, history>>

-----------------------------------------------------------------------------
(* rollback_install, after a failed install or an interrupted one.         *)

\* The symlink of the version that was attempted, and all its files, go ...
Undo ==
    /\ At("undo")
    /\ LET attempted == IF op.recovering THEN op.old ELSE op.new IN
       bin' = IF attempted \in Linked /\ bin = "ours" THEN "none" ELSE bin
    /\ live' = Empty
    /\ GotoPart("restore", 1)
    /\ UNCHANGED <<saved, savedDir, savedLink, unit, running, db, faults, history>>

\* ... the saved ones are moved back one by one ...
Restore ==
    /\ At("restore") /\ op.i <= Len(RestoreOrder)
    /\ LET x == RestoreOrder[op.i] IN
       /\ live' = IF saved[x] # None THEN [live EXCEPT ![x] = saved[x]] ELSE live
       /\ saved' = [saved EXCEPT ![x] = None]
    /\ GotoPart("restore", op.i + 1)
    /\ UNCHANGED <<savedDir, savedLink, system, db, faults, history>>

\* ... the unit is copied from what is then left in the rollback directory,
\* or else removed ...
RestoreUnit ==
    /\ At("restore") /\ op.i > Len(RestoreOrder)
    /\ unit' = saved["service"]
    /\ Goto("relink")
    /\ UNCHANGED <<files, bin, running, db, faults, history>>

\* ... and the symlink (restore_bin_path).
RestoreLink ==
    /\ At("relink")
    /\ bin' = IF savedLink THEN "ours" ELSE bin
    /\ savedLink' = FALSE
    /\ Goto("restart")
    /\ UNCHANGED <<live, saved, savedDir, unit, running, db, faults, history>>

\* What may run once systemd is told to start the service.
Started ==
    IF unit = None THEN {running}
    ELSE {live["current"]} \cup IF unit = Torn THEN {None} ELSE {}

\* A known plugin is started again if it runs or is enabled; of an unknown
\* one the unit is removed in any case.
RestartOld ==
    /\ At("restart")
    /\ IF op.old # None
       THEN /\ running' \in IF enabled /\ running = None THEN Started ELSE {running}
            /\ UNCHANGED unit
       ELSE unit' = None /\ UNCHANGED running
    /\ Goto("clean")
    /\ UNCHANGED <<files, bin, db, faults, history>>

\* cleanup_rollback; a recovery goes on from here, an install is over.
Clean ==
    /\ At("clean")
    /\ CleanupRollback
    /\ IF op.recovering THEN Goto("discover") ELSE Done
    /\ UNCHANGED <<live, system, db, faults, history>>

-----------------------------------------------------------------------------
(* delete_plugin and control_plugin.                                       *)

\* Stopped and disabled first; a symlink of someone else's ends it there.
Delete ==
    /\ At("idle") /\ row # None
    /\ running' = None
    /\ sound' = InOrder
    /\ kept' = None /\ divided' = FALSE
    /\ IF row \in Linked /\ bin = "other"
       THEN UNCHANGED <<op, bin>>
       ELSE /\ bin' = IF row \in Linked THEN "none" ELSE bin
            /\ op' = [Boot EXCEPT !.pc = "rmunit", !.why = "delete"]
    /\ UNCHANGED <<files, unit, db, faults>>

DeleteUnit ==
    /\ At("rmunit")
    /\ unit' = None
    /\ Goto("rmdir")
    /\ UNCHANGED <<files, bin, running, db, faults, history>>

DeleteFiles ==
    /\ At("rmdir")
    /\ live' = Empty
    /\ CleanupRollback
    /\ Goto("rmrow")
    /\ UNCHANGED <<system, db, faults, history>>

DeleteRow ==
    /\ At("rmrow")
    /\ row' = None /\ enabled' = FALSE
    /\ Done
    /\ UNCHANGED <<files, system, faults, history>>

\* Whatever systemctl made of it, the row says it was done.
Control(action) ==
    /\ At("idle") /\ row # None
    /\ CASE action = "stop"    -> running' = None /\ enabled' = FALSE
         [] action = "start"   -> /\ running' \in {running} \cup Started
                                  /\ enabled' = TRUE
         [] action = "restart" -> /\ running' \in Started
                                  /\ enabled' = TRUE
    /\ UNCHANGED <<files, unit, bin, row, op, faults, history>>

-----------------------------------------------------------------------------
(* What else happens on the device.                                        *)

\* Some of the files are in one directory and some in the other.
Moving ==
    \/ At("move") /\ op.i \in 2..Len(MoveOrder)
    \/ At("restore") /\ op.i \in 2..Len(RestoreOrder)

\* A crash of the installer, or a loss of power.  systemd starts the enabled
\* services when the device comes up, and the installer boots.
Interrupt ==
    /\ op' = Boot
    /\ running' \in {running, None} \cup Started
    /\ sound' = FALSE
    /\ divided' = (divided \/ Moving)
    /\ UNCHANGED <<files, unit, bin, db, faults, kept>>

ServiceDies ==
    /\ running # None
    /\ running' = None
    /\ UNCHANGED <<files, unit, bin, db, op, faults, history>>

\* The operator puts something of their own at the symlink's path, or takes
\* away what is there; only while no request runs.
Operator ==
    /\ At("idle")
    /\ bin' \in {"none", "other"} \ {bin}
    /\ sound' = FALSE
    /\ UNCHANGED <<files, unit, running, db, op, faults, kept, divided>>

-----------------------------------------------------------------------------
InitStore == Recover \/ Discover \/ Reconcile
InstallStep ==
    \/ Begin \/ Move \/ SaveUnit \/ CopyUnit \/ SaveLink \/ StopOld
    \/ Write \/ WriteUnit \/ UnitWritten \/ Link \/ StartNew \/ Register
Rollback == Undo \/ Restore \/ RestoreUnit \/ RestoreLink \/ RestartOld
DeleteStep == Delete \/ DeleteUnit \/ DeleteFiles \/ DeleteRow

Next ==
    \/ InitStore \/ InstallStep \/ Rollback \/ Clean \/ DeleteStep
    \/ \E v \in Versions : Install(v)
    \/ \E a \in {"start", "restart", "stop"} : Control(a)
    \/ Interrupt \/ ServiceDies \/ Operator

Spec == Init /\ [][Next]_vars

-----------------------------------------------------------------------------
OpRecord ==
    [pc : {"idle", "recover", "discover", "reconcile", "begin", "move",
           "copy", "savelink", "stop", "write", "unit", "link", "start", "row", "undo",
           "restore", "relink", "restart", "clean", "rmunit", "rmdir", "rmrow"},
     why : {"boot", "install", "delete"}, recovering : BOOLEAN,
     new : Maybe, old : Maybe, start : BOOLEAN, stop : BOOLEAN, i : 1..5]

TypeOK ==
    /\ live \in Directory /\ saved \in Directory
    /\ savedDir \in BOOLEAN /\ savedLink \in BOOLEAN
    /\ unit \in UnitFile
    /\ bin \in {"none", "ours", "other"}
    /\ row \in Maybe /\ enabled \in BOOLEAN
    /\ running \in Maybe
    /\ op \in OpRecord
    /\ faults \in 0..MaxFaults
    /\ sound \in BOOLEAN /\ kept \in Maybe /\ divided \in BOOLEAN

\* An install, an update or a deletion that was not interrupted is all or
\* nothing: it ends with files of one version, the row of that version and the
\* symlink that version asks for, or with none of them, wherever it failed
\* (plugins.rs install_plugin, rollback_install, delete_plugin).
AllOrNothing == At("idle") /\ sound => InOrder

\* The program, the manifest and the checksum of a plugin that was complete when
\* an update began, or those of the version it was replaced with, are never lost
\* or mixed with another version's until the next upload or deletion: at every
\* moment, in the midst of a move and after any number of interruptions, they are
\* in the live directory, or in the rollback directory, or divided between the two
\* with no other version's file in their way
\* (plugins.rs prepare_rollback, rollback_install).
NeverLost == kept # None => Complete(live) \/ Complete(saved) \/ Complete(Merged)

\* ... and once the store is initialised it is the live directory that has them,
\* but if, and only if, an interruption hit while they were being moved: then
\* neither directory passes for a plugin, and the recovery leaves both as they
\* are (plugins.rs recover_plugins_after_interruption).
RecoveredAtBoot == At("reconcile") /\ kept # None => (Complete(live) <=> ~divided)

\* "plugin failed health check after install; rolled back": when a failed
\* update has been rolled back the plugin's systemd unit is there, and that of
\* the version in the database (plugins.rs rollback_install).
UnitRestored == At("clean") /\ sound /\ row # None => unit = row
=============================================================================
