-------------------------- MODULE InstallerService --------------------------
(***************************************************************************)
(* The HTTP service of kaonic-installer (main.rs) around the operations of *)
(* plugins.rs: what a request on one plugin does to its row, its unit and  *)
(* its process, one systemctl call at a time, on blocking threads with no  *)
(* mutual exclusion; and the cache of systemd's answers, which every       *)
(* successful request and a loop refresh, each reading first and writing   *)
(* whenever it is done.                                                    *)
(*                                                                         *)
(* Of systemd's answer the model keeps whether the unit is there, enabled  *)
(* and active.  An install or update, whose steps PluginInstall has, is a  *)
(* look at the row and one step; so is one that fails and is rolled back.  *)
(***************************************************************************)
EXTENDS Naturals

CONSTANTS
    Requests,         \* the HTTP requests of a behaviour
    Loop,             \* the task that refreshes the cache every few seconds
    Nothing,          \* no row, nothing read, nothing cached
    MaxFaults         \* bound: systemctl calls, or rollbacks, that fail

ASSUME ServiceAssumption ==
    /\ Loop \notin Requests
    /\ Nothing \notin BOOLEAN
    /\ MaxFaults \in Nat

VARIABLES
    row,              \* plugins.db: Nothing, or whether the row is `enabled`
    unit,             \* the unit: its file is there, enabled, active
    cache,            \* AppState::systemd_cache
    req,              \* the requests: what they ask, where they are, and the
                      \* row and state of the service they found
    reading,          \* what a refresh has read and not yet stored
    faults,           \* systemctl calls, and rollbacks, that failed
    last              \* history: the last request that changed anything was
                      \* `done`, or `failed`, or met another or a fault

serviceVars == <<row, unit, cache, req, reading, faults, last>>

Kinds == {"start", "restart", "stop", "delete", "update"}
Readers == Requests \cup {Loop}
Steps == {"new", "act", "enable", "row", "stop", "disable", "remove", "forget", "install",
          "refresh", "done"}
Units == [file : BOOLEAN, enabled : BOOLEAN, active : BOOLEAN]
Rows == BOOLEAN \cup {Nothing}
NoUnit == [file |-> FALSE, enabled |-> FALSE, active |-> FALSE]

Ended(pc) == [kind |-> "start", pc |-> pc, found |-> Nothing, was |-> FALSE, alone |-> FALSE]
At(r, pc) == req[r].pc = pc
Goto(r, pc) == req' = [req EXCEPT ![r].pc = pc]
UnderWay(r) == ~At(r, "new") /\ ~At(r, "refresh") /\ ~At(r, "done")
Others(r) == {q \in Requests \ {r} : UnderWay(q)}

\* How a request ends: one that met no other, and no fault, `how`.
Ends(r, pc) == req' = [req EXCEPT ![r] = Ended(pc)]
EndsAs(r, pc, how) ==
    /\ Ends(r, pc)
    /\ last' = IF req[r].alone THEN how ELSE "unclear"

ServiceInit ==
    /\ row \in Rows
    /\ unit = IF row = Nothing THEN NoUnit
              ELSE [file |-> TRUE, enabled |-> row, active |-> row]
    /\ cache = Nothing                      \* the first refresh may fail
    /\ req = [r \in Requests |-> Ended("new")]
    /\ reading = [x \in Readers |-> Nothing]
    /\ faults = 0
    /\ last = "done"

-----------------------------------------------------------------------------
(* systemd: what a call does, and that it may fail and nobody asks.        *)

Systemd(call, u) ==
    CASE call \in {"start", "restart"} -> [u EXCEPT !.active = u.file]
      [] call = "stop" -> [u EXCEPT !.active = FALSE]
      [] call = "enable" -> [u EXCEPT !.enabled = u.file]
      [] call = "disable" -> [u EXCEPT !.enabled = FALSE]

Fault == faults < MaxFaults /\ faults' = faults + 1

\* A request's call, and where the request goes on.
Systemctl(r, call, pc) ==
    \/ /\ unit' = Systemd(call, unit)
       /\ Goto(r, pc)
       /\ UNCHANGED faults
    \/ /\ Fault
       /\ req' = [req EXCEPT ![r] = [@ EXCEPT !.pc = pc, !.alone = FALSE]]
       /\ UNCHANGED unit

-----------------------------------------------------------------------------
(* The requests.                                                           *)

\* A body that cannot be read, or holds no file, and the deletion of a built-in
\* plugin are refused before anything is done.
Refuse(r) ==
    /\ At(r, "new")
    /\ Ends(r, "done")
    /\ UNCHANGED <<row, unit, cache, reading, faults, last>>

\* load_plugin: a plugin nobody knows is not found, but an upload to /install
\* brings one.
Look(r, kind) ==
    /\ At(r, "new")
    /\ req' = [q \in Requests |->
          IF q = r
          THEN [kind |-> kind,
                found |-> IF kind = "update" THEN row ELSE Nothing,
                was |-> kind = "update" /\ unit.active,
                alone |-> Others(r) = {},
                pc |-> IF row = Nothing /\ kind # "update" THEN "done"
                       ELSE IF kind = "delete" THEN "stop"
                       ELSE IF kind = "update" THEN "install" ELSE "act"]
          ELSE [req[q] EXCEPT !.alone = FALSE]]
    /\ UNCHANGED <<row, unit, cache, reading, faults, last>>

\* control_plugin: the action, then enable or disable, then the row.
Act(r) ==
    /\ At(r, "act")
    /\ Systemctl(r, req[r].kind, "enable")
    /\ UNCHANGED <<row, cache, reading, last>>

Enable(r) ==
    /\ At(r, "enable")
    /\ Systemctl(r, IF req[r].kind = "stop" THEN "disable" ELSE "enable", "row")
    /\ UNCHANGED <<row, cache, reading, last>>

\* (mutant) The row is left as it was.
RowUnset(enabled) == row

\* update_plugin_enabled: an UPDATE, which changes nothing without a row.
RowSet(enabled) == IF row = Nothing THEN Nothing ELSE enabled

SetEnabled(r) ==
    /\ At(r, "row")
    /\ row' = RowSet(req[r].kind # "stop")
    /\ EndsAs(r, "refresh", "done")
    /\ UNCHANGED <<unit, cache, reading, faults>>

\* ... or the row cannot be written, and the unit is no longer as it says.
RowErrs(r) ==
    /\ At(r, "row")
    /\ EndsAs(r, "done", "unclear")
    /\ UNCHANGED <<row, unit, cache, reading, faults>>

\* delete_plugin: stop, disable, the unit's file, the files, the row.
DeleteStop(r) ==
    /\ At(r, "stop")
    /\ Systemctl(r, "stop", "disable")
    /\ UNCHANGED <<row, cache, reading, last>>

DeleteDisable(r) ==
    /\ At(r, "disable")
    /\ Systemctl(r, "disable", "remove")
    /\ UNCHANGED <<row, cache, reading, last>>

\* The process, if any, outlives its file.
DeleteFiles(r) ==
    /\ At(r, "remove")
    /\ unit' = [unit EXCEPT !.file = FALSE, !.enabled = FALSE]
    /\ Goto(r, "forget")
    /\ UNCHANGED <<row, cache, reading, faults, last>>

DeleteRow(r) ==
    /\ At(r, "forget")
    /\ row' = Nothing
    /\ EndsAs(r, "refresh", "done")
    /\ UNCHANGED <<unit, cache, reading, faults>>

\* The symlink is someone else's, the unit's file or the plugin's directory
\* cannot be removed, or the row cannot: the deletion stops where it is.
DeleteErrs(r) ==
    /\ At(r, "remove") \/ At(r, "forget")
    /\ EndsAs(r, "done", "failed")
    /\ UNCHANGED <<row, unit, cache, reading, faults>>

\* An upload that installs: enabled as the row said, started if the service ran
\* or is new.  Whether `enable` or `disable` worked is not asked.
Install(r) ==
    LET enabled == IF req[r].found = Nothing THEN TRUE ELSE req[r].found
        active == req[r].found = Nothing \/ req[r].was
    IN  /\ At(r, "install")
        /\ \/ /\ unit' = [file |-> TRUE, enabled |-> enabled, active |-> active]
              /\ EndsAs(r, "refresh", "done")
              /\ UNCHANGED faults
           \/ /\ Fault
              /\ unit' = [file |-> TRUE, enabled |-> unit.enabled, active |-> active]
              /\ EndsAs(r, "refresh", "unclear")
        /\ row' = enabled
        /\ UNCHANGED <<cache, reading>>

\* ... or that fails when it has moved the old files away: the service is
\* stopped, and the rollback removes the unit, of a known plugin as well (the
\* saved one is moved before it is looked for); the row stays as it is.  When a
\* step of the rollback fails, the unit may be anything.
RollsBack(r) ==
    /\ At(r, "install")
    /\ \/ unit' = NoUnit /\ EndsAs(r, "done", "failed") /\ UNCHANGED faults
       \/ /\ Fault
          /\ unit' \in {u \in Units : u.enabled => u.file}
          /\ EndsAs(r, "done", "unclear")
    /\ UNCHANGED <<row, cache, reading>>

\* A package that is refused, or whose rollback cannot be prepared, and a
\* systemctl that cannot be run, change nothing here.  No refresh follows an
\* error.
Errs(r) ==
    /\ At(r, "install") \/ At(r, "act")
    /\ Ends(r, "done")
    /\ UNCHANGED <<row, unit, cache, reading, faults, last>>

-----------------------------------------------------------------------------
(* The cache.                                                              *)

\* refresh_systemd_status_cache: one status per row, from systemctl show.
Statuses == IF row = Nothing THEN {} ELSE {unit}

Read(x) ==
    /\ reading[x] = Nothing
    /\ x # Loop => At(x, "refresh")
    /\ reading' = [reading EXCEPT ![x] = Statuses]
    /\ UNCHANGED <<row, unit, cache, req, faults, last>>

\* (mutants) Only what is new is added to the cache; the loop only fills a
\* cache that is empty.
StoredOver(x) == IF cache = Nothing THEN reading[x] ELSE cache \cup reading[x]
StoredOnce(x) == IF x = Loop /\ cache # Nothing THEN cache ELSE reading[x]

\* refresh_systemd_cache: the whole map, whoever wrote it since.
Stored(x) == reading[x]

Store(x) ==
    /\ reading[x] # Nothing
    /\ cache' = Stored(x)
    /\ reading' = [reading EXCEPT ![x] = Nothing]
    /\ req' = IF x = Loop THEN req ELSE [req EXCEPT ![x].pc = "done"]
    /\ UNCHANGED <<row, unit, faults, last>>

\* The database cannot be read just now, or the task panics: logged, and that
\* was this refresh.
ReadFails(r) ==
    /\ At(r, "refresh") /\ reading[r] = Nothing
    /\ Goto(r, "done")
    /\ UNCHANGED <<row, unit, cache, reading, faults, last>>

\* The process exits, or systemd restarts it.
ServiceDies ==
    /\ unit.active
    /\ unit' = [unit EXCEPT !.active = FALSE]
    /\ UNCHANGED <<row, cache, req, reading, faults, last>>

Step(r) ==
    \/ Act(r) \/ Enable(r) \/ SetEnabled(r)
    \/ RowErrs(r)
    \/ DeleteStop(r) \/ DeleteDisable(r) \/ DeleteFiles(r) \/ DeleteRow(r)
    \/ DeleteErrs(r)
    \/ Install(r) \/ RollsBack(r) \/ Errs(r)

ServiceNext ==
    \/ \E r \in Requests :
          \/ Refuse(r)
          \/ \E kind \in Kinds : Look(r, kind)
          \/ Step(r)
          \/ ReadFails(r)
    \/ \E x \in Readers : Read(x) \/ Store(x)
    \/ ServiceDies

ServiceSpec == ServiceInit /\ [][ServiceNext]_serviceVars

-----------------------------------------------------------------------------
(* Properties.                                                             *)

\* Types.
ServiceTypeOK ==
    /\ row \in Rows
    /\ unit \in Units
    /\ cache = Nothing \/ cache \subseteq Units
    /\ req \in [Requests -> [kind : Kinds, pc : Steps, found : Rows, was : BOOLEAN,
                          alone : BOOLEAN]]
    /\ reading \in [Readers -> {Nothing} \cup (SUBSET Units)]
    /\ faults \in 0..MaxFaults
    /\ last \in {"done", "failed", "unclear"}

\* A request that met no other, and no failing call, leaves row and systemd in
\* agreement, whatever earlier ones that overlapped, failed or stopped half-way
\* had left: what starts at the next boot is what the row says, if there is a
\* unit to start, and of a deleted plugin nothing is left, its process included.
\* One that fails after it has begun to change things (a rolled back update, a
\* deletion that stops) leaves a service that neither runs nor will at the next
\* boot, also when the row says `enabled` (plugins.rs control_plugin,
\* delete_plugin, install_plugin and rollback_install).
RowIsUnit ==
    (\A r \in Requests : ~UnderWay(r)) =>
        /\ last = "done" => IF row = Nothing THEN unit = NoUnit
                            ELSE unit.enabled <=> (unit.file /\ row = TRUE)
        /\ last = "failed" => ~unit.enabled /\ ~unit.active

\* handle_plugins_list: the rows as they are now, with the cached statuses.
Listed == [row |-> row, status |-> IF row = Nothing THEN {} ELSE cache]
Actual == [row |-> row, status |-> Statuses]

\* What the list shows is in the end what systemd has, however the refreshes
\* overtook one another.
ListSettles == <>[][FALSE]_<<row, unit>> => <>[](Listed = Actual)
=============================================================================
