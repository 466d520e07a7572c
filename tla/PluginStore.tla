---------------------------- MODULE PluginStore ----------------------------
(***************************************************************************)
(* The plugin store of kaonic-installer (plugins.rs) with uploads of       *)
(* several plugins at once.  Every upload begins with initialize_store,    *)
(* which goes through all plugin directories as after an interruption, and *)
(* runs on a thread of its own beside the installs that are under way.     *)
(*                                                                         *)
(* PluginInstall has one plugin's files, unit and process step by step;    *)
(* here a directory is of a version, torn or absent, and what is at stake  *)
(* is what two operations do to each other: the .rollback directories and  *)
(* the symlinks.  A plugin has one operation of its own at a time.         *)
(***************************************************************************)
EXTENDS Naturals, FiniteSets

CONSTANTS
    Plugins,
    Versions,         \* of any plugin's package
    Links,            \* bin_path symlinks
    LinkOf,           \* which version's manifest asks for which
    NoVersion         \* no version, no row, no link, no directory

ASSUME StoreAssumption ==
    /\ LinkOf \in [Versions -> Links \cup {NoVersion}]
    /\ NoVersion \notin Versions /\ NoVersion \notin Links /\ NoVersion \notin Plugins
    /\ {"none", "torn"} \cap (Versions \cup {NoVersion}) = {}

VARIABLES
    row,              \* plugins.db: the version registered of each plugin
    live,             \* the plugin's directory: a version, "torn", or NoVersion
    saved,            \* .rollback: likewise, or "none" when it does not exist
    savedLink,        \* ... and the symlink its bin_path.rollback names
    link,             \* the plugin a symlink points into
    core,             \* the built-in plugins' manifests: absent, good or bad
    op,               \* the operation on each plugin
    outcome,          \* history: how the plugin's last operation ended
    kept,             \* history: the version it had, whole, when that began
    disturbed         \* history: another's initialize_store changed it since

storeVars == <<row, live, saved, savedLink, link, core, op, outcome, kept, disturbed>>
files == <<live, saved, savedLink>>
opHistory == <<outcome, kept, disturbed>>

Maybe == Versions \cup {NoVersion}
IdleOp == [pc |-> "idle", new |-> NoVersion, old |-> NoVersion, todo |-> {}]
Rests(p) == op[p].pc = "idle"
IsAt(p, pc) == op[p].pc = pc
Proceed(p, pc) == op' = [op EXCEPT ![p].pc = pc]
Wanted(v) == IF v = NoVersion THEN NoVersion ELSE LinkOf[v]
Usable(d) == d \in Versions

\* The operation ends; whatever ran meanwhile is forgotten.
Ends(p, how) ==
    /\ op' = [op EXCEPT ![p] = IdleOp]
    /\ outcome' = [outcome EXCEPT ![p] = how]

StoreInit ==
    /\ live \in [Plugins -> Maybe]                \* preinstalled plugins
    /\ row = [p \in Plugins |-> NoVersion]
    /\ saved = [p \in Plugins |-> "none"]
    /\ savedLink = [p \in Plugins |-> NoVersion]
    /\ link = [l \in Links |-> NoVersion]
    /\ core \in {"absent", "good", "bad"}
    /\ op = [p \in Plugins |-> IdleOp]
    /\ outcome = [p \in Plugins |-> "none"]
    /\ kept = [p \in Plugins |-> NoVersion]
    /\ disturbed = [p \in Plugins |-> FALSE]

-----------------------------------------------------------------------------
(* Symlinks.                                                               *)

\* install_bin_path, remove_managed_symlink: only one's own symlink is touched.
MayLink(p, l) == l # NoVersion => link[l] \in {NoVersion, p}

Unlinked(lk, p, l) ==
    IF l # NoVersion /\ lk[l] = p THEN [lk EXCEPT ![l] = NoVersion] ELSE lk
Linked(lk, p, l) == IF l = NoVersion THEN lk ELSE [lk EXCEPT ![l] = p]

\* ensure_bin_path_available; the unique index of plugins.db.
Available(p, v) ==
    Wanted(v) = NoVersion \/ \A q \in Plugins \ {p} : Wanted(row[q]) # Wanted(v)

\* (mutant) .rollback is cleaned up before it is put back.
RollbackCleansFirst(q, attempted) ==
    /\ live' = [live EXCEPT ![q] = NoVersion]
    /\ link' = Linked(Unlinked(link, q, attempted), q, savedLink[q])
    /\ saved' = [saved EXCEPT ![q] = "none"]
    /\ savedLink' = [savedLink EXCEPT ![q] = NoVersion]

\* (mutant) What is not in .rollback is put back, too.
RollbackUnchecked(q, attempted) ==
    /\ live' = [live EXCEPT ![q] = saved[q]]
    /\ link' = Linked(Unlinked(link, q, attempted), q, savedLink[q])
    /\ saved' = [saved EXCEPT ![q] = "none"]
    /\ savedLink' = [savedLink EXCEPT ![q] = NoVersion]

\* rollback_install: what was attempted is removed, what .rollback has is put
\* back, and restore_bin_path sets the saved symlink whatever is there.
Rollback(q, attempted) ==
    /\ live' = [live EXCEPT ![q] = IF saved[q] = "none" THEN NoVersion ELSE saved[q]]
    /\ link' = Linked(Unlinked(link, q, attempted), q, savedLink[q])
    /\ saved' = [saved EXCEPT ![q] = "none"]
    /\ savedLink' = [savedLink EXCEPT ![q] = NoVersion]

CleanupRollback(q) ==
    /\ saved' = [saved EXCEPT ![q] = "none"]
    /\ savedLink' = [savedLink EXCEPT ![q] = NoVersion]

-----------------------------------------------------------------------------
(* initialize_store, for whoever uploads p: over all plugins, one by one.  *)

Visited(p, q, next) ==
    op' = IF op[p].todo = {q}
          THEN [op EXCEPT ![p].pc = next, ![p].todo = IF next = "check" THEN {} ELSE Plugins]
          ELSE [op EXCEPT ![p].todo = @ \ {q}]
Disturbs(p, q) ==
    disturbed' = [disturbed EXCEPT ![q] = @ \/ (q # p /\ ~Rests(q))]

Begin(p, v) ==
    /\ Rests(p)
    /\ op' = [op EXCEPT ![p] = [IdleOp EXCEPT !.pc = "recover", !.new = v, !.todo = Plugins]]
    /\ outcome' = [outcome EXCEPT ![p] = "none"]
    /\ kept' = [kept EXCEPT ![p] = IF row[p] # NoVersion /\ Usable(live[p]) THEN live[p] ELSE NoVersion]
    /\ disturbed' = [disturbed EXCEPT ![p] = FALSE]
    /\ UNCHANGED <<row, live, saved, savedLink, link, core>>

\* recover_plugins_after_interruption
RecoverOne(p, q) ==
    /\ IsAt(p, "recover") /\ q \in op[p].todo
    /\ Visited(p, q, "discover")
    /\ IF saved[q] = "none" \/ (~Usable(live[q]) /\ ~Usable(saved[q]))
       THEN UNCHANGED <<files, link, disturbed>>
       ELSE /\ Disturbs(p, q)
            /\ IF Usable(live[q])
               THEN CleanupRollback(q) /\ UNCHANGED <<live, link>>
               ELSE Rollback(q, Wanted(row[q]))
    /\ UNCHANGED <<row, core, outcome, kept>>

\* discover_plugins: a usable directory without a row; one whose bin_path has
\* an owner is skipped.
DiscoverOne(p, q) ==
    /\ IsAt(p, "discover") /\ q \in op[p].todo
    /\ Visited(p, q, "sync")
    /\ IF row[q] = NoVersion /\ Usable(live[q]) /\ Available(q, live[q])
       THEN row' = [row EXCEPT ![q] = live[q]] /\ Disturbs(p, q)
       ELSE UNCHANGED <<row, disturbed>>
    /\ UNCHANGED <<files, link, core, outcome, kept>>

\* sync_core_plugins: a built-in plugin without a manifest is skipped; one whose
\* manifest does not parse, or does not match its target, fails the request.
SyncCore(p) ==
    /\ IsAt(p, "sync")
    /\ IF core = "bad" THEN Ends(p, "refused")
       ELSE Proceed(p, "reconcile") /\ UNCHANGED outcome
    /\ UNCHANGED <<row, files, link, core, kept, disturbed>>

\* reconcile_plugin_bin_paths: a registered plugin with its binary, which a torn
\* directory may have, gets its symlink; a conflict fails the request.
ReconcileOne(p, q) ==
    /\ IsAt(p, "reconcile") /\ q \in op[p].todo
    /\ \/ /\ Wanted(row[q]) = NoVersion \/ live[q] \in {NoVersion, "torn"}
          /\ Visited(p, q, "check") /\ UNCHANGED <<link, outcome>>
       \/ /\ Wanted(row[q]) # NoVersion /\ live[q] # NoVersion
          /\ IF MayLink(q, Wanted(row[q]))
             THEN /\ Visited(p, q, "check") /\ UNCHANGED outcome
                  /\ link' = Linked(link, q, Wanted(row[q]))
             ELSE Ends(p, "refused") /\ UNCHANGED link
    /\ UNCHANGED <<row, files, core, kept, disturbed>>

-----------------------------------------------------------------------------
(* install_plugin                                                          *)

\* The package does not parse, or is not signed as it says.
Refuse(p) ==
    /\ IsAt(p, "check")
    /\ Ends(p, "refused")
    /\ UNCHANGED <<row, files, link, core, kept, disturbed>>

\* load_plugin, ensure_service_available, ensure_bin_path_available
Check(p) ==
    /\ IsAt(p, "check")
    /\ IF Available(p, op[p].new)
       THEN op' = [op EXCEPT ![p].pc = "move", ![p].old = row[p]] /\ UNCHANGED outcome
       ELSE Ends(p, "refused")
    /\ UNCHANGED <<row, files, link, core, kept, disturbed>>

\* prepare_rollback
Move(p) ==
    /\ IsAt(p, "move")
    /\ saved' = [saved EXCEPT ![p] = live[p]]
    /\ savedLink' = [savedLink EXCEPT ![p] = NoVersion]
    /\ live' = [live EXCEPT ![p] = NoVersion]
    /\ Proceed(p, "savelink")
    /\ UNCHANGED <<row, link, core, opHistory>>

\* prepare_bin_path_rollback: an error here is returned with all moved away.
SaveLink(p) ==
    LET l == Wanted(op[p].old)
    IN  /\ IsAt(p, "savelink")
        /\ IF ~MayLink(p, l) THEN Ends(p, "refused") /\ UNCHANGED savedLink
           ELSE /\ Proceed(p, "write") /\ UNCHANGED outcome
                /\ savedLink' = [savedLink EXCEPT ![p] =
                      IF l # NoVersion /\ link[l] = p /\ saved[p] # "none" THEN l ELSE NoVersion]
        /\ UNCHANGED <<row, live, saved, link, core, kept, disturbed>>

Write(p) ==
    /\ IsAt(p, "write")
    /\ live' = [live EXCEPT ![p] = "torn"]
    /\ Proceed(p, "hash")
    /\ UNCHANGED <<row, saved, savedLink, link, core, opHistory>>

\* The checksum comes last, and makes the directory usable.
WriteHash(p) ==
    /\ IsAt(p, "hash")
    /\ live' = [live EXCEPT ![p] = op[p].new]
    /\ Proceed(p, "link")
    /\ UNCHANGED <<row, saved, savedLink, link, core, opHistory>>

\* install_bin_path: the old symlink goes, the new one comes.
InstallBinPath(p) ==
    LET old == Wanted(op[p].old)
        new == Wanted(op[p].new)
    IN  /\ IsAt(p, "link")
        /\ IF ~MayLink(p, old) THEN Proceed(p, "undo") /\ UNCHANGED link
           ELSE IF ~MayLink(p, new)
           THEN Proceed(p, "undo") /\ link' = Unlinked(link, p, old)
           ELSE Proceed(p, "start") /\ link' = Linked(Unlinked(link, p, old), p, new)
        /\ UNCHANGED <<row, files, core, opHistory>>

\* systemctl start and poll_running, for up to ten seconds.
Started(p) ==
    /\ IsAt(p, "start")
    /\ Proceed(p, "register")
    /\ UNCHANGED <<row, files, link, core, opHistory>>

\* A write, the start or the health check fails.
Fails(p) ==
    /\ op[p].pc \in {"write", "hash", "start"}
    /\ Proceed(p, "undo")
    /\ UNCHANGED <<row, files, link, core, opHistory>>

\* upsert_plugin, which the unique index may refuse.
Register(p) ==
    /\ IsAt(p, "register")
    /\ IF Available(p, op[p].new)
       THEN row' = [row EXCEPT ![p] = op[p].new] /\ Proceed(p, "clean")
       ELSE Proceed(p, "undo") /\ UNCHANGED row
    /\ UNCHANGED <<files, link, core, opHistory>>

Clean(p) ==
    /\ IsAt(p, "clean")
    /\ CleanupRollback(p)
    /\ Ends(p, "installed")
    /\ UNCHANGED <<row, live, link, core, kept, disturbed>>

Undo(p) ==
    /\ IsAt(p, "undo")
    /\ Rollback(p, Wanted(op[p].new))
    /\ Ends(p, "rolled_back")
    /\ UNCHANGED <<row, core, kept, disturbed>>

-----------------------------------------------------------------------------
(* delete_plugin                                                           *)

Delete(p) ==
    /\ Rests(p) /\ row[p] # NoVersion
    /\ MayLink(p, Wanted(row[p]))
    /\ link' = Unlinked(link, p, Wanted(row[p]))
    /\ op' = [op EXCEPT ![p] = [IdleOp EXCEPT !.pc = "remove"]]
    /\ outcome' = [outcome EXCEPT ![p] = "none"]
    /\ kept' = [kept EXCEPT ![p] = NoVersion]
    /\ disturbed' = [disturbed EXCEPT ![p] = FALSE]
    /\ UNCHANGED <<row, files, core>>

DeleteFiles(p) ==
    /\ IsAt(p, "remove")
    /\ live' = [live EXCEPT ![p] = NoVersion]
    /\ CleanupRollback(p)
    /\ Proceed(p, "forget")
    /\ UNCHANGED <<row, link, core, opHistory>>

DeleteRow(p) ==
    /\ IsAt(p, "forget")
    /\ row' = [row EXCEPT ![p] = NoVersion]
    /\ Ends(p, "deleted")
    /\ UNCHANGED <<files, link, core, kept, disturbed>>

StoreNext == \E p \in Plugins :
    \/ \E v \in Versions : Begin(p, v)
    \/ \E q \in Plugins : RecoverOne(p, q) \/ DiscoverOne(p, q) \/ ReconcileOne(p, q)
    \/ SyncCore(p)
    \/ Refuse(p) \/ Check(p) \/ Move(p) \/ SaveLink(p)
    \/ Write(p) \/ WriteHash(p) \/ InstallBinPath(p) \/ Started(p) \/ Fails(p)
    \/ Register(p) \/ Clean(p) \/ Undo(p)
    \/ Delete(p) \/ DeleteFiles(p) \/ DeleteRow(p)

StoreSpec == StoreInit /\ [][StoreNext]_storeVars

-----------------------------------------------------------------------------
(* Properties.                                                             *)

StoreSteps ==
    {"idle", "recover", "discover", "sync", "reconcile", "check", "move", "savelink",
     "write", "hash", "link", "start", "register", "clean", "undo", "remove", "forget"}

\* Types.
StoreTypeOK ==
    /\ row \in [Plugins -> Maybe]
    /\ live \in [Plugins -> Maybe \cup {"torn"}]
    /\ saved \in [Plugins -> Maybe \cup {"torn", "none"}]
    /\ savedLink \in [Plugins -> Links \cup {NoVersion}]
    /\ link \in [Links -> Plugins \cup {NoVersion}]
    /\ core \in {"absent", "good", "bad"}
    /\ op \in [Plugins -> [pc : StoreSteps, new : Maybe, old : Maybe, todo : SUBSET Plugins]]
    /\ outcome \in [Plugins -> {"none", "refused", "installed", "rolled_back", "deleted"}]
    /\ kept \in [Plugins -> Maybe]
    /\ disturbed \in [Plugins -> BOOLEAN]

\* A failed update that no other request has disturbed leaves the plugin's
\* directory as it was, with the version it had.
RolledBackAlone ==
    \A p \in Plugins :
       outcome[p] = "rolled_back" /\ kept[p] # NoVersion /\ ~disturbed[p]
       => live[p] = kept[p]

\* The error message of a failed health check: "plugin failed health check after
\* install; rolled back".  It does not say: unless somebody uploaded another
\* plugin in the meantime.
RolledBack ==
    \A p \in Plugins :
       outcome[p] = "rolled_back" /\ kept[p] # NoVersion => live[p] = kept[p]
=============================================================================
