----------------------------- MODULE PluginPage -----------------------------
(***************************************************************************)
(* The gateway's Plugins page in a browser (the script of pages/plugins.rs)*)
(* before the proxied API of kaonic-installer: a list that is loaded again *)
(* and again, answers in any order; a dialog to confirm what is done to a  *)
(* plugin; and the upload dialog, which closes a while after its upload.   *)
(***************************************************************************)
EXTENDS Naturals, FiniteSets

CONSTANTS
    Plugins,
    Nobody,
    Loads,            \* GETs of the list that may be under way at a time
    Uploads,          \* likewise uploads
    MaxLost           \* bound: loads that fail

ASSUME PluginPageAssumption ==
    /\ Nobody \notin Plugins \cup {"new", "installer"}
    /\ Nobody \notin Uploads /\ "action" \notin Uploads

Targets == Plugins \cup {"new", "installer"}

VARIABLES
    server,           \* the plugins the installer lists
    shown,            \* state.plugins
    selected,         \* state.selectedId
    load,             \* the GETs: what they answer, and what waits for them
    confirm,          \* state.confirm: the plugin asked about
    busy,             \* state.busyAction, and its request's progress
    modal,            \* state.modal; a file stands for the target it is for
    picker,           \* the browser's file dialog, for a target
    upload,           \* the POSTs of files
    lost,
    cut               \* history: a delayed close fell on another's upload

pluginPageVars == <<server, shown, selected, load, confirm, busy, modal, picker,
                    upload, lost, cut>>
listPart == <<shown, selected, load, lost>>
dialogPart == <<confirm, busy>>
uploadPart == <<modal, picker, upload, cut>>

NoLoad == [pc |-> "none", list |-> {}, for |-> Nobody]
NoAction == [pc |-> "none", plugin |-> Nobody]
NoUpload == [pc |-> "none", to |-> "new", file |-> Nobody]
Closed == [open |-> FALSE, to |-> "new", file |-> Nobody, uploading |-> FALSE]

PluginPageInit ==
    /\ server \in SUBSET Plugins
    /\ shown = {} /\ selected = Nobody
    /\ load = [l \in Loads |-> NoLoad]
    /\ confirm = Nobody
    /\ busy = NoAction
    /\ modal = Closed
    /\ picker = Nobody
    /\ upload = [u \in Uploads |-> NoUpload]
    /\ lost = 0
    /\ cut = FALSE

\* A click reaches the page below when no dialog covers it.
Clicks == ~modal.open /\ confirm = Nobody /\ picker = Nobody

-----------------------------------------------------------------------------
(* The list.                                                               *)

\* loadPlugins, for an action or an upload that waits for it, or for nobody.
StartLoad(for) ==
    \E l \in Loads :
       /\ load[l].pc = "none"
       /\ load' = [load EXCEPT ![l] = [pc |-> "sent", list |-> {}, for |-> for]]

\* Every 15 seconds, when nothing is open or under way.
Tick ==
    /\ ~modal.open /\ confirm = Nobody /\ ~modal.uploading /\ busy.pc = "none"
    /\ StartLoad(Nobody)
    /\ UNCHANGED <<server, shown, selected, lost, dialogPart, uploadPart>>

ListServed(l) ==
    /\ load[l].pc = "sent"
    /\ load' = [load EXCEPT ![l] = [pc |-> "served", list |-> server, for |-> @.for]]
    /\ UNCHANGED <<server, shown, selected, lost, dialogPart, uploadPart>>

\* finally: the action is over, the upload's dialog will close.
Released(for) ==
    /\ busy' = IF for = "action" THEN NoAction ELSE busy
    /\ upload' = [u \in Uploads |-> IF u = for THEN [upload[u] EXCEPT !.pc = "closing"] ELSE upload[u]]

\* ensureSelection
Selection(list) ==
    IF list = {} THEN {Nobody} ELSE IF selected \in list THEN {selected} ELSE list

\* (mutant) An empty list is taken for no answer.
TakenIfAny(list) == IF list = {} THEN shown ELSE list

Taken(list) == list

ListAnswered(l) ==
    /\ load[l].pc = "served"
    /\ shown' = Taken(load[l].list)
    /\ selected' \in Selection(shown')
    /\ load' = [load EXCEPT ![l] = NoLoad]
    /\ Released(load[l].for)
    /\ UNCHANGED <<server, lost, confirm, modal, picker, cut>>

\* The installer cannot be reached, say: what is shown stays.
LoadFails(l) ==
    /\ load[l].pc # "none" /\ lost < MaxLost
    /\ lost' = lost + 1
    /\ load' = [load EXCEPT ![l] = NoLoad]
    /\ Released(load[l].for)
    /\ UNCHANGED <<server, shown, selected, confirm, modal, picker, cut>>

Select(p) ==
    /\ Clicks /\ p \in shown
    /\ selected' = p
    /\ UNCHANGED <<server, shown, load, lost, dialogPart, uploadPart>>

-----------------------------------------------------------------------------
(* Actions.                                                                *)

\* actionRequest: start or stop, and the list is loaded once it is answered.
Toggled ==
    /\ selected # Nobody /\ busy.pc = "none"
    /\ StartLoad(Nobody)
    /\ UNCHANGED <<server, shown, selected, lost, dialogPart, uploadPart>>

\* openConfirmModal: restart or delete, of which the model has the second.
AskDelete ==
    /\ Clicks /\ selected # Nobody /\ busy.pc = "none"
    /\ confirm' = selected
    /\ UNCHANGED <<server, listPart, busy, uploadPart>>

CloseConfirm ==
    /\ confirm # Nobody
    /\ confirm' = Nobody
    /\ UNCHANGED <<server, listPart, busy, uploadPart>>

\* The plugin the dialog was opened for, if the list still has it.
Confirmed == confirm

\* performPluginAction
SubmitConfirm ==
    /\ confirm # Nobody /\ Confirmed \in shown
    /\ busy' = [pc |-> "sent", plugin |-> Confirmed]
    /\ confirm' = Nobody
    /\ UNCHANGED <<server, listPart, uploadPart>>

ActionServed ==
    /\ busy.pc = "sent"
    /\ \/ server' = server \ {busy.plugin} /\ busy' = [busy EXCEPT !.pc = "served"]
       \/ busy' = NoAction /\ UNCHANGED server       \* refused: an alert
    /\ UNCHANGED <<listPart, confirm, uploadPart>>

ActionAnswered ==
    /\ busy.pc = "served"
    /\ StartLoad("action")
    /\ busy' = [busy EXCEPT !.pc = "listing"]
    /\ UNCHANGED <<server, shown, selected, lost, confirm, uploadPart>>

-----------------------------------------------------------------------------
(* Uploads.                                                                *)

\* (mutant) The file picked last is still there.
OpenedWithFile(to) == [Closed EXCEPT !.open = TRUE, !.to = to, !.file = modal.file]

\* openUploadModal
OpenedFor(to) == [Closed EXCEPT !.open = TRUE, !.to = to]

OpenUpload(to) ==
    /\ Clicks
    /\ to \in Plugins => to = selected /\ busy.pc = "none"
    /\ modal' = OpenedFor(to)
    /\ UNCHANGED <<server, listPart, dialogPart, picker, upload, cut>>

\* A file is picked in the browser's dialog, or dropped: a click that opens the
\* dialog and the file are two events.
OpenPicker ==
    /\ modal.open /\ ~modal.uploading /\ picker = Nobody
    /\ picker' = modal.to
    /\ UNCHANGED <<server, listPart, dialogPart, modal, upload, cut>>

\* setModalFile, whatever the dialog below is by now.
Pick ==
    /\ picker # Nobody
    /\ modal' \in {modal, [modal EXCEPT !.file = picker]}
    /\ picker' = Nobody
    /\ UNCHANGED <<server, listPart, dialogPart, upload, cut>>

\* (mutant) The dialog closes under its upload, too.
MayCloseAlways == TRUE

\* closeUploadModal, not forced.
MayClose == ~modal.uploading

CloseUpload ==
    /\ modal.open /\ picker = Nobody
    /\ MayClose
    /\ modal' = Closed
    /\ UNCHANGED <<server, listPart, dialogPart, picker, upload, cut>>

\* submitModalUpload
SubmitUpload ==
    /\ modal.open /\ picker = Nobody
    /\ modal.file # Nobody /\ ~modal.uploading
    /\ \E u \in Uploads :
          /\ upload[u].pc = "none"
          /\ upload' = [upload EXCEPT ![u] = [pc |-> "sent", to |-> modal.to, file |-> modal.file]]
    /\ modal' = [modal EXCEPT !.uploading = TRUE]
    /\ UNCHANGED <<server, listPart, dialogPart, picker, cut>>

UploadServed(u) ==
    /\ upload[u].pc = "sent"
    /\ \/ /\ \E p \in Plugins :
                server' = CASE upload[u].to = "installer" -> server
                            [] upload[u].to = "new" -> server \cup {p}
                            [] OTHER -> server \cup {upload[u].to}
          /\ upload' = [upload EXCEPT ![u].pc = "served"]
       \/ upload' = [upload EXCEPT ![u].pc = "failed"] /\ UNCHANGED server
    /\ UNCHANGED <<listPart, dialogPart, modal, picker, cut>>

UploadAnswered(u) ==
    /\ upload[u].pc \in {"served", "failed"}
    /\ modal' = [modal EXCEPT !.uploading = FALSE]
    /\ IF upload[u].pc = "served"
       THEN StartLoad(u) /\ upload' = [upload EXCEPT ![u].pc = "listing"]
       ELSE upload' = [upload EXCEPT ![u] = NoUpload] /\ UNCHANGED load
    /\ UNCHANGED <<server, shown, selected, lost, dialogPart, picker, cut>>

\* setTimeout(closeUploadModal(true), 900): by force, whichever dialog is open.
DelayedClose(u) ==
    /\ upload[u].pc = "closing"
    /\ upload' = [upload EXCEPT ![u] = NoUpload]
    /\ modal' = Closed
    /\ cut' = (cut \/ modal.uploading)
    /\ UNCHANGED <<server, listPart, dialogPart, picker>>

Answers ==
    \/ \E l \in Loads : ListServed(l) \/ ListAnswered(l)
    \/ ActionServed \/ ActionAnswered
    \/ \E u \in Uploads : UploadServed(u) \/ UploadAnswered(u) \/ DelayedClose(u)

PluginPageNext ==
    \/ Tick \/ Answers
    \/ \E l \in Loads : LoadFails(l)
    \/ \E p \in Plugins : Select(p)
    \/ Toggled \/ AskDelete \/ CloseConfirm \/ SubmitConfirm
    \/ \E to \in Targets : OpenUpload(to)
    \/ OpenPicker \/ Pick \/ CloseUpload \/ SubmitUpload

PluginPageSpec == PluginPageInit /\ [][PluginPageNext]_pluginPageVars

-----------------------------------------------------------------------------
(* Properties.                                                             *)

\* Types.
PluginPageTypeOK ==
    /\ server \subseteq Plugins /\ shown \subseteq Plugins
    /\ selected \in Plugins \cup {Nobody} /\ confirm \in Plugins \cup {Nobody}
    /\ modal.to \in Targets /\ modal.file \in Targets \cup {Nobody}

\* A file goes where it was picked for, however dialogs close by themselves and
\* open again, under the browser's file dialog too.
FileGoesWherePicked == \A u \in Uploads : upload[u].pc # "none" => upload[u].file = upload[u].to

\* A page has one upload under way at a time, unless an earlier upload's delayed
\* close fell on it.
OneUpload == ~cut => Cardinality({u \in Uploads : upload[u].pc \in {"sent", "served", "failed"}}) <= 1

\* Both.
UploadsInOrder == FileGoesWherePicked /\ OneUpload

\* Left alone, the page shows in the end what is installed, however the answers
\* to its loads overtook one another.
ListCatchesUp ==
    <>[](~modal.open /\ ~modal.uploading /\ confirm = Nobody /\ busy.pc = "none")
       /\ <>[][FALSE]_server
    => <>[](shown = server)
=============================================================================
