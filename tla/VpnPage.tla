------------------------------ MODULE VpnPage ------------------------------
(***************************************************************************)
(* The gateway's VPN page in a browser (the script of pages/vpn.rs): live  *)
(* updates that rewrite the page under its user, pings that outlive the    *)
(* buttons they were asked with, the route editor, the shortcut dialog and *)
(* the allowlist, which is edited first and saved afterwards.              *)
(*                                                                         *)
(* The speed test has the ping's states once more; the allow-all switch is *)
(* saved with the allowlist and stands for one more entry of it.           *)
(***************************************************************************)
EXTENDS Naturals, FiniteSets

CONSTANTS
    Peers,            \* destination hashes
    Saves,            \* POSTs of the allowlist that may be under way at a time
    MaxPings,         \* bound: pings of one peer under way at a time
    MaxTimers         \* bound: timers that are to close the route editor

ASSUME VpnPageAssumption == MaxPings \in Nat \ {0} /\ MaxTimers \in Nat \ {0}

VARIABLES
    peerRow,          \* each peer's row: absent, without an address, with one
    button,           \* ... whether its Ping button is enabled
    busy,             \* pingState[peer].busy
    pings,            \* POST /api/vpn/ping under way
    dialog,           \* the open dialogs: "routes", "shortcut"
    marked,           \* body.modal-open
    focus,            \* an input has the focus
    draft,            \* the editor's text: the announced routes, or typed
    saving,           \* PUT /api/vpn/routes under way: the button is disabled
    closing,          \* timers that are to close the editor
    list,             \* accessState
    save,             \* the saves of it, each with the list it sends
    server,           \* the gateway's allowlist
    asked,            \* history: the list the user has made
    soleSave          \* history: ... by one save, which met no other

vpnPageVars == <<peerRow, button, busy, pings, dialog, marked, focus, draft, saving,
                 closing, list, save, server, asked, soleSave>>
pingPart == <<peerRow, button, busy, pings>>
editorPart == <<dialog, marked, focus, draft, saving, closing>>
accessPart == <<list, save, server, asked, soleSave>>

Rows == {"absent", "noip", "ip"}
NoSave == [pc |-> "none", list |-> {}]
NoSaves == \A s \in Saves : save[s].pc = "none"

\* maybeHandleAddPeerShortcut: the page may be opened with the dialog.
VpnPageInit ==
    /\ peerRow = [p \in Peers |-> "absent"]
    /\ button = [p \in Peers |-> FALSE]
    /\ busy = [p \in Peers |-> FALSE]
    /\ pings = [p \in Peers |-> 0]
    /\ dialog \in {{}, {"shortcut"}}
    /\ marked = (dialog # {})
    /\ focus = FALSE
    /\ draft = "announced"
    /\ saving = FALSE /\ closing = 0
    /\ server \in SUBSET Peers
    /\ list = server /\ asked = server
    /\ save = [s \in Saves |-> NoSave]
    /\ soleSave = TRUE

-----------------------------------------------------------------------------
(* Live updates.                                                           *)

\* shouldPause
ShouldPause == marked \/ focus

\* (mutant) A row is made anew with its button enabled.
RenderedAnew(p, r) == r = "ip"

\* renderPeers: an address, and no ping of it under way.
Rendered(p, r) == r = "ip" /\ ~busy[p]

\* connect, onmessage; setAdvertisedRoutes leaves the text alone under a dialog.
LiveUpdate(rows) ==
    /\ ~ShouldPause
    /\ peerRow' = rows
    /\ button' = [p \in Peers |-> Rendered(p, rows[p])]
    /\ draft' = IF marked THEN draft ELSE "announced"
    /\ UNCHANGED <<busy, pings, dialog, marked, focus, saving, closing, accessPart>>

-----------------------------------------------------------------------------
(* Pings.                                                                  *)

ClickPing(p) ==
    /\ peerRow[p] = "ip" /\ button[p]
    /\ pings[p] < MaxPings
    /\ busy' = [busy EXCEPT ![p] = TRUE]
    /\ button' = [button EXCEPT ![p] = FALSE]
    /\ pings' = [pings EXCEPT ![p] = @ + 1]
    /\ UNCHANGED <<peerRow, editorPart, accessPart>>

\* Passed or failed, the button of whatever row the peer has by now is enabled.
PingAnswered(p) ==
    /\ pings[p] > 0
    /\ pings' = [pings EXCEPT ![p] = @ - 1]
    /\ busy' = [busy EXCEPT ![p] = FALSE]
    /\ button' = [button EXCEPT ![p] = peerRow[p] # "absent"]
    /\ UNCHANGED <<peerRow, editorPart, accessPart>>

-----------------------------------------------------------------------------
(* The dialogs.                                                            *)

\* (mutant) The dialog that is handled last decides.
MarkedBy(open, this) == this \in open

\* syncModalOpenClass
Marked(open, this) == open # {}

Opens(this) ==
    /\ dialog' = dialog \cup {this}
    /\ marked' = Marked(dialog', this)

Closes(this) ==
    /\ dialog' = dialog \ {this}
    /\ marked' = Marked(dialog', this)

\* openRouteEditor focuses and selects the text.
OpenRouteEditor ==
    /\ Opens("routes")
    /\ focus' = TRUE
    /\ UNCHANGED <<pingPart, draft, saving, closing, accessPart>>

Type ==
    /\ "routes" \in dialog
    /\ draft' = "typed" /\ focus' = TRUE
    /\ UNCHANGED <<pingPart, dialog, marked, saving, closing, accessPart>>

MoveFocus ==
    /\ focus' = ~focus
    /\ UNCHANGED <<pingPart, dialog, marked, draft, saving, closing, accessPart>>

\* What is hidden has no focus.
CloseRouteEditor ==
    /\ "routes" \in dialog
    /\ Closes("routes")
    /\ focus' = FALSE
    /\ UNCHANGED <<pingPart, draft, saving, closing, accessPart>>

SubmitRoutes ==
    /\ "routes" \in dialog /\ ~saving
    /\ saving' = TRUE
    /\ UNCHANGED <<pingPart, dialog, marked, focus, draft, closing, accessPart>>

\* setTimeout(closeRouteEditor, 250), or the error is shown.
RoutesAnswered ==
    /\ saving
    /\ saving' = FALSE
    /\ \/ closing < MaxTimers /\ closing' = closing + 1
       \/ UNCHANGED closing
    /\ UNCHANGED <<pingPart, dialog, marked, focus, draft, accessPart>>

\* A timer closes the editor that is open, whichever it is.
DelayedClose ==
    /\ closing > 0
    /\ closing' = closing - 1
    /\ Closes("routes")
    /\ focus' = (focus /\ "routes" \notin dialog)
    /\ UNCHANGED <<pingPart, draft, saving, accessPart>>

CancelShortcut ==
    /\ "shortcut" \in dialog
    /\ Closes("shortcut")
    /\ UNCHANGED <<pingPart, focus, draft, saving, closing, accessPart>>

-----------------------------------------------------------------------------
(* The allowlist.                                                          *)

\* (mutant) The list as it was before the edit.
SentBefore(edited) == list

\* saveAccessState sends a copy of the list as it is now.
Posted(edited) == edited

SaveAccess(edited) ==
    /\ list' = edited /\ asked' = edited
    /\ \E s \in Saves :
          /\ save[s].pc = "none"
          /\ save' = [save EXCEPT ![s] = [pc |-> "sent", list |-> Posted(edited)]]
    /\ soleSave' = NoSaves
    /\ UNCHANGED server

\* addPeerToAllowlist refuses what is there already.
AddPeer(p) ==
    /\ p \notin list
    /\ SaveAccess(list \cup {p})
    /\ UNCHANGED <<pingPart, editorPart>>

RemovePeer(p) ==
    /\ p \in list
    /\ SaveAccess(list \ {p})
    /\ UNCHANGED <<pingPart, editorPart>>

\* confirmShortcutPeer
ConfirmShortcut(p) ==
    /\ "shortcut" \in dialog
    /\ Closes("shortcut")
    /\ IF p \in list THEN UNCHANGED accessPart ELSE SaveAccess(list \cup {p})
    /\ UNCHANGED <<pingPart, focus, draft, saving, closing>>

\* put_vpn_access, or its failure: with nothing saved, or with the peers deleted
\* and as many of the new ones inserted as the statements before the one that failed.
ServerSaves(s) ==
    /\ save[s].pc = "sent"
    /\ \/ server' = save[s].list /\ save' = [save EXCEPT ![s].pc = "saved"] /\ UNCHANGED soleSave
       \/ /\ server' = server \/ server' \in SUBSET save[s].list
          /\ save' = [save EXCEPT ![s].pc = "failed"] /\ soleSave' = FALSE
    /\ UNCHANGED <<pingPart, editorPart, list, asked>>

\* The reply's list is the page's from now on; an error leaves what was asked.
SaveAnswered(s) ==
    /\ save[s].pc \in {"saved", "failed"}
    /\ list' = IF save[s].pc = "saved" THEN save[s].list ELSE list
    /\ save' = [save EXCEPT ![s] = NoSave]
    /\ UNCHANGED <<pingPart, editorPart, server, asked, soleSave>>

\* Another browser saves its own list.
SavedElsewhere ==
    /\ server' \in SUBSET Peers
    /\ soleSave' = FALSE
    /\ UNCHANGED <<pingPart, editorPart, list, save, asked>>

VpnPageNext ==
    \/ \E rows \in [Peers -> Rows] : LiveUpdate(rows)
    \/ \E p \in Peers :
          \/ ClickPing(p) \/ PingAnswered(p)
          \/ AddPeer(p) \/ RemovePeer(p) \/ ConfirmShortcut(p)
    \/ OpenRouteEditor \/ Type \/ MoveFocus \/ CloseRouteEditor
    \/ SubmitRoutes \/ RoutesAnswered \/ DelayedClose \/ CancelShortcut
    \/ \E s \in Saves : ServerSaves(s) \/ SaveAnswered(s)
    \/ SavedElsewhere

VpnPageSpec == VpnPageInit /\ [][VpnPageNext]_vpnPageVars

-----------------------------------------------------------------------------
(* Properties.                                                             *)

\* Types.
VpnPageTypeOK ==
    /\ peerRow \in [Peers -> Rows] /\ button \in [Peers -> BOOLEAN] /\ busy \in [Peers -> BOOLEAN]
    /\ dialog \subseteq {"routes", "shortcut"} /\ marked \in BOOLEAN
    /\ list \subseteq Peers /\ server \subseteq Peers

\* A peer is pinged once at a time, and its button says so, although the rows
\* are rewritten, removed and come back while the ping is under way.
OnePing ==
    \A p \in Peers : pings[p] <= 1 /\ (pings[p] = 1 => busy[p] /\ ~button[p])

\* The routes a user is typing are not replaced by a live update while the
\* editor is open, whatever other dialog is closed meanwhile and wherever the
\* focus is.
DraftKept ==
    [][draft = "typed" /\ "routes" \in dialog /\ "routes" \in dialog'
       => draft' = "typed"]_vpnPageVars

\* An edit that met no other save and succeeded is what the gateway has, what
\* the page shows and what its user has asked for.
AccessAgrees == NoSaves /\ soleSave => list = server /\ list = asked

\* All three: the page agrees with the gateway, pings a peer once at a time and
\* keeps the text a user is typing.
VpnPageAgrees == [](OnePing /\ AccessAgrees) /\ DraftKept
=============================================================================
