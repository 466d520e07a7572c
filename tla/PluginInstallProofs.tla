------------------------ MODULE PluginInstallProofs ------------------------
(***************************************************************************)
(* What PluginInstall guarantees for any set of package versions and any   *)
(* number of failing writes: an operation that is not interrupted is all   *)
(* or nothing, no interruption loses a plugin's files, and the boot after  *)
(* it puts them back, but if it hit while they were being moved.           *)
(***************************************************************************)
EXTENDS PluginInstall, TLAPS

\* The place of a file in all three orders.
Rank(x) ==
    CASE x = "current"  -> 1
      [] x = "manifest" -> 2
      [] x = "service"  -> 3
      [] x = "hash"     -> 4

\* The files before the i-th are of version a, the others of b.
Split(d, i, a, b) == \A x \in Parts : d[x] = IF Rank(x) < i THEN a ELSE b

InstallPcs == {"begin", "move", "copy", "savelink", "stop", "write", "unit", "link",
               "start", "row"}
RollbackPcs == {"undo", "restore", "relink", "restart", "clean"}
DeletePcs == {"rmunit", "rmdir", "rmrow"}

\* What an operation is about.
OpInv ==
    /\ op.why = "install" => op.new \in Versions
    /\ At("reconcile") \/ At("discover") \/ At("recover") => op.why # "delete"
    /\ op.pc \in InstallPcs => op.why = "install"
    /\ op.recovering /\ op.pc \in RollbackPcs => op.why # "delete"

-----------------------------------------------------------------------------
(* Nothing is lost.  While files are moved, those of a complete version    *)
(* are in one of the two directories; otherwise one of the two has it all, *)
(* and unless it is the live one, the boot will see that.  Once an         *)
(* interruption has divided them, neither directory is usable, and all     *)
(* stays as it is until the next upload or deletion.                       *)

Saved == savedDir /\ Complete(saved)

KeptSafe ==
    /\ op.pc \in {"idle", "recover"} => Complete(live) \/ (Saved /\ ~Usable(live))
    /\ op.pc \in {"discover", "reconcile", "begin", "relink", "restart", "clean"}
         => Complete(live)
    /\ At("move") => /\ savedDir /\ Complete(Merged)
                     /\ \A x \in Parts : /\ live[x] = None <=> Rank(x) < op.i
                                         /\ saved[x] = None <=> Rank(x) >= op.i
    /\ At("copy") => unit # None
    /\ op.pc \in {"copy", "savelink", "stop"} => Saved /\ live = Empty
    /\ At("write") => Saved /\ Split(live, op.i, op.new, None)
    /\ op.pc \in {"unit", "link", "start", "row"} => Saved /\ Complete(live)
    /\ At("undo") => Saved /\ (Complete(live) \/ ~Usable(live))
    /\ At("restore") => /\ savedDir /\ Complete(Merged)
                        /\ \A x \in Parts : /\ live[x] = None <=> Rank(x) >= op.i
                                            /\ Rank(x) < op.i => saved[x] = None
    /\ op.pc \notin DeletePcs

Scattered ==
    /\ op.pc \in {"idle", "recover", "discover", "reconcile", "begin"}
    /\ Complete(Merged)
    /\ \/ live["current"] = None /\ saved["hash"] = None
       \/ live["hash"] = None /\ saved["current"] = None

KeptInv == kept # None => IF divided THEN Scattered ELSE KeptSafe

-----------------------------------------------------------------------------
(* All or nothing, unless interrupted.  Until it is registered, a sound    *)
(* install has all of the version before in the rollback directory.        *)

\* The symlink is as version v asks, or someone else's.
LinkFits(v) == bin # "other" => (bin = "ours" <=> v \in Linked)

\* ... and what was noted of it will bring it back.
LinkSaved ==
    /\ savedLink = (op.old \in Linked)
    /\ op.old \in Linked => bin = "ours"

SoundStep ==
    /\ op.pc \in {"idle", "clean"} => InOrder
    /\ op.pc \notin {"recover", "discover", "reconcile", "begin"}
    /\ op.pc \in InstallPcs \cup {"undo", "restore", "relink", "restart"}
         => row = op.old
    /\ op.pc \in InstallPcs \cup RollbackPcs => ~op.recovering
    /\ op.pc \in InstallPcs \ {"unit", "link", "start", "row"} => unit \in {op.old, None}
    /\ op.pc \in InstallPcs \ {"start", "row"} => LinkFits(op.old)
    /\ At("move") => /\ Split(live, op.i, None, op.old)
                     /\ Split(saved, op.i, op.old, None)
    /\ At("copy") => unit # None /\ [saved EXCEPT !["service"] = op.old] = Whole(op.old)
    /\ op.pc \in {"savelink", "stop", "write", "unit", "link", "start", "row", "undo"}
         => saved = Whole(op.old)
    /\ op.pc \in {"copy", "savelink", "stop"} => live = Empty
    /\ op.pc \in {"stop", "write", "unit", "link"} => LinkSaved
    /\ op.pc \in {"start", "row", "undo", "restore", "relink"}
         => savedLink = (op.old \in Linked)
    /\ At("write") => Split(live, op.i, op.new, None)
    /\ op.pc \in {"unit", "link", "start", "row"} => live = Whole(op.new)
    /\ op.pc \in {"link", "start", "row"} => unit = op.new
    /\ op.pc \in {"start", "row"} => (bin = "ours" <=> op.new \in Linked)
    /\ At("undo") /\ op.old \notin Linked => (bin = "ours" => op.new \in Linked)
    /\ At("restore") => /\ Split(live, op.i, op.old, None)
                        /\ Split(saved, op.i, None, op.old)
    /\ op.pc \in {"restore", "relink"} /\ op.old \notin Linked => bin # "ours"
    /\ op.pc \in {"relink", "restart"} => live = Whole(op.old) /\ unit = None
    /\ At("restart") => LinkFits(op.old)
    /\ op.pc \in DeletePcs => bin # "ours"
    /\ op.pc \in {"rmdir", "rmrow"} => unit = None
    /\ At("rmrow") => live = Empty

SoundInv == sound => SoundStep

PluginInv == TypeOK /\ OpInv /\ KeptInv /\ SoundInv

-----------------------------------------------------------------------------
(* The three orders, and the fields of an operation's record.              *)

LEMMA Orders ==
    /\ Len(MoveOrder) = 4 /\ Len(WriteOrder) = 4 /\ Len(RestoreOrder) = 4
    /\ WriteOrder = MoveOrder /\ RestoreOrder = MoveOrder
    /\ \A x \in Parts : Rank(x) \in 1..4
    /\ \A i \in 1..4 : /\ MoveOrder[i] \in Parts
                       /\ \A x \in Parts : x = MoveOrder[i] <=> Rank(x) = i
<1>1. Len(MoveOrder) = 4 /\ Len(WriteOrder) = 4 /\ Len(RestoreOrder) = 4
    BY DEF MoveOrder, WriteOrder, RestoreOrder
<1>2. WriteOrder = MoveOrder /\ RestoreOrder = MoveOrder
    BY DEF MoveOrder, WriteOrder, RestoreOrder
<1>3. /\ Rank("current") = 1 /\ Rank("manifest") = 2 /\ Rank("service") = 3
      /\ Rank("hash") = 4
    BY DEF Rank
<1>4. /\ MoveOrder[1] = "current" /\ MoveOrder[2] = "manifest"
      /\ MoveOrder[3] = "service" /\ MoveOrder[4] = "hash"
    BY DEF MoveOrder
<1>5. \A i \in 1..4 : i = 1 \/ i = 2 \/ i = 3 \/ i = 4
    OBVIOUS
<1> QED
    BY <1>1, <1>2, <1>3, <1>4, <1>5 DEF Parts

Pcs == {"idle", "recover", "discover", "reconcile", "begin", "move",
        "copy", "savelink", "stop", "write", "unit", "link", "start", "row", "undo",
        "restore", "relink", "restart", "clean", "rmunit", "rmdir", "rmrow"}

\* The next step of the same operation, at its first or at its i-th file.
LEMMA GotoStep ==
    ASSUME op \in OpRecord, NEW s \in Pcs, Goto(s)
    PROVE  /\ op' \in OpRecord /\ op'.pc = s
           /\ op'.why = op.why /\ op'.new = op.new /\ op'.old = op.old
           /\ op'.start = op.start /\ op'.stop = op.stop /\ op'.i = op.i
           /\ op'.recovering = op.recovering
BY DEF Goto, OpRecord, Pcs

LEMMA GotoPartStep ==
    ASSUME op \in OpRecord, NEW s \in Pcs, NEW i \in 1..5, GotoPart(s, i)
    PROVE  /\ op' \in OpRecord /\ op'.pc = s
           /\ op'.why = op.why /\ op'.new = op.new /\ op'.old = op.old
           /\ op'.start = op.start /\ op'.stop = op.stop /\ op'.i = i
           /\ op'.recovering = op.recovering
BY DEF GotoPart, OpRecord, Pcs

LEMMA RestingOps ==
    /\ IdleOp \in OpRecord /\ Boot \in OpRecord
    /\ IdleOp.pc = "idle" /\ Boot.pc = "recover"
    /\ IdleOp.why = "boot" /\ Boot.why = "boot"
<1>1. IdleOp \in OpRecord
    BY DEF IdleOp, OpRecord, Maybe
<1>2. Boot \in OpRecord
    BY <1>1 DEF Boot, OpRecord
<1> QED
    BY <1>1, <1>2 DEF IdleOp, Boot

\* The operations that are begun.
LEMMA InstallOp ==
    ASSUME NEW v \in Versions, NEW o, o = [Boot EXCEPT !.why = "install", !.new = v]
    PROVE  o \in OpRecord /\ o.pc = "recover" /\ o.why = "install" /\ o.new = v
<1>1. [Boot EXCEPT !.why = "install", !.new = v] \in OpRecord
    BY RestingOps DEF OpRecord, Maybe
<1> QED
    BY <1>1, RestingOps DEF OpRecord

LEMMA DeleteOp ==
    ASSUME NEW o, o = [Boot EXCEPT !.pc = "rmunit", !.why = "delete"]
    PROVE  o \in OpRecord /\ o.pc = "rmunit" /\ o.why = "delete"
<1>1. [Boot EXCEPT !.pc = "rmunit", !.why = "delete"] \in OpRecord
    BY RestingOps DEF OpRecord
<1> QED
    BY <1>1, RestingOps DEF OpRecord

LEMMA BeginOp ==
    ASSUME op \in OpRecord, NEW r \in Maybe, NEW a \in BOOLEAN, NEW b \in BOOLEAN,
           op' = [op EXCEPT !.pc = "move", !.i = 1, !.old = r, !.recovering = FALSE,
                            !.start = a, !.stop = b]
    PROVE  /\ op' \in OpRecord /\ op'.pc = "move" /\ op'.i = 1 /\ op'.old = r
           /\ op'.recovering = FALSE /\ op'.why = op.why /\ op'.new = op.new
<1> DEFINE o == [pc |-> "move", why |-> op.why, recovering |-> FALSE, new |-> op.new,
                 old |-> r, start |-> a, stop |-> b, i |-> 1]
<1>1. o \in OpRecord
    BY DEF OpRecord
<1>2. op' = o
    BY DEF OpRecord
<1> QED
    BY <1>1, <1>2

\* What a directory holds, and one of its files written or moved.
LEMMA DirectoryHas ==
    ASSUME NEW d \in Directory
    PROVE  /\ d \in [Parts -> UnitFile]
           /\ \A x \in Parts : d[x] \in Content(x)
           /\ d["current"] \in Maybe /\ d["manifest"] \in Maybe /\ d["service"] \in UnitFile
BY DEF Directory, Content, Parts

LEMMA DirectoryPut ==
    ASSUME NEW d \in Directory, NEW x \in Parts, NEW w \in Content(x)
    PROVE  [d EXCEPT ![x] = w] \in Directory
BY DEF Directory, Content, UnitFile

LEMMA Contents ==
    /\ None \in Maybe /\ Versions \subseteq Maybe /\ Maybe \subseteq UnitFile /\ Torn \in UnitFile
    /\ \A x \in Parts : Maybe \subseteq Content(x)
    /\ Content("service") = UnitFile
    /\ Empty \in Directory
    /\ \A v \in Maybe : Whole(v) \in Directory
BY DEF Maybe, UnitFile, Content, Directory, Empty, Whole

LEMMA TypeInit == Init => TypeOK /\ OpInv
<1> SUFFICES ASSUME Init PROVE TypeOK /\ OpInv
    OBVIOUS
<1>1. live \in Directory /\ saved \in Directory
    BY Contents DEF Init
<1>2. unit \in UnitFile /\ kept \in Maybe /\ divided \in BOOLEAN
    BY <1>1, DirectoryHas, Contents DEF Init
<1>3. faults \in 0..MaxFaults
    BY PluginAssumption DEF Init
<1>4. op = Boot /\ op \in OpRecord
    BY RestingOps DEF Init
<1>5. OpInv
    BY <1>4, RestingOps DEF OpInv, At, InstallPcs, RollbackPcs
<1>6. /\ row \in Maybe /\ running \in Maybe /\ bin \in {"none", "ours", "other"}
      /\ enabled \in BOOLEAN /\ sound \in BOOLEAN /\ savedDir \in BOOLEAN
      /\ savedLink \in BOOLEAN
    BY DEF Init, Maybe
<1> QED
    BY <1>1, <1>2, <1>3, <1>4, <1>5, <1>6 DEF TypeOK

LEMMA TypeNext == TypeOK /\ OpInv /\ [Next]_vars => TypeOK' /\ OpInv'
<1> SUFFICES ASSUME TypeOK, OpInv, [Next]_vars PROVE TypeOK' /\ OpInv'
    OBVIOUS
<1> USE DEF At, InstallPcs, RollbackPcs
<1>o. /\ op \in OpRecord /\ op.new \in Maybe /\ op.old \in Maybe /\ op.i \in 1..5
      /\ op.pc \in Pcs /\ op.why \in {"boot", "install", "delete"}
    BY DEF TypeOK, OpRecord, Pcs
<1>v. /\ None \in Maybe /\ Versions \subseteq Maybe /\ Empty \in Directory
      /\ Maybe \subseteq UnitFile /\ Torn \in UnitFile
    BY Contents
<1>l. /\ live \in Directory /\ saved \in Directory
      /\ \A x \in Parts : live[x] \in Content(x) /\ saved[x] \in Content(x)
      /\ live["current"] \in Maybe /\ live["manifest"] \in Maybe
      /\ saved["service"] \in UnitFile
    BY DirectoryHas DEF TypeOK
<1>p. /\ "service" \in Parts /\ Content("service") = UnitFile
      /\ \A x \in Parts : None \in Content(x) /\ Versions \subseteq Content(x)
    BY Contents DEF Parts
<1>a. Started \subseteq Maybe
    BY <1>l, <1>v DEF Started, TypeOK
<1>b. op' = IdleOp \/ op' = Boot => op' \in OpRecord /\ OpInv'
    BY RestingOps DEF OpInv
<1>g. ASSUME NEW s \in Pcs, Goto(s)
      PROVE  op' \in OpRecord /\ op'.pc = s /\ op'.why = op.why /\ op'.new = op.new
             /\ op'.recovering = op.recovering
    BY <1>g, <1>o, GotoStep
<1>i. ASSUME NEW s \in Pcs, NEW i \in 1..5, GotoPart(s, i)
      PROVE  op' \in OpRecord /\ op'.pc = s /\ op'.why = op.why /\ op'.new = op.new
             /\ op'.recovering = op.recovering
    BY <1>i, <1>o, GotoPartStep
<1>1. ASSUME Recover PROVE TypeOK' /\ OpInv'
    <2>1. /\ op' \in OpRecord /\ op'.pc \in {"discover", "undo"} /\ op'.why = op.why
          /\ op'.new = op.new /\ op'.recovering = op.recovering
        <3>1. CASE Goto("discover")
            BY <1>g, <3>1 DEF Pcs
        <3>2. CASE op' = [op EXCEPT !.pc = "undo", !.old = row]
            <4>1. row \in Maybe
                BY DEF TypeOK
            <4> QED
                BY <1>o, <3>2, <4>1 DEF OpRecord
        <3> QED
            BY <1>1, <3>1, <3>2 DEF Recover
    <2>2. OpInv'
        BY <1>1, <2>1 DEF Recover, OpInv
    <2> QED
        BY <1>1, <1>v, <2>1, <2>2 DEF Recover, CleanupRollback, files, system, db, history, TypeOK
<1>2. ASSUME Discover PROVE TypeOK' /\ OpInv'
    <2>1. op' \in OpRecord /\ OpInv'
        BY <1>2, <1>g DEF Discover, OpInv, Pcs
    <2> QED
        BY <1>2, <1>l, <1>p, <2>1 DEF Discover, files, system, db, history, TypeOK
<1>3. ASSUME Reconcile PROVE TypeOK' /\ OpInv'
    <2>1. op' \in OpRecord /\ OpInv'
        BY <1>3, <1>b, <1>g, <1>o DEF Reconcile, Done, OpInv, Pcs
    <2> QED
        BY <1>3, <2>1 DEF Reconcile, files, db, history, TypeOK
<1>4. ASSUME NEW v \in Versions, Install(v) PROVE TypeOK' /\ OpInv'
    <2>0. op' = [Boot EXCEPT !.why = "install", !.new = v]
        BY <1>4 DEF Install
    <2>a. op' \in OpRecord /\ op'.pc = "recover" /\ op'.why = "install" /\ op'.new = v
        BY <2>0, InstallOp, Zenon
    <2>1. op' \in OpRecord /\ OpInv'
        BY <2>a DEF OpInv
    <2> QED
        BY <1>4, <2>1 DEF Install, files, system, db, TypeOK
<1>5. ASSUME Begin PROVE TypeOK' /\ OpInv'
    <2> DEFINE a == (row = None \/ running # None)
               b == (row # None \/ unit # None)
    <2>1. a \in BOOLEAN /\ b \in BOOLEAN /\ row \in Maybe
        BY DEF TypeOK
    <2>2. op' = [op EXCEPT !.pc = "move", !.i = 1, !.old = row, !.recovering = FALSE,
                           !.start = a, !.stop = b]
        BY <1>5 DEF Begin
    <2> HIDE DEF a, b
    <2>3. /\ op' \in OpRecord /\ op'.pc = "move" /\ op'.why = op.why /\ op'.new = op.new
        BY <1>o, <2>1, <2>2, BeginOp, Zenon
    <2>4. OpInv'
        BY <1>5, <2>3 DEF Begin, OpInv
    <2>5. sound' \in BOOLEAN /\ kept' \in Maybe /\ divided' \in BOOLEAN
        BY <1>5, <1>l, <1>v DEF Begin, VersionOf, InOrder
    <2> QED
        BY <1>5, <1>v, <2>3, <2>4, <2>5 DEF Begin, system, db, TypeOK
<1>6. ASSUME Move PROVE TypeOK' /\ OpInv'
    <2>1. op.i \in 1..4
        BY <1>6, <1>o, Orders DEF Move
    <2>2. op' \in OpRecord /\ OpInv'
        BY <1>6, <1>i, <2>1 DEF Move, OpInv, Pcs
    <2>3. live' \in Directory /\ saved' \in Directory
        BY <1>6, <1>l, <1>p, <2>1, DirectoryPut, Orders DEF Move
    <2> QED
        BY <1>6, <2>2, <2>3 DEF Move, system, db, history, TypeOK
<1>c. ASSUME GivesUp
      PROVE  op' \in OpRecord /\ OpInv' /\ faults' \in 0..MaxFaults /\ sound' \in BOOLEAN
    <2>1. op' = IdleOp /\ sound' = FALSE /\ faults < MaxFaults /\ faults' = faults + 1
        BY <1>c DEF GivesUp, Done
    <2>2. faults' \in 0..MaxFaults
        BY <2>1, PluginAssumption DEF TypeOK
    <2> QED
        BY <1>b, <2>1, <2>2
<1>s. ASSUME NEW w \in UnitFile PROVE [saved EXCEPT !["service"] = w] \in Directory
    BY <1>l, <1>p, DirectoryPut
<1>7. ASSUME SaveUnit PROVE TypeOK' /\ OpInv'
    <2>1. /\ op' \in OpRecord /\ OpInv' /\ faults' \in 0..MaxFaults /\ sound' \in BOOLEAN
          /\ saved' \in Directory
        <3>1. CASE GivesUp /\ UNCHANGED saved
            BY <1>c, <1>l, <3>1
        <3>2. CASE /\ Goto("savelink") \/ Goto("copy")
                   /\ UNCHANGED <<faults, sound>>
                   /\ saved' = saved \/ saved' = [saved EXCEPT !["service"] = Torn]
            <4>1. op' \in OpRecord /\ OpInv'
                BY <1>7, <1>g, <3>2 DEF SaveUnit, OpInv, Pcs
            <4>2. saved' \in Directory
                BY <1>l, <1>s, <1>v, <3>2
            <4> QED
                BY <1>7, <3>2, <4>1, <4>2 DEF SaveUnit, TypeOK
        <3> QED
            BY <1>7, <3>1, <3>2 DEF SaveUnit
    <2> QED
        BY <1>7, <2>1 DEF SaveUnit, system, db, TypeOK
<1>30. ASSUME CopyUnit PROVE TypeOK' /\ OpInv'
    <2>1. /\ op' \in OpRecord /\ OpInv' /\ faults' \in 0..MaxFaults /\ sound' \in BOOLEAN
          /\ saved' \in Directory
        <3>1. CASE GivesUp /\ UNCHANGED saved
            BY <1>c, <1>l, <3>1
        <3>2. CASE /\ saved' = [saved EXCEPT !["service"] = unit] /\ Goto("savelink")
                   /\ UNCHANGED <<faults, sound>>
            <4>1. op' \in OpRecord /\ OpInv'
                BY <1>30, <1>g, <3>2 DEF CopyUnit, OpInv, Pcs
            <4>2. saved' \in Directory
                BY <1>s, <3>2 DEF TypeOK
            <4> QED
                BY <3>2, <4>1, <4>2 DEF TypeOK
        <3> QED
            BY <1>30, <3>1, <3>2 DEF CopyUnit
    <2> QED
        BY <1>30, <2>1 DEF CopyUnit, system, db, TypeOK
<1>8. ASSUME SaveLink PROVE TypeOK' /\ OpInv'
    <2>1. op' \in OpRecord /\ OpInv'
        BY <1>8, <1>b, <1>g DEF SaveLink, Done, OpInv, Pcs
    <2>2. savedLink' \in BOOLEAN /\ sound' \in BOOLEAN
        BY <1>8 DEF SaveLink, SavesLink, TypeOK
    <2> QED
        BY <1>8, <2>1, <2>2 DEF SaveLink, system, db, TypeOK
<1>9. ASSUME StopOld PROVE TypeOK' /\ OpInv'
    <2>1. op' \in OpRecord /\ OpInv'
        BY <1>9, <1>i DEF StopOld, OpInv, Pcs
    <2> QED
        BY <1>9, <1>v, <2>1 DEF StopOld, files, db, history, TypeOK
<1>f. WriteFails => /\ Fail /\ faults' \in 0..MaxFaults
    BY PluginAssumption DEF WriteFails, TypeOK
<1>u. Fail /\ op.pc \in {"write", "unit", "link", "start", "row"} =>
        op' \in OpRecord /\ OpInv' /\ running' \in Maybe
    BY <1>g, <1>v DEF Fail, OpInv, Pcs
<1>10. ASSUME Write PROVE TypeOK' /\ OpInv'
    <2>1. op.i \in 1..4 /\ op.new \in Versions
        BY <1>10, <1>o, Orders DEF Write, OpInv
    <2>2. /\ op' \in OpRecord /\ OpInv' /\ running' \in Maybe /\ faults' \in 0..MaxFaults
          /\ live' \in Directory
        <3>1. CASE WriteFails /\ UNCHANGED live
            BY <1>10, <1>f, <1>l, <1>u, <3>1 DEF Write
        <3>2. CASE /\ live' = [live EXCEPT ![WriteOrder[op.i]] = op.new]
                   /\ GotoPart("write", op.i + 1) /\ UNCHANGED <<running, faults>>
            <4>1. op' \in OpRecord /\ OpInv'
                BY <1>10, <1>i, <2>1, <3>2 DEF Write, OpInv, Pcs
            <4>2. live' \in Directory
                BY <1>l, <1>p, <2>1, <3>2, DirectoryPut, Orders
            <4> QED
                BY <3>2, <4>1, <4>2 DEF TypeOK
        <3> QED
            BY <1>10, <3>1, <3>2 DEF Write
    <2> QED
        BY <1>10, <2>2 DEF Write, db, history, TypeOK
<1>11. ASSUME WriteUnit \/ UnitWritten PROVE TypeOK' /\ OpInv'
    <2>1. /\ op' \in OpRecord /\ OpInv' /\ running' \in Maybe /\ faults' \in 0..MaxFaults
          /\ unit' \in UnitFile
        <3>1. CASE WriteFails /\ UNCHANGED unit
            BY <1>11, <1>f, <1>u, <3>1 DEF WriteUnit, UnitWritten, TypeOK
        <3>2. CASE /\ unit' \in {Torn, op.new}
                   /\ Goto("unit") \/ Goto("link")
                   /\ UNCHANGED <<running, faults>>
            <4>1. op' \in OpRecord /\ OpInv'
                BY <1>11, <1>g, <3>2 DEF WriteUnit, UnitWritten, OpInv, Pcs
            <4> QED
                BY <1>o, <1>v, <3>2, <4>1 DEF TypeOK
        <3> QED
            BY <1>11, <3>1, <3>2 DEF WriteUnit, UnitWritten
    <2> QED
        BY <1>11, <2>1 DEF WriteUnit, UnitWritten, files, db, history, TypeOK
<1>12. ASSUME Link PROVE TypeOK' /\ OpInv'
    <2>1. /\ op' \in OpRecord /\ OpInv' /\ running' \in Maybe
        <3>1. CASE Fail
            BY <1>12, <1>u, <3>1 DEF Link
        <3>2. CASE Goto("start") /\ UNCHANGED running
            BY <1>12, <1>g, <3>2 DEF Link, OpInv, Pcs, TypeOK
        <3> QED
            BY <1>12, <3>1, <3>2 DEF Link
    <2> QED
        BY <1>12, <2>1 DEF Link, files, db, history, TypeOK
<1>13. ASSUME StartNew PROVE TypeOK' /\ OpInv'
    <2>1. /\ op' \in OpRecord /\ OpInv' /\ running' \in Maybe
        <3>1. CASE Fail
            BY <1>13, <1>u, <3>1 DEF StartNew
        <3>2. CASE /\ Goto("row")
                   /\ running' = IF op.start /\ running = None THEN live["current"] ELSE running
            <4>1. op' \in OpRecord /\ OpInv'
                BY <1>13, <1>g, <3>2 DEF StartNew, OpInv, Pcs
            <4> QED
                BY <1>l, <3>2, <4>1 DEF TypeOK
        <3> QED
            BY <1>13, <3>1, <3>2 DEF StartNew
    <2> QED
        BY <1>13, <2>1 DEF StartNew, files, db, history, TypeOK
<1>14. ASSUME Register PROVE TypeOK' /\ OpInv'
    <2>1. /\ op' \in OpRecord /\ OpInv' /\ running' \in Maybe /\ faults' \in 0..MaxFaults
          /\ row' \in Maybe /\ enabled' \in BOOLEAN
        <3>1. CASE WriteFails /\ UNCHANGED db
            BY <1>14, <1>f, <1>u, <3>1 DEF Register, db, TypeOK
        <3>2. CASE /\ row' = op.new /\ Goto("clean") /\ UNCHANGED <<running, faults>>
                   /\ enabled' = IF op.old = None THEN TRUE ELSE enabled
            <4>1. op' \in OpRecord /\ OpInv'
                BY <1>14, <1>g, <3>2 DEF Register, OpInv, Pcs
            <4> QED
                BY <1>o, <3>2, <4>1 DEF TypeOK
        <3> QED
            BY <1>14, <3>1, <3>2 DEF Register
    <2> QED
        BY <1>14, <2>1 DEF Register, files, history, TypeOK
<1>15. ASSUME Undo PROVE TypeOK' /\ OpInv'
    <2>1. op' \in OpRecord /\ OpInv'
        BY <1>15, <1>i DEF Undo, OpInv, Pcs
    <2>2. bin' \in {"none", "ours", "other"}
        BY <1>15 DEF Undo, TypeOK
    <2> QED
        BY <1>15, <1>v, <2>1, <2>2 DEF Undo, db, history, TypeOK
<1>16. ASSUME Restore PROVE TypeOK' /\ OpInv'
    <2>1. op.i \in 1..4
        BY <1>16, <1>o, Orders DEF Restore
    <2>2. op' \in OpRecord /\ OpInv'
        BY <1>16, <1>i, <2>1 DEF Restore, OpInv, Pcs
    <2>3. live' \in Directory /\ saved' \in Directory
        BY <1>16, <1>l, <1>p, <2>1, DirectoryPut, Orders DEF Restore
    <2> QED
        BY <1>16, <2>2, <2>3 DEF Restore, system, db, history, TypeOK
<1>17. ASSUME RestoreUnit PROVE TypeOK' /\ OpInv'
    <2>1. op' \in OpRecord /\ OpInv'
        BY <1>17, <1>g DEF RestoreUnit, OpInv, Pcs
    <2> QED
        BY <1>17, <1>l, <2>1 DEF RestoreUnit, files, db, history, TypeOK
<1>18. ASSUME RestoreLink PROVE TypeOK' /\ OpInv'
    <2>1. op' \in OpRecord /\ OpInv'
        BY <1>18, <1>g DEF RestoreLink, OpInv, Pcs
    <2> QED
        BY <1>18, <2>1 DEF RestoreLink, db, history, TypeOK
<1>19. ASSUME RestartOld PROVE TypeOK' /\ OpInv'
    <2>1. op' \in OpRecord /\ OpInv'
        BY <1>19, <1>g DEF RestartOld, OpInv, Pcs
    <2>2. unit' \in UnitFile /\ running' \in Maybe
        BY <1>19, <1>a, <1>v DEF RestartOld, TypeOK
    <2> QED
        BY <1>19, <2>1, <2>2 DEF RestartOld, files, db, history, TypeOK
<1>20. ASSUME Clean PROVE TypeOK' /\ OpInv'
    <2>1. op' \in OpRecord /\ OpInv'
        BY <1>20, <1>b, <1>g DEF Clean, Done, OpInv, Pcs
    <2> QED
        BY <1>20, <1>v, <2>1 DEF Clean, CleanupRollback, system, db, history, TypeOK
<1>21. ASSUME Delete PROVE TypeOK' /\ OpInv'
    <2>1. op' \in OpRecord /\ OpInv'
        <3>1. CASE op' = [Boot EXCEPT !.pc = "rmunit", !.why = "delete"]
            BY <3>1, DeleteOp DEF OpInv
        <3> QED
            BY <1>21, <1>o, <3>1 DEF Delete, OpInv
    <2>2. bin' \in {"none", "ours", "other"} /\ sound' \in BOOLEAN
        BY <1>21 DEF Delete, InOrder, TypeOK
    <2> QED
        BY <1>21, <1>v, <2>1, <2>2 DEF Delete, files, db, TypeOK
<1>22. ASSUME DeleteUnit PROVE TypeOK' /\ OpInv'
    <2>1. op' \in OpRecord /\ OpInv'
        BY <1>22, <1>g DEF DeleteUnit, OpInv, Pcs
    <2> QED
        BY <1>22, <1>v, <2>1 DEF DeleteUnit, files, db, history, TypeOK
<1>23. ASSUME DeleteFiles PROVE TypeOK' /\ OpInv'
    <2>1. op' \in OpRecord /\ OpInv'
        BY <1>23, <1>g DEF DeleteFiles, OpInv, Pcs
    <2> QED
        BY <1>23, <1>v, <2>1 DEF DeleteFiles, CleanupRollback, system, db, history, TypeOK
<1>24. ASSUME DeleteRow PROVE TypeOK' /\ OpInv'
    BY <1>24, <1>b, <1>v DEF DeleteRow, Done, files, system, history, TypeOK
<1>25. ASSUME NEW a \in {"start", "restart", "stop"}, Control(a) PROVE TypeOK' /\ OpInv'
    <2>1. running' \in Maybe /\ enabled' \in BOOLEAN
        BY <1>25, <1>a, <1>v DEF Control, TypeOK
    <2> QED
        BY <1>25, <2>1 DEF Control, files, history, TypeOK, OpInv
<1>26. ASSUME Interrupt PROVE TypeOK' /\ OpInv'
    <2>1. running' \in Maybe /\ divided' \in BOOLEAN
        BY <1>26, <1>a, <1>v DEF Interrupt, Moving, TypeOK
    <2> QED
        BY <1>26, <1>b, <2>1 DEF Interrupt, files, db, TypeOK
<1>27. ASSUME ServiceDies PROVE TypeOK' /\ OpInv'
    BY <1>27, <1>v DEF ServiceDies, files, db, history, TypeOK, OpInv
<1>28. ASSUME Operator PROVE TypeOK' /\ OpInv'
    BY <1>28 DEF Operator, files, db, TypeOK, OpInv
<1>29. CASE UNCHANGED vars
    BY <1>29 DEF vars, TypeOK, OpInv
<1> QED
    BY <1>1, <1>2, <1>3, <1>4, <1>5, <1>6, <1>7, <1>8, <1>9, <1>10, <1>11, <1>12, <1>13,
       <1>14, <1>15, <1>16, <1>17, <1>18, <1>19, <1>20, <1>21, <1>22, <1>23, <1>24,
       <1>25, <1>26, <1>27, <1>28, <1>29, <1>30
    DEF Next, InitStore, InstallStep, Rollback, DeleteStep

-----------------------------------------------------------------------------
(* Nothing is lost.                                                        *)

LEMMA Directories ==
    /\ \A d : Complete(d) => Usable(d)
    /\ \A v \in Versions : Complete(Whole(v))
    /\ ~Usable(Empty)
BY PluginAssumption DEF Complete, Usable, Whole, Empty, Parts

\* What install_plugin has written so far is of no use before the checksum.
LEMMA Written ==
    ASSUME NEW d, NEW i \in 1..5, NEW v \in Versions, Split(d, i, v, None)
    PROVE  /\ i < 5 => ~Usable(d)
           /\ i = 5 => Complete(d) /\ \A x \in Parts : d[x] = v
BY PluginAssumption DEF Split, Usable, Complete, Parts, Rank

LEMMA AllMoved ==
    ASSUME NEW i \in 1..5, NEW x \in Parts
    PROVE  /\ ~(Rank(x) < 1) /\ Rank(x) >= 1 /\ (i = 5 => Rank(x) < i)
           /\ (Rank(x) < i + 1 <=> Rank(x) < i \/ Rank(x) = i)
BY Orders

LEMMA KeptInit == Init => KeptInv
<1> SUFFICES ASSUME Init, kept # None PROVE KeptSafe
    BY DEF KeptInv, Init
<1>1. Complete(live)
    BY Directories DEF Init, Maybe, Whole, Parts
<1>2. op.pc = "recover"
    BY RestingOps DEF Init
<1> QED
    BY <1>1, <1>2 DEF KeptSafe, At, DeletePcs

\* Of files that are divided, neither directory has a usable plugin.
LEMMA NoneUsable == Scattered => ~Usable(live) /\ ~Usable(saved)
BY DEF Scattered, Usable, Parts

\* Only the beginning of an install, a deletion and an interruption change what
\* was kept and whether it is divided.
LEMMA HistoryStays ==
    [Next]_vars /\ ~Begin /\ ~Delete => kept' = kept /\ (divided' = divided \/ Interrupt)
<1> SUFFICES ASSUME [Next]_vars, ~Begin, ~Delete, ~Interrupt
             PROVE  kept' = kept /\ divided' = divided
    BY DEF Interrupt
<1>1. ASSUME InitStore PROVE kept' = kept /\ divided' = divided
    BY <1>1 DEF InitStore, Recover, Discover, Reconcile, history
<1>2. ASSUME InstallStep PROVE kept' = kept /\ divided' = divided
    <2>1. CASE Move \/ SaveUnit \/ CopyUnit \/ SaveLink \/ StopOld
        BY <2>1 DEF Move, SaveUnit, CopyUnit, SaveLink, StopOld, history
    <2>2. CASE Write \/ WriteUnit \/ UnitWritten \/ Link \/ StartNew \/ Register
        BY <2>2 DEF Write, WriteUnit, UnitWritten, Link, StartNew, Register, history
    <2> QED
        BY <1>2, <2>1, <2>2 DEF InstallStep
<1>3. ASSUME Rollback \/ Clean PROVE kept' = kept /\ divided' = divided
    BY <1>3 DEF Rollback, Undo, Restore, RestoreUnit, RestoreLink, RestartOld, Clean, history
<1>4. ASSUME DeleteUnit \/ DeleteFiles \/ DeleteRow PROVE kept' = kept /\ divided' = divided
    BY <1>4 DEF DeleteUnit, DeleteFiles, DeleteRow, history
<1>5. ASSUME NEW v \in Versions, Install(v) PROVE kept' = kept /\ divided' = divided
    BY <1>5 DEF Install
<1>6. ASSUME NEW a \in {"start", "restart", "stop"}, Control(a)
      PROVE  kept' = kept /\ divided' = divided
    BY <1>6 DEF Control, history
<1>7. CASE ServiceDies \/ Operator \/ UNCHANGED vars
    BY <1>7 DEF ServiceDies, Operator, history, vars
<1> QED
    BY <1>1, <1>2, <1>3, <1>4, <1>5, <1>6, <1>7 DEF Next, DeleteStep

\* No step but the beginning of an install brings divided files together again.
LEMMA ScatteredStays ==
    ASSUME Scattered, UNCHANGED <<live, saved>>,
           op'.pc \in {"idle", "recover", "discover", "reconcile", "begin"}
    PROVE  Scattered'
<1>1. Merged' = Merged
    BY DEF Merged
<1> QED
    BY <1>1 DEF Scattered

LEMMA ScatteredNext ==
    ASSUME TypeOK, Scattered, divided, [Next]_vars, ~Begin, kept' # None
    PROVE  divided' /\ Scattered'
<1> USE DEF At
<1>o. op \in OpRecord
    BY DEF TypeOK
<1>s. op.pc \in {"idle", "recover", "discover", "reconcile", "begin"}
    BY DEF Scattered
<1>1. ASSUME Recover PROVE divided' /\ Scattered'
    <2>1. ~Usable(live) /\ ~Usable(saved)
        BY NoneUsable
    <2>2. Goto("discover") /\ UNCHANGED <<live, saved>> /\ divided' = divided
        BY <1>1, <2>1 DEF Recover, files, history
    <2>3. op'.pc = "discover"
        BY <1>o, <2>2, GotoStep DEF Pcs
    <2> QED
        BY <2>2, <2>3, ScatteredStays
<1>2. ASSUME Discover PROVE divided' /\ Scattered'
    <2>1. Goto("reconcile") /\ UNCHANGED <<live, saved>> /\ divided' = divided
        BY <1>2 DEF Discover, files, history
    <2>2. op'.pc = "reconcile"
        BY <1>o, <2>1, GotoStep DEF Pcs
    <2> QED
        BY <2>1, <2>2, ScatteredStays
<1>3. ASSUME Reconcile PROVE divided' /\ Scattered'
    <2>1. UNCHANGED <<live, saved>> /\ divided' = divided
        BY <1>3 DEF Reconcile, files, history
    <2>2. op'.pc \in {"idle", "begin"}
        BY <1>3, <1>o, GotoStep, RestingOps DEF Reconcile, Done, Pcs
    <2> QED
        BY <2>1, <2>2, ScatteredStays
<1>4. ASSUME NEW v \in Versions, Install(v) PROVE divided' /\ Scattered'
    <2>1. UNCHANGED <<live, saved>> /\ divided' = divided
        BY <1>4 DEF Install, files
    <2>2. op' = [Boot EXCEPT !.why = "install", !.new = v]
        BY <1>4 DEF Install
    <2>3. op'.pc = "recover"
        BY <2>2, InstallOp, Zenon
    <2> QED
        BY <2>1, <2>3, ScatteredStays
<1>5. ASSUME Interrupt PROVE divided' /\ Scattered'
    <2>1. UNCHANGED <<live, saved>> /\ divided' = TRUE
        BY <1>5 DEF Interrupt, files
    <2>2. op'.pc = "recover"
        BY <1>5, RestingOps DEF Interrupt
    <2> QED
        BY <2>1, <2>2, ScatteredStays
<1>e. ASSUME UNCHANGED <<live, saved, op, divided>> PROVE divided' /\ Scattered'
    BY <1>e, <1>s, ScatteredStays
<1>6. ASSUME NEW a \in {"start", "restart", "stop"}, Control(a)
      PROVE  divided' /\ Scattered'
    BY <1>6, <1>e DEF Control, files, history
<1>7. CASE ServiceDies \/ Operator \/ UNCHANGED vars
    BY <1>7, <1>e DEF ServiceDies, Operator, vars, files, history
<1>8. ~Delete
    BY DEF Delete
<1>9. /\ ~Move /\ ~SaveUnit /\ ~CopyUnit /\ ~SaveLink /\ ~StopOld /\ ~Write /\ ~WriteUnit
      /\ ~UnitWritten /\ ~Link /\ ~StartNew /\ ~Register
    BY <1>s DEF Move, SaveUnit, CopyUnit, SaveLink, StopOld, Write, WriteUnit, UnitWritten,
                Link, StartNew, Register
<1>10. ~Rollback /\ ~Clean /\ ~DeleteUnit /\ ~DeleteFiles /\ ~DeleteRow
    BY <1>s DEF Rollback, Undo, Restore, RestoreUnit, RestoreLink, RestartOld, Clean,
                DeleteUnit, DeleteFiles, DeleteRow
<1> QED
    BY <1>1, <1>2, <1>3, <1>4, <1>5, <1>6, <1>7, <1>8, <1>9, <1>10
    DEF Next, InitStore, InstallStep, DeleteStep

\* The first move begins with everything in the live directory.
LEMMA BeginSafe ==
    ASSUME TypeOK, Begin, kept' # None
    PROVE  KeptSafe'
<1> USE DEF At, InstallPcs, DeletePcs
<1>o. op \in OpRecord
    BY DEF TypeOK
<1>l. live \in [Parts -> UnitFile] /\ saved \in [Parts -> UnitFile]
    BY DirectoryHas DEF TypeOK
<1>1. live' = live /\ saved' = Empty /\ savedDir' = TRUE /\ Complete(live)
    BY DEF Begin, VersionOf
<1> DEFINE s == (row = None \/ running # None)
           t == (row # None \/ unit # None)
<1>2. s \in BOOLEAN /\ t \in BOOLEAN /\ row \in Maybe
    BY DEF TypeOK
<1>3. op' = [op EXCEPT !.pc = "move", !.i = 1, !.old = row, !.recovering = FALSE,
                       !.start = s, !.stop = t]
    BY DEF Begin
<1> HIDE DEF s, t
<1>4. op'.pc = "move" /\ op'.i = 1
    BY <1>o, <1>2, <1>3, BeginOp, Zenon
<1>5. \A x \in Parts : live[x] # None
    BY <1>1 DEF Complete
<1>6. Merged' = live
    BY <1>l, <1>1, <1>5 DEF Merged
<1>7. \A x \in Parts : ~(Rank(x) < 1) /\ Rank(x) >= 1 /\ saved'[x] = None
    BY <1>1, AllMoved DEF Empty
<1> QED
    BY <1>1, <1>4, <1>5, <1>6, <1>7 DEF KeptSafe

LEMMA SafeNext ==
    ASSUME TypeOK, OpInv, KeptInv, ~divided, [Next]_vars, kept' # None
    PROVE  IF divided' THEN Scattered' ELSE KeptSafe'
<1> USE DEF At, InstallPcs, DeletePcs
<1>o. op \in OpRecord /\ op.i \in 1..5
    BY DEF TypeOK, OpRecord
<1>l. live \in [Parts -> UnitFile] /\ saved \in [Parts -> UnitFile]
    BY DirectoryHas DEF TypeOK
<1>k. kept' = kept => KeptSafe
    BY DEF KeptInv
<1>g. ASSUME NEW s \in Pcs, Goto(s) PROVE op'.pc = s /\ op'.new = op.new /\ op'.i = op.i
    BY <1>g, <1>o, GotoStep
<1>i. ASSUME NEW s \in Pcs, NEW i \in 1..5, GotoPart(s, i)
      PROVE  op'.pc = s /\ op'.new = op.new /\ op'.i = i
    BY <1>i, <1>o, GotoPartStep
<1>d. \A d : Complete(d) => Usable(d)
    BY Directories
<1>1. ASSUME Recover PROVE KeptSafe'
    <2>1. KeptSafe /\ op.pc = "recover"
        BY <1>1, <1>k DEF Recover, history
    <2>2. Complete(live) \/ (Saved /\ ~Usable(live))
        BY <2>1 DEF KeptSafe
    <2>3. CASE ~savedDir \/ (~Usable(live) /\ ~Usable(saved))
        <3>1. op'.pc = "discover" /\ live' = live
            BY <1>1, <1>g, <2>3 DEF Recover, Pcs, files
        <3>2. Complete(live)
            BY <1>d, <2>2, <2>3 DEF Saved
        <3> QED
            BY <3>1, <3>2 DEF KeptSafe
    <2>4. CASE savedDir /\ Usable(live)
        <3>1. op'.pc = "discover" /\ live' = live
            BY <1>1, <1>g, <2>4 DEF Recover, Pcs
        <3>2. Complete(live)
            BY <2>2, <2>4
        <3> QED
            BY <3>1, <3>2 DEF KeptSafe
    <2>5. CASE savedDir /\ ~Usable(live) /\ Usable(saved)
        <3>1. op' = [op EXCEPT !.pc = "undo", !.old = row] /\ UNCHANGED files
            BY <1>1, <2>5 DEF Recover
        <3>2. op'.pc = "undo" /\ UNCHANGED <<live, saved, savedDir>>
            BY <1>o, <3>1 DEF OpRecord, files
        <3>3. Saved /\ ~Usable(live)
            BY <1>d, <2>2, <2>5
        <3> QED
            BY <3>2, <3>3 DEF KeptSafe, Saved
    <2> QED
        BY <2>3, <2>4, <2>5
<1>2. ASSUME Discover PROVE KeptSafe'
    <2>1. KeptSafe /\ op.pc = "discover" /\ op'.pc = "reconcile" /\ live' = live
        BY <1>2, <1>g, <1>k DEF Discover, history, files, Pcs
    <2> QED
        BY <2>1 DEF KeptSafe
<1>3. ASSUME Reconcile PROVE KeptSafe'
    <2>1. KeptSafe /\ op.pc = "reconcile" /\ live' = live
        BY <1>3, <1>k DEF Reconcile, history, files
    <2>2. op'.pc \in {"idle", "begin"}
        BY <1>3, <1>g, RestingOps DEF Reconcile, Done, Pcs
    <2> QED
        BY <2>1, <2>2 DEF KeptSafe
<1>4. ASSUME NEW v \in Versions, Install(v) PROVE KeptSafe'
    <2>1. KeptSafe /\ op.pc = "idle" /\ UNCHANGED <<live, saved, savedDir>>
        BY <1>4, <1>k DEF Install, files
    <2>2. op' = [Boot EXCEPT !.why = "install", !.new = v]
        BY <1>4 DEF Install
    <2>3. op'.pc = "recover"
        BY <2>2, InstallOp, Zenon
    <2> QED
        BY <2>1, <2>3 DEF KeptSafe, Saved
<1>5. ASSUME Begin PROVE KeptSafe'
    BY <1>5, BeginSafe
<1>6. ASSUME Move PROVE KeptSafe'
    <2> DEFINE x == MoveOrder[op.i]
    <2>1. KeptSafe /\ op.pc = "move" /\ op.i \in 1..4
        BY <1>6, <1>k, <1>o, Orders DEF Move, history
    <2>2. x \in Parts /\ Rank(x) = op.i /\ \A y \in Parts : y = x <=> Rank(y) = op.i
        BY <2>1, Orders
    <2>3. /\ savedDir /\ Complete(Merged) /\ savedDir' = savedDir
          /\ \A y \in Parts : /\ live[y] = None <=> Rank(y) < op.i
                              /\ saved[y] = None <=> Rank(y) >= op.i
        BY <1>6, <2>1 DEF KeptSafe, Move
    <2>4. live[x] # None
        BY <2>1, <2>2, <2>3
    <2>5. saved' = [saved EXCEPT ![x] = live[x]] /\ live' = [live EXCEPT ![x] = None]
        BY <1>6, <2>4 DEF Move
    <2>6. op'.pc = "move" /\ op'.i = op.i + 1
        BY <1>6, <1>i, <2>1 DEF Move, Pcs
    <2> HIDE DEF x
    <2>7. Merged' = Merged
        BY <1>l, <2>2, <2>4, <2>5 DEF Merged
    <2>8. \A y \in Parts : live'[y] = None <=> (live[y] = None \/ y = x)
        BY <1>l, <2>2, <2>5
    <2>9. \A y \in Parts : live'[y] = None <=> Rank(y) < op'.i
        BY <1>o, <2>2, <2>3, <2>6, <2>8, AllMoved
    <2>10. \A y \in Parts : saved'[y] = None <=> (saved[y] = None /\ y # x)
        BY <1>l, <2>2, <2>4, <2>5
    <2>11. \A y \in Parts : saved'[y] = None <=> Rank(y) >= op'.i
        BY <1>o, <2>2, <2>3, <2>6, <2>10, Orders
    <2> QED
        BY <2>3, <2>6, <2>7, <2>9, <2>11 DEF KeptSafe
<1>7. ASSUME SaveUnit PROVE KeptSafe'
    <2>1. KeptSafe /\ op.pc = "move" /\ op.i = 5
        BY <1>7, <1>k, <1>o, Orders DEF SaveUnit
    <2>2. \A x \in Parts : live[x] = None
        BY <2>1, AllMoved DEF KeptSafe
    <2>3. live = Empty /\ ~Usable(live)
        BY <1>l, <2>2, Directories DEF Empty
    <2>4. Merged = saved
        BY <1>l, <2>2 DEF Merged
    <2>5. savedDir /\ Complete(saved)
        BY <2>1, <2>4 DEF KeptSafe
    <2>6. live' = live /\ savedDir' = savedDir /\ unit' = unit
        BY <1>7 DEF SaveUnit, system
    <2>7. Complete(saved')
        <3>1. saved' = saved \/ saved' = [saved EXCEPT !["service"] = Torn]
            BY <1>7 DEF SaveUnit
        <3> QED
            BY <1>l, <2>5, <3>1, PluginAssumption DEF Complete, Parts
    <2>8. op'.pc \in {"savelink", "idle"} \/ (op'.pc = "copy" /\ unit # None)
        BY <1>7, <1>g, RestingOps DEF SaveUnit, GivesUp, Done, Pcs
    <2> QED
        BY <2>3, <2>5, <2>6, <2>7, <2>8 DEF KeptSafe, Saved
<1>21. ASSUME CopyUnit PROVE KeptSafe'
    <2>1. KeptSafe /\ op.pc = "copy" /\ UNCHANGED <<live, savedDir>>
        BY <1>21, <1>k DEF CopyUnit
    <2>2. Saved /\ live = Empty /\ ~Usable(live) /\ unit # None
        BY <2>1, Directories DEF KeptSafe
    <2>3. Complete(saved')
        <3>1. saved' = saved \/ saved' = [saved EXCEPT !["service"] = unit]
            BY <1>21 DEF CopyUnit
        <3> QED
            BY <1>l, <2>2, <3>1 DEF Saved, Complete, Parts
    <2>4. op'.pc \in {"savelink", "idle"}
        BY <1>21, <1>g, RestingOps DEF CopyUnit, GivesUp, Done, Pcs
    <2> QED
        BY <2>1, <2>2, <2>3, <2>4 DEF KeptSafe, Saved
<1>8. ASSUME SaveLink PROVE KeptSafe'
    <2>1. KeptSafe /\ op.pc = "savelink" /\ UNCHANGED <<live, saved, savedDir>>
        BY <1>8, <1>k DEF SaveLink
    <2>2. op'.pc \in {"stop", "idle"}
        BY <1>8, <1>g, RestingOps DEF SaveLink, Done, Pcs
    <2>3. Saved /\ live = Empty /\ ~Usable(live)
        BY <2>1, Directories DEF KeptSafe
    <2> QED
        BY <2>1, <2>2, <2>3 DEF KeptSafe, Saved
<1>9. ASSUME StopOld PROVE KeptSafe'
    <2>1. KeptSafe /\ op.pc = "stop" /\ UNCHANGED <<live, saved, savedDir>>
        BY <1>9, <1>k DEF StopOld, history, files
    <2>2. op'.pc = "write" /\ op'.i = 1
        BY <1>9, <1>i DEF StopOld, Pcs
    <2>3. Saved /\ live = Empty
        BY <2>1 DEF KeptSafe
    <2>4. Split(live, op'.i, op'.new, None)
        BY <2>2, <2>3, AllMoved DEF Split, Empty
    <2> QED
        BY <2>1, <2>2, <2>3, <2>4 DEF KeptSafe, Saved, Split
\* A failing step leaves the live directory as it is, complete or unusable.
<1>f. ASSUME Fail, KeptSafe, UNCHANGED <<live, saved, savedDir>>,
             op.pc \in {"write", "unit", "link", "start", "row"}
      PROVE  KeptSafe'
    <2>1. op'.pc = "undo"
        BY <1>f, <1>g DEF Fail, Pcs
    <2>2. Saved /\ (Complete(live) \/ ~Usable(live))
        <3>1. CASE op.pc = "write"
            <4>1. Saved /\ Split(live, op.i, op.new, None) /\ op.new \in Versions
                BY <1>f, <3>1 DEF KeptSafe, OpInv
            <4> QED
                BY <1>o, <4>1, Written
        <3>2. CASE op.pc # "write"
            BY <1>f, <3>2 DEF KeptSafe
        <3> QED
            BY <3>1, <3>2
    <2> QED
        BY <1>f, <2>1, <2>2 DEF KeptSafe, Saved
<1>10. ASSUME Write PROVE KeptSafe'
    <2>1. KeptSafe /\ op.pc = "write" /\ op.i \in 1..4 /\ op.new \in Versions
        BY <1>10, <1>k, <1>o, Orders DEF Write, history, OpInv
    <2>2. CASE WriteFails /\ UNCHANGED live
        BY <1>10, <1>f, <2>1, <2>2 DEF Write, WriteFails
    <2>3. CASE /\ live' = [live EXCEPT ![WriteOrder[op.i]] = op.new]
               /\ GotoPart("write", op.i + 1)
        <3> DEFINE x == MoveOrder[op.i]
        <3>1. x \in Parts /\ \A y \in Parts : y = x <=> Rank(y) = op.i
            BY <2>1, Orders
        <3>2. live' = [live EXCEPT ![x] = op.new]
            BY <2>3, Orders
        <3>3. op'.pc = "write" /\ op'.i = op.i + 1 /\ op'.new = op.new
            BY <1>i, <2>1, <2>3 DEF Pcs
        <3>4. Saved /\ Split(live, op.i, op.new, None) /\ UNCHANGED <<saved, savedDir>>
            BY <1>10, <2>1 DEF KeptSafe, Write
        <3> HIDE DEF x
        <3>5. \A y \in Parts : live'[y] = IF Rank(y) = op.i THEN op.new ELSE live[y]
            BY <1>l, <3>1, <3>2
        <3>6. Split(live', op'.i, op'.new, None)
            BY <1>o, <3>3, <3>4, <3>5, AllMoved DEF Split
        <3> QED
            BY <3>3, <3>4, <3>6 DEF KeptSafe, Saved, Split
    <2> QED
        BY <1>10, <2>2, <2>3 DEF Write
<1>11. ASSUME WriteUnit PROVE KeptSafe'
    <2>1. /\ KeptSafe /\ op.pc = "write" /\ op.i = 5 /\ op.new \in Versions
          /\ UNCHANGED <<live, saved, savedDir>>
        BY <1>11, <1>k, <1>o, Orders DEF WriteUnit, history, files, OpInv
    <2>2. Saved /\ Complete(live)
        BY <1>o, <2>1, Written DEF KeptSafe
    <2>3. CASE WriteFails
        BY <1>f, <2>1, <2>3 DEF WriteFails
    <2>4. CASE Goto("unit")
        <3>1. op'.pc = "unit"
            BY <1>g, <2>4 DEF Pcs
        <3> QED
            BY <2>1, <2>2, <3>1 DEF KeptSafe, Saved
    <2> QED
        BY <1>11, <2>3, <2>4 DEF WriteUnit
<1>12. ASSUME UnitWritten \/ Link \/ StartNew \/ Register PROVE KeptSafe'
    <2>1. /\ KeptSafe /\ op.pc \in {"unit", "link", "start", "row"}
          /\ UNCHANGED <<live, saved, savedDir>>
        BY <1>12, <1>k DEF UnitWritten, Link, StartNew, Register, history, files
    <2>2. Saved /\ Complete(live)
        BY <2>1 DEF KeptSafe
    <2>3. CASE Fail
        BY <1>f, <2>1, <2>3
    <2>4. CASE Goto("link") \/ Goto("start") \/ Goto("row") \/ Goto("clean")
        <3>1. op'.pc \in {"link", "start", "row", "clean"}
            BY <1>g, <2>4 DEF Pcs
        <3> QED
            BY <2>1, <2>2, <3>1 DEF KeptSafe, Saved
    <2> QED
        BY <1>12, <2>3, <2>4 DEF UnitWritten, Link, StartNew, Register, WriteFails
<1>13. ASSUME Undo PROVE KeptSafe'
    <2>1. KeptSafe /\ op.pc = "undo" /\ live' = Empty /\ UNCHANGED <<saved, savedDir>>
        BY <1>13, <1>k DEF Undo, history
    <2>2. op'.pc = "restore" /\ op'.i = 1
        BY <1>13, <1>i DEF Undo, Pcs
    <2>3. Saved
        BY <2>1 DEF KeptSafe
    <2>4. \A x \in Parts : live'[x] = None /\ Rank(x) >= 1 /\ ~(Rank(x) < 1)
        BY <2>1, AllMoved DEF Empty
    <2>5. Merged' = saved
        BY <1>l, <2>1, <2>4 DEF Merged
    <2> QED
        BY <2>1, <2>2, <2>3, <2>4, <2>5 DEF KeptSafe, Saved
<1>14. ASSUME Restore PROVE KeptSafe'
    <2> DEFINE x == MoveOrder[op.i]
    <2>1. KeptSafe /\ op.pc = "restore" /\ op.i \in 1..4
        BY <1>14, <1>k, <1>o, Orders DEF Restore, history
    <2>2. x \in Parts /\ Rank(x) = op.i /\ \A y \in Parts : y = x <=> Rank(y) = op.i
        BY <2>1, Orders
    <2>3. /\ savedDir /\ Complete(Merged) /\ savedDir' = savedDir
          /\ \A y \in Parts : /\ live[y] = None <=> Rank(y) >= op.i
                              /\ Rank(y) < op.i => saved[y] = None
        BY <1>14, <2>1 DEF KeptSafe, Restore
    <2>4. live[x] = None /\ Merged[x] # None
        BY <2>1, <2>2, <2>3 DEF Complete
    <2>5. saved[x] # None
        BY <2>2, <2>4 DEF Merged
    <2>6. live' = [live EXCEPT ![x] = saved[x]] /\ saved' = [saved EXCEPT ![x] = None]
        BY <1>14, <2>5, Orders DEF Restore
    <2>7. op'.pc = "restore" /\ op'.i = op.i + 1
        BY <1>14, <1>i, <2>1 DEF Restore, Pcs
    <2> HIDE DEF x
    <2>8. Merged' = Merged
        BY <1>l, <2>2, <2>4, <2>5, <2>6 DEF Merged
    <2>9. \A y \in Parts : live'[y] = None <=> (live[y] = None /\ y # x)
        BY <1>l, <2>2, <2>5, <2>6
    <2>10. \A y \in Parts : live'[y] = None <=> Rank(y) >= op'.i
        BY <1>o, <2>2, <2>3, <2>7, <2>9, Orders
    <2>11. \A y \in Parts : Rank(y) < op'.i => saved'[y] = None
        <3>1. ASSUME NEW y \in Parts, Rank(y) < op.i + 1 PROVE saved'[y] = None
            BY <1>l, <1>o, <2>2, <2>3, <2>6, <3>1, AllMoved
        <3> QED
            BY <2>7, <3>1
    <2> QED
        BY <2>3, <2>7, <2>8, <2>10, <2>11 DEF KeptSafe
<1>15. ASSUME RestoreUnit PROVE KeptSafe'
    <2>1. KeptSafe /\ op.pc = "restore" /\ op.i = 5 /\ live' = live
        BY <1>15, <1>k, <1>o, Orders DEF RestoreUnit, history, files
    <2>2. op'.pc = "relink"
        BY <1>15, <1>g DEF RestoreUnit, Pcs
    <2>3. \A y \in Parts : live[y] # None
        BY <2>1, Orders DEF KeptSafe
    <2>4. Merged = live
        BY <1>l, <2>3 DEF Merged
    <2>5. Complete(live)
        BY <2>1, <2>4 DEF KeptSafe
    <2> QED
        BY <2>1, <2>2, <2>5 DEF KeptSafe
<1>16. ASSUME RestoreLink \/ RestartOld PROVE KeptSafe'
    <2>1. KeptSafe /\ op.pc \in {"relink", "restart"} /\ live' = live
        BY <1>16, <1>k DEF RestoreLink, RestartOld, history, files
    <2>2. op'.pc \in {"restart", "clean"}
        BY <1>16, <1>g DEF RestoreLink, RestartOld, Pcs
    <2> QED
        BY <2>1, <2>2 DEF KeptSafe
<1>17. ASSUME Clean PROVE KeptSafe'
    <2>1. KeptSafe /\ op.pc = "clean" /\ live' = live
        BY <1>17, <1>k DEF Clean, history
    <2>2. op'.pc \in {"discover", "idle"}
        BY <1>17, <1>g, RestingOps DEF Clean, Done, Pcs
    <2> QED
        BY <2>1, <2>2 DEF KeptSafe
<1>18. ASSUME DeleteStep PROVE KeptSafe'
    <2>1. kept' = kept
        BY <1>18 DEF DeleteStep, Delete, DeleteUnit, DeleteFiles, DeleteRow, history
    <2>2. op.pc \in DeletePcs
        BY <1>18 DEF DeleteStep, Delete, DeleteUnit, DeleteFiles, DeleteRow
    <2> QED
        BY <1>k, <2>1, <2>2 DEF KeptSafe
<1>e. ASSUME UNCHANGED <<live, saved, savedDir, unit, op, kept>> PROVE KeptSafe'
    BY <1>e, <1>k DEF KeptSafe, Saved, Merged, Split
<1>19. ASSUME NEW a \in {"start", "restart", "stop"}, Control(a) PROVE KeptSafe'
    BY <1>19, <1>e DEF Control, files, history
<1>20. ASSUME Interrupt, ~Moving PROVE KeptSafe'
    <2>1. KeptSafe /\ ~Moving /\ op'.pc = "recover" /\ UNCHANGED <<live, saved, savedDir>>
        BY <1>20, <1>k, RestingOps DEF Interrupt, files
    <2>2. Complete(live) \/ (Saved /\ ~Usable(live))
        <3>1. CASE op.pc = "move"
            <4>1. op.i = 1 \/ op.i = 5
                BY <1>o, <2>1, <3>1, Orders DEF Moving
            <4>2. /\ savedDir /\ Complete(Merged)
                  /\ \A x \in Parts : live[x] = None <=> Rank(x) < op.i
                BY <2>1, <3>1 DEF KeptSafe
            <4>3. CASE op.i = 1
                <5>1. Merged = live
                    BY <1>l, <4>2, <4>3, AllMoved DEF Merged
                <5> QED
                    BY <4>2, <5>1
            <4>4. CASE op.i = 5
                <5>1. \A x \in Parts : live[x] = None
                    BY <4>2, <4>4, AllMoved
                <5>2. Merged = saved /\ live = Empty
                    BY <1>l, <5>1 DEF Merged, Empty
                <5> QED
                    BY <4>2, <5>2, Directories DEF Saved
            <4> QED
                BY <4>1, <4>3, <4>4
        <3>2. CASE op.pc = "restore"
            <4>1. op.i = 1 \/ op.i = 5
                BY <1>o, <2>1, <3>2, Orders DEF Moving
            <4>2. /\ savedDir /\ Complete(Merged)
                  /\ \A x \in Parts : live[x] = None <=> Rank(x) >= op.i
                BY <2>1, <3>2 DEF KeptSafe
            <4>3. CASE op.i = 1
                <5>1. \A x \in Parts : live[x] = None
                    BY <4>2, <4>3, AllMoved
                <5>2. Merged = saved /\ live = Empty
                    BY <1>l, <5>1 DEF Merged, Empty
                <5> QED
                    BY <4>2, <5>2, Directories DEF Saved
            <4>4. CASE op.i = 5
                <5>1. Merged = live
                    BY <1>l, <4>2, <4>4, Orders DEF Merged
                <5> QED
                    BY <4>2, <5>1
            <4> QED
                BY <4>1, <4>3, <4>4
        <3>3. CASE op.pc = "write"
            <4>1. Saved /\ Split(live, op.i, op.new, None) /\ op.new \in Versions
                BY <2>1, <3>3 DEF KeptSafe, OpInv
            <4> QED
                BY <1>o, <4>1, Written
        <3>4. CASE op.pc \in {"copy", "savelink", "stop"}
            BY <2>1, <3>4, Directories DEF KeptSafe
        <3>5. CASE op.pc \notin {"move", "restore", "write", "copy", "savelink", "stop"}
            <4>1. op.pc \in Pcs
                BY <1>o DEF OpRecord, Pcs
            <4> QED
                BY <2>1, <3>5, <4>1 DEF KeptSafe, Pcs
        <3> QED
            BY <3>1, <3>2, <3>3, <3>4, <3>5
    <2> QED
        BY <2>1, <2>2 DEF KeptSafe, Saved
\* An interruption in a move leaves neither of the directories usable.
<1>22. ASSUME Interrupt, Moving PROVE Scattered'
    <2>1. KeptSafe /\ op'.pc = "recover" /\ UNCHANGED <<live, saved>>
        BY <1>22, <1>k, RestingOps DEF Interrupt, files
    <2>2. Merged' = Merged
        BY <2>1 DEF Merged
    <2>3. "current" \in Parts /\ "hash" \in Parts /\ Rank("current") = 1 /\ Rank("hash") = 4
        BY DEF Parts, Rank
    <2>4. op.i \in 2..4
        BY <1>22, Orders DEF Moving
    <2>5. CASE op.pc = "move"
        <3>1. /\ Complete(Merged) /\ live["current"] = None <=> Rank("current") < op.i
              /\ saved["hash"] = None <=> Rank("hash") >= op.i
            BY <2>1, <2>3, <2>5 DEF KeptSafe
        <3>2. Complete(Merged) /\ live["current"] = None /\ saved["hash"] = None
            BY <2>3, <2>4, <3>1, <2>1, <2>5 DEF KeptSafe
        <3> QED
            BY <2>1, <2>2, <3>2 DEF Scattered
    <2>6. CASE op.pc = "restore"
        <3>1. Complete(Merged) /\ live["hash"] = None /\ saved["current"] = None
            BY <2>1, <2>3, <2>4, <2>6 DEF KeptSafe
        <3> QED
            BY <2>1, <2>2, <3>1 DEF Scattered
    <2> QED
        BY <1>22, <2>5, <2>6 DEF Moving
<1>23. ASSUME ServiceDies \/ Operator PROVE KeptSafe'
    BY <1>23, <1>e DEF ServiceDies, Operator, files, history
<1>24. ASSUME UNCHANGED vars PROVE KeptSafe'
    BY <1>24, <1>e DEF vars
<1>25. CASE Interrupt
    <2>1. divided' = Moving
        BY <1>25 DEF Interrupt, Moving
    <2> QED
        BY <1>20, <1>22, <1>25, <2>1
<1>26. CASE ~Interrupt
    <2>1. KeptSafe'
        BY <1>1, <1>2, <1>3, <1>4, <1>5, <1>6, <1>7, <1>8, <1>9, <1>10, <1>11, <1>12, <1>13,
           <1>14, <1>15, <1>16, <1>17, <1>18, <1>19, <1>21, <1>23, <1>24, <1>26
        DEF Next, InitStore, InstallStep, Rollback
    <2>2. ~divided'
        BY <1>26, HistoryStays DEF Begin, Delete
    <2> QED
        BY <2>1, <2>2
<1> QED
    BY <1>25, <1>26

LEMMA KeptNext == TypeOK /\ OpInv /\ KeptInv /\ [Next]_vars => KeptInv'
<1> SUFFICES ASSUME TypeOK, OpInv, KeptInv, [Next]_vars, kept' # None
             PROVE  IF divided' THEN Scattered' ELSE KeptSafe'
    BY DEF KeptInv
<1>1. CASE divided /\ ~Begin
    <2>1. kept # None
        BY <1>1, HistoryStays DEF Delete
    <2>2. Scattered
        BY <1>1, <2>1 DEF KeptInv
    <2> QED
        BY <1>1, <2>2, ScatteredNext
<1>2. CASE Begin
    <2>1. ~divided'
        BY <1>2 DEF Begin
    <2> QED
        BY <1>2, <2>1, BeginSafe
<1>3. CASE ~divided
    BY <1>3, SafeNext
<1> QED
    BY <1>1, <1>2, <1>3

-----------------------------------------------------------------------------
(* All or nothing.                                                         *)

LEMMA SplitEnds ==
    ASSUME NEW d \in [Parts -> UnitFile], NEW a, NEW b
    PROVE  /\ Split(d, 1, a, b) <=> d = Whole(b)
           /\ Split(d, 5, a, b) <=> d = Whole(a)
<1>1. \A x \in Parts : ~(Rank(x) < 1) /\ Rank(x) < 5
    BY Orders
<1> QED
    BY <1>1 DEF Split, Whole

\* One more file changes sides.
LEMMA SplitStep ==
    ASSUME NEW d \in [Parts -> UnitFile], NEW e, NEW a, NEW b, NEW i \in 1..4, Split(d, i, a, b),
           e = [d EXCEPT ![MoveOrder[i]] = a]
    PROVE  Split(e, i + 1, a, b)
<1> DEFINE x == MoveOrder[i]
<1>1. x \in Parts /\ \A y \in Parts : y = x <=> Rank(y) = i
    BY Orders
<1> HIDE DEF x
<1>2. \A y \in Parts : e[y] = IF Rank(y) = i THEN a ELSE d[y]
    BY <1>1 DEF x
<1>3. \A y \in Parts : Rank(y) < i + 1 <=> Rank(y) < i \/ Rank(y) = i
    BY AllMoved
<1> QED
    BY <1>2, <1>3 DEF Split

LEMMA SplitNext ==
    ASSUME NEW d, NEW a, NEW b, NEW i \in 1..4, Split(d, i, a, b)
    PROVE  d[MoveOrder[i]] = b
BY Orders DEF Split

LEMMA SoundInit == Init => SoundInv
BY DEF Init, SoundInv

LEMMA SoundNext == TypeOK /\ OpInv /\ SoundInv /\ [Next]_vars => SoundInv'
<1> SUFFICES ASSUME TypeOK, OpInv, SoundInv, [Next]_vars, sound' PROVE SoundStep'
    BY DEF SoundInv
<1> USE DEF At, InstallPcs, RollbackPcs, DeletePcs
<1>o. op \in OpRecord /\ op.i \in 1..5 /\ op.pc \in Pcs
    BY DEF TypeOK, OpRecord, Pcs
<1>l. live \in [Parts -> UnitFile] /\ saved \in [Parts -> UnitFile]
    BY DirectoryHas DEF TypeOK
<1>t. bin \in {"none", "ours", "other"} /\ None \notin Linked /\ Linked \subseteq Versions
    BY PluginAssumption DEF TypeOK
<1>k. sound' = sound => SoundStep
    BY DEF SoundInv
<1>g. ASSUME NEW s \in Pcs, Goto(s)
      PROVE  /\ op'.pc = s /\ op'.new = op.new /\ op'.old = op.old /\ op'.i = op.i
             /\ op'.recovering = op.recovering
    BY <1>g, <1>o, GotoStep
<1>i. ASSUME NEW s \in Pcs, NEW i \in 1..5, GotoPart(s, i)
      PROVE  /\ op'.pc = s /\ op'.new = op.new /\ op'.old = op.old /\ op'.i = i
             /\ op'.recovering = op.recovering
    BY <1>i, <1>o, GotoPartStep
<1>1. ASSUME Recover \/ Discover \/ Reconcile PROVE FALSE
    BY <1>1, <1>k DEF Recover, Discover, Reconcile, history, SoundStep
<1>2. ASSUME NEW v \in Versions, Install(v) PROVE FALSE
    BY <1>2 DEF Install
<1>3. ASSUME Begin PROVE SoundStep'
    <2>1. /\ InOrder /\ UNCHANGED <<live, unit, bin, row>> /\ saved' = Empty
        BY <1>3 DEF Begin, system, db
    <2> DEFINE s == (row = None \/ running # None)
               t == (row # None \/ unit # None)
    <2>2. s \in BOOLEAN /\ t \in BOOLEAN /\ row \in Maybe
        BY DEF TypeOK
    <2>3. op' = [op EXCEPT !.pc = "move", !.i = 1, !.old = row, !.recovering = FALSE,
                           !.start = s, !.stop = t]
        BY <1>3 DEF Begin
    <2> HIDE DEF s, t
    <2>4. op'.pc = "move" /\ op'.i = 1 /\ op'.old = row /\ op'.recovering = FALSE
        BY <1>o, <2>2, <2>3, BeginOp, Zenon
    <2>5. Split(live', op'.i, None, op'.old)
        BY <1>l, <2>1, <2>4, SplitEnds DEF InOrder
    <2>6. Empty = Whole(None) /\ Empty \in [Parts -> UnitFile]
        BY DEF Empty, Whole, Maybe, UnitFile
    <2>7. Split(saved', op'.i, op'.old, None)
        BY <2>1, <2>4, <2>6, SplitEnds
    <2> QED
        BY <2>1, <2>4, <2>5, <2>7 DEF SoundStep, InOrder, LinkFits
<1>4. ASSUME Move PROVE SoundStep'
    <2>0. op.pc = "move" /\ op.i \in 1..4
        BY <1>4, <1>o, Orders DEF Move
    <2>1. /\ SoundStep /\ op.pc = "move" /\ op.i \in 1..4
          /\ unit' = unit /\ bin' = bin /\ row' = row
        BY <1>4, <1>k, <2>0 DEF Move, history, system, db
    <2>2. /\ op'.pc = "move" /\ op'.i = op.i + 1 /\ op'.old = op.old
          /\ op'.recovering = op.recovering
        BY <1>4, <1>i, <2>1 DEF Move, Pcs
    <2>3. Split(live, op.i, None, op.old) /\ Split(saved, op.i, op.old, None)
        BY <2>1 DEF SoundStep
    <2>4. live[MoveOrder[op.i]] = op.old /\ saved[MoveOrder[op.i]] = None
        BY <2>1, <2>3, SplitNext
    <2>5. live' = [live EXCEPT ![MoveOrder[op.i]] = None]
        BY <1>4 DEF Move
    <2>6. saved' = [saved EXCEPT ![MoveOrder[op.i]] = op.old]
        <3>1. CASE op.old # None
            BY <1>4, <2>4, <3>1 DEF Move
        <3>2. CASE op.old = None
            <4>1. saved' = saved
                BY <1>4, <2>4, <3>2 DEF Move
            <4> QED
                BY <1>l, <2>1, <2>4, <3>2, <4>1, Orders
        <3> QED
            BY <3>1, <3>2
    <2>7. Split(live', op'.i, None, op'.old) /\ Split(saved', op'.i, op'.old, None)
        BY <1>l, <2>1, <2>2, <2>3, <2>5, <2>6, SplitStep
    <2> QED
        BY <2>1, <2>2, <2>7 DEF SoundStep, LinkFits
<1>5. ASSUME SaveUnit PROVE SoundStep'
    <2>0. ~GivesUp
        BY DEF GivesUp
    <2>a. op.pc = "move" /\ op.i = 5
        BY <1>5, <1>o, Orders DEF SaveUnit
    <2>b. UNCHANGED <<live, unit, bin, row, sound>>
        BY <1>5, <2>0 DEF SaveUnit, system, db
    <2>1. /\ SoundStep /\ op.pc = "move" /\ op.i = 5
          /\ UNCHANGED <<live, unit, bin, row>>
        BY <1>k, <2>a, <2>b
    <2>2. saved = Whole(op.old) /\ unit \in {op.old, None} /\ live = Empty
        BY <1>l, <2>1, SplitEnds DEF SoundStep, Whole, Empty
    <2>3. CASE unit = None /\ Goto("savelink") /\ saved' = saved
        <3>1. op'.pc = "savelink" /\ op'.old = op.old /\ op'.recovering = op.recovering
            BY <1>g, <2>3 DEF Pcs
        <3> QED
            BY <2>1, <2>2, <2>3, <3>1 DEF SoundStep, LinkFits
    <2>4. CASE unit # None /\ Goto("copy") /\ saved' = [saved EXCEPT !["service"] = Torn]
        <3>1. op'.pc = "copy" /\ op'.old = op.old /\ op'.recovering = op.recovering
            BY <1>g, <2>4 DEF Pcs
        <3>2. [saved' EXCEPT !["service"] = op.old] = Whole(op.old)
            BY <1>l, <2>2, <2>4 DEF Whole
        <3> QED
            BY <2>1, <2>2, <2>4, <3>1, <3>2 DEF SoundStep, LinkFits
    <2> QED
        BY <1>5, <2>0, <2>3, <2>4 DEF SaveUnit
<1>26. ASSUME CopyUnit PROVE SoundStep'
    <2>1. /\ SoundStep /\ op.pc = "copy" /\ UNCHANGED <<live, unit, bin, row>>
          /\ saved' = [saved EXCEPT !["service"] = unit] /\ Goto("savelink")
        BY <1>26, <1>k DEF CopyUnit, GivesUp, system, db
    <2>2. op'.pc = "savelink" /\ op'.old = op.old /\ op'.recovering = op.recovering
        BY <1>g, <2>1 DEF Pcs
    <2>3. unit = op.old /\ saved' = Whole(op.old)
        BY <2>1 DEF SoundStep
    <2> QED
        BY <2>1, <2>2, <2>3 DEF SoundStep, LinkFits
<1>6. ASSUME SaveLink PROVE SoundStep'
    <2>1. /\ SoundStep /\ op.pc = "savelink" /\ UNCHANGED <<live, saved, unit, bin, row>>
          /\ savedLink' = SavesLink /\ Goto("stop") /\ ~(op.old \in Linked /\ bin = "other")
        BY <1>6, <1>k DEF SaveLink, system, db
    <2>2. op'.pc = "stop" /\ op'.old = op.old /\ op'.recovering = op.recovering
        BY <1>g, <2>1 DEF Pcs
    <2>3. LinkSaved'
        BY <2>1, <2>2 DEF SoundStep, LinkFits, LinkSaved, SavesLink
    <2> QED
        BY <2>1, <2>2, <2>3 DEF SoundStep, LinkFits
<1>7. ASSUME StopOld PROVE SoundStep'
    <2>1. /\ SoundStep /\ op.pc = "stop" /\ UNCHANGED <<live, saved, savedLink, unit, bin, row>>
        BY <1>7, <1>k DEF StopOld, history, files, db
    <2>2. /\ op'.pc = "write" /\ op'.i = 1 /\ op'.old = op.old /\ op'.new = op.new
          /\ op'.recovering = op.recovering
        BY <1>7, <1>i DEF StopOld, Pcs
    <2>3. Split(live', op'.i, op'.new, None)
        <3>1. live' = Whole(None)
            BY <2>1 DEF SoundStep, Whole, Empty
        <3> QED
            BY <1>l, <2>1, <2>2, <3>1, SplitEnds
    <2> QED
        BY <2>1, <2>2, <2>3 DEF SoundStep, LinkFits, LinkSaved
\* A step that fails leaves what rollback_install needs.
<1>f. ASSUME Fail, SoundStep, op.pc \in {"write", "unit", "link", "start", "row"},
             UNCHANGED <<saved, savedLink, bin, row>>
      PROVE  SoundStep'
    <2>1. /\ op'.pc = "undo" /\ op'.old = op.old /\ op'.new = op.new
          /\ op'.recovering = op.recovering
        BY <1>f, <1>g DEF Fail, Pcs
    <2> QED
        BY <1>f, <2>1 DEF SoundStep, LinkFits, LinkSaved
<1>8. ASSUME Write PROVE SoundStep'
    <2>0. op.pc = "write" /\ op.i \in 1..4
        BY <1>8, <1>o, Orders DEF Write
    <2>1. SoundStep /\ UNCHANGED <<saved, savedLink, unit, bin, row>>
        BY <1>8, <1>k DEF Write, history, db
    <2>2. CASE WriteFails
        BY <1>f, <2>0, <2>1, <2>2 DEF WriteFails
    <2>3. CASE /\ live' = [live EXCEPT ![WriteOrder[op.i]] = op.new]
               /\ GotoPart("write", op.i + 1)
        <3>1. /\ op'.pc = "write" /\ op'.i = op.i + 1 /\ op'.old = op.old /\ op'.new = op.new
              /\ op'.recovering = op.recovering
            BY <1>i, <2>0, <2>3 DEF Pcs
        <3>2. Split(live, op.i, op.new, None)
            BY <2>0, <2>1 DEF SoundStep
        <3>3. Split(live', op'.i, op'.new, None)
            <4>1. live' = [live EXCEPT ![MoveOrder[op.i]] = op.new]
                BY <2>3, Orders
            <4> QED
                BY <1>l, <2>0, <3>1, <3>2, <4>1, SplitStep
        <3> QED
            BY <2>0, <2>1, <3>1, <3>3 DEF SoundStep, LinkFits, LinkSaved
    <2> QED
        BY <1>8, <2>2, <2>3 DEF Write
<1>9. ASSUME WriteUnit PROVE SoundStep'
    <2>0. op.pc = "write" /\ op.i = 5
        BY <1>9, <1>o, Orders DEF WriteUnit
    <2>1. /\ SoundStep /\ op.pc = "write" /\ op.i = 5
          /\ UNCHANGED <<live, saved, savedLink, bin, row>>
        BY <1>9, <1>k, <2>0 DEF WriteUnit, history, db, files
    <2>2. CASE WriteFails
        BY <1>f, <2>1, <2>2 DEF WriteFails
    <2>3. CASE Goto("unit")
        <3>1. /\ op'.pc = "unit" /\ op'.old = op.old /\ op'.new = op.new
              /\ op'.recovering = op.recovering
            BY <1>g, <2>3 DEF Pcs
        <3>2. live = Whole(op.new)
            BY <1>l, <2>1, SplitEnds DEF SoundStep
        <3> QED
            BY <2>1, <2>3, <3>1, <3>2 DEF SoundStep, LinkFits, LinkSaved
    <2> QED
        BY <1>9, <2>2, <2>3 DEF WriteUnit
<1>27. ASSUME UnitWritten PROVE SoundStep'
    <2>1. /\ SoundStep /\ op.pc = "unit" /\ UNCHANGED <<live, saved, savedLink, bin, row>>
        BY <1>27, <1>k DEF UnitWritten, history, db, files
    <2>2. CASE WriteFails
        BY <1>f, <2>1, <2>2 DEF WriteFails
    <2>3. CASE unit' = op.new /\ Goto("link")
        <3>1. /\ op'.pc = "link" /\ op'.old = op.old /\ op'.new = op.new
              /\ op'.recovering = op.recovering
            BY <1>g, <2>3 DEF Pcs
        <3> QED
            BY <2>1, <2>3, <3>1 DEF SoundStep, LinkFits, LinkSaved
    <2> QED
        BY <1>27, <2>2, <2>3 DEF UnitWritten
<1>10. ASSUME Link PROVE SoundStep'
    <2>1. SoundStep /\ op.pc = "link" /\ UNCHANGED <<live, saved, savedLink, unit, row>>
        BY <1>10, <1>k DEF Link, history, db, files
    <2>2. CASE Fail /\ UNCHANGED bin
        BY <1>f, <2>1, <2>2
    <2>3. CASE /\ ~(bin = "other" /\ {op.old, op.new} \cap Linked # {})
               /\ bin' = IF op.new \in Linked THEN "ours"
                         ELSE IF op.old \in Linked THEN "none" ELSE bin
               /\ Goto("start")
        <3>1. /\ op'.pc = "start" /\ op'.old = op.old /\ op'.new = op.new
              /\ op'.recovering = op.recovering
            BY <1>g, <2>3 DEF Pcs
        <3>2. bin' = "ours" <=> op.new \in Linked
            BY <2>1, <2>3 DEF SoundStep, LinkFits
        <3> QED
            BY <2>1, <3>1, <3>2 DEF SoundStep, LinkSaved
    <2> QED
        BY <1>10, <2>2, <2>3 DEF Link
<1>11. ASSUME StartNew PROVE SoundStep'
    <2>1. SoundStep /\ op.pc = "start" /\ UNCHANGED <<live, saved, savedLink, unit, bin, row>>
        BY <1>11, <1>k DEF StartNew, history, db, files
    <2>2. CASE Fail
        BY <1>f, <2>1, <2>2
    <2>3. CASE Goto("row")
        <3>1. /\ op'.pc = "row" /\ op'.old = op.old /\ op'.new = op.new
              /\ op'.recovering = op.recovering
            BY <1>g, <2>3 DEF Pcs
        <3> QED
            BY <2>1, <3>1 DEF SoundStep
    <2> QED
        BY <1>11, <2>2, <2>3 DEF StartNew
<1>12. ASSUME Register PROVE SoundStep'
    <2>1. SoundStep /\ op.pc = "row" /\ UNCHANGED <<live, saved, savedLink, unit, bin>>
        BY <1>12, <1>k DEF Register, history, files
    <2>2. CASE WriteFails /\ UNCHANGED db
        BY <1>f, <2>1, <2>2 DEF WriteFails, db
    <2>3. CASE row' = op.new /\ Goto("clean")
        <3>1. op'.pc = "clean" /\ op'.recovering = op.recovering
            BY <1>g, <2>3 DEF Pcs
        <3> QED
            BY <2>1, <2>3, <3>1 DEF SoundStep, InOrder
    <2> QED
        BY <1>12, <2>2, <2>3 DEF Register
<1>13. ASSUME Undo PROVE SoundStep'
    <2>1. /\ SoundStep /\ op.pc = "undo" /\ UNCHANGED <<saved, savedLink, unit, row>>
          /\ live' = Empty
        BY <1>13, <1>k DEF Undo, history, db
    <2>2. /\ op'.pc = "restore" /\ op'.i = 1 /\ op'.old = op.old
          /\ op'.recovering = op.recovering
        BY <1>13, <1>i DEF Undo, Pcs
    <2>3. bin' = IF op.new \in Linked /\ bin = "ours" THEN "none" ELSE bin
        BY <1>13, <2>1 DEF Undo, SoundStep
    <2>4. Split(live', op'.i, op'.old, None)
        <3>1. live' = Whole(None) /\ live' \in [Parts -> UnitFile]
            BY <2>1 DEF Whole, Empty, Maybe, UnitFile
        <3> QED
            BY <2>2, <3>1, SplitEnds
    <2>5. Split(saved', op'.i, None, op'.old)
        BY <1>l, <2>1, <2>2, SplitEnds DEF SoundStep
    <2> QED
        BY <2>1, <2>2, <2>3, <2>4, <2>5 DEF SoundStep
<1>14. ASSUME Restore PROVE SoundStep'
    <2>0. op.pc = "restore" /\ op.i \in 1..4
        BY <1>14, <1>o, Orders DEF Restore
    <2>1. SoundStep /\ savedLink' = savedLink /\ unit' = unit /\ bin' = bin /\ row' = row
        BY <1>14, <1>k DEF Restore, history, system, db
    <2>2. /\ op'.pc = "restore" /\ op'.i = op.i + 1 /\ op'.old = op.old
          /\ op'.recovering = op.recovering
        BY <1>14, <1>i, <2>0 DEF Restore, Pcs
    <2>3. Split(live, op.i, op.old, None) /\ Split(saved, op.i, None, op.old)
        BY <2>0, <2>1 DEF SoundStep
    <2>4. live[MoveOrder[op.i]] = None /\ saved[MoveOrder[op.i]] = op.old
        BY <2>0, <2>3, SplitNext
    <2>5. saved' = [saved EXCEPT ![MoveOrder[op.i]] = None]
        BY <1>14, Orders DEF Restore
    <2>6. live' = [live EXCEPT ![MoveOrder[op.i]] = op.old]
        <3>1. CASE op.old # None
            BY <1>14, <2>4, <3>1, Orders DEF Restore
        <3>2. CASE op.old = None
            <4>1. live' = live
                BY <1>14, <2>4, <3>2, Orders DEF Restore
            <4> QED
                BY <1>l, <2>0, <2>4, <3>2, <4>1, Orders
        <3> QED
            BY <3>1, <3>2
    <2>7. Split(live', op'.i, op'.old, None) /\ Split(saved', op'.i, None, op'.old)
        BY <1>l, <2>0, <2>2, <2>3, <2>5, <2>6, SplitStep
    <2> QED
        BY <2>0, <2>1, <2>2, <2>7 DEF SoundStep
<1>15. ASSUME RestoreUnit PROVE SoundStep'
    <2>0. op.pc = "restore" /\ op.i = 5
        BY <1>15, <1>o, Orders DEF RestoreUnit
    <2>1. /\ SoundStep /\ op.pc = "restore" /\ op.i = 5 /\ unit' = saved["service"]
          /\ UNCHANGED <<live, savedLink, bin, row>>
        BY <1>15, <1>k, <2>0 DEF RestoreUnit, history, files, db
    <2>2. op'.pc = "relink" /\ op'.old = op.old /\ op'.recovering = op.recovering
        BY <1>15, <1>g DEF RestoreUnit, Pcs
    <2>3. live = Whole(op.old) /\ saved = Whole(None)
        BY <1>l, <2>1, SplitEnds DEF SoundStep
    <2>4. unit' = None
        BY <2>1, <2>3 DEF Whole, Parts
    <2> QED
        BY <2>1, <2>2, <2>3, <2>4 DEF SoundStep
<1>16. ASSUME RestoreLink PROVE SoundStep'
    <2>1. /\ SoundStep /\ op.pc = "relink" /\ UNCHANGED <<live, unit, row>>
          /\ bin' = IF savedLink THEN "ours" ELSE bin
        BY <1>16, <1>k DEF RestoreLink, history, db
    <2>2. op'.pc = "restart" /\ op'.old = op.old /\ op'.recovering = op.recovering
        BY <1>16, <1>g DEF RestoreLink, Pcs
    <2> QED
        BY <2>1, <2>2 DEF SoundStep, LinkFits
<1>17. ASSUME RestartOld PROVE SoundStep'
    <2>1. /\ SoundStep /\ op.pc = "restart" /\ UNCHANGED <<live, bin, row>>
          /\ unit' \in {unit, None}
        BY <1>17, <1>k DEF RestartOld, history, files, db
    <2>2. op'.pc = "clean" /\ op'.recovering = op.recovering
        BY <1>17, <1>g DEF RestartOld, Pcs
    <2> QED
        BY <2>1, <2>2 DEF SoundStep, LinkFits, InOrder
<1>18. ASSUME Clean PROVE SoundStep'
    <2>1. SoundStep /\ op.pc = "clean" /\ UNCHANGED <<live, unit, bin, row>>
        BY <1>18, <1>k DEF Clean, history, system, db
    <2>2. op'.pc = "idle"
        BY <1>18, <2>1, RestingOps DEF Clean, Done, SoundStep
    <2> QED
        BY <2>1, <2>2 DEF SoundStep, InOrder
<1>19. ASSUME Delete PROVE SoundStep'
    <2>1. /\ InOrder /\ op.pc = "idle" /\ UNCHANGED <<live, unit, row>>
        BY <1>19 DEF Delete, files, db
    <2>2. CASE UNCHANGED <<op, bin>>
        BY <2>1, <2>2 DEF SoundStep, InOrder
    <2>3. CASE /\ ~(row \in Linked /\ bin = "other")
               /\ bin' = IF row \in Linked THEN "none" ELSE bin
               /\ op' = [Boot EXCEPT !.pc = "rmunit", !.why = "delete"]
        <3>1. op'.pc = "rmunit"
            BY <2>3, DeleteOp
        <3>2. bin' # "ours"
            BY <2>1, <2>3 DEF InOrder
        <3> QED
            BY <3>1, <3>2 DEF SoundStep
    <2> QED
        BY <1>19, <2>2, <2>3 DEF Delete
<1>20. ASSUME DeleteUnit \/ DeleteFiles PROVE SoundStep'
    <2>1. /\ SoundStep /\ bin' = bin
          /\ \/ op.pc = "rmunit" /\ op'.pc = "rmdir" /\ unit' = None
             \/ op.pc = "rmdir" /\ op'.pc = "rmrow" /\ unit' = unit /\ live' = Empty
        BY <1>20, <1>g, <1>k DEF DeleteUnit, DeleteFiles, history, system, Pcs
    <2> QED
        BY <2>1 DEF SoundStep
<1>21. ASSUME DeleteRow PROVE SoundStep'
    <2>1. /\ SoundStep /\ op.pc = "rmrow" /\ op'.pc = "idle" /\ row' = None
          /\ UNCHANGED <<live, unit, bin>>
        BY <1>21, <1>k, RestingOps DEF DeleteRow, Done, history, files, system
    <2>2. live = Empty /\ Whole(None) = Empty
        BY <2>1 DEF SoundStep, Whole, Empty
    <2> QED
        BY <1>t, <2>1, <2>2 DEF SoundStep, InOrder
<1>e. ASSUME UNCHANGED <<files, unit, bin, row, op, sound>> PROVE SoundStep'
    <2>1. /\ UNCHANGED <<live, saved, savedLink, unit, bin, row, op>>
          /\ SoundStep
        BY <1>e, <1>k DEF files
    <2>2. InOrder' = InOrder /\ LinkSaved' = LinkSaved /\ LinkFits(op.old)' = LinkFits(op.old)
        BY <2>1 DEF InOrder, LinkFits, LinkSaved
    <2> QED
        BY <2>1, <2>2 DEF SoundStep, Split
<1>22. ASSUME NEW a \in {"start", "restart", "stop"}, Control(a) PROVE SoundStep'
    BY <1>22, <1>e DEF Control, history
<1>23. ASSUME Interrupt \/ Operator PROVE FALSE
    BY <1>23 DEF Interrupt, Operator
<1>24. ASSUME ServiceDies PROVE SoundStep'
    BY <1>24, <1>e DEF ServiceDies, history, db
<1>25. CASE UNCHANGED vars
    BY <1>25, <1>e DEF vars, files
<1> QED
    BY <1>1, <1>2, <1>3, <1>4, <1>5, <1>6, <1>7, <1>8, <1>9, <1>10, <1>11, <1>12, <1>13,
       <1>14, <1>15, <1>16, <1>17, <1>18, <1>19, <1>20, <1>21, <1>22, <1>23, <1>24, <1>25,
       <1>26, <1>27
    DEF Next, InitStore, InstallStep, Rollback, DeleteStep

-----------------------------------------------------------------------------
LEMMA PluginInit == Init => PluginInv
BY TypeInit, KeptInit, SoundInit DEF PluginInv

LEMMA PluginNext == PluginInv /\ [Next]_vars => PluginInv'
BY TypeNext, KeptNext, SoundNext DEF PluginInv

\* Every variable stays of its type.
THEOREM PluginTypeCorrect == Spec => []TypeOK
<1>1. PluginInv => TypeOK
    BY DEF PluginInv
<1> QED
    BY <1>1, PluginInit, PluginNext, PTL DEF Spec

\* An install, an update or a deletion that is not interrupted is all or
\* nothing, wherever it fails (plugins.rs install_plugin, rollback_install).
THEOREM OperationsAreWhole == Spec => []AllOrNothing
<1>1. PluginInv => AllOrNothing
    BY DEF PluginInv, SoundInv, SoundStep, AllOrNothing, At
<1> QED
    BY <1>1, PluginInit, PluginNext, PTL DEF Spec

\* The files of a plugin that was complete when an update began are never lost
\* and never mixed with another version's, through any number of interruptions,
\* failing writes and recoveries, and in the midst of the moves
\* (plugins.rs prepare_rollback, rollback_install).
THEOREM PluginIsNeverLost == Spec => []NeverLost
<1>1. ASSUME PluginInv PROVE NeverLost
    <2> SUFFICES ASSUME kept # None
                 PROVE  Complete(live) \/ Complete(saved) \/ Complete(Merged)
        BY DEF NeverLost
    <2>1. CASE divided
        BY <1>1, <2>1 DEF PluginInv, KeptInv, Scattered
    <2>2. CASE ~divided
        <3>1. KeptSafe /\ op.pc \in Pcs
            BY <1>1, <2>2 DEF PluginInv, KeptInv, TypeOK, OpRecord, Pcs
        <3>2. CASE At("write")
            <4>1. Saved
                BY <3>1, <3>2 DEF KeptSafe
            <4> QED
                BY <4>1 DEF Saved
        <3>3. CASE ~At("write")
            BY <3>1, <3>3 DEF KeptSafe, Saved, At, Pcs, DeletePcs
        <3> QED
            BY <3>2, <3>3
    <2> QED
        BY <2>1, <2>2
<1> QED
    BY <1>1, PluginInit, PluginNext, PTL DEF Spec

\* ... and once the store is initialised the live directory has them, but if, and
\* only if, an interruption hit while they were being moved
\* (plugins.rs recover_plugins_after_interruption).
THEOREM PluginIsRecovered == Spec => []RecoveredAtBoot
<1>1. ASSUME PluginInv PROVE RecoveredAtBoot
    <2> SUFFICES ASSUME At("reconcile"), kept # None PROVE Complete(live) <=> ~divided
        BY DEF RecoveredAtBoot
    <2>1. CASE divided
        <3>1. Scattered
            BY <1>1, <2>1 DEF PluginInv, KeptInv
        <3>2. ~Complete(live)
            BY <3>1, NoneUsable, Directories
        <3> QED
            BY <2>1, <3>2
    <2>2. CASE ~divided
        BY <1>1, <2>2 DEF PluginInv, KeptInv, KeptSafe, At
    <2> QED
        BY <2>1, <2>2
<1> QED
    BY <1>1, PluginInit, PluginNext, PTL DEF Spec
=============================================================================
