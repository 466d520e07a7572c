--------------------------- MODULE PluginPackage ---------------------------
(***************************************************************************)
(* What kaonic-installer makes of an uploaded plugin package (plugins.rs,  *)
(* installer.rs): it is unwrapped, parsed and validated, its unit file is  *)
(* rewritten and its files are stored; at the next boot the stored files   *)
(* are read back.  Text is classified by what the code tells apart.        *)
(***************************************************************************)
EXTENDS Naturals, Sequences, FiniteSets, SequencesExt

CONSTANTS
    MaxLines,         \* bound: the lines of a unit file
    MaxFiles,         \* bound: the custom files of a package
    CertPresent       \* the installer's public key is there

ASSUME PackageAssumption == MaxLines \in Nat /\ MaxFiles \in Nat /\ CertPresent \in BOOLEAN

VARIABLES
    upload,           \* the uploaded archive
    stored,           \* the plugin's directory and unit, or Refused
    found             \* what discover_plugins makes of the directory

packageVars == <<upload, stored, found>>

Refused == [refused |-> TRUE]
Unread == [unread |-> TRUE]

-----------------------------------------------------------------------------
(* The unit file.  A line is a section header, a WorkingDirectory of the   *)
(* package's or of the installer's, or any other line, told apart by the   *)
(* number that keeps its place.                                            *)

Lines == {"[Service]", "[Unit]", "dir", "text"}
Ours == "ours"
IsSection(x) == x \in {"[Service]", "[Unit]"}
UnitFiles == SeqOf(Lines, MaxLines)

\* (mutants) Only the first of the package's own lines is taken out; nothing
\* is added to a section that another follows.
StepKeepsDir(a, x) ==
    IF IsSection(x)
    THEN [in |-> x = "[Service]", saw |-> a.saw \/ x = "[Service]",
          done |-> a.done \/ a.in,
          out |-> Append(IF a.in /\ ~a.done THEN Append(a.out, Ours) ELSE a.out, x)]
    ELSE IF a.in /\ x = "dir" /\ ~a.done
    THEN [a EXCEPT !.done = TRUE, !.out = Append(@, Ours)]
    ELSE [a EXCEPT !.out = Append(@, x)]
StepAtEnd(a, x) ==
    IF IsSection(x)
    THEN [a EXCEPT !.in = x = "[Service]", !.saw = @ \/ x = "[Service]", !.out = Append(@, x)]
    ELSE IF a.in /\ x = "dir"
    THEN [a EXCEPT !.done = TRUE, !.out = IF a.done THEN @ ELSE Append(@, Ours)]
    ELSE [a EXCEPT !.out = Append(@, x)]

\* normalize_service_working_directory, one line: the first WorkingDirectory of
\* a [Service] section is replaced and the others are left out; a section that
\* ends without one gets it at its end.
NormalizeLine(a, x) ==
    IF IsSection(x)
    THEN [in |-> x = "[Service]", saw |-> a.saw \/ x = "[Service]",
          done |-> a.done \/ a.in,
          out |-> Append(IF a.in /\ ~a.done THEN Append(a.out, Ours) ELSE a.out, x)]
    ELSE IF a.in /\ x = "dir"
    THEN [a EXCEPT !.done = TRUE, !.out = IF a.done THEN @ ELSE Append(@, Ours)]
    ELSE [a EXCEPT !.out = Append(@, x)]

\* What its loop has made of the first n lines of a unit.
AfterLines(unit) ==
    LET a[n \in 0..Len(unit)] ==
            IF n = 0 THEN [in |-> FALSE, saw |-> FALSE, done |-> FALSE, out |-> <<>>]
            ELSE NormalizeLine(a[n - 1], unit[n])
    IN  a

Normalized(unit) ==
    LET a == AfterLines(unit)[Len(unit)]
    IN  [ok |-> a.saw, out |-> IF a.in /\ ~a.done THEN Append(a.out, Ours) ELSE a.out]

-----------------------------------------------------------------------------
(* The manifest.                                                           *)

\* A file name: empty, with a path separator, with a leading dot, with a
\* character outside letters, digits, ., _ and -, or plain.
Names == {"empty", "separator", "dot", "odd", "plain"}

Manifests == [texts : BOOLEAN,                        \* name .. developer given
              stem : Names, suffix : BOOLEAN,         \* the service, .service
              channel : {"", "Stable", "nightly"},
              webview : {"none", "zero", "port"},
              symlink : {"", "relative", "parent", "absolute"}]
GoodManifest == [texts |-> TRUE, stem |-> "plain", suffix |-> TRUE, channel |-> "Stable",
                 webview |-> "port", symlink |-> "absolute"]

\* derive_binary_name, validate_file_name
NameOK(m) == m.suffix /\ m.stem = "plain"

\* normalize_channel, in lower case; normalize_webview_port; normalize_bin_path
ChannelOK(m) == m.channel # "nightly"
Channel(m) == IF m.channel = "Stable" THEN "stable" ELSE "none"
WebviewOK(m) == m.webview # "zero"
BinPathOK(m) == m.symlink \in {"", "absolute"}

\* validate_manifest
ValidManifest(m) == m.texts /\ ChannelOK(m) /\ WebviewOK(m) /\ BinPathOK(m) /\ NameOK(m)

-----------------------------------------------------------------------------
(* The archive's other entries.                                            *)

\* A custom file's path below files/, segment by segment; "bin" is the name of
\* the plugin's binary.
Segments == {".", "..", "bin", "x"}
RawPaths == SeqOf(Segments, 2)
Archives == [manifest : {GoodManifest}, entries : {TRUE}, sha : {"match"},
             sig : {"none"}, files : SeqOf(RawPaths, MaxFiles),
             unit : {<<"[Service]">>}, wrap : {"bare"}]

\* Path::components drops a "." that is not the first segment of the entry's
\* name, whose first segment is "files".
Components(path) == SelectSeq(path, LAMBDA s : s # ".")

\* (mutants) A path is compared as it is written; the binary's name is free.
PathKeyRaw(path) == path
PathOKBinary(path) ==
    /\ \A i \in DOMAIN path : path[i] # ".."
    /\ path = <<>> \/ Components(path) # <<>>

\* read_custom_files: the path that is compared and written.
PathKey(path) == Components(path)

\* validate_zip_name and normalize_custom_file_path, and the binary's own path.
\* The entry files/ itself is skipped.
PathOK(path) ==
    /\ \A i \in DOMAIN path : path[i] # ".."
    /\ path = <<>> \/ (PathKey(path) # <<>> /\ PathKey(path) # <<"bin">>)

\* The entries that stand for a file.
Custom(files) == {i \in DOMAIN files : files[i] # <<>>}

\* read_custom_files: every path is good, and none comes twice.
CustomOK(files) ==
    /\ \A i \in DOMAIN files : PathOK(files[i])
    /\ \A i, j \in Custom(files) : i # j => PathKey(files[i]) # PathKey(files[j])

\* parse_plugin_package: manifest, service, binary and checksum are there.
Parses(a) ==
    /\ a.entries
    /\ ValidManifest(a.manifest)
    /\ a.sha = "match"                     \* validate_sha256_text, verify_sha256
    /\ CustomOK(a.files)

\* evaluate_official: a signature that does not verify is an error.
SignatureOK(a) == a.sig = "none" \/ ~CertPresent \/ a.sig = "good"
Official(a) == CertPresent /\ a.sig = "good"

\* normalize_uploaded_zip: an archive whose one file is an archive stands for
\* that one, once; next to anything else it is the package itself, and no
\* manifest is found in it.
Unwrapped(a) == a.wrap \in {"bare", "bundle"}

-----------------------------------------------------------------------------
(* Installed, and read back.                                               *)

\* The file a custom path names, and what install_custom_files writes over it.
\* A path below a file cannot be created: the install fails and is undone.
Overwritten(a) == \E i \in Custom(a.files) : Components(a.files[i]) = <<"bin">>
Creatable(a) ==
    \A i \in Custom(a.files) :
       LET k == Components(a.files[i]) IN
       /\ ~(Len(k) = 2 /\ k[1] = "bin")
       /\ \A j \in Custom(a.files) :
             ~(Len(k) = 2 /\ Components(a.files[j]) = SubSeq(k, 1, 1))

\* The record of plugins.db that install_plugin makes of the package.
Record(a) == [symlink |-> a.manifest.symlink, channel |-> Channel(a.manifest),
              webview |-> a.manifest.webview, official |-> Official(a)]

Installed(a) ==
    [manifest |-> a.manifest,
     sig |-> a.sig,
     binary |-> IF Overwritten(a) THEN "other" ELSE "match",
     files |-> {Components(a.files[i]) : i \in Custom(a.files)},
     count |-> Cardinality(Custom(a.files)),
     unit |-> Normalized(a.unit).out,
     row |-> Record(a)]

PackageInit ==
    /\ \/ upload \in Archives
       \/ upload \in [manifest : {GoodManifest}, entries : {TRUE}, sha : {"match"}, sig : {"none"},
                      files : {<<>>}, unit : UnitFiles, wrap : {"bare"}]
       \/ upload \in [manifest : Manifests, entries : {TRUE}, sha : {"match"}, sig : {"none"},
                      files : {<<>>}, unit : {<<"[Service]">>}, wrap : {"bare"}]
       \/ upload \in [manifest : {GoodManifest}, entries : BOOLEAN,
                      sha : {"match", "other", "malformed"}, sig : {"none", "good", "bad"},
                      files : {<<>>}, unit : {<<"[Service]">>},
                      wrap : {"bare", "bundle", "mixed"}]
    /\ stored = Unread
    /\ found = Unread

\* install_plugin, as far as the package decides it.
Upload ==
    /\ stored = Unread
    /\ stored' = IF /\ Unwrapped(upload) /\ Parses(upload)
                    /\ Normalized(upload.unit).ok
                    /\ SignatureOK(upload) /\ Creatable(upload)
                 THEN Installed(upload) ELSE Refused
    /\ UNCHANGED <<upload, found>>

\* discover_plugin_record: the stored manifest is validated, the binary and its
\* checksum are compared, the signature is evaluated again.
Rediscover ==
    /\ stored \notin {Unread, Refused}
    /\ found = Unread
    /\ found' = IF /\ ValidManifest(stored.manifest)
                   /\ stored.binary = "match"
                   /\ SignatureOK(stored)
                THEN Record(stored) ELSE Refused
    /\ UNCHANGED <<upload, stored>>

PackageNext == Upload \/ Rediscover

PackageSpec == PackageInit /\ [][PackageNext]_packageVars

-----------------------------------------------------------------------------
(* Properties.                                                             *)

\* Types.
PackageTypeOK ==
    /\ stored \in {Unread, Refused} \/ stored.row = Record(upload)
    /\ found # Unread => stored \notin {Unread, Refused}

\* The section a line stands in.
Section(unit, i) ==
    LET before == {j \in 1..i : IsSection(unit[j])}
    IN  IF before = {} THEN "none" ELSE unit[CHOOSE j \in before : \A k \in before : k <= j]

\* The lines of a unit that are a WorkingDirectory of its [Service], and the others.
Dirs(unit) ==
    {i \in DOMAIN unit : unit[i] \in {"dir", Ours} /\ Section(unit, i) = "[Service]"}
Others(unit) == DOMAIN unit \ Dirs(unit)

\* The lines others of one unit are those of another, in order and in their sections.
SameLines(others, from, to) ==
    \E place \in [others -> Others(to)] :
        /\ \A i \in others : /\ to[place[i]] = from[i]
                              /\ Section(to, place[i]) = Section(from, i)
        /\ \A i, j \in others : i < j => place[i] < place[j]
        /\ \A k \in Others(to) : \E i \in others : place[i] = k

\* The unit that is installed runs in the plugin's own directory and nowhere
\* else: however many sections and WorkingDirectory lines the package had, its
\* [Service] has exactly one, the installer's; every other line is kept, in
\* order and in its section (normalize_service_working_directory).
RunsInItsDirectory ==
    stored \notin {Unread, Refused} =>
        /\ \E i \in Dirs(stored.unit) : Dirs(stored.unit) = {i} /\ stored.unit[i] = Ours
        /\ SameLines(Others(upload.unit), upload.unit, stored.unit)

\* What was accepted is found again: the directory an install leaves is a
\* usable plugin to the code that reads it back after an interruption, with the
\* record that was stored, and none of its custom files has replaced another.
FoundAgain ==
    /\ found # Unread => found = stored.row
    /\ stored \notin {Unread, Refused} => Cardinality(stored.files) = stored.count

\* Both: a package that was accepted is stored as it was meant, and found again.
PackageKept == RunsInItsDirectory /\ FoundAgain
=============================================================================
