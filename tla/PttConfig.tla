----------------------------- MODULE PttConfig -----------------------------
(* The configuration of kaonic-audio-ptt: config.toml, the copy in memory  *)
(* and PUT /api/config (src/kaonic-audio-ptt/src/{config,main}.rs).        *)
(*                                                                         *)
(* A configuration is what its validation tells apart: the settings a PUT  *)
(* changes, whether the audio format is the supported one, whether there   *)
(* is an identity seed, and whether the rest is valid.                     *)

CONSTANTS
    Settings,       \* selected_peer, devices and audio_output of a request
    ValidSettings,  \* those that validate
    Puts,           \* PUT /api/config requests that may run at one time
    Absent,         \* there is no config.toml
    Torn,           \* config.toml was cut short, and cannot be parsed
    NoConfig        \* not a configuration

Configs == [set : Settings, format : {"codec2", "old"}, seed : BOOLEAN, rest : BOOLEAN]

ASSUME ConfigAssumption ==
    /\ ValidSettings \subseteq Settings /\ ValidSettings # {}
    /\ {Absent, Torn, NoConfig} \cap Configs = {}

VARIABLES
    file,       \* config.toml: Absent, Torn, or a configuration
    memory,     \* AppState.config, or NoConfig while the process is not up
    put,        \* per request: the configuration it is to store, and its step
    overlap     \* history: two PUTs have run at a time since the last boot

configVars == <<file, memory, put, overlap>>

IdlePut == [pc |-> "idle", new |-> NoConfig]
Intact == file \notin {Absent, Torn}

ConfigTypeOK ==
    /\ file \in Configs \cup {Absent, Torn}
    /\ memory \in Configs \cup {NoConfig}
    /\ put \in [Puts -> [pc : {"idle", "write", "publish"}, new : Configs \cup {NoConfig}]]
    /\ overlap \in BOOLEAN

\* A file that an earlier version, or the user, has left.
ConfigInit ==
    /\ file \in Configs \cup {Absent}
    /\ memory = NoConfig
    /\ put = [p \in Puts |-> IdlePut]
    /\ overlap = FALSE

\* PluginConfig::validate
Validate(c) == c.set \in ValidSettings /\ c.format = "codec2" /\ c.seed /\ c.rest

\* load_or_create_config: a missing seed and an old audio format are put right.
Migrate(c) == [c EXCEPT !.seed = TRUE, !.format = "codec2"]

\* PluginConfig::default
Defaults == [set : ValidSettings, format : {"codec2"}, seed : {TRUE}, rest : {TRUE}]

\* The service comes up with a configuration that it has stored.
Boot ==
    /\ memory = NoConfig
    /\ \/ /\ file = Absent
          /\ \E c \in Defaults : file' = c /\ memory' = c
       \/ /\ Intact /\ Validate(Migrate(file))
          /\ file' = Migrate(file) /\ memory' = Migrate(file)
    /\ UNCHANGED <<put, overlap>>

\* An interruption while load_or_create_config stores its changes.
BootTorn ==
    /\ memory = NoConfig
    /\ file = Absent \/ (Intact /\ file # Migrate(file) /\ Validate(Migrate(file)))
    /\ file' = Torn
    /\ UNCHANGED <<memory, put, overlap>>

\* (mutant) The changed copy is stored as it is.
PutUnchecked(p, s) ==
    /\ memory # NoConfig /\ put[p].pc = "idle"
    /\ put' = [put EXCEPT ![p] = [pc |-> "write", new |-> [memory EXCEPT !.set = s]]]
    /\ overlap' = (overlap \/ \E q \in Puts \ {p} : put[q].pc # "idle")
    /\ UNCHANGED <<file, memory>>

\* put_config copies the configuration, changes the copy and validates it.
PutStart(p, s) ==
    /\ memory # NoConfig /\ put[p].pc = "idle"
    /\ LET c == [memory EXCEPT !.set = s] IN
       /\ Validate(c)
       /\ put' = [put EXCEPT ![p] = [pc |-> "write", new |-> c]]
    /\ overlap' = (overlap \/ \E q \in Puts \ {p} : put[q].pc # "idle")
    /\ UNCHANGED <<file, memory>>

\* fs::write has stored the copy, or fails with the file cut short.
PutWrite(p) ==
    /\ put[p].pc = "write"
    /\ \/ file' = put[p].new /\ put' = [put EXCEPT ![p].pc = "publish"]
       \/ file' = Torn     /\ put' = [put EXCEPT ![p] = IdlePut]
    /\ UNCHANGED <<memory, overlap>>

PutPublish(p) ==
    /\ put[p].pc = "publish"
    /\ memory' = put[p].new
    /\ put' = [put EXCEPT ![p] = IdlePut]
    /\ UNCHANGED <<file, overlap>>

\* The process ends; a write in progress may leave the file cut short.
ConfigCrash ==
    /\ memory # NoConfig
    /\ \/ UNCHANGED file
       \/ file' = Torn /\ \E p \in Puts : put[p].pc = "write"
    /\ memory' = NoConfig
    /\ put' = [p \in Puts |-> IdlePut]
    /\ overlap' = FALSE

ConfigNext ==
    \/ Boot \/ BootTorn \/ ConfigCrash
    \/ \E p \in Puts : (\E s \in Settings : PutStart(p, s)) \/ PutWrite(p) \/ PutPublish(p)

ConfigSpec == ConfigInit /\ [][ConfigNext]_configVars

----------------------------------------------------------------------------
(* Properties.                                                             *)

\* What the service has stored itself it can start from again, unless a write
\* was cut short: no PUT and no migration leaves a file that a boot refuses.
OwnFileBoots ==
    (Intact /\ memory # NoConfig) => Validate(file) /\ Migrate(file) = file

\* A restart does not change the configuration in effect, unless two PUTs
\* crossed or the last write failed.
FileIsMemory ==
    (memory # NoConfig /\ Intact /\ ~overlap /\ \A p \in Puts : put[p].pc # "publish")
        => file = memory

\* Both: the configuration is not lost by storing it, migrating it or a restart.
ConfigKept == OwnFileBoots /\ FileIsMemory
=============================================================================
