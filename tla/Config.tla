--------------------------------- MODULE Config ---------------------------------
(***************************************************************************)
(* How cmd/hubproxy/main.go comes to its settings.  They can be given by   *)
(* flags, by HUBPROXY_ variables, by a config file and, for Tailscale, by  *)
(* TS_ variables; a value that is a file: reference stands for the file's  *)
(* content.  Which source wins, and which references are read, depends on  *)
(* the order of the calls of RunE, one step each here, and on viper's own  *)
(* order of precedence, which is Get.                                      *)
(***************************************************************************)
EXTENDS Naturals

CONSTANTS
    Keys,           \* names of settings
    ReadKeys,       \* those viperReadFile is called for
    TailscaleKeys,  \* those with an unprefixed TS_ variable
    Secret,         \* the key webhook-secret
    LogLevel,       \* the key log-level
    TargetUrl,      \* the key target-url
    TestMode,       \* the key test-mode
    Plain,          \* values that are not references
    Refs,           \* values of the form file:<path>
    Empty,          \* the empty string
    Absent,         \* a source does not give the key
    Unreadable,     \* the content of a file that cannot be read
    Levels,         \* the log levels run knows
    Urls,           \* the values url.Parse accepts
    True,           \* the value viper reads as true
    FlagDefault,    \* the defaults of the flags
    ConfigFiles,    \* config files that can be named, Unreadable among them
    Starts          \* the ways the program is started

Value == Plain \cup Refs \cup {Empty}
Given == [Keys -> Value \cup {Absent}]

\* One start: the command line, the environment and the files.  An empty
\* variable counts as absent, for viper as for os.Getenv.
Start == [cli : Given, env : [Keys -> Plain \cup Refs \cup {Absent}],
          ts : [Keys -> Plain \cup Refs \cup {Absent}],
          cliConfig : ConfigFiles \cup {Absent}, envConfig : ConfigFiles \cup {Absent},
          content : [Refs -> Plain \cup {Empty, Unreadable}]]

ASSUME KeysAssumption ==
    /\ ReadKeys \cup TailscaleKeys \cup {Secret, LogLevel, TargetUrl, TestMode} \subseteq Keys
    /\ Secret \in ReadKeys
    /\ FlagDefault \in [Keys -> Plain \cup {Empty}]
ASSUME SentinelsAssumption ==
    /\ Absent \notin Value /\ Unreadable \notin Value /\ Empty \notin Refs
ASSUME ConfigFilesAssumption == ConfigFiles \subseteq Given \cup {Unreadable}
ASSUME StartsAssumption ==
    Starts \subseteq {start \in Start : \A key \in Keys \ TailscaleKeys : start.ts[key] = Absent}

VARIABLES
    start,          \* what this run of the program was given
    pc,             \* the next call of RunE
    default,        \* viper.SetDefault
    override,       \* viper.Set
    bound,          \* BindPFlags has been called
    config          \* the config file viper has read

vars == <<start, pc, default, override, bound, config>>

Nothing == [key \in Keys |-> Absent]

Init ==
    /\ start \in Starts
    /\ pc = "defaults"
    /\ default = Nothing
    /\ override = Nothing
    /\ bound = FALSE
    /\ config = Nothing

-------------------------------------------------------------------------------
\* Mutant of Sources: the config file comes before the command line.
FileBeforeFlags(key) ==
    <<override[key], config[key], IF bound THEN start.cli[key] ELSE Absent,
      start.env[key], default[key], IF bound THEN FlagDefault[key] ELSE Empty>>

\* Where viper looks for a key, in its order; the last one is always given.
Sources(key) ==
    <<override[key],
      IF bound THEN start.cli[key] ELSE Absent,
      start.env[key],
      config[key],
      default[key],
      IF bound THEN FlagDefault[key] ELSE Empty>>

Get(key) ==
    LET sources == Sources(key)
        given == {i \in DOMAIN sources : sources[i] # Absent}
    IN  sources[CHOOSE i \in given : \A j \in given : i <= j]

-------------------------------------------------------------------------------
(* The calls of RunE.                                                       *)

\* Mutant of SetDefaults: the flags are bound before the files are read.
SetDefaultsBindsFlags ==
    /\ pc = "defaults"
    /\ default' = start.ts
    /\ bound' = TRUE
    /\ pc' = "files"
    /\ UNCHANGED <<start, override, config>>

\* TS_HOSTNAME and TS_AUTHKEY.
SetDefaults ==
    /\ pc = "defaults"
    /\ default' = start.ts
    /\ pc' = "files"
    /\ UNCHANGED <<start, override, bound, config>>

Readable(value) == value \in Refs /\ start.content[value] # Unreadable

\* Mutant of ReadFiles: the content only becomes the default of the key.
ReadFilesAsDefault ==
    /\ pc = "files"
    /\ default' = [key \in Keys |->
                      IF key \in ReadKeys /\ Readable(Get(key))
                      THEN start.content[Get(key)] ELSE default[key]]
    /\ pc' = "flags"
    /\ UNCHANGED <<start, override, bound, config>>

\* viperReadFile of each key: what can be read by now is set for good, what
\* cannot stays as it is written.
ReadFiles ==
    /\ pc = "files"
    /\ override' = [key \in Keys |->
                       IF key \in ReadKeys /\ Readable(Get(key))
                       THEN start.content[Get(key)] ELSE Absent]
    /\ pc' = "flags"
    /\ UNCHANGED <<start, default, bound, config>>

BindPFlags ==
    /\ pc = "flags"
    /\ bound' = TRUE
    /\ pc' = "config"
    /\ UNCHANGED <<start, default, override, config>>

\* --config, else HUBPROXY_CONFIG; a file that cannot be read is an error.
ReadInConfig ==
    /\ pc = "config"
    /\ LET file == IF start.cliConfig # Absent THEN start.cliConfig ELSE start.envConfig
       IN  \/ file = Absent /\ pc' = "run" /\ UNCHANGED config
           \/ file = Unreadable /\ pc' = "failed" /\ UNCHANGED config
           \/ file \notin {Absent, Unreadable} /\ pc' = "run" /\ config' = file
    /\ UNCHANGED <<start, default, override, bound>>

\* What run refuses before it opens the database.
Refused ==
    \/ Get(LogLevel) \notin Levels
    \/ Get(Secret) = Empty
    \/ Get(TargetUrl) # Empty /\ Get(TargetUrl) \notin Urls

\* In test mode RunE returns; else run starts, or returns an error.
Run ==
    /\ pc = "run"
    /\ \/ Get(TestMode) = True /\ pc' = "skipped"
       \/ Get(TestMode) # True /\ Refused /\ pc' = "failed"
       \/ Get(TestMode) # True /\ ~ Refused /\ pc' \in {"serving", "failed"}
    /\ UNCHANGED <<start, default, override, bound, config>>

Next == SetDefaults \/ ReadFiles \/ BindPFlags \/ ReadInConfig \/ Run

Spec == Init /\ [][Next]_vars

-------------------------------------------------------------------------------
\* Every variable has its type, and viper knows no source before its call.
TypeOK ==
    /\ start \in Starts
    /\ pc \in {"defaults", "files", "flags", "config", "run", "serving", "failed", "skipped"}
    /\ default \in Given /\ override \in Given /\ config \in Given
    /\ bound \in BOOLEAN
    /\ pc \in {"defaults", "files", "flags"} => ~ bound /\ config = Nothing
    /\ \A key \in Keys : override[key] # Absent => key \in ReadKeys

\* hubproxy never serves without a secret, and one the environment keeps in a
\* file is the content of that file, whatever the flags and the config file
\* say and in whatever order RunE asks for it.
SecretOfTheEnvironment ==
    pc = "serving" =>
        /\ Get(Secret) # Empty
        /\ Readable(start.env[Secret]) => Get(Secret) = start.content[start.env[Secret]]

\* A flag beats the config file, also when both have a reference: only a file
\* that the environment refers to beats the flag.
FlagsBeatTheFile ==
    pc \in {"serving", "skipped"} =>
        \A key \in Keys :
            start.cli[key] # Absent =>
                \/ Get(key) = start.cli[key]
                \/ Readable(start.env[key]) /\ Get(key) = start.content[start.env[key]]
                \/ Readable(start.ts[key]) /\ Get(key) = start.content[start.ts[key]]

\* webhook-secret: file:<path> in the config file stands for the content of
\* the file, when nothing overrides it.
SecretFilesAreRead ==
    /\ pc = "serving"
    /\ start.cli[Secret] = Absent /\ start.env[Secret] = Absent
    /\ Readable(config[Secret])
    => Get(Secret) = start.content[config[Secret]]
=================================================================================
