----------------------------- MODULE Config_proofs -----------------------------
(***************************************************************************)
(* Theorems about Config, for any keys, files, sources and ways to start.  *)
(***************************************************************************)
EXTENDS Config, TLAPS

\* The first that is given of six sources, the last of which always is.
FirstOf(a, b, c, d, e, f) ==
    IF a # Absent THEN a ELSE IF b # Absent THEN b ELSE IF c # Absent THEN c
    ELSE IF d # Absent THEN d ELSE IF e # Absent THEN e ELSE f

LEMMA FirstGiven ==
    ASSUME NEW a, NEW b, NEW c, NEW d, NEW e, NEW f, f # Absent
    PROVE  LET sources == <<a, b, c, d, e, f>>
               given == {i \in DOMAIN sources : sources[i] # Absent}
           IN  sources[CHOOSE i \in given : \A j \in given : i <= j]
                 = FirstOf(a, b, c, d, e, f)
<1> DEFINE sources == <<a, b, c, d, e, f>>
           given == {i \in 1 .. 6 : sources[i] # Absent}
           First(i) == i \in given /\ \A j \in given : i <= j
<1>1. DOMAIN sources = 1 .. 6
  OBVIOUS
<1>2. \E i \in 1 .. 6 : First(i) /\ sources[i] = FirstOf(a, b, c, d, e, f)
  <2>1. CASE a # Absent
    <3>1. First(1)
      BY <2>1
    <3> QED
      BY <3>1, <2>1 DEF FirstOf
  <2>2. CASE a = Absent /\ b # Absent
    <3>1. First(2)
      BY <2>2
    <3> QED
      BY <3>1, <2>2 DEF FirstOf
  <2>3. CASE a = Absent /\ b = Absent /\ c # Absent
    <3>1. First(3)
      BY <2>3
    <3> QED
      BY <3>1, <2>3 DEF FirstOf
  <2>4. CASE a = Absent /\ b = Absent /\ c = Absent /\ d # Absent
    <3>1. First(4)
      BY <2>4
    <3> QED
      BY <3>1, <2>4 DEF FirstOf
  <2>5. CASE a = Absent /\ b = Absent /\ c = Absent /\ d = Absent /\ e # Absent
    <3>1. First(5)
      BY <2>5
    <3> QED
      BY <3>1, <2>5 DEF FirstOf
  <2>6. CASE a = Absent /\ b = Absent /\ c = Absent /\ d = Absent /\ e = Absent
    <3>1. First(6)
      BY <2>6
    <3> QED
      BY <3>1, <2>6 DEF FirstOf
  <2> QED
    BY <2>1, <2>2, <2>3, <2>4, <2>5, <2>6
<1>3. \A i, j \in 1 .. 6 : First(i) /\ First(j) => i = j
  OBVIOUS
<1>4. PICK i \in 1 .. 6 : First(i) /\ sources[i] = FirstOf(a, b, c, d, e, f)
  BY <1>2
<1>5. (CHOOSE j \in given : \A k \in given : j <= k) = i
  BY <1>3, <1>4
<1> QED
  BY <1>1, <1>4, <1>5

-------------------------------------------------------------------------------
(* What viper says of a key before the flags are bound and once they are.   *)

Early(key) ==
    IF start.env[key] # Absent THEN start.env[key]
    ELSE IF start.ts[key] # Absent THEN start.ts[key] ELSE Empty

\* What viperReadFile has set.
FromFiles == [key \in Keys |-> IF key \in ReadKeys /\ Readable(Early(key))
                               THEN start.content[Early(key)] ELSE Absent]

\* After each call of RunE, viper knows the sources of the calls so far.
Called ==
    /\ start \in Starts
    /\ pc \in {"defaults", "files", "flags", "config", "run", "serving", "failed", "skipped"}
    /\ default = IF pc = "defaults" THEN Nothing ELSE start.ts
    /\ override = IF pc \in {"defaults", "files"} THEN Nothing ELSE FromFiles
    /\ bound = (pc \notin {"defaults", "files", "flags"})
    /\ config \in Given
    /\ pc \in {"defaults", "files", "flags", "config"} => config = Nothing
    /\ pc = "serving" => ~ Refused

LEMMA StartTyped ==
    ASSUME start \in Starts, NEW key \in Keys
    PROVE  /\ start.cli \in Given
           /\ start.env \in Given /\ start.ts \in Given
           /\ start.content \in [Refs -> Plain \cup {Empty, Unreadable}]
           /\ start.cliConfig \in ConfigFiles \cup {Absent}
           /\ start.envConfig \in ConfigFiles \cup {Absent}
<1>1. start \in Start
  BY StartsAssumption
<1> QED
  BY <1>1 DEF Start, Given, Value

LEMMA ContentTyped ==
    ASSUME start \in Starts, NEW value, Readable(value)
    PROVE  /\ start.content[value] \in Value
           /\ start.content[value] # Absent
<1>1. start.content \in [Refs -> Plain \cup {Empty, Unreadable}]
  BY StartsAssumption DEF Start
<1> QED
  BY <1>1, SentinelsAssumption DEF Readable, Value

LEMMA GetIs ==
    ASSUME NEW key \in Keys
    PROVE  Get(key) = FirstOf(override[key], IF bound THEN start.cli[key] ELSE Absent,
                              start.env[key], config[key], default[key],
                              IF bound THEN FlagDefault[key] ELSE Empty)
<1>1. (IF bound THEN FlagDefault[key] ELSE Empty) # Absent
  BY KeysAssumption, SentinelsAssumption DEF Value
<1> QED
  BY <1>1, FirstGiven DEF Get, Sources

LEMMA GetEarly ==
    ASSUME Called, pc = "files", NEW key \in Keys
    PROVE  Get(key) = Early(key)
<1>1. override[key] = Absent /\ config[key] = Absent /\ default[key] = start.ts[key] /\ ~ bound
  BY DEF Called, Nothing
<1> QED
  BY <1>1, GetIs DEF FirstOf, Early

LEMMA SameStartSameValues ==
    ASSUME UNCHANGED <<start, default, override, bound, config>>
    PROVE  FromFiles' = FromFiles /\ Refused' = Refused
<1>1. FromFiles' = FromFiles
  BY Zenon DEF FromFiles, Early, Readable
<1>2. ASSUME NEW CONSTANT key PROVE Get(key)' = Get(key)
  <2>1. Sources(key)' = Sources(key)
    BY DEF Sources
  <2> QED
    BY <2>1, Zenon DEF Get
<1>3. Refused' = Refused
  BY <1>2, Zenon DEF Refused
<1> QED
  BY <1>1, <1>3

LEMMA CalledInit == Init => Called
<1> SUFFICES ASSUME Init PROVE Called
  OBVIOUS
<1>1. Nothing \in Given
  BY DEF Nothing, Given
<1> QED
  BY <1>1 DEF Init, Called

LEMMA CalledNext == Called /\ [Next]_vars => Called'
<1> SUFFICES ASSUME Called, [Next]_vars PROVE Called'
  OBVIOUS
<1>1. CASE SetDefaults
  BY <1>1 DEF SetDefaults, Called
<1>2. CASE ReadFiles
  <2>1. override' = FromFiles
    BY <1>2, GetEarly, KeysAssumption DEF ReadFiles, FromFiles
  <2>2. FromFiles' = FromFiles
    BY <1>2 DEF ReadFiles, FromFiles, Early, Readable
  <2> QED
    BY <1>2, <2>1, <2>2 DEF ReadFiles, Called
<1>3. CASE BindPFlags
  <2>1. FromFiles' = FromFiles
    BY <1>3 DEF BindPFlags, FromFiles, Early, Readable
  <2> QED
    BY <1>3, <2>1 DEF BindPFlags, Called
<1>4. CASE ReadInConfig
  <2>1. FromFiles' = FromFiles
    BY <1>4 DEF ReadInConfig, FromFiles, Early, Readable
  <2>2. config' \in Given
    BY <1>4, StartTyped, ConfigFilesAssumption, KeysAssumption DEF ReadInConfig, Called
  <2>3. pc' \in {"run", "failed"}
    BY <1>4 DEF ReadInConfig
  <2> QED
    BY <1>4, <2>1, <2>2, <2>3 DEF ReadInConfig, Called
<1>5. CASE Run
  <2>0. UNCHANGED <<start, default, override, bound, config>>
    BY <1>5, Zenon DEF Run
  <2>1. FromFiles' = FromFiles /\ Refused' = Refused
    BY <2>0, SameStartSameValues
  <2>2. /\ pc' \in {"serving", "failed", "skipped"}
        /\ pc' = "serving" => ~ Refused
    BY <1>5 DEF Run
  <2> QED
    BY <1>5, <2>1, <2>2 DEF Run, Called
<1>6. CASE UNCHANGED vars
  <2>1. UNCHANGED <<start, pc, default, override, bound, config>>
    BY <1>6 DEF vars
  <2>2. FromFiles' = FromFiles /\ Refused' = Refused
    BY <2>1, SameStartSameValues
  <2> QED
    BY <2>1, <2>2 DEF Called
<1> QED
  BY <1>1, <1>2, <1>3, <1>4, <1>5, <1>6 DEF Next

LEMMA CalledAlways == Spec => []Called
  BY CalledInit, CalledNext, PTL DEF Spec

-------------------------------------------------------------------------------
\* Every variable has its type, and viper knows no source before its call.
THEOREM TypeCorrect == Spec => []TypeOK
<1>1. Called => TypeOK
  <2> SUFFICES ASSUME Called PROVE TypeOK
    OBVIOUS
  <2>1. Nothing \in Given /\ \A key \in Keys : Nothing[key] = Absent
    BY DEF Nothing, Given
  <2>2. FromFiles \in Given /\ \A key \in Keys : FromFiles[key] # Absent => key \in ReadKeys
    BY ContentTyped DEF FromFiles, Given, Called
  <2>3. start.ts \in Given
    BY StartTyped, KeysAssumption DEF Called
  <2> QED
    BY <2>1, <2>2, <2>3 DEF TypeOK, Called
<1> QED
  BY <1>1, CalledAlways, PTL

\* hubproxy serves with a secret, and with the one in the file that the
\* environment names if it can be read: viperReadFile has seen no other
\* source by then, and what it sets beats those that come later.
THEOREM SecretOfTheEnvironmentHolds == Spec => []SecretOfTheEnvironment
<1>1. Called => SecretOfTheEnvironment
  <2> SUFFICES ASSUME Called, pc = "serving"
               PROVE  /\ Get(Secret) # Empty
                      /\ Readable(start.env[Secret]) =>
                            Get(Secret) = start.content[start.env[Secret]]
    BY DEF SecretOfTheEnvironment
  <2>1. Get(Secret) # Empty
    BY DEF Called, Refused
  <2>2. ASSUME Readable(start.env[Secret])
        PROVE  Get(Secret) = start.content[start.env[Secret]]
    <3>1. start.env[Secret] # Absent
      BY <2>2, SentinelsAssumption DEF Readable, Value
    <3>2. Early(Secret) = start.env[Secret]
      BY <3>1 DEF Early
    <3>3. Secret \in Keys /\ Secret \in ReadKeys
      BY KeysAssumption
    <3>4. override[Secret] = start.content[start.env[Secret]]
      BY <2>2, <3>2, <3>3 DEF Called, FromFiles
    <3>5. override[Secret] # Absent
      BY <2>2, <3>4, ContentTyped DEF Called
    <3> QED
      BY <3>3, <3>4, <3>5, GetIs DEF FirstOf
  <2> QED
    BY <2>1, <2>2
<1> QED
  BY <1>1, CalledAlways, PTL

\* No source but a file that the environment names beats a flag.
THEOREM FlagsBeatTheFileHolds == Spec => []FlagsBeatTheFile
<1>1. Called => FlagsBeatTheFile
  <2> SUFFICES ASSUME Called, pc \in {"serving", "skipped"}, NEW key \in Keys,
                      start.cli[key] # Absent
               PROVE  \/ Get(key) = start.cli[key]
                      \/ Readable(start.env[key]) /\ Get(key) = start.content[start.env[key]]
                      \/ Readable(start.ts[key]) /\ Get(key) = start.content[start.ts[key]]
    BY DEF FlagsBeatTheFile
  <2>1. bound /\ override = FromFiles
    BY DEF Called
  <2>2. CASE override[key] = Absent
    BY <2>1, <2>2, GetIs DEF FirstOf
  <2>3. CASE override[key] # Absent
    <3>1. Readable(Early(key)) /\ override[key] = start.content[Early(key)]
      BY <2>1, <2>3 DEF FromFiles
    <3>2. Get(key) = start.content[Early(key)]
      BY <2>3, <3>1, GetIs DEF FirstOf
    <3>3. Early(key) # Empty
      BY <3>1, SentinelsAssumption DEF Readable
    <3>4. Early(key) \in {start.env[key], start.ts[key]}
      BY <3>3 DEF Early
    <3> QED
      BY <3>1, <3>2, <3>4
  <2> QED
    BY <2>2, <2>3
<1> QED
  BY <1>1, CalledAlways, PTL
=================================================================================
