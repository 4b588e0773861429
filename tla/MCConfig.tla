-------------------------------- MODULE MCConfig --------------------------------
(* Instances of Config for TLC.                                             *)
EXTENDS Config

CONSTANTS
    authkey, a, b, s, info, url, ra, rb

MCKeys == {authkey, Secret, LogLevel, TargetUrl, TestMode}

MCPlain == {a, b, s, info, url, True}

MCFlagDefault == [key \in MCKeys |-> IF key = LogLevel THEN info ELSE Empty]

\* Only the given keys have the given values.
Only(key, value) == [k \in MCKeys |-> IF k = key THEN value ELSE Absent]
With(given, key, value) == [given EXCEPT ![key] = value]

MCConfigFiles ==
    {Unreadable, With(Only(Secret, ra), TargetUrl, url), Only(Secret, b), Only(TestMode, True)}

\* The secret and the auth key by flag, by variable, by config file, by
\* several or by none, as they are or in a file, which may be unreadable or
\* empty; good and bad levels and URLs, and test mode.
MCStarts ==
    [cli : {With(Only(Secret, v), authkey, w) : v \in {Absent, a, rb, Empty}, w \in {Absent, a}}
             \cup {Only(LogLevel, b), Only(TargetUrl, b)},
     env : {With(Only(Secret, v), authkey, w) : v \in {Absent, s, ra}, w \in {Absent, rb}},
     ts : {Only(authkey, v) : v \in {Absent, ra}},
     cliConfig : {Absent, Only(Secret, b)},
     envConfig : MCConfigFiles \cup {Absent},
     content : {[r \in {ra, rb} |-> IF r = ra THEN v ELSE w] :
                   v \in {s, Empty, Unreadable}, w \in {b, Unreadable}}]
=================================================================================
