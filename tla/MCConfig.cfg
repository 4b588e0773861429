SPECIFICATION Spec
CONSTANTS
    authkey = authkey
    a = a
    b = b
    s = s
    info = info
    url = url
    ra = ra
    rb = rb
    Secret = Secret
    LogLevel = LogLevel
    TargetUrl = TargetUrl
    TestMode = TestMode
    Empty = Empty
    Absent = Absent
    Unreadable = Unreadable
    True = True
    Keys <- MCKeys
    ReadKeys = {authkey, Secret}
    TailscaleKeys = {authkey}
    Plain <- MCPlain
    Refs = {ra, rb}
    Levels = {info}
    Urls = {url}
    FlagDefault <- MCFlagDefault
    ConfigFiles <- MCConfigFiles
    Starts <- MCStarts
INVARIANTS
    TypeOK
    SecretOfTheEnvironment
    FlagsBeatTheFile
CHECK_DEADLOCK FALSE
