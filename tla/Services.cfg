SPECIFICATION Spec
CONSTANTS
    Requests = {r1, r2}
    SaveGroups = {"homepage", "mail"}
    SaveKeys = {"title", "image", "host"}
    Input <- GroupInput
    UploadKeys = {"image"}
    Texts = {"value"}
    Overlapping = {"homepage"}
    Networks = {"rinkeby", "mumbai", "bsctestnet", "goerli"}
    MaxId = 6
    MaxEdits = 2
    Users = {"u1"}
    Names = {n1, n2}
    Exts = {"png", "mp3", "exe"}
    Mimes = {"image/png", "audio/mpeg"}
    MaxEntries = 2
    People = {"p1"}
    env = "env"
    MaxSaves = 2
    Mints = {m1, m2, m3}
    FirstCount = 0
    MaxOthers = 1
    Faults = TRUE
    BLOCK_CONFIRMATION_TO_WAIT = 2
    NoRow = NoRow
    Null = Null
    None = None
    Idle = Idle
    Off = Off
SYMMETRY Symmetry
INVARIANTS
    ServicesTypeOK
    SavesAreSound
    UploadsAreWhole
    NoncesAreSound
PROPERTIES
    SeedingIsSound
    LogsAreKept
    MailsAreSound
CHECK_DEADLOCK FALSE
