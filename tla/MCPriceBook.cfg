SPECIFICATION Spec
CONSTANTS
    TCS_THRESHOLD = 1000
    TCS_RATE = 1
    o1 = o1
    o2 = o2
    v1 = v1
    v2 = v2
    v3 = v3
    Blank = Blank
    Orgs = {o1, o2}
    Variants = {v1, v2, v3}
    RegTypes = {"INDIVIDUAL", "15YR", "BH"}
    Words <- HeaderWords
    Sheets <- SomeSheets
    Quotes <- SomeQuotes
    Similar <- Spelled
    OrgConfig <- Configs
    MAX_UPLOADS = 3
INVARIANTS
    TypeOK
    OneActiveBatch
    PreviewNeverStricter
PROPERTIES
    UploadAllOrNothing
