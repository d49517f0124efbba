SPECIFICATION Spec
CONSTANTS
    Chains <- MCChains
    Configs <- MCConfigs
    Clients <- MCClients
    Uuids <- MCUuids
    Attempts = 2
    MaxBytes = 2
    MaxRepeats = 1
INVARIANTS
    TypeOK
    ClientValuesKept
    SentWasChecked
    AnswerMarked
    PublishedFirst
    RetriesSound
