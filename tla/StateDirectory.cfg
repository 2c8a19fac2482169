SPECIFICATION Spec
CONSTANTS
    s1 = s1
    s2 = s2
    c = c
    Supervisors = {s1, s2}
    Commands = {c}
    Build <- MCBuild
    Directories = {"u"}
    MaxBirths = 2
    MaxKills = 1
    MaxEdits = 1
    MaxWrites = 1
    MaxResets = 1
INVARIANTS
    CommitsSurvive
    SchemaIsWhole
    CommandsFindTheLedger
PROPERTIES
    ResetSparesWork
CHECK_DEADLOCK FALSE
