\* One agent profile, a job and its successor, two edits of the disk.
SPECIFICATION Spec
CONSTANTS
    Agents = {a1}
    Jobs = {1, 2}
    Configs <- MCConfigs
    MaxEdits = 2
    a1 = a1
INVARIANTS AttenuationHolds RecoveredReadOnly
PROPERTIES SpawnAuthorized NeverWidened
