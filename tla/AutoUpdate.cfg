SPECIFICATION FairSpec
CONSTANTS
    Shas = {s0, s1, s2, s3}
    First = s0
    NoSha = none
    Smokes = {s0, s1, s2}
    Healthy = {s0, s1}
    MaxWrites = 2
    MaxRestarts = 1
    MaxScripts = 1
    MaxFaults = 1
CHECK_DEADLOCK FALSE
INVARIANT InstalledIsProven
PROPERTIES
    KilledRunIsLate
    NoReflap
    UpgradeHappens
