SPECIFICATION Spec
CONSTANTS
    MaxRevision = 4
    Worlds = {"death_certificate", "fog_station", "station"}
    LegalPicks = {"first", "second"}
    Tasks <- MCTasks
    Scripts <- MCScripts
    Seed <- MCSeed
    MaxCancels = 1
INVARIANTS LocksSuffice EverythingReadsBack LocksAreNoTrap
