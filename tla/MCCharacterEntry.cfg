SPECIFICATION Spec
CONSTANTS
    MaxRevision = 4
    Worlds = {"station", "harbour"}
    LegalPicks = {"first", "second"}
    Calls <- MCCalls
    Scripts <- MCScripts
    Seed <- MCSeed
    MaxFaults = 1
INVARIANTS NothingFailsClosed CharacterIsSpokenFor AnswersAreOnRecord AlarmsAreReal ListedCanStart
