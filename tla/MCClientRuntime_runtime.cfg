CONSTANTS
  Switches = {"online"}
  Capacity = 2
  MaxJoinRejects = 2
SPECIFICATION FairSpec
INVARIANTS NoTriggerLost PausedOnlyByRace StormBound OpenOnlyByRace
PROPERTY ChangesAreSwept
CHECK_DEADLOCK FALSE
