SPECIFICATION FairSpec
CONSTANTS
  Line = {1, 3}
  Delayed = {1}
  Delay = 2
INVARIANTS DoorbellsRung NoSleepThrough
PROPERTY HeldLineTaken
