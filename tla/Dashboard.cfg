SPECIFICATION FairSpec
CONSTANTS
  ClusterSize = 3
  NAN = NAN
  NONE = NONE
  BLANK = BLANK
  DefaultTime = DefaultTime
  PredictionMap = "prediction"
  StartDay = 0
  MaxTimers = 2
  MaxRequests = 2
  MaxPredictions = 2
  Maps <- MCMaps
  Algorithms <- MCAlgorithms
  Days <- MCDays
  Slots <- MCSlots
  Zone <- MCZone
  Shown <- MCShown
  Center <- MCCenter
  Spots <- MCSpots
  Places <- MCPlaces
  Entered <- MCEntered
INVARIANTS
  AnswersBelong
  SameQuestion
  MapsAgree
  LabelTellsSlot
  PopupOfLastClick
  NearestIsFound
PROPERTIES
  ComesToRest
  PopupAppears
