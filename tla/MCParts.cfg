CONSTANTS
  FieldLimit = 5
  BodyLimit = 12
  MaxUnits = 4
  MaxBytes = 10
  MaxSections = 4
  Sizes = {1, 4, 9, 12, 14}
  Hour = 3
  Day = 12
  MaxTime = 250
  UpperLimit = 4
  MaxVisits = 3
  Length16 = 1
  Length64 = 2
  FrameSizes = {0, 1, 2}
  MaxFrames = 4
  MaxUnread = 2
SPECIFICATION Spec
INVARIANTS TruncationIsLongest FieldsArriveWhole  NothingIsNull 
PROPERTIES PageAndPhoneAgree FramesArriveWhole
CHECK_DEADLOCK FALSE
