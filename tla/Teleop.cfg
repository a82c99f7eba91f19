SPECIFICATION TeleSpec
CONSTANTS
  StandTicks = 2
  RecoverTicks = 1
  SitTicks = 2
  EnableAfter = 1
  EnableCap = 1
  Inputs = {"lb", "rb", "a", "x", "y", "start", "ly"}
  Grips = {{}, {"lb"}, {"lb", "a"}, {"lb", "x"}, {"lb", "y"}, {"lb", "start"},
           {"lb", "rb"}, {"lb", "rb", "x"}, {"rb", "x"},
           {"ly"}, {"lb", "ly"}, {"lb", "y", "ly"}}
PROPERTIES
  AnswersLastWord
  HeldStopStops
  ReleasedStickStops
