SPECIFICATION BoardSpec
CONSTANTS
  Applications <- MCApplications
  EnabledPins  <- MCEnabledPins
INVARIANTS
  LevelsKept
  ClocksFirst
  OnBusConfigured
  MessagesWhole
  NoFrameForgotten
PROPERTIES
  FramesGoOn
