CONSTANTS
  Loops = {"minmob", "mipster"}
  MaxGuest = 2
  MaxPage = 2
  MaxFrame = 6
  MaxHost = 6
SPECIFICATION FairHyperSpec
INVARIANT HyperTypeOK
INVARIANT NoMappingForgotten
INVARIANT RunsWithAllPages
INVARIANT AgreesUntilReuse
INVARIANT FramesPrivate
INVARIANT HandledOnMinmob
PROPERTY EveryGuestRuns
