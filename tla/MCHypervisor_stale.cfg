CONSTANTS
  Loops = {"minmob"}
  MaxGuest = 2
  MaxPage = 2
  MaxFrame = 6
  MaxHost = 6
SPECIFICATION HyperSpec
INVARIANT CachedTableAgrees
