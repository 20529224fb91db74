\* Three fetches at once over three changes of the databases, two fetches lost.
SPECIFICATION FairPollSpec
CONSTANTS
  Fetches = {f1, f2, f3}
  MaxVersion = 3
  MaxLost = 2
PROPERTIES NeverGoesBack CatchesUp
