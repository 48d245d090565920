\* A run that outlives its timer hides the next drop of the price.
SPECIFICATION WatchSpec
SYMMETRY Symmetry
CONSTANTS
  Handler = {h1, h2, h3}
  None = None
  MaxPrice = 3
  MaxRuns = 2
  MaxRejections = 0
INVARIANT EveryDropActedOn
