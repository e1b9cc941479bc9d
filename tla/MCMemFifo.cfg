CONSTANTS
  Word = {w1, w2}
  Depth = 3
SPECIFICATION FairSpec
INVARIANTS TypeOK FlagsDescribeRing
PROPERTIES IsBoundedFifo FetchIsDefined OfferIsStable TwoWordsAreOffered
