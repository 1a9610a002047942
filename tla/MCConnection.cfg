SPECIFICATION FairSpec
CONSTANTS
  yuv = yuv
  other = other
  Kinds = {yuv, other}
  VideoInfo = {yuv}
  SourceOffers <- Offered
  RendererAccepts <- Accepted
  Named <- NamedTypes
  Partial <- PartialTypes
  MaxVersion = 2
INVARIANTS
  TypeOK
  ConnectedWhole
PROPERTIES
  ConnectEnds
