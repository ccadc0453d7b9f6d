\* Crashes, restarts and three runs of the kit for two merchants, with buyers in
\* between.
CONSTANTS
  None = None
  Torn = Torn
  Merchants = {"a", "b"}
  Urls <- MCUrls
  Pages <- MCPages
  Redirects <- MCRedirects
  CutShort <- MCCutShort
  RobotsFiles <- MCRobotsFiles
  DerivedSku <- MCDerivedSku
  Kids = {k1, k2, k3}
  MaxRuns = 3
  MaxLosses = 1
  MaxCartLines = 3
  MaxUpsellLines = 1
  MaxMerchants = 2
  Reference = 1
  CartValidity = 1
  Drafts <- MCDrafts
  Quantities = {1, 2}
SPECIFICATION Spec
SYMMETRY KidSymmetry
INVARIANTS
  EndpointCoherent
  OnlyConsentedUrls
  IdentitySurvives
  WinnerDeserves
  WebTellsTheTruth
CHECK_DEADLOCK FALSE
