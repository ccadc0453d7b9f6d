SPECIFICATION Spec
CONSTANTS
  None = None
  MaxCartLines = 20
  MaxUpsellLines = 1
  Catalog <- MCCatalog
  MerchantId = "shop"
  MerchantKid = "merchant"
  CartValidity = 10
  MaxAlternatives = 0
  PrincipalKid = "human"
  FirstItem = 1
  SubstituteSku = 0
  OtherMerchant = "not-shop"
  PriceMultiplier = 10
  InflateTo = 10
  Headroom = 2000
  OverCapQuantity = 5
  Permissive = 10000000
  Scenarios <- MCScenarios
  DemoBudget = 200000
  DemoWriter = "demo"
  Writers = {"demo", "other"}
  Forged = "forged"
  MaxRecords = 6
  MaxEdits = 1
  MaxFailures = 1
INVARIANTS
  DefenceHolds
  BaselineSeesOvercharge
  SummaryTrue
  IntactMeansAuthentic
  HonestLogIntact
CHECK_DEADLOCK FALSE
