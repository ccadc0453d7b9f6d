SPECIFICATION Spec
CONSTANTS
  None = None
  MaxCartLines = 2
  MaxUpsellLines = 1
  Catalog <- MCCatalog
  MerchantId = "chumbak-real"
  MerchantKid = "merchant-key"
  CartValidity = 1
  MaxAlternatives = 1
  Requests <- MCRequests
  ReviewAnswers <- MCReviewAnswers
  Policy <- MCPolicy
  HumanKid = "human-key"
  IntentValidity = 4
  MaxClock = 2
INVARIANTS
  OrderedBeforeExpiry
