SPECIFICATION Spec
CONSTANTS
  None = None
  Responses <- MCResponses
  Models = {"flash-lite", "unpriced", "banned"}
  BannedModels = {"banned"}
  PricedModels = {"flash-lite", "banned"}
  Ceiling = 7
  Projections = {2}
  Costs = {1, 3}
  MaxRetries = 2
  MaxUnmetered = 1
  MaxRounds = 2
  MaxAnswers = 3
  Scripts <- MCScripts
  Scenarios <- MCScenarios
  Ambiguous <- MCAmbiguous
  K = 2
  Slack = 1
INVARIANTS
  LastGoodsFirstSettings
  ClarifiedOrExhausted
  BillBounded
  NoLuckyDraft
PROPERTIES
  ConversationEnds
