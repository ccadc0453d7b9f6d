SPECIFICATION Spec
CONSTANTS
  None = None
  MaxCartLines = 2
  MaxUpsellLines = 1
  Intents <- MCIntents
  Policies <- MCPolicies
  Contexts <- MCContexts
  Proposals <- MCProposals
  Signers = {"merchant", "stranger"}
  Now <- MCNow
INVARIANTS
  TypeOK
  YesCoversOnlyWhatWasAsked
  NoUnseenSpending
  ApprovedPaysPublishedPrices
  StaleCartNotReused
  AgreementSettles
