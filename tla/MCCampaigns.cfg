SPECIFICATION Spec
SYMMETRY Symmetry
CONSTANTS
  Runs = {1, 2}
  Keys <- MCKeys
  Documents <- MCDocuments
  Catalog <- MCCatalog
  CampaignIds = {"c1", "c2"}
  Sessions = {s1, s2}
  Requests <- MCRequests
  Seeded <- MCSeeded
  Engines <- MCEngines
  Verdicts = {pass, fail}
  MaxClaims <- MCMaxClaims
  MaxOwed = 1
INVARIANTS
  TypeOK
  AnswersHold
  NoWaitCycle
  PlansHold
  PublishedStands
