SPECIFICATION FairPlanSpec
CONSTANTS
  Requests <- MCRequests
  Plans <- MCPlans
  Selections <- MCSelections
  Models <- TwoModels
INVARIANT NothingDisabledIsDone
INVARIANT PromptIsTheCallers
INVARIANT LooksAreNotMadeUp
PROPERTY EveryRequestIsRouted
