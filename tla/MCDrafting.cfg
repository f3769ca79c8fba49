CONSTANTS
  acct1 = acct1  acct2 = acct2  stranger = stranger
  None = None
  MaxRows = 3
  Window = 1
  EvidenceShown = 1
  HeadShown = 1
  ListShown = 2
  PromptShown = 1
  Cases <- MCCases
  CaseIds = {1, 2, 3}
  Streams <- MCStreams
  Builds <- MCBuilds
  Requests <- MCRequests
  Drafts <- MCDrafts
  MAX_RETRIES = 1
  MayFail = TRUE
  MaxRequests = 2
  MaxRestarts = 1
  MaxBuilds = 1
SPECIFICATION MCSpec
CHECK_DEADLOCK FALSE
INVARIANTS ReportsAreSourced LedgerAccountsForDrafts RetriesOnlyTransportFaults
PROPERTIES EveryRequestAnswered
