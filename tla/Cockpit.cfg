SPECIFICATION CockpitSpec
CONSTANTS
  Conversations <- MCConversations
  Start <- MCStart
  Asks = {1, 2}
  DailySearchBudget = 1
  WebMaxUses = 2
  None = None
  Nil = Nil
  Nothing = Nothing
  MaxEvents = 2
  MaxAnswers = 2
  MaxTexts = 3
  MaxSteps = 7
  MaxVersions = 2
  ListRows = {"r1", "r2"}
  MaxRequests = 3
  MaxMishaps = 2
  Rows = {"account", "prospect"}
  Account = "account"
  Seeds = {"s1", "s2"}
  Sweeps = {"w1"}
  MaxStarts = 1
  MaxDeeds = 1
  MaxCompanies = 6
  Updates = {"u1", "u2"}
  Features <- MCFeatures
  Rejected = {"r1"}
  Unreviewed = Unreviewed
  MaxReviews = 2
  MaxOthers = 1
  MaxLoads = 2
  HubSpotIds <- MCIds
  WorldIds <- MCWorldIds
  Searches <- MCSearches
  MaxSearches = 2
  MaxLists = 2
  MaxListMishaps = 1
  Subjects = {"a1", "a2"}
  WorkRows = {"w"}
  Papers = {"d1", "d2"}
  HomePapers = {"d3"}
  Sketches = {"d4"}
  Cities = {"c"}
  Addresses <- MCAddresses
  MaxActs = 3
  Docs = {"l1", "l2", "l3"}
  Foreign = "l4"
  DocAccount <- MCDocAccount
  DocType <- MCDocType
  KnownAccounts = {"known"}
  MaxKept = 2
  MaxLog = 3
  MaxLoading = 2
  MaxRecords = 3
  MaxUses = 3
  Casts <- MCCasts
  Filings <- MCFilings
  MaxChanges = 2
  MostEvents = 4
  FirstEvents = 2
  LastPart = 2
  Shut = Shut
INVARIANTS
  BudgetKept
  ThreadTold
  EditsSafe
  CopiesAgree
  WritesAsReviewed
  SeedComplete
  CleanupSpares
  
  ListAsChosen
  PageAsAsked
  ListedOnce
  EvidenceTold
PROPERTIES
  
  AskSettles
\* Nothing is left to do within the bounds.
CHECK_DEADLOCK FALSE
