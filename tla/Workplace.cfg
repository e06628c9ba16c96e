SPECIFICATION WorkplaceSpec
CONSTANTS
  Names <- MCNames
  Documents <- MCDocuments
  Drafts <- MCDrafts
  Seed <- MCSeed
  Puts = {p1, p2}
  Triggers = {t1, t2}
  Ids = {"i1"}
  UrlOf <- MCUrlOf
  SourceOf <- MCSourceOf
  Archived <- MCArchived
  Tiers = {1, 3}
  MaxRuns = 1
  MaxRows = 2
  MinInterval = 1
  MaxClock = 1
  MaxCrashes = 1
  MaxEffort = 4
  Companies <- MCCompanies
  Signals <- MCSignals
  Configs <- MCConfigs
  Capabilities = {"x"}
  MaxSignals = 3
  Unset = Unset
  Books <- MCBooks
  Hints <- MCHints
  MaxDrafts = 2
  Blank = Blank
  Unowned = Unowned
  Owners = {"o1"}
  StartRows <- MCRows
  MaxCommands = 2
  MaxColleagues = 1
  Firms = {"f1", "f2"}
  TownOf <- MCTownOf
  Contacted = {"f1"}
  Stories = {"n1"}
  Mentions <- MCMentions
  Tenants = {"live", "demo"}
  MaxTurns = 2
  Outsider = Outsider
  Unread = Unread
  Registered = {"f1"}
  Fitting = {"f1", "f2"}
SYMMETRY MCSymmetry
INVARIANTS
  AnsweredSavesKept
  RunsApart
  RunsKeep
  LabelTruthful
  ScoredIsTold
  DraftTold
  TaskAsOffered
  CountersLead
  
PROPERTIES
  AppliedIsShown
  MoreNeverLess
\* Nothing is left to do within the bounds.
CHECK_DEADLOCK FALSE
