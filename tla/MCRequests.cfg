SPECIFICATION RunSpec
CONSTANTS
  MaxVersion = 3
  MaxNesting = 2
  None = None
  Requests = {1, 2}
  Refetches = {1, 2}
  KeyOf <- OneKey
  MaxAttempts = 2
  Intercepted = TRUE
  Caching = TRUE
  Urls = {"a", "b", "direct"}
  DirectUrls = {"direct"}
  MaxFetches = 3
  MaxRetries = 1
  MaxPageCalls = 4
  MaxPages = 3
  Mutations = {1, 2}
  MaxCycles = 3
  CyclesSeen = 3
  WorkerVersions = {1, 2}
  MaxEdits = 1
  States = {"s1", "s2"}
  Accounts = {1, 2}
  MaxCalls = 3
  MaxRefreshes = 3
  MaxOverrides = 3
  Locales = {"en", "fa", "ar"}
  Default = "fa"
  Rtl = {"fa", "ar"}
  Bundled = {"fa"}
  Paths = {"a", "a#x", "b"}
  PageOf <- PageOfPath
  MaxHistory = 2
  Guards = {"g"}
  MaxWaiting = 2
  MaxCommits = 0
  ChainGuards = {"g", "h"}
  ChainWaiting = 1
  ChainCommits = 1
  Sources = {"x", "y"}
  Parametric = {"y"}
  MaxLoads = 2
  Elements = {"x", "y", "z"}
  Children = {"c", "d"}
  Siblings = {"s"}
  HasTimeout = {"inner", "outer"}
  InnerId = "inner"
  Promises = {"p", "q"}
  TrackTimeout = TRUE
  HasDelay = TRUE
  MaxGenerations = 3
INVARIANTS LoadingIsBacked OnlyNewestIsUnaborted DataFollowsDependency
INVARIANTS AllTyped PendingIsBacked ShownIsCurrent SentOnce WaitingFollows FormIsConsistent StateAgrees
PROPERTIES NoStaleAnswer ShowsLatestRequest GuardsAreAsked
CHECK_DEADLOCK FALSE
