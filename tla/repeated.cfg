\* A question with a fixed workflow that is asked again in its session.
SPECIFICATION Spec
CONSTANTS
  Parts = {"tools"}
  r1 = r1  r2 = r2  r3 = r3  ws = ws  wj1 = wj1  wj2 = wj2
  NoReq = NoReq
  Requests = {r1, r2, r3}
  WebSessions = {ws}
  WebJobs = {wj1, wj2}
  Offers <- MCOffers
  MaxRuns = 2
  WebFaults = TRUE
  lookup = lookup  lookup2 = lookup2  fetch = fetch  chart = chart  chart2 = chart2
  Calls = {lookup, lookup2, fetch, chart, chart2}
  Policy <- MCPolicy
  Batches <- MCBatches
  Workers = 2
  Queue = 0
  MaxTasks = 2
  MaxBatches = 2
  sql1 = sql1  sql2 = sql2  page1 = page1  page2 = page2  web1 = web1  web2 = web2  web3 = web3
  web4 = web4  todo = todo  deck = deck  look = look
  LoopCalls = {sql1, sql2, page1, page2, web1, web2, web3, web4, todo, deck, look}
  ToolOf <- MCToolOf
  Tools <- MCTools
  Url <- MCUrl
  Results <- MCResults
  Replies <- MCReplies
  Prompts <- MCPrompts
  Answers <- MCAnswers
  MaxTurns = 2
  Limits <- MCLimits
  Words = {"wheelbase", "price", "statistics", "all", "field", "SUV", "explain", "query", "report", "slides", "draw", "analysis", "market", "manual"}
  Word <- MCWord
  AttrOrder <- MCAttrOrder
  Asked <- MCAsked
  mf1 = mf1  mt1 = mt1  mx1 = mx1  mc1 = mc1
  Paths = {mf1}
  Docs = {mf1}
  Dirs = {"root", "sub", "etc"}
  Outside = {"etc"}
  FileSizes = {1, 2}
  Consent = {"allow", "enable"}
  MaxSeconds = 1
  MaxVersions = 3
  MaxHistory = 5
  KeepResults = 1
  Summarized = 4
  SoftLimit = 5
  HardLimit = 6
  Overhead = 1
  MessageSizes = {1, 3}
  MaxMessages = 6
  TaskIds = {mt1}
  Threads = {mx1}
  CronIds = {mc1}
  MaxOutbox = 1
  Systems = {1}
  Retired = {2}
  TypeCodes = {"disc"}
  VehicleCodes = {"x9"}
  PartCodes = {"arm left"}
  AttributeCodes = {"weight"}
  Orders = {1}
  Updatable = {2}
  MaxTypes = 3
  MaxUpdates = 2
  MaxAttributes = 1
  MaxComponents = 1
  ma1 = ma1  ma2 = ma2
  Annotators = {ma1, ma2}
  Uploads = {FALSE}
  MaxImages = 2
  MaxAnnotations = 2
  MaxArchives = 2
  RagDocs = {mf1, mt1}
  Revised = {mf1}
  ChunkOrdinals = {0}
  Rebuilders = {r1, r2}
  DenseTopK = 2
  SparseTopK = 2
  RerankTopN = 2
  SearchTopK = {1}
  MaxRevisions = 2
  TargetChars = 6
  MaxChars = 9
  OverlapChars = 1
  HeaderChars = 3
  BlockChars = {1, 5, 12}
  MaxBlocks = 3
  SubscriberRoom = 1
  MaxProgress = 1
  MaxBreaks = 1
  ModelProviders = {"anthropic", "openai", "ark_responses"}
  KeysInEnv = {"ark_responses"}
  ReplyCalls = 2
  ReplyPieces = 2
  UserSkills = {"fixit", "toolbox", "loader"}
  ProjectSkills = {"loader", "review"}
  ReplNames = {"clear", "compact", "init", "fixit", "review", "toolbox", "multiline", "stream", "dashboard", "save", "loader", "load", "exit", "tool", "help", "nobody"}
  ManyMessages = 2
  ReportRuns = 2
  ReportCalls = 1
  FlowCap = 5
  mv1 = mv1  mv2 = mv2
  FieldTable <- MCFieldTable
  LookupWords <- MCLookupWords
  FilterWords <- MCFilterWords
  MaxValues = 2
  FieldLetters = {"a", "b"}
  MaxWord = 2
  Vehicles = {mv1, mv2}
  FilledFields = {1, 3}
  ScopedVehicles = {mv1}
  OwnedVehicles = {mv2}
  RetiredVehicles = {mv1}
  CoverageCap = 2
  MostRelevant = 2
  SqlLimit = 1
  Schedulers = {r1, r2}
  LeaseTime = 2
  MaxClock = 5
  Stores = {r1, r2}
  Records = {"j1", "j2"}
  Staged = {"j1"}
  JobKeys = {"k"}
  Metadata <- MCMetadata
  MaxFences = 2
  MaxOpens = 3
  Importers = {r1, r2}
  Files <- MCFiles
  SpecLimits = {0, 1}
  MaxImports = 3
  Users = {r1, r2}
  Asks <- MCAsks
  Quantum = 4
  MaxCredit = 8
  Concurrency = 2
  MaxCreated = 3
  MaxTroubles = 1
INVARIANT DuplicatesRan
CHECK_DEADLOCK FALSE
