SPECIFICATION MCSpec
CONSTANTS
  NoScope = NoScope
  NoRule = NoRule
  Fails = Fails
  NoKey = NoKey
  NoModel = NoModel
  NoCeiling = NoCeiling
  NoGrant = NoGrant
  gpt = gpt
  claude = claude
  gem = gem
  nova = nova
  dbrx = dbrx
  vllm = vllm
  emb = emb
  img = img
  smart = smart
  split = split
  x1 = x1
  x2 = x2
  k1 = k1
  k2 = k2
  tm = tm
  q1 = q1
  d1 = d1
  Procs = {q1, p2}
  Desks = {d1, d2}
  RuleIds = {x1, x2}
  Models = {gpt, claude, gem, nova, dbrx, vllm, emb, img}
  Routers = {smart, split}
  Tags = {"pii", "bad"}
  ModelType <- MCType
  ModelDesc <- MCDesc
  Declared = {"f", "g"}
  MaxN = 2
  MaxTokens = 2
  DefaultMaxTokens = 4
  RouterDef <- MCRouter
  Inputs <- MCInputs
  Answers <- MCAnswers
  NewRules <- MCNewRules
  Changes <- MCChanges
  Confs <- MCConfs
  InitRules <- MCInitRules
  InitConfs <- MCInitConfs
  MaxEntries = 1
  MaxEdits = 2
CONSTRAINT MCBound
CHECK_DEADLOCK FALSE
INVARIANTS ContentScreened AccountedOnce OnlyServable
PROPERTY EveryClaimReturns
