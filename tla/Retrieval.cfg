SPECIFICATION Spec

CONSTANTS
  t1 = t1
  t2 = t2
  t3 = t3
  Chunks = {1, 2, 3, 4, 5, 6, 7}
  Docs = {"law", "mine", "note"}
  Info <- MCInfo
  Owner <- MCOwner
  Source <- MCSource
  NoSection = "none"
  SectionQueries = {"steps"}
  TemplateQueries = {"forms"}
  TopK = 3
  VectorCandidates = 3
  WordCandidates = 4
  RrfK = 60
  VectorWeight = 1
  WordWeight = 1
  MaxDistance = 4
  Window = 1
  SectionMax = 9
  TotalMax = 10
  Searches = {t1, t2, t3}
  Queries = {"plain", "slang", "steps", "forms", "formal", "twice", "r1", "r2"}
  Normal <- MCNormal
  Rewritings <- MCRewritings
  CacheSize = 1
  Views = {{"public"}, {"alice"}}
  NotBuilt = NotBuilt
  Worlds <- MCWorlds

INVARIANTS
  TypeOK
  SearchesItsQuestion
  FusionRespectsBoth
  QuotedWithinBudget
  VisibleOnly

CHECK_DEADLOCK FALSE
