SPECIFICATION Spec

CONSTANTS
  c1 = c1
  c2 = c2
  c3 = c3
  c4 = c4
  v1 = v1
  v2 = v2
  ghost = "ghost"
  NoLabel = "none"
  Letters = {"a", "b", "c", "d", "e", "f", "g", "h", "i", "j", "k", "l", "m", "n", "o", "p", "q", "r"}
  ChunkSize = 8
  ChunkOverlap = 2
  ClaimIds = {c1, c2, c3, c4}
  Conditions = {"yes", "wide", "no"}
  NoCondition = "none"
  FoldOf <- MCFold
  ClaimText <- MCClaimText
  Versions = {v1, v2}
  Laws = {law1}
  Messages = {m1}
  Forged = Forged
  NoQuestion = NoQuestion
  Questions = {"split"}
  Scenario <- MCScenario
  MaxHits = 1
  MaxCites = 1

INVARIANT HitIsCitable
