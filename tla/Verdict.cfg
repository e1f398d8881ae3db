CONSTANTS
  Letters = {"a", "b"}
  NameLetters = {"a"}
  MaxGlob = 6
  MaxPath = 6
  MaxWords = 5
  MaxStream = 9
  MaxLine = 3
  MaxChunk = 5
  MaxLabels = 3
  MaxPhrase = 4
  ToolNames <- SomeNames
  MaxArgs = 2
  Paired = {"none", "allow", "deny", "init"}
  RuleSets = {"unix", "exfil", "remote", "windows", "disk", "deletes", "red"}
SPECIFICATION Spec
INVARIANTS
  AllowRuleClearsNoMore
  JudgeOnlyRaises
  GlobIsExact
  RootsConfine
  EgressIsSeen
  FramesAreLines
  DisguisesAreSeen
  WhatRunsIsClassified
  SpellingsAgree
  InstructionsAreSeen
  CallsAreSeen
  PolicyIsKept
PROPERTIES
  EvidenceNeverHelps
CHECK_DEADLOCK FALSE
