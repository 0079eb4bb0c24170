\* A suite of two cases over a library that is ingested into meanwhile.
SPECIFICATION Spec
CONSTANTS
  SuffixOf <- MCSuffixOf
  Dotted = {".staging", ".trash", ".git"}
  ArtifactRoot <- MCArtifactRoot
  MaxMatches = 3
  FsRoots <- MCFsRoots
  OutsideLinks <- MCOutsideLinks
  IgnoredDirs = {".git"}
  FsExtensions = {".md", ".py"}
  MaxReadChars = 2
  MaxGrepMatches = 4
  MaxLsEntries = 3
  MaxGlobResults = 8
  SortedKeys <- MCSortedKeys
  TopKMax = 2
  TopKDefault = 1
  SchemaYaml <- MCSchema
  Extractions <- MCExtractions
  WorkFiles <- MCWork
  CaseYaml <- MCCases
  Options <- MCOptions
  ToolCalls <- MCToolCalls
  Citations <- MCCitations
  Answers <- MCAnswers
  Uuids <- MCUuids
  Queries = {"risk"}
  Elapsed = {2}
  MaxCalls = 2
  MaxChunks = 2
INVARIANTS
  AcceptedIsWritable
  ListedIsWhole
  ShownIsReadable
  HitsLead
  ReadIsCovered
  VerdictsAreOwn
\* The suite and the ingestion come to their end.
CHECK_DEADLOCK FALSE
