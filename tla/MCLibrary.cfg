\* Two streams of two tags, three entities, up to four relationships and three hops,
\* three backup files, two processes that open the database three times; one fault in each scene.
SPECIFICATION LibrarySpec
CONSTANTS
  n1 = n1
  n2 = n2
  u1 = u1
  t1 = t1
  t2 = t2
  m1 = m1
  m2 = m2
  p1 = p1
  p2 = p2
  p3 = p3
  None = None
  Nobody = Nobody
  NoPath = NoPath
  Name = {n1, n2}
  User = {u1}
  Tag = {t1, t2}
  Memory = {m1, m2}
  Word <- MCWord
  Lower <- MCLower
  Relation = {"uses"}
  MaxStreams = 2
  MaxEntities = 3
  MaxLinks = 4
  MaxMishaps = 1
  MaxHops = 3
  Path = {p1, p2, p3}
  Retention <- MCRetention
  MaxClock = 3
  MaxProcessed = 2
  MaxDiskFaults = 1
  Processes = {server, cli}
  Memories = {r1, r2}
  MaxOpens = 3
  MaxFaults = 1
  MaxKills = 1
  MarkerLen <- MCMarkerLen
INVARIANTS OpenIsReady OnlyFaultsFail OpenRepairsIndex
           OkStreamsAreWhole TraverseFindsNear TornIsReported
           CompileIsFirstFit SecretsAreReplaced NoteSectionsAreWhole ImportKeepsTexts
           TableKeepsContents ClientsAreSeparate AnswersMatchRequests FrontEndsAgree
PROPERTIES RenamesKeepTags MentionsKeepMeaning BackupsSurvive
SYMMETRY Renaming
CHECK_DEADLOCK FALSE
