SPECIFICATION FairSpec
CONSTANTS
  NoFile = NoFile
  NoTree = NoTree
  Untouched = Untouched
  NoCommit = NoCommit
  Clients = {c1}
  BodyHunks = {body}
  ReportedFields = {}
  OtherFields = {}
  SetFields = {}
  PostPaths = {post}
  LabelPaths = {}
  PlainPaths = {}
  MaxToken = 2
  MaxNow = 6
  Faults = {"git", "merge", "base", "manifest"}
  QuietServer = FALSE
  QuietClients = FALSE
PROPERTIES
  Converges
