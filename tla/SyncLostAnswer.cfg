SPECIFICATION Spec
CONSTANTS
  NoFile = NoFile
  NoTree = NoTree
  Untouched = Untouched
  NoCommit = NoCommit
  Clients = {c1}
  BodyHunks = {body}
  ReportedFields = {}
  OtherFields = {}
  SetFields = {}
  PostPaths = {}
  LabelPaths = {}
  PlainPaths = {page}
  MaxToken = 1
  MaxNow = 1
  Faults = {"lost"}
  QuietServer = TRUE
  QuietClients = TRUE
INVARIANTS
  NoLostEdit
