SPECIFICATION Spec
CONSTANTS
  NoFile = NoFile
  NoTree = NoTree
  Untouched = Untouched
  NoCommit = NoCommit
  Clients = {c1, c2}
  BodyHunks = {body}
  ReportedFields = {}
  OtherFields = {}
  SetFields = {}
  PostPaths = {post}
  LabelPaths = {}
  PlainPaths = {}
  MaxToken = 1
  MaxNow = 2
  Faults = {"io", "unlink", "quota", "lost", "backup", "download", "remove"}
  QuietServer = FALSE
  QuietClients = FALSE
INVARIANTS
  QuietRunConverges
PROPERTIES
  CommitsAreAtomic
SYMMETRY ClientSymmetry
