SPECIFICATION Spec
CONSTANTS
  NoFile = NoFile
  NoTree = NoTree
  Untouched = Untouched
  NoCommit = NoCommit
  Clients = {c1}
  BodyHunks = {body}
  ReportedFields = {title}
  OtherFields = {custom}
  SetFields = {tags}
  PostPaths = {post}
  LabelPaths = {labels}
  PlainPaths = {page}
  MaxToken = 2
  MaxNow = 3
  Faults = {"io", "unlink", "quota", "git", "merge", "base", "restore", "crash"}
  QuietServer = TRUE
  QuietClients = TRUE
INVARIANTS
  TypeOK
  NoLostEdit
  QuietRunConverges
  OnlyOwnChanges

  
