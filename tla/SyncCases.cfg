SPECIFICATION CaseSpec
CONSTANTS
  NoFile = NoFile
  NotYet = NotYet
  BodyHunks = {h1, h2}
  ReportedFields = {title}
  OtherFields = {custom}
  SetFields = {tags}
  Displayed = {}
  Digests = {d1, d2, d3}
CHECK_DEADLOCK FALSE
INVARIANTS
  PlanIsThreeWay
  OneSidedChangesSurvive
  ClientTextKeptOrReported
  TagsMergeByMembership

  
