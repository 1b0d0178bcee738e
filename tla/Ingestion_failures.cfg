\* What the loaders do of "the watermark advances only after the whole batch
\* succeeded".
SPECIFICATION Spec
CONSTANTS
  e1 = e1  e2 = e2  x1 = x1  s1 = s1  p1 = p1
  org = org  person = person  paper = paper
  Runner = {r1, r2}
  EntityRow = {e1, e2}
  RelationRow = {x1}
  ScholarRow = {s1}
  PaperRow = {p1}
  Vertex = {org, person, paper}
  VertexOf <- MCVertexOf
  Ends <- MCEnds
  Keyed = {e1}
  BatchSize = 2
  Mixes = {{e1, x1}, {s1}, {p1}}
  MaxTime = 2
  MaxVersion = 2
  MaxFaults = 1
  None = None
CHECK_DEADLOCK FALSE
PROPERTIES
  OnlyAfterSuccess
