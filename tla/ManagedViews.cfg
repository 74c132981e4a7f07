SPECIFICATION MCRivals
CONSTANTS
  p1 = p1
  p2 = p2
  p3 = p3
  a = a
  b = b
  x = x
  s2 = s2
  Procs = {p1, p2, p3}
  Owners = {a, b}
  OwnerOf <- MCOwnerOf
  Paths = {x, y}
  Scopes = {s1, s2}
  ToolScope = s1
  AutoProcs = {p1}
  RootPath = RootPath
  NoProc = NoProc
  NoOwner = NoOwner
  NoScope = NoScope
PROPERTY ReleasedViewsAgree
