CONSTANTS
  Points = {p1, p2}
  Boxes = {{p1}, {p1, p2}}
  Searchers = {s1, s2}
  MaxOps = 4
SPECIFICATION Spec
INVARIANTS TypeOK SearchesKeptOut ReplayExact
PROPERTIES ImplementsStore RebuildEnds
