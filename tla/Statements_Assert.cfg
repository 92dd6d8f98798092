SPECIFICATION Spec
CONSTANTS
  Person = Person
  Movie = Movie
  Rates = Rates
  Title = Title
  VClass = {Person, Movie}
  EClass = {Rates}
  Relation <- MCRelation
  IntKey = {1}
  StrKey = {11, 12}
  NulKey = {1}
  Attr = {Title}
  Value = {v1, v2}
  Indexes <- MCIndexes
  NoAttr = NoAttr
  Throws = Throws
  Truncated = Truncated
  Declared <- MCDeclared
  MaxNamed = 2
  MaxCalls = 3
CHECK_DEADLOCK FALSE
INVARIANT NoAssertionFails
