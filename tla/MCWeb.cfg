SPECIFICATION FairSpec
CONSTANTS
  a = a
  ab = ab
  x = x
  f = f
  e = e
  Empty = e
  None = None
  Static = {a, ab}
  Params = {x}
  Stars = {f}
  Begins <- SomeBegins
  Subs <- SomeSubs
  Patterns <- SomePatterns
  Paths <- SomePaths
  MaxSetup = 5
INVARIANTS
  TypeOK
  NeverLost
  RoutedRight
  GroupGuarded
  ChainComplete
PROPERTIES
  RequestEnds
