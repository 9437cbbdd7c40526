-------------------------------- MODULE MCWeb --------------------------------
(* An instance of Web: the string ab begins with a, e is the empty one.     *)
EXTENDS Web

CONSTANTS a, ab, x, f, e

SomeBegins == {<<a, a>>, <<ab, ab>>, <<ab, a>>, <<a, e>>, <<ab, e>>, <<e, e>>}
SomeSubs == {<<a>>, <<x>>}
SomePatterns == {<<e>>, <<ab>>, <<x>>, <<f>>, <<x, a>>}
SomePaths == {<<e>>, <<a>>, <<ab>>, <<a, a>>, <<a, ab>>, <<ab, a>>, <<a, ab, a>>,
              <<a, e>>, <<e, a, ab>>}
==============================================================================
