-------------------------- MODULE MCRouterManager ---------------------------
EXTENDS RouterManager, TLC

CONSTANTS h1, h2

(* "/", "", "u" (one character), "/u", "ab/u", "/u/", "ab" *)
MCPaths ==
  { RootPath,
    [lead |-> Empty, elems |-> <<>>],
    [lead |-> "u", elems |-> <<>>],
    [lead |-> Empty, elems |-> <<"u">>],
    [lead |-> "ab", elems |-> <<"u">>],
    [lead |-> Empty, elems |-> <<"u", Empty>>],
    [lead |-> "ab", elems |-> <<>>] }

MCHandlers == {h1, h2}
Symmetry == Permutations(MCHandlers)
=============================================================================
