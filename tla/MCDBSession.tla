---------------------------- MODULE MCDBSession ----------------------------
(* Two tries of one session (the accounts trie and one storage trie), one  *)
(* trie key, hence four rows over the two key schemes, and two values.     *)
EXTENDS DBSession, TLC

MCKeys == {<<7>>}
MCPrefixes == {<<>>, <<10>>}
MCSymmetry == Permutations(Values)
=============================================================================
