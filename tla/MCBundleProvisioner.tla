------------------------ MODULE MCBundleProvisioner ------------------------
(* Model values for TLC: bundle IDs, callers and staging names are interchangeable. A host    *)
(* without subordinate IDs, one with a range of two, and four that New refuses.               *)
EXTENDS BundleProvisioner, TLC

Grant(start, count) == [mine |-> TRUE, formed |-> TRUE, start |-> start, count |-> count]
Other == [mine |-> FALSE, formed |-> TRUE, start |-> 1, count |-> 6]
OnHost(f, g) == [uid |-> 3, gid |-> 2, subuid |-> f, subgid |-> g]

MCHosts == {
  OnHost(<<>>, <<Other>>),
  OnHost(<<Other, Grant(4, 2)>>, <<Grant(4, 2), Grant(2, 2)>>),
  OnHost(<<Grant(2, 2)>>, <<Grant(4, 2)>>),
  OnHost(<<Grant(4, 2)>>, <<Grant(4, 4)>>),
  OnHost(<<Grant(4, 2)>>, <<Other>>),
  OnHost(<<Grant(0, 2), Grant(4, 2)>>, <<Grant(4, 2)>>)}
MCUsers == {[uid |-> 0, gids |-> {0}], [uid |-> 2, gids |-> {0, 2}]}
Symmetry == Permutations(Ids) \cup Permutations(Calls) \cup Permutations(Names)
=============================================================================
