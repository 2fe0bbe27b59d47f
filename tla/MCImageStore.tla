--------------------------- MODULE MCImageStore ---------------------------
(* Images for TLC: x is an index of the manifests m1 and m2, which share layer a; m1 lists it *)
(* twice. Both requests are for one name. What is delivered is labelled in full, or not at    *)
(* all, or with its platform only, or not so that a manifest can be told.                     *)
EXTENDS ImageStore, TLC

CONSTANTS n, p, q, x, m1, m2, a, b

MCRef == {[name |-> n, platform |-> p]}
MCRefs == MCRef \cup {[name |-> n, platform |-> q]}
MCDigests == {x, m1, m2, a, b}
MCChildren == (x :> <<m1, m2>>) @@ (m1 :> <<a, a>>) @@ (m2 :> <<a, b>>) @@ (a :> <<>>) @@ (b :> <<>>)
Manifest(name, platform, d) == [name |-> name, platform |-> platform, digest |-> d]
MCLayouts ==
  {{Manifest(None, None, x)}} \cup
  UNION {{{Manifest(n, s, m1)},
          {Manifest(None, s, m1), Manifest(None, t, x)},
          {Manifest(n, s, m1), Manifest(None, s, x)},
          {Manifest(None, s, m1), Manifest(None, s, x)}} : <<s, t>> \in {<<p, q>>, <<q, p>>}}
Symmetry == Permutations(Workers) \cup Permutations({p, q})
===========================================================================
