----------------------------- MODULE MCFraming -----------------------------
(* A header of two bytes and nodes of six: contents that read over the end *)
(* of a node after a short read, one too large for a node, and error texts *)
(* of one byte with more, as much and less content.                        *)
EXTENDS Framing

SmallProtocols ==
  {[content |-> n, err |-> 0] : n \in {0, 1, 4, 5}}
    \cup {[content |-> n, err |-> 1] : n \in 0..2}
=============================================================================
