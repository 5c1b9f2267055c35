-------------------------------- MODULE MCMail --------------------------------
(***************************************************************************)
(* Messages for TLC: a leaf, or up to two parts that are leaves or again   *)
(* multiparts of two leaves, any of them with unreadable parts.            *)
(***************************************************************************)
EXTENDS Mail

\* A message of one leaf.
LeafOf(kind, attached, named, size, whole) ==
    <<[multipart |-> FALSE, span |-> 1, legible |-> 1, kind |-> kind, attached |-> attached,
       named |-> named, size |-> size, whole |-> whole]>>

\* A message of parts of which the first `good` can be read.
MultipartOf(parts, good) ==
    LET within == FlattenSeq(parts)
    IN <<[multipart |-> TRUE, span |-> 1 + Len(within),
          legible |-> 1 + Len(FlattenSeq(SubSeq(parts, 1, good)))]>> \o within

MCLeaves ==
    {LeafOf("text/plain", FALSE, FALSE, 0, TRUE), LeafOf("text/plain", FALSE, FALSE, 1, TRUE),
     LeafOf("text/plain", FALSE, TRUE, 2, TRUE),  LeafOf("text/html", FALSE, FALSE, 1, TRUE),
     LeafOf("text/plain", TRUE, TRUE, 1, TRUE),   LeafOf("other", FALSE, TRUE, 1, TRUE),
     LeafOf("other", TRUE, FALSE, 3, TRUE),       LeafOf("other", FALSE, FALSE, 1, TRUE),
     LeafOf("text/other", FALSE, TRUE, 2, TRUE),  LeafOf("text/html", FALSE, FALSE, 2, FALSE)}

Multiparts(parts) ==
    {MultipartOf(<<p>>, g) : p \in parts, g \in 0 .. 1}
    \cup {MultipartOf(<<p, q>>, g) : p \in parts, q \in parts, g \in 1 .. 2}

MCMessages == MCLeaves \cup Multiparts(MCLeaves \cup {MultipartOf(<<p, q>>, g) :
                             p \in MCLeaves, q \in {LeafOf("text/html", FALSE, FALSE, 1, TRUE),
                                                    LeafOf("other", FALSE, TRUE, 1, TRUE)},
                             g \in 0 .. 2})
=============================================================================
