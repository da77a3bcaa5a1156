--------------------------- MODULE MCMediaServer ---------------------------
\* One client of each kind: any two of them on one stream, any one on two streams.
EXTENDS MediaServer

CONSTANTS c1, r1, w1, p1, s1, s2
MCActors == {c1, r1, p1} \cup ({w1} \X (1 .. 2))
MCCasts ==
  [who : {x \in SUBSET {c1, r1, w1, p1} : Cardinality(x) = 2}, names : {{s1}}]
  \cup [who : {{c1}, {r1}, {w1}, {p1}}, names : {{s1, s2}}]
=============================================================================
