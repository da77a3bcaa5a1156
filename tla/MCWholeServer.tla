--------------------------- MODULE MCWholeServer ---------------------------
\* One client of each kind: any two of them on one stream, any one on two streams.
\* And short stretches of media: two access units, one with a parameter set and a slice
\* in fragments, one with two NALs; 30 fps video on a 90 kHz clock that jumps and steps
\* back, AAC at 48 kHz.
EXTENDS WholeServer

CONSTANTS c1, r1, w1, p1, s1, s2
MCActors == {c1, r1, p1} \cup ({w1} \X (1 .. 2))
MCCasts ==
  [who : {x \in SUBSET {c1, r1, w1, p1} : Cardinality(x) = 2}, names : {{s1}}]
  \cup [who : {{c1}, {r1}, {w1}, {p1}}, names : {{s1, s2}}]
  \cup [who : {{}}, names : {{}}]

TwoUnits ==
  << << [kind |-> "config", parts |-> 1], [kind |-> "slice", parts |-> 2],
        [kind |-> "slice", parts |-> 1] >>,
     << [kind |-> "info", parts |-> 1], [kind |-> "slice", parts |-> 2] >> >>
FilmSteps == {3003, 180000, -90000}
SoundSteps == {1024, -1}
=============================================================================
