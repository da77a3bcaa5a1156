------------------------------ MODULE Streams ------------------------------
(***************************************************************************)
(* The stream registry as the protocol servers see it                      *)
(* (src/core/stream_manager.rs): one entry per stream name, with the       *)
(* publisher slot and the status.  Rings and parameter sets are            *)
(* PublishSession's and FrameRing's subject.                               *)
(*                                                                         *)
(* Every helper is a function from registry to registry, so that a handler *)
(* that makes several calls is one step composed of them.  What happens    *)
(* between two calls of one handler is PublishSession's subject.           *)
(***************************************************************************)
EXTENDS Integers, FiniteSets

CONSTANTS
  Streams,  \* stream names
  Actors,   \* whoever may publish, each with its own publisher id
  Nobody    \* no publisher, no stream

ASSUME NobodyAssumption == Nobody \notin Actors \cup Streams

Names == Streams \cup {Nobody}
Statuses == {"Created", "Unpublished", "Publishing", "Stopped"}

VARIABLES
  used,    \* the names that occur in a behaviour, fixed at its start
  reg,     \* stream -> what the registry has for it
  relies,  \* history: actor -> the streams whose slot it acquired and did not give up
  lost     \* history: streams whose slot its holder can no longer give back

claims == <<relies, lost, used>>
streams == <<reg, claims, used>>

\* stray is history: somebody without the slot put the stream on air since the slot
\* last changed hands.
Vacant == [live |-> FALSE, slot |-> Nobody, status |-> "Created", stray |-> FALSE]
Entries ==
  [live : BOOLEAN, slot : Actors \cup {Nobody}, status : Statuses, stray : BOOLEAN]

StreamsInit ==
  /\ used \subseteq Streams
  /\ reg = [s \in Streams |-> Vacant]
  /\ relies = [a \in Actors |-> {}]
  /\ lost = {}

\* An existing stream is left as it is, its publisher included.
create_stream(r, s) == IF r[s].live THEN r ELSE [r EXCEPT ![s] = [Vacant EXCEPT !.live = TRUE]]
remove_stream(r, s) == [r EXCEPT ![s] = Vacant]

set_status_Blind(r, s, value) == [r EXCEPT ![s].status = value]  \* mutant
set_status(r, s, value) == IF r[s].live THEN [r EXCEPT ![s].status = value] ELSE r

\* The slot goes to whoever finds it free or its own.
CanAcquire_Always(r, s, a) == r[s].live                         \* mutant
CanAcquire(r, s, a) == r[s].live /\ r[s].slot \in {Nobody, a}

acquire_publisher(r, s, a) == [r EXCEPT ![s].slot = a, ![s].stray = FALSE]

\* Only the holder's release frees it; the servers then set Unpublished.
Holds(r, s, a) == r[s].live /\ r[s].slot = a

Freed_KeepsStatus(entry) == [entry EXCEPT !.slot = Nobody, !.stray = FALSE]  \* mutant
Freed(entry) == [entry EXCEPT !.slot = Nobody, !.stray = FALSE, !.status = "Unpublished"]
release_publisher(r, s, a) == IF Holds(r, s, a) THEN [r EXCEPT ![s] = Freed(@)] ELSE r

OnAir(r, s, a) ==
  [r EXCEPT ![s].status = "Publishing", ![s].stray = @ \/ r[s].slot # a]
set_publishing(r, s, a) == IF r[s].live THEN OnAir(r, s, a) ELSE r

\* publish_frame asks for the stream and for nobody's slot; Stopped stays.
publish_frame(r, s, a) ==
  IF r[s].live /\ r[s].status \in {"Created", "Unpublished"} THEN OnAir(r, s, a) ELSE r

\* a got the slot of s, and can no longer give back those of others.
Acquires(a, s, others) ==
  /\ relies' = [relies EXCEPT ![a] = @ \cup {s}]
  /\ lost' = (lost \cup others) \ {s}
  /\ UNCHANGED used
GivesUp(a, s) == relies' = [relies EXCEPT ![a] = @ \ {s}] /\ UNCHANGED <<lost, used>>
Loses(others) == lost' = lost \cup others /\ UNCHANGED <<reg, relies, used>>

\* POST /api/streams and DELETE /api/stream/<name>.
CreateStream(s) == reg' = create_stream(reg, s) /\ UNCHANGED claims
RemoveStream(s) ==
  /\ reg' = remove_stream(reg, s)
  /\ relies' = [a \in Actors |-> relies[a] \ {s}]
  /\ lost' = lost \ {s}
  /\ UNCHANGED used

\* A stream without a publisher is Publishing only when somebody who does not hold
\* its slot put it on air: every way to give the slot back ends in Unpublished
\* (stream_manager.rs:259-279, 481-489).
OffAir ==
  \A s \in Streams : reg[s].status = "Publishing" /\ reg[s].slot = Nobody => reg[s].stray
=============================================================================
