------------------------------ MODULE Snapshot ------------------------------
(***************************************************************************)
(* Snapshots of one stream (src/process/snapshot/mod.rs): a request makes  *)
(* an entry and a job of its own; the job looks for an IDR until its       *)
(* deadline, runs ffmpeg, and settles the entry.                           *)
(*                                                                         *)
(* An entry's id is the stream and the millisecond: two requests within    *)
(* one share the entry and the files.                                      *)
(***************************************************************************)
EXTENDS Integers, FiniteSets

CONSTANTS
  MaxShots,  \* bound of the model: requests
  Patience   \* looks for an IDR before the deadline
ASSUME SnapshotAssumption == {MaxShots, Patience} \subseteq Nat

Shots == 1 .. MaxShots

VARIABLES
  shots,  \* request -> its job
  shelf,  \* id -> status of the entry
  idr     \* the ring holds an H264 IDR
snapVars == <<shots, shelf, idr>>

SnapshotInit ==
  /\ shots = [n \in Shots |-> [at |-> "none", id |-> 0, looks |-> 0]]
  /\ shelf = [n \in Shots |-> "absent"] /\ idr = FALSE

Taken == Cardinality({n \in Shots : shots[n].at # "none"})
LastId == IF Taken = 0 THEN 0 ELSE shots[Taken].id
Job(n, from, to) == shots[n].at = from /\ shots' = [shots EXCEPT ![n].at = to]
Entry(n, status) == shelf' = [shelf EXCEPT ![shots[n].id] = status]

\* submit enters the request as pending, over an entry of the same id.
Submit ==
  /\ Taken < MaxShots
  /\ \E id \in {LastId, LastId + 1} \ {0} :
       /\ shots' = [shots EXCEPT ![Taken + 1] = [at |-> "submitted", id |-> id, looks |-> 0]]
       /\ shelf' = [shelf EXCEPT ![id] = "pending"]
  /\ UNCHANGED idr

Run(n) == Job(n, "submitted", "looking") /\ Entry(n, "running") /\ UNCHANGED idr

\* wait_latest_idr: one look more than the deadline leaves time for.
wait_latest_idr_Forever(n) ==                                   \* mutant
  /\ shots[n].at = "looking" /\ idr /\ Job(n, "looking", "encoding") /\ UNCHANGED <<shelf, idr>>
wait_latest_idr(n) ==
  /\ shots[n].at = "looking"
  /\ IF idr THEN Job(n, "looking", "encoding") /\ UNCHANGED shelf
     ELSE IF shots[n].looks = Patience THEN Job(n, "looking", "done") /\ Entry(n, "failed")
     ELSE shots' = [shots EXCEPT ![n].looks = @ + 1] /\ UNCHANGED shelf
  /\ UNCHANGED idr

\* Files and ffmpeg: completed with a path, or failed for whatever reason.
Encode(n) ==
  /\ Job(n, "encoding", "done") /\ \E end \in {"completed", "failed"} : Entry(n, end)
  /\ UNCHANGED idr

\* A publisher pushes an IDR, or the ring is reset.
Media == idr' = ~idr /\ UNCHANGED <<shots, shelf>>

JobStep(n) == Run(n) \/ wait_latest_idr(n) \/ Encode(n)
SnapshotNext == Submit \/ Media \/ \E n \in Shots : JobStep(n)
----------------------------------------------------------------------------
SnapshotTypeOK ==
  /\ shots \in [Shots -> [at : {"none", "submitted", "looking", "encoding", "done"},
                          id : 0 .. MaxShots, looks : 0 .. Patience]]
  /\ shelf \in [Shots -> {"absent", "pending", "running", "completed", "failed"}]
  /\ idr \in BOOLEAN

\* Every snapshot asked for is completed or failed in the end, also when no IDR ever
\* comes and when requests share an entry (snapshot/mod.rs:120-127, 192-210, 229-264).
SnapshotSettles ==
  \A n \in Shots : shelf[n] # "absent" ~> shelf[n] \in {"completed", "failed"}
=============================================================================
