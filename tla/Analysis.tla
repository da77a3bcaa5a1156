------------------------------ MODULE Analysis ------------------------------
(***************************************************************************)
(* Analysis of one stream (src/process/analysis/mod.rs): the table of      *)
(* active sessions, and the task that fills metrics and events.            *)
(*                                                                         *)
(* An abort takes effect where the task yields: while it waits for frames, *)
(* or for ffmpeg.  Until then it goes on writing.                          *)
(***************************************************************************)
EXTENDS Integers

CONSTANTS
  Analysts,      \* HTTP requests that start and stop analyses
  MaxAnalyses,   \* bound of the model: sessions started
  MaxEvents      \* max_events_per_stream; main.rs makes it at least 1
ASSUME AnalysisAssumption == MaxAnalyses \in Nat /\ MaxEvents \in Nat \ {0}

Analyses == 1 .. MaxAnalyses

VARIABLES
  want,      \* analyst -> where its start or stop is, and the session it is about
  running,   \* the session in the table, or 0
  analyser,  \* session -> its task
  metrics,   \* the session whose metrics are stored, or 0
  events,    \* number of events stored
  clashed,   \* history: two starts at once
  launched   \* sessions started
anVars == <<want, running, analyser, metrics, events, clashed, launched>>

AnalysisInit ==
  /\ want = [a \in Analysts |-> [at |-> "idle", n |-> 0]]
  /\ running = 0 /\ metrics = 0 /\ events = 0 /\ clashed = FALSE /\ launched = 0
  /\ analyser = [n \in Analyses |-> [at |-> "none", aborted |-> FALSE]]

Wants(a, from, to, n) == want[a].at = from /\ want' = [want EXCEPT ![a] = [at |-> to, n |-> n]]
Settled == \A a \in Analysts : want[a].at = "idle"
Analysing(n) == analyser[n].at \in {"waiting", "batch", "image"}

StartAnalysis(a) ==
  /\ running = 0 /\ launched < MaxAnalyses
  /\ Wants(a, "idle", "spawn", 0) /\ clashed' = (clashed \/ ~Settled)
  /\ UNCHANGED <<running, analyser, metrics, events, launched>>

Launch(a) ==
  /\ launched < MaxAnalyses /\ Wants(a, "spawn", "insert", launched + 1)
  /\ launched' = launched + 1
  /\ analyser' = [analyser EXCEPT ![launched + 1].at = "waiting"]
  /\ UNCHANGED <<running, metrics, events, clashed>>

\* Another session's entry is replaced, and its abort handle dropped unused.
EnterAnalysis(a) ==
  /\ Wants(a, "insert", "idle", 0) /\ running' = want[a].n
  /\ UNCHANGED <<analyser, metrics, events, clashed, launched>>

\* stop: out of the table, abort, then metrics and events away, each under its lock.
StopAnalysis(a) ==
  /\ running # 0 /\ Wants(a, "idle", "abort", running) /\ running' = 0
  /\ UNCHANGED <<analyser, metrics, events, clashed, launched>>
Abort(a) ==
  /\ Wants(a, "abort", "metrics", want[a].n)
  /\ analyser' = [analyser EXCEPT ![want[a].n].aborted = TRUE]
  /\ UNCHANGED <<running, metrics, events, clashed, launched>>
DropMetrics(a) ==
  /\ Wants(a, "metrics", "events", want[a].n) /\ metrics' = 0
  /\ UNCHANGED <<running, analyser, events, clashed, launched>>
DropEvents(a) ==
  /\ Wants(a, "events", "idle", 0) /\ events' = 0
  /\ UNCHANGED <<running, analyser, metrics, clashed, launched>>

\* The task ---------------------------------------------------------------
AnAside == UNCHANGED <<want, running, clashed, launched>>
Analyser(n, from, to) == analyser[n].at = from /\ analyser' = [analyser EXCEPT ![n].at = to]

\* push_event makes room first.
push_event_NoRoom == events + 1                                 \* mutant
push_event == (IF events >= MaxEvents THEN MaxEvents - 1 ELSE events) + 1

\* recv_batch returns, with an event when the reader was snapped or resynced.
Receive(n) ==
  /\ Analyser(n, "waiting", "batch")
  /\ events' \in {events, push_event} /\ UNCHANGED metrics /\ AnAside

\* One frame through the plugins: metrics and events; an image or a detection is an
\* await of another kind.
Frame(n) ==
  /\ \E to \in {"batch", "waiting", "image"} : Analyser(n, "batch", to)
  /\ metrics' \in {metrics, n} /\ events' \in {events, push_event} /\ AnAside
Image(n) ==
  /\ ~analyser[n].aborted /\ Analyser(n, "image", "batch")
  /\ events' \in {events, push_event} /\ UNCHANGED metrics /\ AnAside
\* The plugins cannot be built, or the hub is gone: the table keeps the session.
Unbuilt(n) ==
  /\ Analyser(n, "waiting", "ended") /\ ~analyser[n].aborted /\ metrics # n
  /\ UNCHANGED <<metrics, events>> /\ AnAside
Aborts(n) ==
  /\ analyser[n].aborted /\ \E from \in {"waiting", "image"} : Analyser(n, from, "ended")
  /\ UNCHANGED <<metrics, events>> /\ AnAside

AnalysisNext ==
  \/ \E a \in Analysts :
       StartAnalysis(a) \/ Launch(a) \/ EnterAnalysis(a) \/ StopAnalysis(a)
       \/ Abort(a) \/ DropMetrics(a) \/ DropEvents(a)
  \/ \E n \in Analyses : Receive(n) \/ Frame(n) \/ Image(n) \/ Unbuilt(n) \/ Aborts(n)
----------------------------------------------------------------------------
AnalysisTypeOK ==
  /\ want \in [Analysts -> [at : {"idle", "spawn", "insert", "abort", "metrics", "events"},
                            n : 0 .. MaxAnalyses]]
  /\ {running, metrics, launched} \subseteq 0 .. MaxAnalyses
  /\ analyser \in [Analyses -> [at : {"none", "waiting", "batch", "image", "ended"}, aborted : BOOLEAN]]
  /\ events \in 0 .. MaxEvents

\* An analysis that runs is the one in the table, or was aborted.
NoStrayAnalysis ==
  Settled /\ ~clashed => \A n \in Analyses : Analysing(n) => n = running \/ analyser[n].aborted
=============================================================================
