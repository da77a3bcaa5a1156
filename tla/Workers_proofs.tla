--------------------------- MODULE Workers_proofs ---------------------------
(***************************************************************************)
(* For any number of callers, sessions and tasks: whatever runs beside a   *)
(* stream can be stopped, a keyframe request goes to whoever publishes, no *)
(* recorded segment is left open in the index, and index.json says what    *)
(* the index says.                                                         *)
(***************************************************************************)
EXTENDS Workers, FiniteSetTheorems, TLAPS

(* Play relays *************************************************************)

\* Whoever is between taking the slot and taking its route down has the slot.
RouteOwned ==
  ~astray => \A b \in Broadcasters :
    /\ cast[b] \in {"held", "live", "routed", "unrouted"} => owner = b
    /\ cast[b] = "routed" => route = b
RelaysInv == RelaysTypeOK /\ RouteOwned /\ NoStrayRelay

LEMMA InitRelays == RelaysInit => RelaysInv
<1> SUFFICES ASSUME RelaysInit PROVE RelaysInv
  OBVIOUS
<1>1. Quiet \in Relays /\ ~Quiet.listed /\ Quiet.at = "idle"
  BY DEF Quiet, Relays
<1>2. RelaysTypeOK
  BY <1>1 DEF RelaysInit, RelaysTypeOK
<1>3. RouteOwned
  BY DEF RelaysInit, RouteOwned
<1>4. NoStrayRelay
  BY <1>1 DEF RelaysInit, NoStrayRelay
<1> QED
  BY <1>2, <1>3, <1>4 DEF RelaysInv

LEMMA BroadcasterStep ==
  ASSUME RelaysInv, NEW b \in Broadcasters,
         TakeSlot(b) \/ GoOnAir(b) \/ SetupFails(b) \/ RegisterRoute(b) \/ FramePublished(b)
         \/ Unregister(b) \/ StopForeign(b) \/ GiveSlotBack(b) \/ NoSlotToGive(b)
         \/ StopRelays(b) \/ TrackStops(b)
  PROVE  RelaysInv'
<1> USE RelaysAssumption DEF RelaysInv, RelaysTypeOK, RouteOwned, NoStrayRelay, Casts, Listed
<1>1. CASE TakeSlot(b)
  BY <1>1 DEF TakeSlot
<1>2. CASE GoOnAir(b)
  BY <1>2 DEF GoOnAir
<1>3. CASE SetupFails(b)
  BY <1>3 DEF SetupFails, Released
<1>4. CASE RegisterRoute(b)
  BY <1>4 DEF RegisterRoute
<1>5. CASE Unregister(b)
  BY <1>5 DEF Unregister
<1>6. CASE StopForeign(b)
  BY <1>6 DEF StopForeign
<1>7. CASE GiveSlotBack(b)
  BY <1>7 DEF GiveSlotBack, Released
<1>8. CASE StopRelays(b)
  BY <1>8 DEF StopRelays
<1>9. CASE TrackStops(b)
  BY <1>9 DEF TrackStops
<1>10. CASE FramePublished(b)
  BY <1>10 DEF FramePublished
<1>11. CASE NoSlotToGive(b)
  <2>1. air' \in BOOLEAN /\ (air' => there')
    <3>1. (air' = FALSE \/ air' = air) /\ there' = there
      BY <1>11 DEF NoSlotToGive
    <3>2. CASE air' = FALSE
      BY <3>2
    <3>3. CASE air' = air
      BY <3>1, <3>3
    <3> QED
      BY <3>1, <3>2, <3>3
  <2>2. cast[b] = "foreign" /\ cast' = [cast EXCEPT ![b] = "ending"]
    BY <1>11 DEF NoSlotToGive
  <2>3. UNCHANGED <<owner, there, route, relay, sweep, astray>>
    BY <1>11 DEF NoSlotToGive
  <2> QED
    BY <2>1, <2>2, <2>3
<1> QED
  BY <1>1, <1>2, <1>3, <1>4, <1>5, <1>6, <1>7, <1>8, <1>9, <1>10, <1>11

\* A DELETE takes the slot along: nobody publishes then, or `astray` says so.
LEMMA DeleteKeeps ==
  ASSUME RelaysInv, DeleteStream
  PROVE  RelaysInv'
BY DEF RelaysInv, RelaysTypeOK, RouteOwned, NoStrayRelay, DeleteStream

\* A play session is in the table exactly while its relay is there.
InTable(r) == r \in Relays /\ (r.listed <=> r.at \in {"spawned", "joining", "playing"})

LEMMA RelayBecomes ==
  ASSUME RelaysInv, NEW w \in Watchers, NEW r, InTable(r), Becomes(w, r),
         RelayOnly, sweep' \subseteq sweep
  PROVE  RelaysInv'
<1>1. relay' \in [Watchers -> Relays] /\ NoStrayRelay'
  BY DEF RelaysInv, RelaysTypeOK, InTable, Becomes, NoStrayRelay
<1> QED
  BY <1>1 DEF RelaysInv, RelaysTypeOK, RouteOwned, RelayOnly

LEMMA WatcherStep ==
  ASSUME RelaysInv, NEW w \in Watchers,
         signal_play_relay_stop(w) \/ AskToPlay(w) \/ RegisterRelay(w) \/ HangsUp(w)
         \/ RelayStep(w) \/ Leave(w) \/ cancel_play_relay(w)
  PROVE  RelaysInv'
<1> SUFFICES \E r : InTable(r) /\ Becomes(w, r) /\ RelayOnly /\ sweep' \subseteq sweep
  BY RelayBecomes
<1> DEFINE old == relay[w]
<1>0. /\ InTable(old) /\ InTable(Quiet) /\ InTable([Quiet EXCEPT !.at = "checked"])
      /\ InTable([Quiet EXCEPT !.at = "spawned", !.listed = TRUE])
  BY DEF RelaysInv, RelaysTypeOK, NoStrayRelay, InTable, Relays, Quiet
<1>1. /\ InTable([old EXCEPT !.told = TRUE])
      /\ InTable([old EXCEPT !.told = TRUE, !.leaving = TRUE])
  BY <1>0 DEF InTable, Relays
<1>2. old.at = "spawned" => InTable([old EXCEPT !.at = "joining"])
  BY <1>0 DEF InTable, Relays
<1>3. old.at = "joining" => InTable([old EXCEPT !.at = "playing"])
  BY <1>0 DEF InTable, Relays
<1> HIDE DEF old
<1>4. CASE signal_play_relay_stop(w)
  BY <1>4, <1>0, <1>1 DEF signal_play_relay_stop, old
<1>5. CASE AskToPlay(w) \/ RegisterRelay(w)
  BY <1>5, <1>0 DEF AskToPlay, RegisterRelay
<1>6. CASE HangsUp(w) \/ cancel_play_relay(w) \/ Notice(w)
  BY <1>6, <1>0 DEF HangsUp, cancel_play_relay, Notice, Ends
<1>7. CASE Join(w) \/ Connect(w)
  BY <1>7, <1>0, <1>2, <1>3 DEF Join, Connect, Ends, old
<1>8. CASE Leave(w)
  BY <1>8, <1>1 DEF Leave, old
<1> QED
  BY <1>4, <1>5, <1>6, <1>7, <1>8 DEF RelayStep

LEMMA RelaysKeep == RelaysInv /\ [RelaysNext]_relayVars => RelaysInv'
<1>1. ASSUME RelaysInv, RelaysNext PROVE RelaysInv'
  BY <1>1, BroadcasterStep, DeleteKeeps, WatcherStep DEF RelaysNext
<1>2. ASSUME RelaysInv, UNCHANGED relayVars PROVE RelaysInv'
  BY <1>2 DEF relayVars, RelaysInv, RelaysTypeOK, RouteOwned, NoStrayRelay
<1> QED
  BY <1>1, <1>2

(* Recorder ****************************************************************)

Done == {"completed", "empty"}

\* What a task has left behind is closed in the index, and so is the segment it is about
\* to leave; only a task with a segment to go to leaves one for the next.
SegmentsClosed ==
  \A n \in Recordings :
    LET job == recorder[n]
        leaves == job.at = "saving" /\ job.then \in {"next", "cut", "ended"}
    IN  /\ \A i \in Nat : i < job.cut => index[<<n, i>>] \in Done
        /\ job.at = "ended" \/ leaves => index[<<n, job.cut>>] \in Done
        /\ job.at = "saving" /\ job.then \in {"next", "cut"} => job.cut < MaxCuts

\* Without a crowd: one task lives, what it writes to the file is what the index says,
\* and the file says so already unless that is under way or failed.
OneWriter ==
  ~crowded =>
    /\ \A m, n \in Recordings : Live(m) /\ Live(n) => m = n
    /\ \A n \in Recordings : recorder[n].at = "saving" => recorder[n].save = index
    /\ (\A n \in Recordings : recorder[n].at \notin {"saving", "failed"}) => file = index

\* Without a crowd one start is under way at most, and then the table has no session; a
\* task that lives is told to stop, in the table, or about to be entered.
OneStart ==
  /\ \A n \in Recordings : n > started => recorder[n].at = "none"
  /\ ~crowded =>
       /\ \A o, p \in Operators : asks[o].at # "idle" /\ asks[p].at # "idle" => o = p
       /\ \A o \in Operators : asks[o].at # "idle" => active = 0
       /\ \A n \in Recordings : Live(n) =>
            \/ n = active \/ recorder[n].told
            \/ \E o \in Operators : asks[o].at = "insert" /\ asks[o].n = n

RecInv == RecorderTypeOK /\ SegmentsClosed /\ OneWriter /\ OneStart

LEMMA InitRec == RecorderInit => RecInv
<1> SUFFICES ASSUME RecorderInit PROVE RecInv
  OBVIOUS
<1>1. RecorderTypeOK
  BY RecorderAssumption DEF RecorderInit, RecorderTypeOK, Recorders, Blank, Marks
<1>2. SegmentsClosed
  BY DEF RecorderInit, SegmentsClosed
<1>3. OneWriter /\ OneStart
  BY DEF RecorderInit, OneWriter, OneStart, Live, Blank
<1> QED
  BY <1>1, <1>2, <1>3 DEF RecInv

\* A task that lives stays itself: its session is told what it was told.
Turns(n, job) ==
  /\ Live(n) /\ job \in Recorders /\ Task(n, job)
  /\ job.told = recorder[n].told /\ RecAside

\* An operator's promises do not depend on how a task goes on.
LEMMA TurnKeepsStart ==
  ASSUME RecInv, NEW n \in Recordings, NEW job, Turns(n, job)
  PROVE  OneStart' /\ recorder' \in [Recordings -> Recorders]
<1>1. recorder' \in [Recordings -> Recorders] /\ recorder'[n] = job
      /\ \A m \in Recordings : m # n => recorder'[m] = recorder[m]
  BY DEF RecInv, RecorderTypeOK, Turns, Task
<1>2. \A m \in Recordings : Live(m)' => Live(m) /\ recorder'[m].told = recorder[m].told
  BY <1>1 DEF Turns, Live
<1>3. \A m \in Recordings : m > started' => recorder'[m].at = "none"
  <2>1. started' = started /\ recorder[n].at # "none"
    BY DEF Turns, RecAside, Live
  <2>2. \A m \in Recordings : m > started => m # n
    BY <2>1 DEF RecInv, OneStart
  <2> QED
    BY <1>1, <2>1, <2>2 DEF RecInv, OneStart
<1> QED
  BY <1>1, <1>2, <1>3 DEF RecInv, OneStart, Turns, RecAside

\* The task goes on without a word to the index, or fails.
LEMMA TaskGoesOn ==
  ASSUME RecInv, NEW n \in Recordings, NEW job, Turns(n, job),
         job.cut = recorder[n].cut, job.at \in {"waiting", "writing", "failed"},
         recorder[n].at = "saving" => job.at = "failed",
         UNCHANGED <<index, file>>
  PROVE  RecInv'
<1>1. recorder' \in [Recordings -> Recorders] /\ OneStart'
  BY TurnKeepsStart
<1>2. recorder'[n] = job /\ \A m \in Recordings : m # n => recorder'[m] = recorder[m]
  BY DEF RecInv, RecorderTypeOK, Turns, Task
<1>3. RecorderTypeOK'
  BY <1>1 DEF RecInv, RecorderTypeOK, Turns, RecAside
<1>4. SegmentsClosed'
  BY <1>2 DEF RecInv, SegmentsClosed
<1>5. OneWriter'
  BY <1>2 DEF RecInv, OneWriter, Turns, Live, RecAside
<1> QED
  BY <1>1, <1>3, <1>4, <1>5 DEF RecInv

\* persist_index, with a mark that closes the segment when the task is about to leave it.
LEMMA TaskSaves ==
  ASSUME RecInv, NEW n \in Recordings, NEW job, NEW mark \in Marks, Turns(n, job),
         recorder[n].at # "saving", job.cut = recorder[n].cut, job.at = "saving",
         index' = upsert_index_entry(n, mark), job.save = index',
         job.then # "waiting" => mark \in Done,
         job.then \in {"next", "cut"} => job.cut < MaxCuts,
         UNCHANGED file
  PROVE  RecInv'
<1>1. recorder' \in [Recordings -> Recorders] /\ OneStart'
  BY TurnKeepsStart
<1>2. recorder'[n] = job /\ \A m \in Recordings : m # n => recorder'[m] = recorder[m]
  BY DEF RecInv, RecorderTypeOK, Turns, Task
<1>3. job.cut \in 0 .. MaxCuts /\ <<n, job.cut>> \in Segments
  BY DEF Turns, Recorders, Segments
<1>4. /\ index' \in [Segments -> Marks] /\ index'[<<n, job.cut>>] = mark
      /\ \A s \in Segments : s # <<n, job.cut>> => index'[s] = index[s]
  <2>1. index' = [index EXCEPT ![<<n, job.cut>>] = mark]
    BY DEF upsert_index_entry
  <2> QED
    BY <2>1, <1>3 DEF RecInv, RecorderTypeOK
<1>5. RecorderTypeOK'
  BY <1>1, <1>4 DEF RecInv, RecorderTypeOK, Turns, RecAside
<1>6. SegmentsClosed'
  <2>1. ASSUME NEW m \in Recordings, NEW i \in Nat, i <= recorder[m].cut, <<m, i>> # <<n, job.cut>>
        PROVE  index'[<<m, i>>] = index[<<m, i>>]
    <3>1. recorder[m].cut \in 0 .. MaxCuts
      BY DEF RecInv, RecorderTypeOK, Recorders
    <3>2. <<m, i>> \in Segments
      BY <2>1, <3>1, RecorderAssumption DEF Segments
    <3> QED
      BY <2>1, <3>2, <1>4
  <2>2. \A m \in Recordings : recorder[m].cut \in 0 .. MaxCuts
    BY DEF RecInv, RecorderTypeOK, Recorders
  <2>3. ASSUME NEW m \in Recordings, m # n
        PROVE  /\ \A i \in Nat : i <= recorder[m].cut => index'[<<m, i>>] = index[<<m, i>>]
               /\ recorder'[m] = recorder[m]
    BY <2>1, <2>3, <1>2
  <2>4. \A i \in Nat : i < job.cut => index'[<<n, i>>] = index[<<n, i>>]
    BY <2>1, <2>2, RecorderAssumption
  <2> QED
    BY <1>2, <1>4, <2>2, <2>3, <2>4, RecorderAssumption DEF RecInv, SegmentsClosed
<1>7. OneWriter'
  BY <1>2 DEF RecInv, OneWriter, Turns, Live, RecAside
<1> QED
  BY <1>1, <1>5, <1>6, <1>7 DEF RecInv

\* write_index_file: the copy reaches the file, and the task goes where it was bound for.
LEMMA TaskSaved ==
  ASSUME RecInv, NEW n \in Recordings, write_index_file(n)
  PROVE  RecInv'
<1> DEFINE on == [recorder[n] EXCEPT !.save = Blank]
           job == CASE recorder[n].then = "next" -> Next_Cut(on, "opening")
                     [] recorder[n].then = "cut" -> Next_Cut(on, "writing")
                     [] OTHER -> [on EXCEPT !.at = recorder[n].then]
<1>1. /\ recorder[n] \in Recorders /\ recorder[n].at = "saving" /\ Task(n, job)
      /\ file' = recorder[n].save /\ index' = index /\ RecAside
  BY DEF write_index_file, Saved, RecInv, RecorderTypeOK
<1>2. on \in Recorders /\ on.at = "saving" /\ on.cut = recorder[n].cut /\ on.told = recorder[n].told
  BY <1>1 DEF Recorders, Blank, Marks
<1>3. recorder[n].then \in {"next", "cut"} =>
        /\ job \in Recorders /\ job.at \in {"opening", "writing"}
        /\ job.cut = recorder[n].cut + 1 /\ job.told = recorder[n].told
  <2>1. recorder[n].then \in {"next", "cut"} => recorder[n].cut + 1 \in 0 .. MaxCuts
    <3>1. recorder[n].then \in {"next", "cut"} => recorder[n].cut < MaxCuts
      BY <1>1 DEF RecInv, SegmentsClosed
    <3>2. recorder[n].cut \in 0 .. MaxCuts
      BY <1>1 DEF Recorders
    <3> QED
      BY <3>1, <3>2, RecorderAssumption
  <2> QED
    BY <1>2, <2>1 DEF Next_Cut, Recorders
<1>4. recorder[n].then \notin {"next", "cut"} =>
        /\ job \in Recorders /\ job.at \in {"waiting", "ended"} /\ job.at = recorder[n].then
        /\ job.cut = recorder[n].cut /\ job.told = recorder[n].told
  BY <1>1, <1>2 DEF Recorders
<1> HIDE DEF job, on
<1>5. Turns(n, job)
  BY <1>1, <1>3, <1>4 DEF Turns, Live
<1>6. recorder' \in [Recordings -> Recorders] /\ OneStart'
  BY <1>5, TurnKeepsStart
<1>7. recorder'[n] = job /\ \A m \in Recordings : m # n => recorder'[m] = recorder[m]
  BY <1>1 DEF RecInv, RecorderTypeOK, Task
<1>8. RecorderTypeOK'
  BY <1>1, <1>6 DEF RecInv, RecorderTypeOK, RecAside, Recorders
<1>9. SegmentsClosed'
  <2>1. recorder[n].cut \in 0 .. MaxCuts /\ recorder[n].then \in {"waiting", "next", "cut", "ended"}
    BY <1>1 DEF Recorders
  <2>2. /\ \A i \in Nat : i < recorder[n].cut => index[<<n, i>>] \in Done
        /\ recorder[n].then # "waiting" => index[<<n, recorder[n].cut>>] \in Done
    BY <1>1, <2>1 DEF RecInv, SegmentsClosed
  <2>3. \A i \in Nat : i < recorder[n].cut + 1 => i < recorder[n].cut \/ i = recorder[n].cut
    BY <2>1, RecorderAssumption
  <2>4. /\ \A i \in Nat : i < job.cut => index[<<n, i>>] \in Done
        /\ job.at = "ended" => index[<<n, job.cut>>] \in Done
        /\ job.at # "saving"
    <3>1. CASE recorder[n].then \in {"next", "cut"}
      BY <1>3, <2>2, <2>3, <3>1
    <3>2. CASE recorder[n].then \notin {"next", "cut"}
      BY <1>4, <2>2, <3>2
    <3> QED
      BY <3>1, <3>2
  <2> QED
    BY <1>1, <1>7, <2>4 DEF RecInv, SegmentsClosed
<1>10. OneWriter'
  BY <1>1, <1>3, <1>4, <1>7 DEF RecInv, OneWriter, Live, RecAside
<1> QED
  BY <1>6, <1>8, <1>9, <1>10 DEF RecInv

LEMMA TaskStep ==
  ASSUME RecInv, NEW n \in Recordings, RecorderStep(n) \/ Fails(n)
  PROVE  RecInv'
<1> DEFINE old == recorder[n]
<1>1. old \in Recorders /\ old.cut \in 0 .. MaxCuts /\ index \in [Segments -> Marks]
  BY DEF RecInv, RecorderTypeOK, Recorders
\* What a write to the index and its copy come to.
<1>2. ASSUME NEW mark \in Marks, NEW then \in {"waiting", "next", "cut", "ended"},
             old.at \in {"opening", "waiting"}, Persist(n, mark, then),
             then # "waiting" => mark \in Done, then \in {"next", "cut"} => old.cut < MaxCuts
      PROVE  RecInv'
  <2> DEFINE job == [old EXCEPT !.at = "saving", !.then = then, !.save = index']
  <2>1. index' \in [Segments -> Marks]
    BY <1>1, <1>2 DEF Persist, upsert_index_entry
  <2>2. /\ job \in Recorders /\ job.at = "saving" /\ job.then = then /\ job.save = index'
        /\ job.cut = old.cut /\ job.told = old.told
    BY <1>1, <2>1 DEF Recorders
  <2>3. Turns(n, job) /\ index' = upsert_index_entry(n, mark) /\ UNCHANGED file
    BY <1>2, <2>2 DEF Turns, Persist, Live
  <2> HIDE DEF job
  <2> QED
    BY <1>2, <2>2, <2>3, TaskSaves
<1>3. CASE Open(n)
  BY <1>2, <1>3 DEF Open, Marks
<1>4. ASSUME NEW then \in {"next", "cut", "ended"}, finish(n, then), old.at = "waiting",
             then \in {"next", "cut"} => old.cut < MaxCuts
      PROVE  RecInv'
  BY <1>2, <1>4 DEF finish, Marks, Done
<1>5. CASE Told(n)
  BY <1>4, <1>5 DEF Told
<1>6. ASSUME NEW to \in {"waiting", "writing", "failed"}, NEW media \in {"none", "audio", "video"},
             NEW save \in [Segments -> Marks], Live(n),
             Task(n, [old EXCEPT !.at = to, !.media = media, !.save = save]),
             old.at = "saving" => to = "failed", UNCHANGED <<index, file>>, RecAside
      PROVE  RecInv'
  <2> DEFINE job == [old EXCEPT !.at = to, !.media = media, !.save = save]
  <2>1. job \in Recorders /\ job.at = to /\ job.cut = old.cut /\ job.told = old.told
    BY <1>1 DEF Recorders
  <2>2. Turns(n, job)
    BY <1>6, <2>1 DEF Turns
  <2> HIDE DEF job
  <2> QED
    BY <1>6, <2>1, <2>2, TaskGoesOn
<1>7. CASE Batch(n)
  <2>1. CASE Task(n, [old EXCEPT !.at = "writing"]) /\ UNCHANGED <<index, file>> /\ RecAside
    <3>1. [old EXCEPT !.at = "writing"]
            = [old EXCEPT !.at = "writing", !.media = old.media, !.save = old.save]
      BY <1>1 DEF Recorders
    <3>2. old.media \in {"none", "audio", "video"} /\ old.save \in [Segments -> Marks]
      BY <1>1 DEF Recorders
    <3> QED
      BY <1>6, <1>7, <2>1, <3>1, <3>2 DEF Batch, Live
  <2> QED
    BY <1>4, <1>7, <2>1 DEF Batch
<1>8. CASE Fails(n)
  <2>1. [old EXCEPT !.at = "failed", !.save = Blank]
          = [old EXCEPT !.at = "failed", !.media = old.media, !.save = Blank]
    BY <1>1 DEF Recorders
  <2>2. old.media \in {"none", "audio", "video"} /\ Blank \in [Segments -> Marks]
    BY <1>1 DEF Recorders, Blank, Marks
  <2> QED
    BY <1>6, <1>8, <2>1, <2>2 DEF Fails, Live
<1>9. CASE write_frame(n)
  <2>1. PICK media \in {"none", "audio", "video"} :
          LET wrote == [old EXCEPT !.media = media]
          IN  \/ Task(n, [wrote EXCEPT !.at = "waiting"]) /\ UNCHANGED <<index, file>> /\ RecAside
              \/ /\ index' = upsert_index_entry(n, "recording")
                 /\ Task(n, [wrote EXCEPT !.at = "saving", !.then = "waiting", !.save = index'])
                 /\ UNCHANGED file /\ RecAside
    BY <1>9 DEF write_frame
  <2> DEFINE wrote == [old EXCEPT !.media = media]
  <2>2. CASE Task(n, [wrote EXCEPT !.at = "waiting"]) /\ UNCHANGED <<index, file>> /\ RecAside
    <3>1. [wrote EXCEPT !.at = "waiting"]
            = [old EXCEPT !.at = "waiting", !.media = media, !.save = old.save]
      BY <1>1 DEF Recorders
    <3>2. old.save \in [Segments -> Marks]
      BY <1>1 DEF Recorders
    <3> QED
      BY <1>6, <1>9, <2>2, <3>1, <3>2 DEF write_frame, Live
  <2>3. CASE /\ index' = upsert_index_entry(n, "recording")
             /\ Task(n, [wrote EXCEPT !.at = "saving", !.then = "waiting", !.save = index'])
             /\ UNCHANGED file /\ RecAside
    <3> DEFINE job == [wrote EXCEPT !.at = "saving", !.then = "waiting", !.save = index']
    <3>1. index' \in [Segments -> Marks]
      BY <1>1, <2>3 DEF upsert_index_entry, Marks
    <3>2. /\ job \in Recorders /\ job.at = "saving" /\ job.then = "waiting"
          /\ job.save = index' /\ job.cut = old.cut /\ job.told = old.told
      BY <1>1, <3>1 DEF Recorders
    <3>3. Turns(n, job) /\ old.at = "writing"
      BY <1>9, <2>3, <3>2 DEF Turns, write_frame, Live
    <3> HIDE DEF job
    <3> QED
      BY <2>3, <3>2, <3>3, TaskSaves DEF Marks
  <2> QED
    BY <2>1, <2>2, <2>3
<1>10. CASE write_index_file(n)
  BY <1>10, TaskSaved
<1> QED
  BY <1>3, <1>5, <1>7, <1>8, <1>9, <1>10 DEF RecorderStep

\* The operators ------------------------------------------------------------
LEMMA OperatorStep ==
  ASSUME RecInv, NEW o \in Operators,
         StartRecording(o) \/ Spawn(o) \/ Enter(o) \/ StopRecording(o)
  PROVE  RecInv'
<1>0. /\ \A p \in Operators : asks[p] \in [at : {"idle", "spawn", "insert"}, n : 0 .. MaxRecordings]
      /\ \A n \in Recordings : recorder[n] \in Recorders
  BY DEF RecInv, RecorderTypeOK
<1>1. CASE StartRecording(o)
  <2>1. RecorderTypeOK' /\ SegmentsClosed'
    BY <1>1, RecorderAssumption DEF StartRecording, Asks, RecInv, RecorderTypeOK, SegmentsClosed
  <2>2. OneWriter'
    BY <1>1 DEF StartRecording, RecInv, OneWriter, Live
  <2>3. OneStart'
    BY <1>1 DEF StartRecording, Asks, Alone, RecInv, RecorderTypeOK, OneStart, Live
  <2> QED
    BY <2>1, <2>2, <2>3 DEF RecInv
<1>2. CASE Spawn(o)
  <2> DEFINE n == started + 1
  <2>1. n \in Recordings /\ started \in Nat
    BY <1>2, RecorderAssumption DEF Spawn, Recordings, RecInv, RecorderTypeOK
  <2>2. /\ recorder' = [recorder EXCEPT ![n].at = "opening"] /\ started' = n
        /\ asks[o].at = "spawn" /\ asks' = [asks EXCEPT ![o] = [at |-> "insert", n |-> n]]
        /\ crowded' = (crowded \/ \E m \in Recordings : Live(m))
        /\ UNCHANGED <<active, index, file>>
    BY <1>2 DEF Spawn, Asks
  <2> HIDE DEF n
  <2>3. /\ recorder' \in [Recordings -> Recorders]
        /\ recorder'[n] = [recorder[n] EXCEPT !.at = "opening"]
        /\ \A m \in Recordings : m # n => recorder'[m] = recorder[m]
    <3>1. [recorder[n] EXCEPT !.at = "opening"] \in Recorders
      BY <1>0, <2>1 DEF Recorders
    <3> QED
      BY <3>1, <2>1, <2>2 DEF RecInv, RecorderTypeOK
  <2>4. /\ recorder'[n].at = "opening" /\ recorder'[n].cut = recorder[n].cut
        /\ recorder'[n].told = recorder[n].told
    BY <1>0, <2>1, <2>3 DEF Recorders
  <2>5. RecorderTypeOK'
    BY <2>1, <2>2, <2>3 DEF RecInv, RecorderTypeOK, Recordings
  <2>6. SegmentsClosed'
    BY <2>2, <2>3, <2>4 DEF RecInv, SegmentsClosed
  <2>7. OneWriter'
    <3>1. recorder[n].at = "none"
      BY <2>1 DEF RecInv, OneStart, n
    <3>2. ~crowded' => ~crowded /\ \A m \in Recordings : Live(m)' => m = n
      BY <2>2, <2>3 DEF Live
    <3> QED
      BY <2>1, <2>2, <2>3, <2>4, <3>1, <3>2 DEF RecInv, OneWriter
  <2>8. OneStart'
    <3>1. \A m \in Recordings : m > started' => recorder'[m].at = "none"
      BY <2>1, <2>2, <2>3 DEF RecInv, OneStart, Recordings, n
    <3>2. ASSUME ~crowded'
          PROVE  ~crowded /\ \A m \in Recordings : Live(m)' => m = n
      BY <2>2, <2>3, <3>2 DEF Live
    <3>3. /\ asks'[o].at = "insert" /\ asks'[o].n = n
          /\ \A p \in Operators : p # o => asks'[p] = asks[p]
      BY <2>2 DEF RecInv, RecorderTypeOK
    <3>4. ASSUME ~crowded'
          PROVE  /\ \A p, q \in Operators : asks'[p].at # "idle" /\ asks'[q].at # "idle" => p = q
                 /\ \A p \in Operators : asks'[p].at # "idle" => active' = 0
      BY <2>2, <3>2, <3>3, <3>4 DEF RecInv, OneStart
    <3> QED
      BY <3>1, <3>2, <3>3, <3>4 DEF OneStart
  <2> QED
    BY <2>5, <2>6, <2>7, <2>8 DEF RecInv
<1>3. CASE Enter(o)
  <2>1. RecorderTypeOK' /\ SegmentsClosed'
    BY <1>0, <1>3, RecorderAssumption DEF Enter, Asks, RecInv, RecorderTypeOK, SegmentsClosed
  <2>2. OneWriter'
    BY <1>3 DEF Enter, RecInv, OneWriter, Live
  <2>3. OneStart'
    BY <1>3 DEF Enter, Asks, RecInv, RecorderTypeOK, OneStart, Live, Recordings
  <2> QED
    BY <2>1, <2>2, <2>3 DEF RecInv
<1>4. CASE StopRecording(o)
  <2>1. active \in Recordings
    BY <1>4, RecorderAssumption DEF StopRecording, Recordings, RecInv, RecorderTypeOK
  <2>2. /\ recorder' \in [Recordings -> Recorders]
        /\ recorder'[active] = [recorder[active] EXCEPT !.told = TRUE]
        /\ \A m \in Recordings : m # active => recorder'[m] = recorder[m]
    <3>1. [recorder[active] EXCEPT !.told = TRUE] \in Recorders
      BY ZenonT(60), <1>0, <2>1 DEF Recorders
    <3> QED
      BY <3>1, <1>4, <2>1 DEF StopRecording, RecInv, RecorderTypeOK
  <2>3. /\ recorder'[active].at = recorder[active].at /\ recorder'[active].cut = recorder[active].cut
        /\ recorder'[active].then = recorder[active].then
        /\ recorder'[active].save = recorder[active].save /\ recorder'[active].told
    BY <1>0, <2>1, <2>2 DEF Recorders
  <2>4. RecorderTypeOK'
    BY <1>4, <2>2, RecorderAssumption DEF StopRecording, RecInv, RecorderTypeOK
  <2>5. SegmentsClosed'
    BY <1>4, <2>2, <2>3 DEF StopRecording, RecInv, SegmentsClosed
  <2>6. OneWriter'
    BY <1>4, <2>2, <2>3 DEF StopRecording, RecInv, OneWriter, Live
  <2>7. OneStart'
    BY <1>4, <2>2, <2>3 DEF StopRecording, RecInv, OneStart, Live
  <2> QED
    BY <2>4, <2>5, <2>6, <2>7 DEF RecInv
<1> QED
  BY <1>1, <1>2, <1>3, <1>4

LEMMA RecKeeps == RecInv /\ [RecorderNext]_recVars => RecInv'
<1>1. ASSUME RecInv, RecorderNext PROVE RecInv'
  BY <1>1, OperatorStep, TaskStep DEF RecorderNext
<1>2. ASSUME RecInv, UNCHANGED recVars PROVE RecInv'
  BY <1>2 DEF recVars, RecInv, RecorderTypeOK, SegmentsClosed, OneWriter, OneStart, Live
<1> QED
  BY <1>1, <1>2

(* Analysis ****************************************************************)

\* Without a clash one start or stop is under way at most, and then the table is empty; a
\* task that runs is in the table, aborted, or the one the start or stop is about.
OneCall ==
  ~clashed =>
    /\ \A a, b \in Analysts : want[a].at # "idle" /\ want[b].at # "idle" => a = b
    /\ \A a \in Analysts : want[a].at # "idle" => running = 0
    /\ \A n \in Analyses : Analysing(n) =>
         \/ n = running \/ analyser[n].aborted
         \/ \E a \in Analysts : want[a].at \in {"insert", "abort"} /\ want[a].n = n
AnInv == AnalysisTypeOK /\ OneCall

LEMMA InitAn == AnalysisInit => AnInv
BY AnalysisAssumption DEF AnalysisInit, AnInv, AnalysisTypeOK, OneCall, Analysing

\* Types: events are counted up to their bound.
LEMMA AnTypes ==
  ASSUME AnInv, AnalysisNext
  PROVE  AnalysisTypeOK'
<1> USE AnalysisAssumption DEF AnInv, AnalysisTypeOK
<1>1. ASSUME NEW a \in Analysts, StartAnalysis(a) \/ EnterAnalysis(a) \/ StopAnalysis(a)
                                \/ DropMetrics(a) \/ DropEvents(a)
      PROVE  AnalysisTypeOK'
  BY <1>1 DEF StartAnalysis, EnterAnalysis, StopAnalysis, DropMetrics, DropEvents, Wants
<1>2. ASSUME NEW a \in Analysts, Launch(a) PROVE AnalysisTypeOK'
  <2> DEFINE n == launched + 1
  <2>1. n \in Analyses /\ n \in 0 .. MaxAnalyses
    BY <1>2 DEF Launch, Analyses
  <2>2. /\ launched' = n /\ analyser' = [analyser EXCEPT ![n].at = "waiting"]
        /\ want' = [want EXCEPT ![a] = [at |-> "insert", n |-> n]]
        /\ UNCHANGED <<running, metrics, events>>
    BY <1>2 DEF Launch, Wants
  <2> HIDE DEF n
  <2> QED
    BY <2>1, <2>2
<1>3. ASSUME NEW a \in Analysts, Abort(a) PROVE AnalysisTypeOK'
  BY ZenonT(60), <1>3 DEF Abort, Wants, Analyses
<1>4. push_event \in 0 .. MaxEvents
  BY DEF push_event
<1>5. ASSUME NEW n \in Analyses, Receive(n) \/ Frame(n) \/ Image(n)
      PROVE  AnalysisTypeOK'
  <2>1. events' \in 0 .. MaxEvents /\ metrics' \in 0 .. MaxAnalyses
    BY <1>4, <1>5 DEF Receive, Frame, Image, Analyses
  <2>2. PICK from, to \in {"batch", "waiting", "image"} : Analyser(n, from, to) /\ AnAside
    BY <1>5 DEF Receive, Frame, Image
  <2>3. analyser' = [analyser EXCEPT ![n].at = to] /\ UNCHANGED <<want, running, launched>>
    BY <2>2 DEF Analyser, AnAside
  <2> QED
    BY <2>1, <2>3
<1>6. ASSUME NEW n \in Analyses, Unbuilt(n) \/ Aborts(n) PROVE AnalysisTypeOK'
  BY <1>6 DEF Unbuilt, Aborts, Analyser, AnAside
<1> QED
  BY <1>1, <1>2, <1>3, <1>5, <1>6 DEF AnalysisNext

\* Calls keep the promise among themselves, ...
LEMMA CallKeeps ==
  ASSUME AnInv, NEW a \in Analysts,
         StartAnalysis(a) \/ Launch(a) \/ EnterAnalysis(a) \/ StopAnalysis(a)
         \/ Abort(a) \/ DropMetrics(a) \/ DropEvents(a)
  PROVE  OneCall'
<1> USE AnalysisAssumption DEF AnInv, AnalysisTypeOK, OneCall, Wants, Analysing
<1>1. CASE StartAnalysis(a)
  BY ZenonT(60), <1>1 DEF StartAnalysis, Settled
<1>2. CASE Launch(a)
  <2> DEFINE n == launched + 1
  <2>1. /\ n \in Analyses /\ want[a].at = "spawn"
        /\ analyser' = [analyser EXCEPT ![n].at = "waiting"]
        /\ want' = [want EXCEPT ![a] = [at |-> "insert", n |-> n]]
        /\ UNCHANGED <<running, clashed>>
    BY <1>2 DEF Launch, Analyses
  <2> HIDE DEF n
  <2>2. /\ want'[a].at = "insert" /\ want'[a].n = n
        /\ \A b \in Analysts : b # a => want'[b] = want[b]
        /\ \A m \in Analyses : m # n => analyser'[m] = analyser[m]
    BY <2>1
  <2>3. ASSUME NEW m \in Analyses, m # n, ~clashed, Analysing(m)
        PROVE  m = running \/ analyser[m].aborted
               \/ \E b \in Analysts : b # a /\ want[b].at \in {"insert", "abort"} /\ want[b].n = m
    BY <2>1, <2>3
  <2>4. ASSUME ~clashed'
        PROVE  /\ \A b, c \in Analysts : want'[b].at # "idle" /\ want'[c].at # "idle" => b = c
               /\ \A b \in Analysts : want'[b].at # "idle" => running' = 0
    BY <2>1, <2>2, <2>4
  <2>5. ASSUME ~clashed', NEW m \in Analyses, Analysing(m)'
        PROVE  m = running' \/ analyser'[m].aborted
               \/ \E b \in Analysts : want'[b].at \in {"insert", "abort"} /\ want'[b].n = m
    <3>1. CASE m = n
      BY <2>2, <3>1
    <3>2. CASE m # n
      <4>1. ~clashed /\ Analysing(m) /\ analyser'[m] = analyser[m] /\ running' = running
        BY <2>1, <2>2, <2>5, <3>2
      <4> QED
        BY <2>2, <2>3, <3>2, <4>1
    <3> QED
      BY <3>1, <3>2
  <2> QED
    BY <2>4, <2>5
<1>3. CASE EnterAnalysis(a)
  <2>1. /\ want[a].at = "insert" /\ want' = [want EXCEPT ![a] = [at |-> "idle", n |-> 0]]
        /\ running' = want[a].n /\ UNCHANGED <<analyser, clashed>>
    BY <1>3 DEF EnterAnalysis
  <2>2. want'[a].at = "idle" /\ \A b \in Analysts : b # a => want'[b] = want[b]
    BY <2>1
  <2>3. ASSUME ~clashed'
        PROVE  /\ \A b \in Analysts : want'[b].at = "idle"
               /\ running = 0 /\ \A b \in Analysts : want[b].at # "idle" => b = a
    BY <2>1, <2>2, <2>3
  <2>4. ASSUME ~clashed', NEW m \in Analyses, Analysing(m)'
        PROVE  m = running' \/ analyser'[m].aborted
    <3>1. m # running
      BY <2>3, <2>4 DEF Analyses
    <3> QED
      BY <2>1, <2>3, <2>4, <3>1
  <2> QED
    BY <2>3, <2>4
<1>4. CASE StopAnalysis(a)
  BY <1>4 DEF StopAnalysis
<1>5. CASE Abort(a)
  BY <1>5 DEF Abort
<1>6. CASE DropMetrics(a) \/ DropEvents(a)
  BY <1>6 DEF DropMetrics, DropEvents
<1> QED
  BY <1>1, <1>2, <1>3, <1>4, <1>5, <1>6

\* ... and a task that goes on or ends keeps it, whatever it stores.
LEMMA AnalyserKeeps ==
  ASSUME AnInv, NEW n \in Analyses,
         Receive(n) \/ Frame(n) \/ Image(n) \/ Unbuilt(n) \/ Aborts(n)
  PROVE  OneCall'
<1>1. AnAside /\ \E from \in {"waiting", "batch", "image"} : \E to : Analyser(n, from, to)
  BY DEF Receive, Frame, Image, Unbuilt, Aborts, Analyser
<1>2. \A m \in Analyses : Analysing(m)' => Analysing(m) /\ analyser'[m].aborted = analyser[m].aborted
  BY <1>1 DEF AnInv, AnalysisTypeOK, Analysing, Analyser
<1> QED
  BY <1>1, <1>2 DEF AnInv, OneCall, AnAside

LEMMA AnKeeps == AnInv /\ [AnalysisNext]_anVars => AnInv'
<1>1. ASSUME AnInv, AnalysisNext PROVE AnInv'
  BY <1>1, AnTypes, CallKeeps, AnalyserKeeps DEF AnalysisNext, AnInv
<1>2. ASSUME AnInv, UNCHANGED anVars PROVE AnInv'
  BY <1>2 DEF anVars, AnInv, AnalysisTypeOK, OneCall, Analysing
<1> QED
  BY <1>1, <1>2

(* HLS *********************************************************************)

TaskRecords ==
  [at : {"none", "reading", "writing", "listing", "pruning", "dead"}, seq : Int, aborted : BOOLEAN]

\* As much of the types as the promise needs: sequence numbers are not bounded here; and
\* a task is not aborted before its session was made.
HlsShape ==
  /\ session \in 0 .. MaxStarts /\ handle \in 0 .. MaxStarts /\ made \in 0 .. MaxStarts
  /\ mine \in [HlsCallers -> 0 .. MaxStarts]
  /\ at \in [HlsCallers -> {"idle", "ensure", "make", "insert", "subscribe", "register",
                            "stop", "forget", "drop", "reap", "untouch"}]
  /\ task \in [Sessions -> TaskRecords] /\ next \in [Sessions -> Int]
  /\ handle <= made /\ (\A c \in HlsCallers : mine[c] <= made)
  /\ \A n \in Sessions : n > made => ~task[n].aborted

NoneRuns == \A n \in Sessions : ~Running(n)
InOrder == session = handle /\ \A n \in Sessions : Running(n) <=> n = handle

\* What a caller that is alone finds at the lock it takes next.
Expects(c) ==
  /\ at[c] \in {"idle", "ensure", "reap", "stop", "untouch"} => InOrder
  /\ at[c] \in {"make", "insert"} => session = 0 /\ handle = 0 /\ NoneRuns
  /\ at[c] = "subscribe" => session = mine[c] /\ handle = 0 /\ NoneRuns
  /\ at[c] = "register" => session = mine[c] /\ \A n \in Sessions : Running(n) <=> n = mine[c]
  /\ at[c] \in {"forget", "drop"} => handle = 0 /\ NoneRuns
  /\ at[c] \in {"insert", "subscribe"} => mine[c] # 0 /\ ~task[mine[c]].aborted
  /\ c # Reaper /\ at[c] # "idle" => live /\ at[c] \notin {"reap", "untouch"}
  /\ c = Reaper => at[c] \in {"idle", "reap", "stop", "forget", "drop", "untouch"}

AloneBut(c) == \A d \in HlsCallers : d # c => at[d] = "idle"
OneCaller ==
  ~overlap =>
    /\ \E c \in HlsCallers : AloneBut(c)
    /\ \A c \in HlsCallers : AloneBut(c) => Expects(c)
HlsInv == HlsShape /\ OneCaller

LEMMA InitHls == HlsInit => HlsInv
<1> SUFFICES ASSUME HlsInit PROVE HlsInv
  OBVIOUS
<1>1. HlsShape
  <2>1. [at |-> "none", seq |-> 0, aborted |-> FALSE] \in TaskRecords
    BY DEF TaskRecords
  <2> QED
    BY <2>1, HlsAssumption DEF HlsInit, HlsShape
<1>2. Reaper \in HlsCallers /\ \A c \in HlsCallers : AloneBut(c) /\ at[c] = "idle"
  BY DEF HlsInit, AloneBut, HlsCallers
<1>3. InOrder
  BY DEF HlsInit, InOrder, Running, AtWork, Sessions
<1> QED
  BY <1>1, <1>2, <1>3 DEF HlsInv, OneCaller, Expects

\* A caller that moves on keeps the promise when it leaves what it is to find next.
LEMMA CallerMoves ==
  ASSUME HlsInv, HlsShape', NEW c \in HlsCallers, NEW to, at' = [at EXCEPT ![c] = to],
         ~overlap' => ~overlap /\ AloneBut(c) /\ Expects(c)'
  PROVE  HlsInv'
<1> SUFFICES ASSUME ~overlap'
             PROVE  /\ \E d \in HlsCallers : AloneBut(d)'
                    /\ \A d \in HlsCallers : AloneBut(d)' => Expects(d)'
  BY DEF HlsInv, OneCaller
<1>1. AloneBut(c)'
  BY DEF AloneBut, HlsInv, HlsShape
<1>2. ASSUME NEW d \in HlsCallers, AloneBut(d)', d # c
      PROVE  at'[d] = "idle" /\ at'[c] = "idle"
  BY <1>1, <1>2 DEF AloneBut
<1>3. ASSUME NEW d \in HlsCallers, AloneBut(d)' PROVE Expects(d)'
  BY <1>2, <1>3 DEF Expects
<1> QED
  BY <1>1, <1>3

\* Who is at a lock, and not in another's way, is alone there.
LEMMA AtALock ==
  ASSUME HlsInv, NEW c \in HlsCallers, at[c] # "idle", ~overlap
  PROVE  AloneBut(c) /\ Expects(c)
BY DEF HlsInv, OneCaller, AloneBut

LEMMA CallerStep ==
  ASSUME HlsInv, NEW c \in HlsCallers,
         Ensure(c) \/ Ensured(c) \/ NewSession(c) \/ Insert(c) \/ Subscribe(c) \/ Register(c)
  PROVE  HlsInv'
<1> USE DEF HlsShape, Moves, Calls, Only, tableVars, workVars
<1>a. ~overlap /\ AllIdle => AloneBut(c) /\ Expects(c)
  BY DEF HlsInv, OneCaller, AllIdle, AloneBut
<1>1. CASE Ensure(c)
  <2>1. HlsShape'
    BY <1>1 DEF Ensure, HlsInv
  <2>2. ~overlap' => Expects(c)'
    BY <1>1, <1>a DEF Ensure, HlsInv, Expects, InOrder, Running, AtWork
  <2> QED
    BY <1>1, <1>a, <2>1, <2>2, CallerMoves DEF Ensure
<1>2. CASE Ensured(c)
  <2>1. HlsShape'
    BY <1>2 DEF Ensured, HlsInv
  <2>2. at[c] # "idle" /\ overlap' = overlap /\ \E to : at' = [at EXCEPT ![c] = to]
    BY <1>2 DEF Ensured
  <2>3. ~overlap => Expects(c)'
    BY <1>2, <2>2, AtALock DEF Ensured, HlsInv, Expects, InOrder, NoneRuns, Running, AtWork, Sessions
  <2> QED
    BY <2>1, <2>2, <2>3, AtALock, CallerMoves
<1>3. CASE NewSession(c)
  <2>0. \/ mine' = mine /\ made' = made
        \/ made < MaxStarts /\ made' = made + 1 /\ mine' = [mine EXCEPT ![c] = made + 1]
    BY <1>3 DEF NewSession
  <2>a. made + 1 \in Int /\ made + 1 > made /\ \A n \in Int : n <= made => n <= made + 1
    BY HlsAssumption DEF HlsInv
  <2>1. HlsShape'
    <3>1. CASE mine' = mine /\ made' = made
      BY <1>3, <3>1 DEF NewSession, HlsInv
    <3>2. CASE made < MaxStarts /\ made' = made + 1 /\ mine' = [mine EXCEPT ![c] = made + 1]
      <4>1. made' \in 0 .. MaxStarts /\ mine' \in [HlsCallers -> 0 .. MaxStarts]
        BY <3>2, HlsAssumption DEF HlsInv
      <4>2. handle <= made' /\ \A d \in HlsCallers : mine'[d] <= made'
        BY <3>2, <2>a, HlsAssumption DEF HlsInv
      <4>3. \A n \in Sessions : n > made' => n > made
        BY <3>2, HlsAssumption DEF HlsInv, Sessions
      <4>4. UNCHANGED <<session, handle, task, next>>
        BY <1>3 DEF NewSession
      <4>5. at' \in [HlsCallers -> {"idle", "ensure", "make", "insert", "subscribe", "register",
                                    "stop", "forget", "drop", "reap", "untouch"}]
        BY <1>3 DEF NewSession, HlsInv
      <4> QED
        BY <4>1, <4>2, <4>3, <4>4, <4>5 DEF HlsInv
    <3> QED
      BY <2>0, <3>1, <3>2
  <2>2. at[c] # "idle" /\ overlap' = overlap /\ \E to : at' = [at EXCEPT ![c] = to]
    BY <1>3 DEF NewSession
  <2>3. ~overlap => Expects(c)'
    <3>1. CASE session # 0
      BY <1>3, <3>1, <2>2, AtALock DEF NewSession, HlsInv, Expects
    <3>2. CASE session = 0
      <4>1. /\ made < MaxStarts /\ at[c] = "make" /\ at' = [at EXCEPT ![c] = "insert"]
            /\ mine' = [mine EXCEPT ![c] = made + 1] /\ UNCHANGED <<live, session, handle, task>>
        BY <1>3, <3>2 DEF NewSession
      <4>2. at'[c] = "insert" /\ mine'[c] = made + 1 /\ made + 1 # 0 /\ made + 1 \in Sessions
        BY <4>1, HlsAssumption DEF HlsInv, Sessions
      <4>3. ~task'[mine'[c]].aborted
        BY <2>a, <4>1, <4>2 DEF HlsInv
      <4> QED
        BY <4>1, <4>2, <4>3, AtALock DEF Expects, NoneRuns, Running, AtWork
    <3> QED
      BY <3>1, <3>2
  <2> QED
    BY <2>1, <2>2, <2>3, AtALock, CallerMoves
<1>4. CASE Insert(c)
  <2>1. HlsShape'
    BY <1>4 DEF Insert, HlsInv
  <2>2. at[c] # "idle" /\ overlap' = overlap /\ \E to : at' = [at EXCEPT ![c] = to]
    BY <1>4 DEF Insert
  <2>3. ~overlap => Expects(c)'
    BY <1>4, <2>2, AtALock DEF Insert, HlsInv, Expects, NoneRuns, Running, AtWork
  <2> QED
    BY <2>1, <2>2, <2>3, AtALock, CallerMoves
<1>5. CASE Subscribe(c)
  <2>0. /\ task' \in [Sessions -> TaskRecords]
        /\ \A n \in Sessions : task'[n].aborted = task[n].aborted
    BY SMTT(30), <1>5 DEF Subscribe, HlsInv, TaskRecords
  <2>1. HlsShape'
    BY <1>5, <2>0 DEF Subscribe, HlsInv
  <2>2. at[c] # "idle" /\ overlap' = overlap /\ \E to : at' = [at EXCEPT ![c] = to]
    BY <1>5 DEF Subscribe
  <2>3. ~overlap => Expects(c)'
    <3>1. CASE ~live
      BY <1>5, <3>1, <2>2, AtALock DEF Subscribe, HlsInv, Expects, InOrder, NoneRuns, Running, AtWork
    <3>2. CASE live
      <4>1. /\ at[c] = "subscribe" /\ at'[c] = "register" /\ UNCHANGED <<live, session, handle, mine>>
            /\ task' = [task EXCEPT ![mine[c]].at = "reading"]
        BY <1>5, <3>2 DEF Subscribe, HlsInv
      <4>2. SUFFICES ASSUME ~overlap PROVE Expects(c)'
        OBVIOUS
      <4>3. /\ Expects(c) /\ session = mine[c] /\ NoneRuns /\ mine[c] # 0 /\ ~task[mine[c]].aborted
        BY <2>2, <4>1, <4>2, AtALock DEF Expects
      <4>4. mine[c] \in Sessions
        BY <4>3, HlsAssumption DEF HlsInv, Sessions
      <4>5. task'[mine[c]].at = "reading" /\ \A n \in Sessions : n # mine[c] => task'[n] = task[n]
        BY <4>1, <4>4 DEF HlsInv, TaskRecords
      <4>6. \A n \in Sessions : Running(n)' <=> n = mine[c]
        BY <2>0, <4>3, <4>4, <4>5 DEF NoneRuns, Running, AtWork
      <4> QED
        BY <3>2, <4>1, <4>3, <4>6 DEF Expects
    <3> QED
      BY <3>1, <3>2
  <2> QED
    BY <2>1, <2>2, <2>3, AtALock, CallerMoves
<1>6. CASE Register(c)
  <2>1. HlsShape'
    BY <1>6 DEF Register, HlsInv
  <2>2. at[c] # "idle" /\ overlap' = overlap /\ \E to : at' = [at EXCEPT ![c] = to]
    BY <1>6 DEF Register
  <2>3. ~overlap => Expects(c)'
    BY <1>6, <2>2, AtALock DEF Register, HlsInv, Expects, InOrder, NoneRuns, Running, AtWork
  <2> QED
    BY <2>1, <2>2, <2>3, AtALock, CallerMoves
<1> QED
  BY <1>1, <1>2, <1>3, <1>4, <1>5, <1>6

LEMMA StopperStep ==
  ASSUME HlsInv, NEW c \in HlsCallers,
         Stop(c) \/ Forget(c) \/ Drop(c) \/ (c = Reaper /\ (Reap \/ ReapLook \/ Untouch))
  PROVE  HlsInv'
<1> USE DEF HlsShape, Moves, Calls, Only, tableVars, workVars
<1>a. ~overlap /\ AllIdle => AloneBut(c) /\ Expects(c)
  BY DEF HlsInv, OneCaller, AllIdle, AloneBut
<1>1. CASE Stop(c)
  <2>2. /\ task' \in [Sessions -> TaskRecords]
        /\ \A n \in Sessions : n # handle => task'[n] = task[n]
        /\ \A n \in Sessions : n = handle => task'[n].aborted
    <3>1. CASE handle = 0
      BY <1>1, <3>1 DEF Stop, HlsInv, Sessions
    <3>2. CASE handle # 0
      <4>1. handle \in Sessions /\ task' = [task EXCEPT ![handle].aborted = TRUE]
        BY <1>1, <3>2, HlsAssumption DEF Stop, HlsInv, Sessions
      <4> QED
        BY <4>1 DEF HlsInv, TaskRecords
    <3> QED
      BY <3>1, <3>2
  <2>3. HlsShape'
    BY <1>1, <2>2, HlsAssumption DEF Stop, HlsInv
  <2>4. at[c] = "stop" /\ overlap' = overlap /\ at' = [at EXCEPT ![c] = "forget"]
    BY <1>1 DEF Stop
  <2>5. ~overlap => Expects(c)'
    <3>1. ~overlap => NoneRuns'
      BY <2>2, <2>4, AtALock DEF Expects, InOrder, NoneRuns, Running, AtWork
    <3> QED
      BY <1>1, <2>4, <3>1, AtALock DEF Stop, HlsInv, Expects
  <2> QED
    BY <2>3, <2>4, <2>5, AtALock, CallerMoves
<1>2. CASE Forget(c)
  <2>1. HlsShape'
    BY <1>2 DEF Forget, HlsInv
  <2>2. at[c] # "idle" /\ overlap' = overlap /\ \E to : at' = [at EXCEPT ![c] = to]
    BY <1>2 DEF Forget
  <2>3. ~overlap => Expects(c)'
    BY <1>2, <2>2, AtALock DEF Forget, HlsInv, Expects, NoneRuns, Running, AtWork
  <2> QED
    BY <2>1, <2>2, <2>3, AtALock, CallerMoves
<1>3. CASE Drop(c)
  <2>1. HlsShape'
    BY <1>3, HlsAssumption DEF Drop, HlsInv
  <2>2. at[c] # "idle" /\ overlap' = overlap /\ \E to : at' = [at EXCEPT ![c] = to]
    BY <1>3 DEF Drop
  <2>3. ~overlap => Expects(c)'
    BY <1>3, <2>2, AtALock DEF Drop, HlsInv, Expects, InOrder, NoneRuns, Running, AtWork, Sessions
  <2> QED
    BY <2>1, <2>2, <2>3, AtALock, CallerMoves
<1>4. CASE c = Reaper /\ Reap
  <2>1. HlsShape'
    BY <1>4 DEF Reap, HlsInv
  <2>2. ~overlap' => Expects(c)'
    BY <1>4, <1>a DEF Reap, HlsInv, Expects, InOrder, Running, AtWork
  <2> QED
    BY <1>4, <1>a, <2>1, <2>2, CallerMoves DEF Reap
<1>5. CASE c = Reaper /\ ReapLook
  <2>1. HlsShape'
    BY <1>5 DEF ReapLook, HlsInv
  <2>2. at[c] # "idle" /\ overlap' = overlap /\ \E to : at' = [at EXCEPT ![c] = to]
    BY <1>5 DEF ReapLook
  <2>3. ~overlap => Expects(c)'
    BY <1>5, <2>2, AtALock DEF ReapLook, HlsInv, Expects, InOrder, NoneRuns, Running, AtWork
  <2> QED
    BY <2>1, <2>2, <2>3, AtALock, CallerMoves
<1>6. CASE c = Reaper /\ Untouch
  <2>1. HlsShape'
    BY <1>6 DEF Untouch, HlsInv
  <2>2. at[c] # "idle" /\ overlap' = overlap /\ \E to : at' = [at EXCEPT ![c] = to]
    BY <1>6 DEF Untouch
  <2>3. ~overlap => Expects(c)'
    BY <1>6, <2>2, AtALock DEF Untouch, HlsInv, Expects, InOrder, Running, AtWork
  <2> QED
    BY <2>1, <2>2, <2>3, AtALock, CallerMoves
<1> QED
  BY <1>1, <1>2, <1>3, <1>4, <1>5, <1>6

\* A step of a task neither starts nor ends one that runs, and touches no lock.
LEMMA SegmenterStep ==
  ASSUME HlsInv, NEW n \in Sessions, Close(n) \/ Write(n) \/ List(n) \/ Prune(n) \/ TaskEnds(n)
  PROVE  HlsInv'
<1> DEFINE TaskAt == {"none", "reading", "writing", "listing", "pruning", "dead"}
<1>1. Aside
  BY DEF Close, Write, List, Prune, TaskEnds
<1>2. ASSUME NEW from \in TaskAt, NEW to \in TaskAt, TaskMoves(n, from, to),
             (from \in {"none", "dead"} <=> to \in {"none", "dead"}) \/ task[n].aborted
      PROVE  /\ task' \in [Sessions -> TaskRecords]
             /\ \A m \in Sessions : task'[m].aborted = task[m].aborted
             /\ \A m \in Sessions : Running(m)' <=> Running(m)
  BY <1>2 DEF TaskMoves, HlsInv, HlsShape, TaskRecords, Running, AtWork
<1>3. ASSUME Close(n)
      PROVE  /\ task' \in [Sessions -> TaskRecords]
             /\ \A m \in Sessions : task'[m].aborted = task[m].aborted
             /\ \A m \in Sessions : Running(m)' <=> Running(m)
  <2>1. /\ session # 0 /\ task[n].at = "reading"
        /\ task' = [task EXCEPT ![n].at = "writing", ![n].seq = next[session]]
    BY <1>3 DEF Close
  <2>2. session \in Sessions
    BY <2>1, HlsAssumption DEF HlsInv, HlsShape, Sessions
  <2>3. next[session] \in Int
    BY <2>2 DEF HlsInv, HlsShape
  <2>4. [task[n] EXCEPT !.at = "writing", !.seq = next[session]] \in TaskRecords
    BY <2>3 DEF HlsInv, HlsShape, TaskRecords
  <2>5. task' = [task EXCEPT ![n] = [task[n] EXCEPT !.at = "writing", !.seq = next[session]]]
    BY <2>1 DEF HlsInv, HlsShape
  <2>6. /\ task'[n].at = "writing" /\ task'[n].aborted = task[n].aborted
        /\ \A m \in Sessions : m # n => task'[m] = task[m]
    BY <2>5 DEF HlsInv, HlsShape, TaskRecords
  <2> QED
    BY <2>1, <2>4, <2>5, <2>6 DEF HlsInv, HlsShape, Running, AtWork
<1>4. /\ task' \in [Sessions -> TaskRecords]
      /\ \A m \in Sessions : task'[m].aborted = task[m].aborted
      /\ \A m \in Sessions : Running(m)' <=> Running(m)
  <2>1. CASE Write(n)
    BY <1>2, <2>1 DEF Write
  <2>2. CASE List(n)
    BY <1>2, <2>2 DEF List
  <2>3. CASE Prune(n)
    BY <1>2, <2>3 DEF Prune
  <2>4. CASE TaskEnds(n)
    BY <1>2, <2>4 DEF TaskEnds
  <2> HIDE DEF TaskAt
  <2> QED
    BY <1>3, <2>1, <2>2, <2>3, <2>4
<1>5. next' \in [Sessions -> Int]
  <2>1. task[n].seq + 1 \in Int
    BY DEF HlsInv, HlsShape, TaskRecords
  <2> QED
    BY <2>1 DEF Close, Write, List, Prune, TaskEnds, add_segment, HlsInv, HlsShape
<1>6. HlsShape'
  BY <1>1, <1>4, <1>5 DEF HlsInv, HlsShape, Aside, tableVars
<1>7. \A c \in HlsCallers : mine[c] # 0 => mine[c] \in Sessions
  BY HlsAssumption DEF HlsInv, HlsShape, Sessions
<1>8. \A c \in HlsCallers : (AloneBut(c)' <=> AloneBut(c)) /\ (Expects(c) => Expects(c)')
  BY <1>1, <1>4, <1>7 DEF AloneBut, Expects, InOrder, NoneRuns, Aside, tableVars
<1> QED
  BY <1>1, <1>6, <1>8 DEF HlsInv, OneCaller, Aside

LEMMA HlsKeeps == HlsInv /\ [HlsNext]_hlsVars => HlsInv'
<1>1. ASSUME HlsInv, Poll \/ Delete PROVE HlsInv'
  <2>1. HlsShape'
    BY <1>1 DEF Poll, Delete, HlsInv, HlsShape, tableVars, workVars
  <2>2. CASE Poll
    BY <1>1, <2>1, <2>2 DEF Poll, HlsInv, OneCaller, AloneBut, Expects, InOrder, NoneRuns, Running, AtWork, workVars
  <2>3. CASE Delete
    <3>1. ~overlap' => ~overlap /\ AllIdle
      BY <2>3 DEF Delete
    <3>2. \A c \in HlsCallers : AllIdle /\ Expects(c) => Expects(c)'
      BY <2>3 DEF Delete, AllIdle, Expects, InOrder, NoneRuns, Running, AtWork, tableVars, workVars
    <3>3. \A c \in HlsCallers : AloneBut(c)' <=> AloneBut(c)
      BY <2>3 DEF Delete, AloneBut
    <3> QED
      BY <1>1, <2>1, <3>1, <3>2, <3>3 DEF HlsInv, OneCaller
  <2> QED
    BY <1>1, <2>2, <2>3
<1>2. ASSUME HlsInv, HlsNext PROVE HlsInv'
  <2>1. Reaper \in HlsCallers
    BY DEF HlsCallers
  <2> QED
    BY <1>1, <1>2, <2>1, CallerStep, StopperStep, SegmenterStep DEF HlsNext
<1>3. ASSUME HlsInv, UNCHANGED hlsVars PROVE HlsInv'
  BY <1>3 DEF hlsVars, HlsInv, HlsShape, OneCaller, AloneBut, Expects, InOrder, NoneRuns, Running, AtWork
<1> QED
  BY <1>2, <1>3

\* The types, with a bound for the number of the segment a task is writing.
SegmentsBounded ==
  \A n \in Sessions : task[n].at \in {"writing", "listing"} => task[n].seq < MaxSeq
HlsTypes == HlsTypeOK /\ SegmentsBounded
ListsTyped == list \in [Sessions -> Seq(0 .. MaxSeq)]

LEMMA InitHlsTypes == HlsInit => HlsTypes
<1> SUFFICES ASSUME HlsInit PROVE HlsTypes
  OBVIOUS
<1>1. MaxStarts \in Nat /\ MaxSeq \in Nat
  BY HlsAssumption
<1>2. 0 \in 0 .. MaxStarts /\ 0 \in 0 .. MaxSeq
  BY <1>1
<1>3. [at |-> "none", seq |-> 0, aborted |-> FALSE] \in Tasks
  BY <1>2 DEF Tasks
<1>4. task \in [Sessions -> Tasks] /\ next \in [Sessions -> 0 .. MaxSeq]
      /\ mine \in [HlsCallers -> 0 .. MaxStarts]
  BY <1>2, <1>3 DEF HlsInit
<1>5. SegmentsBounded
  BY DEF HlsInit, SegmentsBounded
<1> QED
  BY <1>2, <1>4, <1>5 DEF HlsInit, HlsTypes, HlsTypeOK

LEMMA CallerTypes ==
  ASSUME HlsTypes, NEW c \in HlsCallers,
         Ensure(c) \/ Ensured(c) \/ NewSession(c) \/ Insert(c) \/ Subscribe(c) \/ Register(c)
         \/ Stop(c) \/ Forget(c) \/ Drop(c)
  PROVE  HlsTypes'
<1> USE HlsAssumption DEF HlsTypes, HlsTypeOK, SegmentsBounded, Tasks, Moves, Calls, Only,
        tableVars, workVars
<1>1. CASE Ensure(c)
  BY <1>1 DEF Ensure
<1>2. CASE Ensured(c)
  BY <1>2 DEF Ensured
<1>3. CASE NewSession(c)
  <2>1. made < MaxStarts => made + 1 \in 0 .. MaxStarts
    OBVIOUS
  <2>2. made' \in 0 .. MaxStarts /\ mine' \in [HlsCallers -> 0 .. MaxStarts]
    BY <1>3, <2>1 DEF NewSession
  <2>3. access' \in BOOLEAN /\ disk' \subseteq 0 .. MaxSeq - 1
    BY <1>3 DEF NewSession
  <2> QED
    BY <1>3, <2>2, <2>3 DEF NewSession
<1>4. CASE Insert(c)
  BY <1>4 DEF Insert
<1>5. CASE Subscribe(c)
  <2>1. \A t \in Tasks : LET r == [t EXCEPT !.at = "reading"]
                         IN  r \in Tasks /\ r.seq = t.seq /\ r.at = "reading"
    OBVIOUS
  <2>2. \/ task' = task
        \/ task' = [task EXCEPT ![mine[c]] = [task[mine[c]] EXCEPT !.at = "reading"]]
    BY <1>5 DEF Subscribe
  <2>3. task' \in [Sessions -> Tasks] /\ \A n \in Sessions : task'[n] = task[n] \/ task'[n].at = "reading"
    BY <2>1, <2>2
  <2>4. SegmentsBounded'
    BY <2>3
  <2> QED
    BY <1>5, <2>3, <2>4 DEF Subscribe
<1>6. CASE Register(c)
  BY <1>6 DEF Register
<1>7. CASE Stop(c)
  <2>1. /\ task' \in [Sessions -> Tasks]
        /\ \A n \in Sessions : task'[n].at = task[n].at /\ task'[n].seq = task[n].seq
    BY ZenonT(60), <1>7 DEF Stop
  <2> QED
    BY <1>7, <2>1 DEF Stop
<1>8. CASE Forget(c)
  BY <1>8 DEF Forget
<1>9. CASE Drop(c)
  BY <1>9 DEF Drop
<1> QED
  BY <1>1, <1>2, <1>3, <1>4, <1>5, <1>6, <1>7, <1>8, <1>9

LEMMA OtherTypes ==
  ASSUME HlsTypes, Reap \/ ReapLook \/ Untouch \/ Poll \/ Delete
  PROVE  HlsTypes'
BY DEF HlsTypes, HlsTypeOK, SegmentsBounded, Moves, Calls, Only, tableVars, workVars,
       Reap, ReapLook, Untouch, Poll, Delete

LEMMA SegmenterTypes ==
  ASSUME HlsTypes, NEW n \in Sessions, Close(n) \/ Write(n) \/ List(n) \/ Prune(n) \/ TaskEnds(n)
  PROVE  HlsTypes'
<1> USE DEF HlsTypes, HlsTypeOK
<1>1. session # 0 => session \in Sessions
  BY HlsAssumption DEF Sessions
<1>2. ASSUME NEW from, NEW to, TaskMoves(n, from, to),
             to \in {"reading", "listing", "pruning", "dead"},
             to = "listing" => from \in {"writing", "listing"}
      PROVE  task' \in [Sessions -> Tasks] /\ SegmentsBounded'
  BY <1>2 DEF TaskMoves, Tasks, SegmentsBounded
<1>3. task[n].at \in {"writing", "listing"} => task[n].seq \in 0 .. MaxSeq - 1
  BY HlsAssumption DEF SegmentsBounded, Tasks
<1>4. CASE Close(n)
  <2>1. next[session] \in 0 .. MaxSeq /\ next[session] < MaxSeq
        /\ task' = [task EXCEPT ![n].at = "writing", ![n].seq = next[session]]
    BY <1>1, <1>4 DEF Close
  <2>2. task' \in [Sessions -> Tasks] /\ SegmentsBounded'
    BY ZenonT(60), <2>1 DEF Tasks, SegmentsBounded
  <2> QED
    BY <1>4, <2>2 DEF Close, Aside, tableVars
<1>5. CASE Write(n)
  <2>1. task' \in [Sessions -> Tasks] /\ SegmentsBounded'
    BY <1>2, <1>5 DEF Write
  <2>2. disk' \subseteq 0 .. MaxSeq - 1
    BY <1>3, <1>5 DEF Write, TaskMoves
  <2> QED
    BY <1>5, <2>1, <2>2 DEF Write, Aside, tableVars
<1>6. CASE List(n)
  <2>1. task' \in [Sessions -> Tasks] /\ SegmentsBounded' /\ task[n].at = "listing"
    BY <1>2, <1>6 DEF List, TaskMoves
  <2>2. next' \in [Sessions -> 0 .. MaxSeq]
    <3>1. task[n].seq + 1 \in 0 .. MaxSeq
      BY <1>3, <2>1, HlsAssumption
    <3> QED
      BY <1>6, <3>1 DEF List, add_segment
  <2> QED
    BY <1>6, <2>1, <2>2 DEF List, Aside, tableVars
<1>7. CASE Prune(n)
  <2>1. task' \in [Sessions -> Tasks] /\ SegmentsBounded'
    BY <1>2, <1>7 DEF Prune
  <2> QED
    BY <1>7, <2>1 DEF Prune, Stays, Aside, tableVars
<1>8. CASE TaskEnds(n)
  <2>1. task' \in [Sessions -> Tasks] /\ SegmentsBounded'
    BY <1>2, <1>8 DEF TaskEnds
  <2>2. disk' \subseteq 0 .. MaxSeq - 1
    BY <1>3, <1>8 DEF TaskEnds, Stays
  <2> QED
    BY <1>8, <2>1, <2>2 DEF TaskEnds, Aside, tableVars
<1> QED
  BY <1>4, <1>5, <1>6, <1>7, <1>8

LEMMA HlsTypesKeep == HlsTypes /\ [HlsNext]_hlsVars => HlsTypes'
<1>1. ASSUME HlsTypes, HlsNext PROVE HlsTypes'
  BY <1>1, CallerTypes, OtherTypes, SegmenterTypes DEF HlsNext
<1>2. ASSUME HlsTypes, UNCHANGED hlsVars PROVE HlsTypes'
  BY <1>2 DEF hlsVars, HlsTypes, HlsTypeOK, SegmentsBounded
<1> QED
  BY <1>1, <1>2


LEMMA ListsTypedKeep ==
  ASSUME HlsTypes, ListsTyped, [HlsNext]_hlsVars
  PROVE  ListsTyped'
<1>1. ASSUME NEW n \in Sessions, List(n) PROVE ListsTyped'
  <2>1. CASE session = 0
    BY <1>1, <2>1 DEF List, ListsTyped
  <2>2. CASE session # 0
    <3>1. session \in Sessions /\ task[n].seq \in 0 .. MaxSeq
      BY <2>2, HlsAssumption DEF HlsTypes, HlsTypeOK, Sessions, Tasks
    <3>2. list[session] \in Seq(0 .. MaxSeq)
      BY <3>1 DEF ListsTyped
    <3> DEFINE t == Append(list[session], task[n].seq)
    <3>3. t \in Seq(0 .. MaxSeq) /\ t # <<>>
      BY <3>1, <3>2
    <3> HIDE DEF t
    <3>4. Tail(t) \in Seq(0 .. MaxSeq)
      BY <3>3
    <3>5. Window(t) \in Seq(0 .. MaxSeq)
      BY <3>3, <3>4 DEF Window
    <3>6. list' = [list EXCEPT ![session] = Window(t)]
      BY <1>1, <2>2 DEF List, add_segment, t
    <3> QED
      BY <3>5, <3>6 DEF ListsTyped
  <2> QED
    BY <2>1, <2>2
<1>2. CASE UNCHANGED list
  BY <1>2 DEF ListsTyped
<1>3. HlsNext => UNCHANGED list \/ \E n \in Sessions : List(n)
  BY DEF HlsNext, Ensure, Ensured, NewSession, Insert, Subscribe, Register, Stop, Forget, Drop,
         Reap, ReapLook, Untouch, Poll, Delete, Close, Write, Prune, TaskEnds, workVars
<1> QED
  BY <1>1, <1>2, <1>3 DEF hlsVars

\* A playlist: the last segments before `upto`, each with its file.
LastSegments(s, upto) ==
  /\ s \in Seq(Nat) /\ Len(s) <= MaxSegments
  /\ \A i \in 1 .. Len(s) : s[i] = upto - Len(s) + (i - 1)
OnDisk(s, files) == \A i \in 1 .. Len(s) : s[i] \in files
Fresh(n) == list[n] = <<>> /\ next[n] = 0

\* The segment at hand comes next in the playlist; its file is there before it is listed.
AtHand(job, upto, files) ==
  /\ job.at \in {"writing", "listing"} => job.seq = upto
  /\ job.at = "listing" => job.seq \in files
  /\ job.at = "pruning" => job.seq + 1 = upto

\* With no aborted task left behind, what is at work belongs to the session.
TasksOfSession ==
  ~overlap /\ ~lingered =>
    /\ session # 0 => \A n \in Sessions : AtWork(n) => n = session
    /\ \A c \in HlsCallers : at[c] = "insert" => \A n \in Sessions : ~AtWork(n)

Playlists ==
  ~overlap /\ ~lingered =>
    /\ session <= made /\ \A c \in HlsCallers : mine[c] <= made
    /\ \A n \in Sessions : n > made => Fresh(n)
    /\ \A c \in HlsCallers : at[c] = "insert" => mine[c] # 0 /\ Fresh(mine[c])
    /\ session # 0 =>
         /\ LastSegments(list[session], next[session]) /\ OnDisk(list[session], disk)
         /\ \A n \in Sessions : AtHand(task[n], next[session], disk)

\* add_segment in the window: the number listed is the one after the last.
LEMMA WindowMoves ==
  ASSUME NEW s, NEW u \in Nat, LastSegments(s, u), NEW files, OnDisk(s, files), u \in files
  PROVE  LastSegments(Window(Append(s, u)), u + 1) /\ OnDisk(Window(Append(s, u)), files)
<1> DEFINE t == Append(s, u)
<1>1. s \in Seq(Nat) /\ Len(s) \in Nat /\ MaxSegments \in Nat /\ MaxSegments >= 1
  BY HlsAssumption DEF LastSegments
<1>2. /\ t \in Seq(Nat) /\ Len(t) = Len(s) + 1 /\ t[Len(s) + 1] = u
      /\ \A i \in 1 .. Len(s) : t[i] = s[i]
  BY <1>1
<1>3. \A i \in 1 .. Len(t) : t[i] = (u + 1) - Len(t) + (i - 1) /\ t[i] \in files
  <2>1. ASSUME NEW i \in 1 .. Len(s)
        PROVE  t[i] = (u + 1) - Len(t) + (i - 1) /\ t[i] \in files
    <3>1. t[i] = u - Len(s) + (i - 1)
      BY <1>2 DEF LastSegments
    <3>2. (u + 1) - (Len(s) + 1) + (i - 1) = u - Len(s) + (i - 1)
      BY <1>1
    <3> QED
      BY <1>2, <3>1, <3>2 DEF OnDisk
  <2>2. u = (u + 1) - (Len(s) + 1) + ((Len(s) + 1) - 1)
    BY <1>1
  <2>3. \A i \in 1 .. Len(s) + 1 : i \in 1 .. Len(s) \/ i = Len(s) + 1
    BY <1>1
  <2> QED
    BY <1>2, <2>1, <2>2, <2>3
<1> HIDE DEF t
<1>4. CASE Len(t) <= MaxSegments
  <2>1. Window(t) = t
    BY <1>1, <1>2, <1>4 DEF Window
  <2> QED
    BY <1>2, <1>3, <1>4, <2>1 DEF LastSegments, OnDisk, t
<1>5. CASE Len(t) > MaxSegments
  <2>1. t # <<>> /\ Window(t) = Tail(t)
    BY <1>1, <1>2, <1>5 DEF Window
  <2>2. /\ Tail(t) \in Seq(Nat) /\ Len(Tail(t)) = Len(t) - 1
        /\ \A i \in 1 .. Len(Tail(t)) : Tail(t)[i] = t[i + 1]
    BY <1>2, <2>1
  <2>3. Len(s) <= MaxSegments
    BY DEF LastSegments
  <2>4. ASSUME NEW i \in 1 .. Len(Tail(t))
        PROVE  Tail(t)[i] = (u + 1) - Len(Tail(t)) + (i - 1) /\ Tail(t)[i] \in files
    <3>1. i + 1 \in 1 .. Len(t)
      BY <1>1, <1>2, <2>2
    <3>2. t[i + 1] = (u + 1) - Len(t) + ((i + 1) - 1) /\ t[i + 1] \in files
      BY <1>3, <3>1
    <3>3. (u + 1) - (Len(s) + 1) + ((i + 1) - 1) = (u + 1) - Len(s) + (i - 1)
      BY <1>1
    <3>4. Len(Tail(t)) = Len(s)
      BY <1>1, <1>2, <2>2
    <3> QED
      BY <1>2, <2>2, <3>2, <3>3, <3>4
  <2>5. Len(Tail(t)) <= MaxSegments
    BY <1>1, <1>2, <2>2, <2>3
  <2>6. LastSegments(Tail(t), u + 1) /\ OnDisk(Tail(t), files)
    BY <2>2, <2>4, <2>5 DEF LastSegments, OnDisk
  <2> QED
    BY <2>1, <2>6 DEF t
<1> QED
  BY <1>1, <1>2, <1>4, <1>5 DEF t

LEMMA InitPlaylists == HlsInit => Playlists /\ TasksOfSession
BY DEF HlsInit, Playlists, Fresh, TasksOfSession

\* Steps that put no task to work, and no session in the map, ...
LEMMA QuietTasks ==
  ASSUME TasksOfSession, session' \in {session, 0},
         ~overlap' /\ ~lingered' => ~overlap /\ ~lingered,
         \A c \in HlsCallers : at'[c] = "insert" => at[c] = "insert",
         \A n \in Sessions : AtWork(n)' => AtWork(n)
  PROVE  TasksOfSession'
BY DEF TasksOfSession

\* ... and those that do: a session is made when nothing is at work, or a task lingers.
LEMMA TasksKeep ==
  ASSUME HlsInv, TasksOfSession, [HlsNext]_hlsVars
  PROVE  TasksOfSession'
<1>0. /\ at \in [HlsCallers -> {"idle", "ensure", "make", "insert", "subscribe", "register",
                                "stop", "forget", "drop", "reap", "untouch"}]
      /\ task \in [Sessions -> TaskRecords]
  BY DEF HlsInv, HlsShape
<1> USE DEF Moves, Calls, Only, tableVars, workVars
<1>1. ASSUME NEW c \in HlsCallers,
             Ensure(c) \/ Ensured(c) \/ Register(c) \/ Forget(c) \/ Drop(c) \/ Stop(c)
      PROVE  TasksOfSession'
  <2>1. \A n \in Sessions : AtWork(n)' => AtWork(n)
    BY <1>0, <1>1 DEF Ensure, Ensured, Register, Forget, Drop, Stop, AtWork, TaskRecords
  <2>2. /\ session' \in {session, 0} /\ (~overlap' /\ ~lingered' => ~overlap /\ ~lingered)
        /\ \A d \in HlsCallers : at'[d] = "insert" => at[d] = "insert"
    BY <1>0, <1>1 DEF Ensure, Ensured, Register, Forget, Drop, Stop
  <2> QED
    BY <2>1, <2>2, QuietTasks
<1>2. ASSUME NEW c \in HlsCallers, NewSession(c) PROVE TasksOfSession'
  <2>1. CASE session # 0
    BY <1>0, <1>2, <2>1, QuietTasks DEF NewSession, AtWork
  <2>2. CASE session = 0
    <3>1. at[c] = "make" /\ UNCHANGED <<session, task, overlap>> /\ lingered' = (lingered \/ Lingering)
      BY <1>2, <2>2 DEF NewSession
    <3>2. ~overlap => NoneRuns
      BY <3>1, AtALock DEF Expects
    <3>3. ~overlap' /\ ~lingered' => \A n \in Sessions : ~AtWork(n)'
      BY <3>1, <3>2 DEF Lingering, NoneRuns, Running, AtWork
    <3> QED
      BY <2>2, <3>1, <3>3 DEF TasksOfSession
  <2> QED
    BY <2>1, <2>2
<1>3. ASSUME NEW c \in HlsCallers, Insert(c) PROVE TasksOfSession'
  BY <1>0, <1>3 DEF Insert, TasksOfSession, AtWork
<1>4. ASSUME NEW c \in HlsCallers, Subscribe(c) PROVE TasksOfSession'
  <2>1. /\ at[c] = "subscribe" /\ UNCHANGED <<session, overlap, lingered>>
        /\ \A d \in HlsCallers : at'[d] = "insert" => at[d] = "insert" /\ d # c
        /\ \A n \in Sessions : n # mine[c] => task'[n] = task[n]
    BY <1>0, <1>4 DEF Subscribe
  <2>2. ~overlap => session = mine[c] /\ AloneBut(c)
    BY <2>1, AtALock DEF Expects
  <2> QED
    BY <2>1, <2>2 DEF TasksOfSession, AtWork, AloneBut
<1>5. ASSUME Reap \/ ReapLook \/ Untouch \/ Poll \/ Delete PROVE TasksOfSession'
  <2>1. Reaper \in HlsCallers
    BY DEF HlsCallers
  <2>2. /\ UNCHANGED <<session, task>> /\ (~overlap' /\ ~lingered' => ~overlap /\ ~lingered)
    <3>1. CASE Reap
      BY <3>1 DEF Reap
    <3>2. CASE ReapLook \/ Untouch \/ Poll
      BY <3>2 DEF ReapLook, Untouch, Poll
    <3>3. CASE Delete
      BY <3>3 DEF Delete
    <3> QED
      BY <1>5, <3>1, <3>2, <3>3
  <2>3. UNCHANGED at \/ \E to : to # "insert" /\ at' = [at EXCEPT ![Reaper] = to]
    BY <1>5 DEF Reap, ReapLook, Untouch, Poll, Delete
  <2>4. \A d \in HlsCallers : at'[d] = "insert" => at[d] = "insert"
    BY <1>0, <2>1, <2>3
  <2> QED
    BY <2>2, <2>4, QuietTasks DEF AtWork
<1>6. ASSUME NEW n \in Sessions, Close(n) \/ Write(n) \/ List(n) \/ Prune(n) \/ TaskEnds(n)
      PROVE  TasksOfSession'
  <2>1. UNCHANGED <<session, at, overlap, lingered>>
    BY <1>6 DEF Close, Write, List, Prune, TaskEnds, Aside
  <2>2. AtWork(n) /\ \A m \in Sessions : m # n => task'[m] = task[m]
    BY <1>0, <1>6 DEF Close, Write, List, Prune, TaskEnds, TaskMoves, AtWork
  <2> QED
    BY <2>1, <2>2, QuietTasks DEF AtWork
<1>7. CASE UNCHANGED hlsVars
  BY <1>7, QuietTasks DEF hlsVars, AtWork
<1> QED
  BY <1>1, <1>2, <1>3, <1>4, <1>5, <1>6, <1>7 DEF HlsNext

\* Steps that leave playlists, files and sessions alone, and start no segment.
LEMMA QuietPlaylists ==
  ASSUME HlsInv, Playlists, UNCHANGED <<session, mine, made, list, next, disk>>,
         ~overlap' /\ ~lingered' => ~overlap /\ ~lingered,
         \A c \in HlsCallers : at'[c] = "insert" => at[c] = "insert",
         \A n \in Sessions : task'[n].at \in {"writing", "listing", "pruning"} =>
           task'[n].at = task[n].at /\ task'[n].seq = task[n].seq
  PROVE  Playlists'
<1>1. ASSUME NEW upto, NEW n \in Sessions, AtHand(task[n], upto, disk)
      PROVE  AtHand(task'[n], upto, disk)
  BY <1>1 DEF AtHand
<1> QED
  BY <1>1 DEF Playlists, Fresh

LEMMA CallerPlaylists ==
  ASSUME HlsInv, TasksOfSession, Playlists, NEW c \in HlsCallers,
         Ensure(c) \/ Ensured(c) \/ NewSession(c) \/ Insert(c) \/ Subscribe(c) \/ Register(c)
         \/ Stop(c) \/ Forget(c) \/ Drop(c)
  PROVE  Playlists'
<1>0. /\ at \in [HlsCallers -> {"idle", "ensure", "make", "insert", "subscribe", "register",
                                "stop", "forget", "drop", "reap", "untouch"}]
      /\ session \in Int /\ made \in Int /\ mine \in [HlsCallers -> Int]
  BY HlsAssumption DEF HlsInv, HlsShape
<1> USE DEF Moves, Calls, Only, tableVars, workVars
<1>1. CASE Ensure(c) \/ Ensured(c) \/ Register(c) \/ Forget(c)
  <2>1. /\ UNCHANGED <<session, mine, made, list, next, disk, task>>
        /\ ~overlap' /\ ~lingered' => ~overlap /\ ~lingered
    BY <1>1 DEF Ensure, Ensured, Register, Forget
  <2>2. \A d \in HlsCallers : at'[d] = "insert" => at[d] = "insert"
    BY <1>0, <1>1 DEF Ensure, Ensured, Register, Forget
  <2> QED
    BY <2>1, <2>2, QuietPlaylists
<1>2. CASE Subscribe(c)
  <2>1. \A n \in Sessions : task'[n] = task[n] \/ task'[n].at = "reading"
    <3>1. \A t \in TaskRecords : [t EXCEPT !.at = "reading"].at = "reading"
      BY DEF TaskRecords
    <3>2. \/ task' = task
          \/ task' = [task EXCEPT ![mine[c]] = [task[mine[c]] EXCEPT !.at = "reading"]]
      BY <1>2 DEF Subscribe
    <3>3. \A n \in Sessions : /\ task[n] \in TaskRecords
                              /\ task'[n] \in {task[n], [task[n] EXCEPT !.at = "reading"]}
      BY <3>2 DEF HlsInv, HlsShape
    <3> QED
      BY <3>1, <3>3
  <2>2. \A d \in HlsCallers : at'[d] = "insert" => at[d] = "insert"
    BY <1>0, <1>2 DEF Subscribe
  <2>3. UNCHANGED <<session, mine, made, list, next, disk, overlap, lingered>>
    BY <1>2 DEF Subscribe
  <2> QED
    BY <2>1, <2>2, <2>3, QuietPlaylists
<1>3. CASE Stop(c)
  <2>2. \A n \in Sessions : task'[n].at = task[n].at /\ task'[n].seq = task[n].seq
    BY <1>3 DEF Stop, HlsInv, HlsShape, TaskRecords
  <2>3. \A d \in HlsCallers : at'[d] = "insert" => at[d] = "insert"
    BY <1>0, <1>3 DEF Stop
  <2>4. UNCHANGED <<session, mine, made, list, next, disk, overlap, lingered>>
    BY <1>3 DEF Stop
  <2> QED
    BY <2>2, <2>3, <2>4, QuietPlaylists
<1>4. CASE Drop(c)
  <2>1. \A d \in HlsCallers : at'[d] = "insert" => at[d] = "insert"
    BY <1>0, <1>4 DEF Drop
  <2>2. 0 <= made
    BY HlsAssumption DEF HlsInv, HlsShape
  <2>3. session' = 0 /\ UNCHANGED <<mine, made, list, next, overlap, lingered>>
    BY <1>4 DEF Drop
  <2> QED
    BY <2>1, <2>2, <2>3 DEF Playlists, Fresh
<1>5. CASE Insert(c)
  <2>1. /\ at[c] = "insert" /\ session' = mine[c]
        /\ UNCHANGED <<mine, made, list, next, disk, task, overlap, lingered>>
    BY <1>5 DEF Insert
  <2>2. \A d \in HlsCallers : at'[d] = "insert" => at[d] = "insert"
    BY <1>0, <1>5 DEF Insert
  <2>3. ASSUME ~overlap, ~lingered
        PROVE  /\ LastSegments(list[mine[c]], next[mine[c]]) /\ OnDisk(list[mine[c]], disk)
               /\ \A n \in Sessions : AtHand(task[n], next[mine[c]], disk)
    <3>1. list[mine[c]] = <<>> /\ 0 <= MaxSegments
      BY <2>1, <2>3, HlsAssumption DEF Playlists, Fresh
    <3>3. \A n \in Sessions : AtHand(task[n], next[mine[c]], disk)
      BY <2>1, <2>3 DEF TasksOfSession, AtWork, AtHand
    <3> QED
      BY <3>1, <3>3 DEF LastSegments, OnDisk
  <2> QED
    BY <2>1, <2>2, <2>3 DEF Playlists, Fresh
<1>6. CASE NewSession(c)
  <2>1. CASE session # 0
    BY <1>0, <1>6, <2>1, QuietPlaylists DEF NewSession
  <2>2. CASE session = 0
    <3>1. /\ made < MaxStarts /\ made' = made + 1 /\ mine' = [mine EXCEPT ![c] = made + 1]
          /\ UNCHANGED <<session, list, next, overlap>> /\ at' = [at EXCEPT ![c] = "insert"]
          /\ lingered' = (lingered \/ Lingering)
      BY <1>6, <2>2 DEF NewSession
    <3>2. made + 1 \in Sessions /\ made + 1 > made
      BY <1>0, <3>1, HlsAssumption DEF Sessions, HlsInv, HlsShape
    <3>3. /\ mine'[c] = made + 1 /\ \A d \in HlsCallers : d # c => mine'[d] = mine[d]
          /\ \A d \in HlsCallers : d # c => at'[d] = at[d]
      BY <1>0, <3>1
    <3>4. SUFFICES ASSUME ~overlap, ~lingered PROVE Playlists'
      BY <3>1 DEF Playlists
    <3>5. session' <= made' /\ \A d \in HlsCallers : mine'[d] <= made'
      BY <1>0, <3>1, <3>3, <3>4 DEF Playlists
    <3>6. \A n \in Sessions : n > made' => Fresh(n)'
      BY <1>0, <3>1, <3>4 DEF Playlists, Fresh, Sessions
    <3>7. \A d \in HlsCallers : at'[d] = "insert" => mine'[d] # 0 /\ Fresh(mine[d])'
      BY <1>0, <3>1, <3>2, <3>3, <3>4, HlsAssumption DEF Playlists, Fresh, HlsInv, HlsShape
    <3> QED
      BY <2>2, <3>1, <3>5, <3>6, <3>7 DEF Playlists
  <2> QED
    BY <2>1, <2>2
<1> QED
  BY <1>1, <1>2, <1>3, <1>4, <1>5, <1>6

LEMMA OtherPlaylists ==
  ASSUME HlsInv, Playlists, Reap \/ ReapLook \/ Untouch \/ Poll \/ Delete
  PROVE  Playlists'
<1>1. at \in [HlsCallers -> {"idle", "ensure", "make", "insert", "subscribe", "register",
                             "stop", "forget", "drop", "reap", "untouch"}]
  BY DEF HlsInv, HlsShape
<1>2. Reaper \in HlsCallers
  BY DEF HlsCallers
<1> USE DEF Moves, Calls, Only, tableVars, workVars
<1>3. /\ UNCHANGED <<session, mine, made, list, next, disk, task>>
      /\ ~overlap' /\ ~lingered' => ~overlap /\ ~lingered
  <2>1. CASE Reap
    BY <2>1 DEF Reap
  <2>2. CASE ReapLook \/ Untouch \/ Poll
    BY <2>2 DEF ReapLook, Untouch, Poll
  <2>3. CASE Delete
    BY <2>3 DEF Delete
  <2> QED
    BY <2>1, <2>2, <2>3
<1>4. UNCHANGED at \/ \E to : to # "insert" /\ at' = [at EXCEPT ![Reaper] = to]
  BY DEF Reap, ReapLook, Untouch, Poll, Delete
<1>5. \A c \in HlsCallers : at'[c] = "insert" => at[c] = "insert"
  BY <1>1, <1>2, <1>4
<1> QED
  BY <1>3, <1>5, QuietPlaylists

\* More files do no harm.
LEMMA MoreFiles ==
  ASSUME NEW more, NEW files, files \subseteq more
  PROVE  /\ \A s : OnDisk(s, files) => OnDisk(s, more)
         /\ \A job, upto : AtHand(job, upto, files) => AtHand(job, upto, more)
BY DEF OnDisk, AtHand

LEMMA SegmenterPlaylists ==
  ASSUME HlsInv, HlsTypes, ListsTyped, TasksOfSession, Playlists, NEW n \in Sessions,
         Close(n) \/ Write(n) \/ List(n) \/ Prune(n) \/ TaskEnds(n)
  PROVE  Playlists'
<1>0. Aside
  BY DEF Close, Write, List, Prune, TaskEnds
<1> SUFFICES ASSUME ~overlap, ~lingered, session # 0
             PROVE  /\ list' = [list EXCEPT ![session] = list'[session]]
                    /\ next' = [next EXCEPT ![session] = next'[session]]
                    /\ LastSegments(list[session], next[session])'
                    /\ OnDisk(list[session], disk)'
                    /\ \A m \in Sessions : AtHand(task[m], next[session], disk)'
  <2>1. CASE overlap \/ lingered
    BY <1>0, <2>1 DEF Playlists, Aside
  <2>2. CASE session = 0
    <3>1. list' = list /\ next' = next /\ UNCHANGED <<session, at, mine, made, overlap, lingered>>
      BY <1>0, <2>2 DEF Close, Write, List, Prune, TaskEnds, Aside, tableVars
    <3> QED
      BY <2>2, <3>1 DEF Playlists, Fresh
  <2>3. CASE ~overlap /\ ~lingered /\ session # 0
    <3>1. session \in Sessions /\ session <= made
      BY <2>3, HlsAssumption DEF HlsInv, HlsShape, Sessions, Playlists
    <3>2. \A c \in HlsCallers : at[c] # "insert"
      BY <2>3, AtALock DEF Expects
    <3>3. made \in Int
      BY DEF HlsInv, HlsShape
    <3>4. \A m \in Sessions : m > made => m # session
      BY <3>1, <3>3 DEF Sessions
    <3>5. UNCHANGED <<session, at, mine, made, overlap, lingered>>
      BY <1>0 DEF Aside, tableVars
    <3>6. /\ list' = [list EXCEPT ![session] = list'[session]]
          /\ next' = [next EXCEPT ![session] = next'[session]]
          /\ LastSegments(list[session], next[session])'
          /\ OnDisk(list[session], disk)'
          /\ \A m \in Sessions : AtHand(task[m], next[session], disk)'
      BY <2>3
    <3>7. \A m \in Sessions : m > made => Fresh(m)'
      <4> SUFFICES ASSUME NEW m \in Sessions, m > made PROVE Fresh(m)'
        OBVIOUS
      <4>1. list'[m] = list[m] /\ next'[m] = next[m]
        BY <3>4, <3>6 DEF HlsTypes, HlsTypeOK, ListsTyped
      <4> QED
        BY <2>3, <4>1 DEF Playlists, Fresh
    <3> QED
      BY <2>3, <3>1, <3>2, <3>5, <3>6, <3>7 DEF Playlists
  <2> QED
    BY <2>1, <2>2, <2>3
<1> DEFINE u == next[session]
           s == list[session]
<1>1. session \in Sessions /\ u \in Nat /\ MaxSeq \in Nat
  <2>1. session \in Sessions
    BY HlsAssumption DEF HlsTypes, HlsTypeOK, Sessions
  <2> QED
    BY <2>1, HlsAssumption DEF HlsTypes, HlsTypeOK
<1>2. LastSegments(s, u) /\ OnDisk(s, disk) /\ \A m \in Sessions : AtHand(task[m], u, disk)
  BY DEF Playlists
<1>3. session' = session /\ ~overlap /\ ~lingered
  BY <1>0 DEF Aside, tableVars
<1>4. task \in [Sessions -> Tasks]
  BY DEF HlsTypes, HlsTypeOK
<1>5. \A m \in Sessions : AtWork(m) => m = session
  BY DEF TasksOfSession
<1>6. \A m \in Sessions : \A upto, files : ~AtWork(m) => AtHand(task[m], upto, files)
  BY DEF AtWork, AtHand
<1>11. list \in [Sessions -> Seq(0 .. MaxSeq)] /\ next \in [Sessions -> 0 .. MaxSeq]
  BY DEF HlsTypes, HlsTypeOK, ListsTyped
<1>12. /\ UNCHANGED list => list' = [list EXCEPT ![session] = list'[session]]
       /\ UNCHANGED next => next' = [next EXCEPT ![session] = next'[session]]
  BY <1>1, <1>11
<1>7. CASE Close(n)
  <2>1. /\ UNCHANGED <<list, next, disk>>
        /\ task' = [task EXCEPT ![n].at = "writing", ![n].seq = u]
    BY <1>7 DEF Close
  <2>2. task'[n].at = "writing" /\ task'[n].seq = u /\ \A m \in Sessions : m # n => task'[m] = task[m]
    BY <1>4, <2>1 DEF Tasks
  <2>3. \A m \in Sessions : AtHand(task'[m], u, disk)
    BY <1>2, <2>2 DEF AtHand
  <2> QED
    BY <1>2, <1>3, <1>12, <2>1, <2>3
<1>8. CASE Write(n)
  <2>1. UNCHANGED <<list, next>> /\ disk \subseteq disk'
    BY <1>8 DEF Write
  <2>2. OnDisk(s, disk') /\ \A m \in Sessions : AtHand(task[m], u, disk')
    BY <1>2, <2>1, MoreFiles
  <2>3. \A m \in Sessions : m # n => task'[m] = task[m]
    BY <1>4, <1>8 DEF Write, TaskMoves
  <2>4. AtHand(task'[n], u, disk')
    <3>1. CASE TaskMoves(n, "writing", "listing") /\ disk' = disk \cup {task[n].seq}
      BY <1>2, <1>4, <3>1 DEF TaskMoves, AtHand, Tasks
    <3>2. CASE TaskMoves(n, "writing", "reading")
      BY <1>4, <3>2 DEF TaskMoves, AtHand, Tasks
    <3> QED
      BY <1>8, <3>1, <3>2 DEF Write
  <2> QED
    BY <1>2, <1>3, <1>12, <2>1, <2>2, <2>3, <2>4
<1>9. CASE List(n)
  <2>1. /\ task[n].at = "listing" /\ task' = [task EXCEPT ![n].at = "pruning"]
        /\ list' = [list EXCEPT ![session] = Window(Append(@, task[n].seq))]
        /\ next' = [next EXCEPT ![session] = task[n].seq + 1] /\ disk' = disk
    BY <1>9 DEF List, TaskMoves, add_segment
  <2>2. task[n].seq = u /\ u \in disk
    BY <1>2, <2>1 DEF AtHand
  <2>3. next' = [next EXCEPT ![session] = u + 1] /\ next'[session] = u + 1
    BY <1>1, <2>1, <2>2 DEF HlsTypes, HlsTypeOK
  <2>4. list' = [list EXCEPT ![session] = Window(Append(s, u))] /\ list'[session] = Window(Append(s, u))
    BY <1>1, <1>11, <2>1, <2>2
  <2>5. LastSegments(list'[session], u + 1) /\ OnDisk(list'[session], disk)
    BY <1>1, <1>2, <2>2, <2>4, WindowMoves
  <2>6. task'[n].at = "pruning" /\ task'[n].seq = u /\ \A m \in Sessions : m # n => task'[m] = task[m]
    BY <1>4, <2>1, <2>2 DEF Tasks
  <2>7. \A m \in Sessions : m # n => ~AtWork(m)
    BY <1>5, <2>1 DEF AtWork
  <2>8. \A m \in Sessions : AtHand(task'[m], u + 1, disk)
    BY <1>6, <2>6, <2>7 DEF AtHand
  <2> QED
    BY <1>3, <2>1, <2>3, <2>4, <2>5, <2>8
<1>14. task[n].at = "pruning" => OnDisk(s, Stays(n))
  <2> SUFFICES ASSUME task[n].at = "pruning", NEW i \in 1 .. Len(s) PROVE s[i] \in Stays(n)
    BY DEF OnDisk
  <2>1. task[n].seq + 1 = u
    BY <1>2 DEF AtHand
  <2>2. s[i] \in disk /\ s[i] = u - Len(s) + (i - 1)
    BY <1>2 DEF OnDisk, LastSegments
  <2>3. Len(s) \in Nat /\ Len(s) <= MaxSegments /\ MaxSegments \in Nat
    BY <1>2, HlsAssumption DEF LastSegments
  <2>4. task[n].seq \in Int
    BY <1>4, <1>1 DEF Tasks
  <2>5. s[i] >= task[n].seq - (MaxSegments + 2)
    BY SMTT(30), <1>1, <2>1, <2>2, <2>3, <2>4
  <2> QED
    BY <2>2, <2>5 DEF Stays
<1>10. CASE Prune(n)
  <2>1. task[n].at = "pruning" /\ disk' = Stays(n) /\ UNCHANGED <<list, next>>
    BY <1>10 DEF Prune, TaskMoves
  <2>3. OnDisk(s, disk')
    BY <1>14, <2>1
  <2>4. task'[n].at = "reading" /\ \A m \in Sessions : m # n => task'[m] = task[m]
    BY <1>4, <1>10 DEF Prune, TaskMoves, Tasks
  <2>5. \A m \in Sessions : m # n => ~AtWork(m)
    BY <1>5, <2>1 DEF AtWork
  <2>6. \A m \in Sessions : AtHand(task'[m], u, disk')
    BY <1>6, <2>4, <2>5 DEF AtHand
  <2> QED
    BY <1>2, <1>3, <1>12, <2>1, <2>3, <2>6
<1>13. CASE TaskEnds(n)
  <2>1. task[n].aborted /\ UNCHANGED <<list, next>>
    BY <1>13 DEF TaskEnds
  <2>2. task'[n].at = "dead" /\ \A m \in Sessions : m # n => task'[m] = task[m]
    BY <1>4, <1>13 DEF TaskEnds, TaskMoves, Tasks
  <2>3. \A m \in Sessions : m # n => ~AtWork(m)
    BY <1>5, <1>13 DEF TaskEnds, TaskMoves, AtWork
  <2>4. \A m \in Sessions : AtHand(task'[m], u, disk')
    BY <1>6, <2>2, <2>3 DEF AtHand
  <2>5. CASE disk \subseteq disk'
    BY <1>2, <1>3, <1>12, <2>1, <2>4, <2>5, MoreFiles
  <2>6. CASE task[n].at = "pruning" /\ disk' = Stays(n)
    BY <1>2, <1>3, <1>12, <1>14, <2>1, <2>4, <2>6
  <2> QED
    BY <1>13, <2>5, <2>6 DEF TaskEnds
<1> QED
  BY <1>7, <1>8, <1>9, <1>10, <1>13

LEMMA PlaylistsKeep ==
  HlsInv /\ HlsTypes /\ ListsTyped /\ TasksOfSession /\ Playlists /\ [HlsNext]_hlsVars
    => Playlists'
<1>1. ASSUME HlsInv, HlsTypes, ListsTyped, TasksOfSession, Playlists, HlsNext PROVE Playlists'
  BY <1>1, CallerPlaylists, OtherPlaylists, SegmenterPlaylists DEF HlsNext
<1>2. ASSUME Playlists, UNCHANGED hlsVars PROVE Playlists'
  BY <1>2 DEF hlsVars, Playlists, Fresh
<1> QED
  BY <1>1, <1>2

(* Snapshots ***************************************************************)

\* No more ids than requests: the entries are as many at most.
SnapTypes == SnapshotTypeOK /\ \A n \in Shots : shots[n].id <= n

LEMMA InitSnap == SnapshotInit => SnapTypes
<1> SUFFICES ASSUME SnapshotInit PROVE SnapTypes
  OBVIOUS
<1>1. 0 \in 0 .. MaxShots /\ 0 \in 0 .. Patience
  BY SnapshotAssumption
<1>2. \A n \in Shots : 0 <= n
  BY DEF Shots
<1> QED
  BY <1>1, <1>2 DEF SnapshotInit, SnapTypes, SnapshotTypeOK

LEMMA SnapKeeps == SnapTypes /\ [SnapshotNext]_snapVars => SnapTypes'
<1> SUFFICES ASSUME SnapTypes, [SnapshotNext]_snapVars PROVE SnapTypes'
  OBVIOUS
<1> USE DEF SnapTypes, SnapshotTypeOK
<1>1. CASE Submit
  <2>1. PICK id \in {LastId, LastId + 1} \ {0} :
          /\ shots' = [shots EXCEPT ![Taken + 1] = [at |-> "submitted", id |-> id, looks |-> 0]]
          /\ shelf' = [shelf EXCEPT ![id] = "pending"]
    BY <1>1 DEF Submit
  <2>2. Taken \in Nat /\ Taken < MaxShots
    <3>1. IsFiniteSet(Shots) /\ {n \in Shots : shots[n].at # "none"} \subseteq Shots
      BY SnapshotAssumption, FS_Interval DEF Shots
    <3>2. IsFiniteSet({n \in Shots : shots[n].at # "none"})
      BY <3>1, FS_Subset
    <3>3. Taken \in Nat
      BY <3>2, FS_CardinalityType DEF Taken
    <3> QED
      BY <1>1, <3>3 DEF Submit
  <2>3. LastId \in 0 .. Taken
    <3>1. CASE Taken = 0
      BY <3>1 DEF LastId
    <3>2. CASE Taken # 0
      <4>1. Taken \in Shots
        BY <2>2, <3>2, SnapshotAssumption DEF Shots
      <4> QED
        BY <2>2, <3>2, <4>1, SnapshotAssumption DEF LastId
    <3> QED
      BY <3>1, <3>2
  <2>4. id \in 0 .. MaxShots /\ id <= Taken + 1 /\ 0 \in 0 .. Patience
    BY <2>2, <2>3, SnapshotAssumption
  <2>5. shots' \in [Shots -> [at : {"none", "submitted", "looking", "encoding", "done"},
                              id : 0 .. MaxShots, looks : 0 .. Patience]]
    BY <2>1, <2>4
  <2>6. \A n \in Shots : shots'[n].id <= n
    BY <2>1, <2>4
  <2> QED
    BY <1>1, <2>1, <2>5, <2>6 DEF Submit
<1>2. ASSUME NEW n \in Shots, NEW from, NEW to \in {"looking", "encoding", "done"}, Job(n, from, to)
      PROVE  /\ shots' \in [Shots -> [at : {"none", "submitted", "looking", "encoding", "done"},
                                      id : 0 .. MaxShots, looks : 0 .. Patience]]
             /\ \A m \in Shots : shots'[m].id <= m
  BY <1>2 DEF Job
<1>3. ASSUME NEW n \in Shots,
             NEW status \in {"absent", "pending", "running", "completed", "failed"}, Entry(n, status)
      PROVE  shelf' \in [Shots -> {"absent", "pending", "running", "completed", "failed"}]
  BY <1>3 DEF Entry
<1>4. ASSUME NEW n \in Shots, Run(n) \/ Encode(n) PROVE SnapTypes'
  BY <1>2, <1>3, <1>4 DEF Run, Encode
<1>5. ASSUME NEW n \in Shots, wait_latest_idr(n) PROVE SnapTypes'
  <2>1. CASE Job(n, "looking", "encoding") \/ Job(n, "looking", "done")
    BY <1>2, <1>3, <1>5, <2>1 DEF wait_latest_idr
  <2>2. CASE shots[n].looks # Patience /\ shots' = [shots EXCEPT ![n].looks = @ + 1] /\ UNCHANGED shelf
    <3>1. shots[n].looks + 1 \in 0 .. Patience
      BY SMTT(30), <2>2, SnapshotAssumption
    <3> QED
      BY <1>5, <2>2, <3>1 DEF wait_latest_idr
  <2> QED
    BY <1>5, <2>1, <2>2 DEF wait_latest_idr
<1>6. CASE Media
  BY <1>6 DEF Media
<1>7. CASE UNCHANGED snapVars
  BY <1>7 DEF snapVars
<1> QED
  BY <1>1, <1>4, <1>5, <1>6, <1>7 DEF SnapshotNext, JobStep


(* The specification *******************************************************)

\* A step of another subject leaves a subject's variables alone.
LEMMA OneSubject ==
  ASSUME [Next]_vars
  PROVE  /\ [RelaysNext]_relayVars /\ [RecorderNext]_recVars
         /\ [AnalysisNext]_anVars /\ [HlsNext]_hlsVars /\ [SnapshotNext]_snapVars
<1> USE DEF vars
<1>1. CASE Next
  BY <1>1 DEF Next
<1>2. CASE UNCHANGED vars
  BY <1>2
<1> QED
  BY <1>1, <1>2

\* The relays' invariant: types, who has the route, and the table of relays.
THEOREM RelaysInvariant == Spec => []RelaysInv
<1>1. Init => RelaysInv
  BY InitRelays DEF Init
<1>2. RelaysInv /\ [Next]_vars => RelaysInv'
  BY RelaysKeep, OneSubject
<1> QED
  BY <1>1, <1>2, PTL DEF Spec

\* The recorder's invariant: types, and the three promises of its tasks and operators.
THEOREM RecorderInvariant == Spec => []RecInv
<1>1. Init => RecInv
  BY InitRec DEF Init
<1>2. RecInv /\ [Next]_vars => RecInv'
  BY RecKeeps, OneSubject
<1> QED
  BY <1>1, <1>2, PTL DEF Spec

\* As long as the stream is not deleted under its publisher and nobody stops what he does
\* not publish, a keyframe request is sent to the session that publishes: a cleanup takes
\* the route down before it gives the slot back.
THEOREM WorkersRouteOfHolder == Spec => []RouteOfHolder
<1>1. RelaysInv => RouteOfHolder
  BY DEF RelaysInv, RouteOwned, RouteOfHolder
<1> QED
  BY <1>1, RelaysInvariant, PTL

\* Every segment a recording has left behind is completed or empty in the index.
THEOREM WorkersRecordingsIndexed == Spec => []RecordingsIndexed
<1>1. ASSUME RecInv, NEW n \in Recordings,
             NEW i \in 0 .. recorder[n].cut + (IF recorder[n].at = "ended" THEN 0 ELSE -1)
      PROVE  index[<<n, i>>] \in {"completed", "empty"}
  <2>1. recorder[n].cut \in 0 .. MaxCuts
    BY <1>1 DEF RecInv, RecorderTypeOK, Recorders
  <2>2. i \in Nat /\ (i < recorder[n].cut \/ (i = recorder[n].cut /\ recorder[n].at = "ended"))
    BY <2>1, RecorderAssumption
  <2> QED
    BY <1>1, <2>2 DEF RecInv, SegmentsClosed, Done
<1>2. RecInv => RecordingsIndexed
  BY <1>1 DEF RecordingsIndexed
<1> QED
  BY <1>2, RecorderInvariant, PTL

\* Between writes index.json says what the index says, unless recordings ran into each
\* other or a write failed.
THEOREM WorkersIndexFileCurrent == Spec => []IndexFileCurrent
<1>1. RecInv => IndexFileCurrent
  BY DEF RecInv, OneWriter, IndexFileCurrent
<1> QED
  BY <1>1, RecorderInvariant, PTL

\* The invariants of analyses and of HLS: who may start or stop, and what then runs.
THEOREM AnalysisInvariant == Spec => []AnInv
<1>1. Init => AnInv
  BY InitAn DEF Init
<1>2. AnInv /\ [Next]_vars => AnInv'
  BY AnKeeps, OneSubject
<1> QED
  BY <1>1, <1>2, PTL DEF Spec
THEOREM HlsInvariant == Spec => []HlsInv
<1>1. Init => HlsInv
  BY InitHls DEF Init
<1>2. HlsInv /\ [Next]_vars => HlsInv'
  BY HlsKeeps, OneSubject
<1> QED
  BY <1>1, <1>2, PTL DEF Spec

\* Whatever runs beside a stream - a segmenter, a recording, an analysis, a play relay -
\* can be stopped, or was, as long as its callers did not run into each other.
THEOREM WorkersStoppable == Spec => []Stoppable
<1>1. RecInv => NoStrayRecorder
  BY DEF RecInv, OneStart, NoStrayRecorder, Alone
<1>2. AnInv => NoStrayAnalysis
  BY DEF AnInv, OneCall, NoStrayAnalysis, Settled
<1>3. HlsInv => NoStrayTask
  BY DEF HlsInv, OneCaller, AllIdle, AloneBut, Expects, InOrder, NoStrayTask
<1>4. RelaysInv => NoStrayRelay
  BY DEF RelaysInv
<1>5. RecInv /\ AnInv /\ HlsInv /\ RelaysInv => Stoppable
  BY <1>1, <1>2, <1>3, <1>4 DEF Stoppable
<1> QED
  BY <1>5, RecorderInvariant, AnalysisInvariant, HlsInvariant, RelaysInvariant, PTL

\* The invariants of what HLS and the snapshots keep: types, and the playlists.
THEOREM HlsPlaylistInvariant == Spec => [](HlsTypes /\ ListsTyped /\ TasksOfSession /\ Playlists)
<1>1. Init => HlsTypes /\ ListsTyped /\ TasksOfSession /\ Playlists
  <2>1. Init => ListsTyped
    BY DEF Init, HlsInit, ListsTyped
  <2> QED
    BY <2>1, InitHlsTypes, InitPlaylists DEF Init
<1>2. HlsTypes /\ ListsTyped /\ TasksOfSession /\ Playlists /\ HlsInv /\ [Next]_vars
        => (HlsTypes /\ ListsTyped /\ TasksOfSession /\ Playlists)'
  BY HlsTypesKeep, ListsTypedKeep, TasksKeep, PlaylistsKeep, OneSubject
<1> QED
  BY <1>1, <1>2, HlsInvariant, PTL DEF Spec

LEMMA SnapInvariant == Spec => []SnapTypes
<1>1. Init => SnapTypes
  BY InitSnap DEF Init
<1>2. SnapTypes /\ [Next]_vars => SnapTypes'
  BY SnapKeeps, OneSubject
<1> QED
  BY <1>1, <1>2, PTL DEF Spec

\* What a playlist names can be fetched, as long as calls do not run into each other and no
\* session is made while its predecessor's aborted task is at work: a file is there before
\* it is listed, and pruning stays clear of the window.
THEOREM WorkersPlaylistOnDisk == Spec => []PlaylistOnDisk
<1>1. Playlists => PlaylistOnDisk
  <2> SUFFICES ASSUME Playlists, session # 0, ~overlap, ~lingered, NEW x \in ToSet(list[session])
               PROVE  x \in disk
    BY DEF PlaylistOnDisk
  <2>1. LastSegments(list[session], next[session]) /\ OnDisk(list[session], disk)
    BY DEF Playlists
  <2>2. DOMAIN list[session] = 1 .. Len(list[session])
    BY <2>1 DEF LastSegments
  <2> QED
    BY <2>1, <2>2 DEF OnDisk, ToSet
<1> QED
  BY <1>1, HlsPlaylistInvariant, PTL

\* A playlist lists the last segments, each once and in order, whatever writes failed and
\* wherever an abort caught the task, under the same two conditions.
THEOREM WorkersPlaylistGapless == Spec => []PlaylistGapless
<1>1. HlsTypes /\ Playlists => PlaylistGapless
  <2> SUFFICES ASSUME HlsTypes, Playlists, session # 0, ~overlap, ~lingered,
                      NEW i \in 1 .. Len(list[session]) - 1
               PROVE  list[session][i + 1] = list[session][i] + 1
    BY DEF PlaylistGapless
  <2> DEFINE s == list[session]
             u == next[session]
  <2>1. LastSegments(s, u)
    BY DEF Playlists
  <2>2. u \in Nat /\ Len(s) \in Nat
    <3>1. session \in Sessions
      BY HlsAssumption DEF HlsTypes, HlsTypeOK, Sessions
    <3> QED
      BY <2>1, <3>1, HlsAssumption DEF HlsTypes, HlsTypeOK, LastSegments
  <2>3. i \in 1 .. Len(s) /\ i + 1 \in 1 .. Len(s)
    BY <2>2
  <2>4. s[i] = u - Len(s) + (i - 1) /\ s[i + 1] = u - Len(s) + ((i + 1) - 1)
    BY <2>1, <2>3 DEF LastSegments
  <2> HIDE DEF s, u
  <2>5. s[i + 1] = s[i] + 1
    BY <2>2, <2>3, <2>4
  <2> QED
    BY <2>5 DEF s
<1> QED
  BY <1>1, HlsPlaylistInvariant, PTL

\* Types of all that runs beside a stream, with the bounds of its numbers: segments,
\* index entries, events within their limit, snapshot entries, relays.
THEOREM WorkersTypeOK == Spec => []WTypeOK
<1>1. HlsTypes /\ RecInv /\ AnInv /\ SnapTypes /\ RelaysInv => WTypeOK
  BY DEF HlsTypes, RecInv, AnInv, SnapTypes, RelaysInv, WTypeOK
<1> QED
  BY <1>1, HlsPlaylistInvariant, RecorderInvariant, AnalysisInvariant, SnapInvariant,
     RelaysInvariant, PTL
=============================================================================
