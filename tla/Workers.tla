------------------------------ MODULE Workers ------------------------------
(***************************************************************************)
(* The tasks that live beside a stream: HLS generation, recording,         *)
(* analysis, snapshots and WebRTC play relays.  They share no state with   *)
(* each other, so a behaviour is about one of them, the `subject`, and the *)
(* sizes of their state spaces add up.                                     *)
(***************************************************************************)
EXTENDS Hls, Recorder, Analysis, Snapshot, PlayRelays

VARIABLE subject
vars == <<subject, hlsVars, recVars, anVars, snapVars, relayVars>>

Init ==
  /\ subject \in {"hls", "record", "analysis", "snapshot", "relays"}
  /\ HlsInit /\ RecorderInit /\ AnalysisInit /\ SnapshotInit /\ RelaysInit

Next ==
  /\ UNCHANGED subject
  /\ \/ subject = "hls" /\ HlsNext /\ UNCHANGED <<recVars, anVars, snapVars, relayVars>>
     \/ subject = "record" /\ RecorderNext /\ UNCHANGED <<hlsVars, anVars, snapVars, relayVars>>
     \/ subject = "analysis" /\ AnalysisNext /\ UNCHANGED <<hlsVars, recVars, snapVars, relayVars>>
     \/ subject = "snapshot" /\ SnapshotNext /\ UNCHANGED <<hlsVars, recVars, anVars, relayVars>>
     \/ subject = "relays" /\ RelaysNext /\ UNCHANGED <<hlsVars, recVars, anVars, snapVars>>

\* tokio runs every task that can run; select! without `biased` picks its branch at
\* random, so a stop that stays ready is taken in the end.
Fairness ==
  /\ \A n \in Recordings :
       WF_recVars(subject = "record" /\ RecorderStep(n)) /\ SF_recVars(subject = "record" /\ Told(n))
  /\ \A n \in Shots : WF_snapVars(subject = "snapshot" /\ JobStep(n))
  /\ \A w \in Watchers : WF_relayVars(subject = "relays" /\ RelayStep(w))

Spec == Init /\ [][Next]_vars /\ Fairness
----------------------------------------------------------------------------
WTypeOK == HlsTypeOK /\ RecorderTypeOK /\ AnalysisTypeOK /\ SnapshotTypeOK /\ RelaysTypeOK

\* Whatever runs beside a stream can still be stopped, as long as its calls did not run
\* into each other: its handle, channel or table entry leads to it.
Stoppable == NoStrayTask /\ NoStrayRecorder /\ NoStrayAnalysis /\ NoStrayRelay
=============================================================================
