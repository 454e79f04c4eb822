---------------------------- MODULE FrameDelivery ----------------------------
(***************************************************************************)
(* What one synthesis promises whoever listens to it, whatever the framing *)
(* of the codec and whether the audio is streamed or returned at the end:  *)
(* the audio of the generated frames is heard in order, each frame once,   *)
(* and a synthesis that reports success has let every frame be heard.      *)
(*                                                                         *)
(* A frame is one step of the talker (80 ms of audio); it is named by its  *)
(* number, 1 for the first.  ChunkedDecode implements this specification.  *)
(***************************************************************************)
EXTENDS Naturals, Sequences

VARIABLES
  produced,   \* how many frames the talker has generated
  heard,      \* the frames whose audio was handed to the listener, in order
  outcome     \* the status of the synthesis, "running" until it returns

vars == <<produced, heard, outcome>>

(* The first n frames, in order. *)
FirstFrames(n) == [i \in 1..n |-> i]

TypeOK ==
  /\ produced \in Nat
  /\ heard \in Seq(Nat)
  /\ outcome \in {"running", "OK", "CANCELLED", "GENERATE_FAILED", "OOM"}
-----------------------------------------------------------------------------
Init ==
  /\ produced = 0
  /\ heard = <<>>
  /\ outcome = "running"

(* The talker generates one more frame. *)
Produce ==
  /\ outcome = "running"
  /\ produced' = produced + 1
  /\ UNCHANGED <<heard, outcome>>

(* A block of audio reaches the listener: the frames that come right after *)
(* those heard so far.  The listener may refuse it, which ends everything. *)
Deliver ==
  /\ outcome = "running"
  /\ \E n \in Len(heard)+1 .. produced : heard' = FirstFrames(n)
  /\ outcome' \in {"running", "CANCELLED"}
  /\ UNCHANGED produced

(* Success: whatever was not heard yet is heard now. *)
Finish ==
  /\ outcome = "running"
  /\ heard' = FirstFrames(produced)
  /\ outcome' = "OK"
  /\ UNCHANGED produced

(* The synthesis is cancelled between two frames, or a step of it fails. *)
GiveUp ==
  /\ outcome = "running"
  /\ outcome' \in {"CANCELLED", "GENERATE_FAILED", "OOM"}
  /\ UNCHANGED <<produced, heard>>

Next == Produce \/ Deliver \/ Finish \/ GiveUp

Spec == Init /\ [][Next]_vars
=============================================================================
