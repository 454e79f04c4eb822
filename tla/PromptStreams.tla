----------------------------- MODULE PromptStreams -----------------------------
(***************************************************************************)
(* What the prompt builder promises, without blocks, offsets or a cache.   *)
(* A request is two streams, one of text and one of codec tokens, that run *)
(* side by side.  The prompt has one row for each codec element, the sum of*)
(* the two streams there; where the text is shorter it is padded, and what *)
(* of it did not fit is handed to the generation loop, which adds it to the*)
(* frames to come.  No word of the request is lost or moved, and no prompt *)
(* depends on the requests before it.  PromptBuilder implements this.      *)
(***************************************************************************)
EXTENDS PromptRequest

VARIABLES
  request,   \* the last one begun
  outcome,   \* "none", "building", "built" or "failed"
  prompt,    \* the rows of the last prompt built
  overlay    \* the text left for the frames to come

vars == <<request, outcome, prompt, overlay>>

Repeat(x, n) == [i \in 1..n |-> x]

(* Instruction, role, the padding beside the codec prefill, and the text. *)
Text(r) ==
  r.instruct \o r.role \o Repeat("tts_pad", Len(CodecLeft(r)) - 1)
    \o <<"tts_bos">> \o (IF Icl(r) THEN r.ref ELSE <<>>) \o r.words \o <<"tts_eos">>

(* The voice itself, where the prefill has a slot for it. *)
Voiced(r) == [i \in DOMAIN CodecLeft(r) |->
                IF CodecLeft(r)[i] = VoiceSlot THEN r.voice ELSE CodecLeft(r)[i]]

Codec(r) ==
  Repeat("none", Len(r.instruct) + 3) \o Voiced(r)
    \o (IF Icl(r) THEN <<"codec_bos">> \o r.codes
        ELSE Repeat("codec_pad", Len(r.words) + 1) \o <<"codec_bos">>)

Streams(r) ==
  [i \in DOMAIN Codec(r) |->
     [text |-> IF i \in DOMAIN Text(r) THEN Text(r)[i] ELSE "tts_pad", codec |-> Codec(r)[i]]]

Leftover(r) ==
  IF Len(Text(r)) <= Len(Codec(r)) THEN <<"tts_pad">>
  ELSE SubSeq(Text(r), Len(Codec(r)) + 1, Len(Text(r)))
-----------------------------------------------------------------------------
Init ==
  /\ request \in Requests
  /\ outcome = "none"
  /\ prompt = <<>>
  /\ overlay = <<>>

Begin ==
  /\ outcome # "building"
  /\ request' \in Requests
  /\ outcome' = IF Refused(request') THEN "failed" ELSE "building"
  /\ prompt' = <<>>
  /\ overlay' = <<>>

Build ==
  /\ outcome = "building"
  /\ outcome' = "built"
  /\ prompt' = Streams(request)
  /\ overlay' = Leftover(request)
  /\ UNCHANGED request

(* A projection on the backend fails. *)
Fail ==
  /\ outcome = "building"
  /\ outcome' = "failed"
  /\ UNCHANGED <<request, prompt, overlay>>

Next == Begin \/ Build \/ Fail

Spec == Init /\ [][Next]_vars
=============================================================================
