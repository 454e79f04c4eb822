---------------------------- MODULE ChunkedDecode ----------------------------
(***************************************************************************)
(* The codec framing of one synthesis: codec_chunked_decoder_stream (the   *)
(* rolling decoder fed one frame at a time) and codec_chunked_decode (the  *)
(* one-shot decode of a buffered synthesis), src/src/codec-chunked-decode.h,*)
(* driven as pipeline_tts_synthesize drives them (src/src/pipeline-tts.cpp,*)
(* the loop from line 681 on).                                             *)
(*                                                                         *)
(* The codec decodes a slice of frames; the first frames of the slice are  *)
(* left context, decoded before, whose samples are dropped.  A block of    *)
(* audio is the sequence of the frames it plays, each with `from`, the     *)
(* number of frames that preceded the slice it was decoded in: frame i had *)
(* i - 1 - from frames of context.                                         *)
(***************************************************************************)
EXTENDS Integers, Sequences

CONSTANTS
  ChunkSizes,     \* values of chunk_frames_ that init() may be given
  LeftContexts,   \* values of left_ctx_frames_
  FirstChunks,    \* values of codec_first_chunk_frames (0: no progressive start)
  MaxNewTokens    \* params->max_new_tokens, the bound of the generation loop

ASSUME FramingAssumption ==
  /\ ChunkSizes \subseteq Int
  /\ LeftContexts \subseteq Int
  /\ FirstChunks \subseteq Int
  /\ MaxNewTokens \in Nat

VARIABLES
  streaming,         \* params->on_chunk # NULL
  chunk_frames,
  left_ctx_frames,
  next_chunk,        \* size of the next emit
  T_so_far,          \* frames pushed so far
  emit_start_frame,  \* frames whose audio was emitted
  cancelled,         \* the on_chunk callback refused a block
  audio,             \* what was handed to on_chunk, or collected in `out`
  at,                \* where pipeline_tts_synthesize is
  outcome            \* its status, "running" until it returns

framing == <<streaming, chunk_frames, left_ctx_frames>>
vars == <<framing, next_chunk, T_so_far, emit_start_frame, cancelled, audio,
          at, outcome>>

Places == {"loop", "push_frame", "flush", "decode", "returned"}
Statuses == {"OK", "CANCELLED", "GENERATE_FAILED", "OOM"}

AtMost(n, bound) == IF n < bound THEN n ELSE bound
-----------------------------------------------------------------------------
(* The operators named ...Bug are deliberate errors, one per property: with *)
(* the operator below it replaced by the error, the property must fail.     *)

ContextBug(start) == IF start - left_ctx_frames > 0 THEN left_ctx_frames ELSE 0

(* Frames of left context for a slice whose new frames start after `start`. *)
Context(start) ==
  IF start - left_ctx_frames > 0 THEN left_ctx_frames ELSE start

(* pipeline_codec_decode on the frames (from, end], and what is left of its *)
(* samples once those of the `ctx` frames of context are dropped.           *)
Decoded(from, end) == [i \in 1..(end - from) |-> [frame |-> from + i, from |-> from]]

BlockBug(start, end) ==   \* drops the configured context, not the one there is
  LET wav == Decoded(start - Context(start), end)
  IN  [i \in 1..(Len(wav) - left_ctx_frames) |-> wav[left_ctx_frames + i]]

(* The samples of the frames after `start` up to `end`, context stripped. *)
Block(start, end) ==
  LET ctx == Context(start)
      wav == Decoded(start - ctx, end)
  IN  [i \in 1..(Len(wav) - ctx) |-> wav[ctx + i]]

Return(status) == at' = "returned" /\ outcome' = status
-----------------------------------------------------------------------------
ClampedBug(n, least) == IF n < 0 THEN least ELSE n   \* lets zero through

Clamped(n, least) == IF n < least THEN least ELSE n

(* codec_chunked_decoder_stream::init clamps what the parameters ask for.  *)
(* A buffered synthesis clamps chunk and context the same way, and has no  *)
(* progressive start.                                                      *)
Init ==
  /\ streaming \in BOOLEAN
  /\ \E c \in ChunkSizes, l \in LeftContexts, f \in FirstChunks :
       /\ chunk_frames = Clamped(c, 1)
       /\ left_ctx_frames = Clamped(l, 0)
       /\ next_chunk = IF streaming /\ f > 0 /\ f < chunk_frames
                         THEN f ELSE chunk_frames
  /\ T_so_far = 0
  /\ emit_start_frame = 0
  /\ cancelled = FALSE
  /\ audio = <<>>
  /\ at = "loop"
  /\ outcome = "running"

(* The talker and the code predictor produced one more frame: it joins     *)
(* all_codes, and in streaming mode push_frame starts.                     *)
PushFrame ==
  /\ at = "loop"
  /\ T_so_far < MaxNewTokens
  /\ T_so_far' = T_so_far + 1
  /\ at' = IF streaming THEN "push_frame" ELSE "loop"
  /\ UNCHANGED <<framing, next_chunk, emit_start_frame, cancelled, audio, outcome>>

(* The codec returns no samples for the slice emit_one asked for. *)
DecodeFails ==
  /\ Return("GENERATE_FAILED")
  /\ UNCHANGED <<framing, next_chunk, T_so_far, emit_start_frame, cancelled, audio>>

(* emit_one: the block reaches on_chunk, which refuses it.  The cursor does *)
(* not move, `cancelled` tells the caller why emit_one returned false.      *)
CallbackRefuses(end) ==
  /\ audio' = audio \o Block(emit_start_frame, end)
  /\ cancelled' = TRUE
  /\ Return(IF cancelled' THEN "CANCELLED" ELSE "GENERATE_FAILED")
  /\ UNCHANGED <<framing, next_chunk, T_so_far, emit_start_frame>>

(* emit_one: the block reaches on_chunk, which takes it. *)
EmitsUpTo(end) ==
  /\ audio' = audio \o Block(emit_start_frame, end)
  /\ emit_start_frame' = end

NextChunkBug(cursor) == AtMost(next_chunk * 4, chunk_frames)

(* Size of the emit that follows one of `next_chunk` frames: x2 after the   *)
(* first emit, x4 after the others, never more than chunk_frames.           *)
NextChunk(cursor) ==
  LET growth == IF cursor = next_chunk THEN 2 ELSE 4
  IN  AtMost(next_chunk * growth, chunk_frames)

Emittable == T_so_far - emit_start_frame >= next_chunk

(* One turn of push_frame's loop. *)
EmitChunk ==
  LET end == emit_start_frame + next_chunk
  IN  /\ at = "push_frame"
      /\ Emittable
      /\ \/ DecodeFails
         \/ CallbackRefuses(end)
         \/ /\ EmitsUpTo(end)
            /\ next_chunk' = NextChunk(emit_start_frame')
            /\ UNCHANGED <<framing, T_so_far, cancelled, at, outcome>>

(* Nothing more to emit: push_frame returns true to the generation loop. *)
PushReturns ==
  /\ at = "push_frame"
  /\ ~Emittable
  /\ at' = "loop"
  /\ UNCHANGED <<framing, next_chunk, T_so_far, emit_start_frame, cancelled,
                 audio, outcome>>

(* The talker sampled EOS, or the loop used up max_new_tokens. *)
LoopEnds ==
  /\ at = "loop"
  /\ at' = IF streaming THEN "flush" ELSE "decode"
  /\ UNCHANGED <<framing, next_chunk, T_so_far, emit_start_frame, cancelled,
                 audio, outcome>>

(* The poll of params->cancel at the head of a step, or a step that fails   *)
(* in the talker, the sampler or the code predictor.                        *)
LoopAborts ==
  /\ at = "loop"
  /\ T_so_far < MaxNewTokens
  /\ \E status \in {"CANCELLED", "GENERATE_FAILED"} : Return(status)
  /\ UNCHANGED <<framing, next_chunk, T_so_far, emit_start_frame, cancelled, audio>>

(* Streaming tail: one short block if frames remain, then QT_STATUS_OK. *)
Flush ==
  /\ at = "flush"
  /\ IF T_so_far > emit_start_frame
       THEN \/ DecodeFails
            \/ CallbackRefuses(T_so_far)
            \/ /\ EmitsUpTo(T_so_far)
               /\ Return("OK")
               /\ UNCHANGED <<framing, next_chunk, T_so_far, cancelled>>
       ELSE /\ Return("OK")
            /\ UNCHANGED <<framing, next_chunk, T_so_far, emit_start_frame,
                           cancelled, audio>>

(* One turn of the loop of codec_chunked_decode; a failed slice throws away *)
(* what was decoded so far.                                                 *)
DecodeChunk ==
  LET end == AtMost(emit_start_frame + chunk_frames, T_so_far)
  IN  /\ at = "decode"
      /\ emit_start_frame < T_so_far
      /\ \/ /\ EmitsUpTo(end)
            /\ UNCHANGED <<framing, next_chunk, T_so_far, cancelled, at, outcome>>
         \/ /\ audio' = <<>>
            /\ Return("GENERATE_FAILED")
            /\ UNCHANGED <<framing, next_chunk, T_so_far, emit_start_frame, cancelled>>

(* The buffered audio is copied to the caller; malloc may fail, except when *)
(* there is no frame at all, which is a success without audio.              *)
ReturnAudio ==
  /\ at = "decode"
  /\ emit_start_frame = T_so_far
  /\ \/ Return("OK")
     \/ T_so_far > 0 /\ Return("OOM")
  /\ UNCHANGED <<framing, next_chunk, T_so_far, emit_start_frame, cancelled, audio>>

Returned == at = "returned" /\ UNCHANGED vars

Next ==
  \/ PushFrame \/ EmitChunk \/ PushReturns \/ LoopEnds \/ LoopAborts
  \/ Flush \/ DecodeChunk \/ ReturnAudio
  \/ Returned

(* The loops are sequential code: as long as the synthesis has not returned *)
(* it takes its next step, and no decode, callback or allocation has to     *)
(* fail for it to get on.                                                   *)
Proceed == Next /\ outcome' \in {"running", "OK"}
Fairness == WF_vars(Proceed)

Spec == Init /\ [][Next]_vars
FairSpec == Spec /\ Fairness
-----------------------------------------------------------------------------
TypeOK ==
  /\ streaming \in BOOLEAN
  /\ chunk_frames \in Nat \ {0}
  /\ left_ctx_frames \in Nat
  /\ next_chunk \in 1..chunk_frames
  /\ T_so_far \in 0..MaxNewTokens
  /\ emit_start_frame \in 0..T_so_far
  /\ cancelled \in BOOLEAN
  /\ audio \in Seq([frame : Nat, from : Nat])
  /\ at \in Places
  /\ outcome \in Statuses \union {"running"}

(* Every frame that is heard was decoded with all the left context the     *)
(* parameters ask for, or with every frame before it when there are fewer: *)
(* no block boundary is audible (header of codec-chunked-decode.h).        *)
ContextKept ==
  \A i \in DOMAIN audio :
    i - 1 - audio[i].from >= AtMost(i - 1, left_ctx_frames)

(* The growth of the blocks (push_frame's comment on x2 then x4): once the *)
(* first block of a stream is sent, at any moment, the talker has produced *)
(* at most four frames for each frame sent.  A talker whose frames take at *)
(* most a quarter of the time they play, the decode aside, so never        *)
(* starves the listener; the comment asks for "well under 1/3", and after  *)
(* blocks of 1, 2 and 8 frames, with 32 to come, a third is not enough.    *)
ListenerIsFed ==
  streaming /\ audio # <<>> => T_so_far <= 4 * Len(audio)

(* The loops of the decoder end: no framing keeps a synthesis, and the     *)
(* lock it holds, forever.                                                 *)
Terminates == <>(at = "returned")

(* The listener's view: streamed blocks are heard as they are emitted,     *)
(* buffered audio only once it is returned.                                *)
heard ==
  IF streaming \/ outcome = "OK" THEN [i \in DOMAIN audio |-> audio[i].frame]
                                 ELSE <<>>

Delivery == INSTANCE FrameDelivery WITH produced <- T_so_far

(* Streamed or buffered, whatever the framing, the frames are heard in     *)
(* order, each once, and all of them when the status is QT_STATUS_OK.      *)
DeliversFrames == Delivery!Spec
=============================================================================
