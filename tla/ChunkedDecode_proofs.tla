------------------------ MODULE ChunkedDecode_proofs ------------------------
(***************************************************************************)
(* For every set of chunk sizes, contexts and first chunks, and every      *)
(* max_new_tokens: the type invariant and the safety invariants of         *)
(* ChunkedDecode, and the fact that it implements FrameDelivery.           *)
(***************************************************************************)
EXTENDS ChunkedDecode, TLAPS

Block_t == [frame : Nat, from : Nat]

(* a plays the first n frames, each with the left context it is due. *)
Plays(a, n) ==
  /\ a \in Seq(Block_t)
  /\ Len(a) = n
  /\ \A i \in 1..n : /\ a[i].frame = i
                     /\ i - 1 - a[i].from >= AtMost(i - 1, left_ctx_frames)

(* What each place of the code knows of the cursor. *)
CursorInv ==
  /\ at = "returned" <=> outcome # "running"
  /\ at \in {"push_frame", "flush"} => streaming
  /\ at = "decode" => ~streaming
  /\ at = "loop" /\ ~streaming => emit_start_frame = 0
  /\ at \in {"loop", "flush"} /\ streaming
       => T_so_far - emit_start_frame < next_chunk
  /\ at = "push_frame" => T_so_far - emit_start_frame <= next_chunk

(* What was heard or collected is what the cursor says. *)
AudioInv ==
  /\ Plays(audio, Len(audio))
  /\ at # "returned" => Len(audio) = emit_start_frame
  /\ outcome = "OK" => Len(audio) = T_so_far

GrowthInv ==
  streaming /\ at \in {"loop", "push_frame"} /\ emit_start_frame > 0
    => next_chunk <= 3 * emit_start_frame

IInv == TypeOK /\ CursorInv /\ AudioInv /\ GrowthInv /\ ListenerIsFed
-----------------------------------------------------------------------------
LEMMA FunctionIsSeq ==
  ASSUME NEW S, NEW n \in Nat, NEW f \in [1..n -> S]
  PROVE  f \in Seq(S) /\ Len(f) = n
OBVIOUS

(* The samples a slice leaves once its context is dropped are those of the *)
(* frames that follow `start`, decoded from `start - Context(start)` on.   *)
LEMMA BlockFacts ==
  ASSUME NEW start \in Nat, NEW end \in Nat, start <= end,
         left_ctx_frames \in Nat
  PROVE  /\ Block(start, end) \in Seq(Block_t)
         /\ Len(Block(start, end)) = end - start
         /\ \A i \in 1..(end - start) :
              /\ Block(start, end)[i].frame = start + i
              /\ Block(start, end)[i].from = start - Context(start)
<1> DEFINE ctx == Context(start)
           wav == Decoded(start - ctx, end)
<1>1. ctx \in 0..start
  BY DEF Context
<1>2. end - (start - ctx) \in Nat /\ end - (start - ctx) - ctx = end - start
  BY <1>1
<1>3. Len(wav) = end - (start - ctx)
  BY <1>2 DEF Decoded
<1>4. Block(start, end) = [i \in 1..(end - start) |-> wav[ctx + i]]
  BY <1>2, <1>3 DEF Block
<1>5. ASSUME NEW i \in 1..(end - start)
      PROVE  wav[ctx + i] = [frame |-> start + i, from |-> start - ctx]
  <2>1. ctx + i \in 1..(end - (start - ctx))
    BY <1>1
  <2>2. (start - ctx) + (ctx + i) = start + i
    BY <1>1
  <2> QED BY <2>1, <2>2 DEF Decoded
<1>6. ASSUME NEW i \in 1..(end - start)
      PROVE  wav[ctx + i] \in Block_t
  <2>1. [frame |-> start + i, from |-> start - ctx] \in Block_t
    BY <1>1 DEF Block_t
  <2> QED BY <1>5, <2>1
<1>7. Block(start, end) \in [1..(end - start) -> Block_t]
  <2> HIDE DEF wav, ctx
  <2> QED BY <1>4, <1>6, Zenon
<1>8. end - start \in Nat
  OBVIOUS
<1>9. Block(start, end) \in Seq(Block_t) /\ Len(Block(start, end)) = end - start
  BY <1>7, <1>8, FunctionIsSeq
<1>10. ASSUME NEW i \in 1..(end - start)
       PROVE  /\ Block(start, end)[i].frame = start + i
              /\ Block(start, end)[i].from = start - Context(start)
  <2>1. Block(start, end)[i] = [frame |-> start + i, from |-> start - ctx]
    BY <1>4, <1>5
  <2> QED BY <2>1
<1> QED BY <1>9, <1>10

(* One more block keeps the frames in order, each with its context. *)
LEMMA BlockExtends ==
  ASSUME NEW start \in Nat, NEW end \in Nat, start <= end,
         left_ctx_frames \in Nat, NEW a, Plays(a, start)
  PROVE  Plays(a \o Block(start, end), end)
<1> DEFINE b == Block(start, end)
<1>1. /\ b \in Seq(Block_t)
      /\ Len(b) = end - start
      /\ \A i \in 1..(end - start) : /\ b[i].frame = start + i
                                     /\ b[i].from = start - Context(start)
  BY BlockFacts
<1> HIDE DEF b
<1>2. a \in Seq(Block_t) /\ Len(a) = start
  BY DEF Plays
<1>3. a \o b \in Seq(Block_t) /\ Len(a \o b) = end
  BY <1>1, <1>2
<1>4. ASSUME NEW i \in 1..end
      PROVE  /\ (a \o b)[i].frame = i
             /\ i - 1 - (a \o b)[i].from >= AtMost(i - 1, left_ctx_frames)
  <2>1. CASE i <= start
    BY <2>1, <1>1, <1>2 DEF Plays
  <2>2. CASE i > start
    <3>1. (a \o b)[i] = b[i - start] /\ i - start \in 1..(end - start)
      BY <2>2, <1>1, <1>2
    <3>2. (a \o b)[i].frame = i /\ (a \o b)[i].from = start - Context(start)
      BY <3>1, <1>1
    <3>3. i - 1 - (start - Context(start)) >= AtMost(i - 1, left_ctx_frames)
      BY <2>2 DEF Context, AtMost
    <3>4. Context(start) \in Int /\ AtMost(i - 1, left_ctx_frames) \in Int
      BY DEF Context, AtMost
    <3> QED BY <3>2, <3>3, <3>4
  <2>3. i <= start \/ i > start
    OBVIOUS
  <2> QED BY <2>1, <2>2, <2>3
<1> QED BY <1>3, <1>4 DEF Plays, b

(* emit_one hands over a block: the new audio plays the frames up to end. *)
LEMMA EmitPlays ==
  ASSUME IInv, at # "returned",
         NEW end \in Nat, emit_start_frame <= end,
         UNCHANGED framing,
         audio' = audio \o Block(emit_start_frame, end)
  PROVE  /\ audio' \in Seq(Block_t)
         /\ Plays(audio, Len(audio))'
         /\ Len(audio') = end
<1>1. Plays(audio, emit_start_frame) /\ emit_start_frame \in Nat /\ left_ctx_frames \in Nat
  BY DEF IInv, AudioInv, TypeOK
<1>2. Plays(audio', end)
  BY <1>1, BlockExtends
<1>3. Len(audio') = end /\ left_ctx_frames' = left_ctx_frames
  BY <1>2 DEF Plays, framing
<1> QED BY <1>2, <1>3 DEF Plays

(* A step that leaves the audio alone. *)
LEMMA SilencePlays ==
  ASSUME IInv, UNCHANGED <<framing, audio>>
  PROVE  Plays(audio, Len(audio))'
BY DEF IInv, AudioInv, Plays, framing
-----------------------------------------------------------------------------
(* A step that leaves the audio and the talker alone, or one after which   *)
(* every frame produced is sent.                                           *)
LEMMA QuietFed ==
  ASSUME IInv, UNCHANGED <<streaming, T_so_far, audio>>
  PROVE  ListenerIsFed'
BY DEF IInv, ListenerIsFed

LEMMA CaughtUpFed ==
  ASSUME IInv, T_so_far' = T_so_far, Len(audio') = T_so_far
  PROVE  ListenerIsFed'
<1>1. T_so_far \in Nat
  BY DEF IInv, TypeOK
<1> QED BY <1>1 DEF ListenerIsFed
-----------------------------------------------------------------------------
LEMMA InitInv == Init => IInv
<1> SUFFICES ASSUME Init PROVE IInv
  OBVIOUS
<1> PICK c \in ChunkSizes, l \in LeftContexts, f \in FirstChunks :
      /\ chunk_frames = Clamped(c, 1)
      /\ left_ctx_frames = Clamped(l, 0)
      /\ next_chunk = IF streaming /\ f > 0 /\ f < chunk_frames
                        THEN f ELSE chunk_frames
  BY DEF Init
<1>1. chunk_frames \in Nat \ {0} /\ left_ctx_frames \in Nat
  BY FramingAssumption DEF Clamped
<1>2. next_chunk \in 1..chunk_frames
  BY <1>1, FramingAssumption
<1>3. audio = <<>> /\ audio \in Seq(Block_t) /\ Len(audio) = 0
  BY DEF Init
<1>4. TypeOK
  <2>1. /\ streaming \in BOOLEAN /\ cancelled \in BOOLEAN
        /\ T_so_far = 0 /\ emit_start_frame = 0
        /\ at = "loop" /\ outcome = "running"
    BY DEF Init
  <2>2. T_so_far \in 0..MaxNewTokens /\ emit_start_frame \in 0..T_so_far
    BY <2>1, FramingAssumption
  <2>3. at \in Places /\ outcome \in Statuses \union {"running"}
    BY <2>1 DEF Places
  <2> QED BY <1>1, <1>2, <1>3, <2>1, <2>2, <2>3 DEF TypeOK, Block_t
<1>5. CursorInv
  BY <1>2, <1>1 DEF Init, CursorInv
<1>6. AudioInv
  BY <1>3 DEF Init, AudioInv, Plays
<1>7. GrowthInv
  BY DEF Init, GrowthInv
<1>8. ListenerIsFed
  BY <1>3 DEF ListenerIsFed
<1> QED BY <1>4, <1>5, <1>6, <1>7, <1>8 DEF IInv

(* A return changes neither the framing nor the cursor nor the audio. *)
LEMMA ReturnKeeps ==
  ASSUME IInv,
         NEW status \in Statuses,
         status = "OK" => Len(audio) = T_so_far,
         at' = "returned", outcome' = status,
         UNCHANGED <<framing, next_chunk, T_so_far, emit_start_frame, audio>>,
         cancelled' \in BOOLEAN
  PROVE  IInv'
<1>1. TypeOK'
  BY DEF IInv, TypeOK, framing, Places
<1>2. CursorInv'
  BY DEF CursorInv, Statuses
<1>3. AudioInv'
  BY SilencePlays DEF AudioInv
<1>4. GrowthInv'
  BY DEF GrowthInv
<1>5. ListenerIsFed'
  BY QuietFed DEF framing
<1> QED BY <1>1, <1>2, <1>3, <1>4, <1>5 DEF IInv

(* The codec fails, or the callback refuses the block after hearing it. *)
LEMMA RefusalKeeps ==
  ASSUME IInv, at # "returned",
         NEW end \in Nat, emit_start_frame <= end, T_so_far = end,
         CallbackRefuses(end)
  PROVE  IInv'
<1>1. /\ UNCHANGED framing
      /\ audio' = audio \o Block(emit_start_frame, end)
      /\ at' = "returned" /\ outcome' = "CANCELLED" /\ cancelled' = TRUE
      /\ UNCHANGED <<next_chunk, T_so_far, emit_start_frame>>
  BY DEF CallbackRefuses, Return, framing
<1>2. Plays(audio, Len(audio))' /\ audio' \in Seq(Block_t)
  BY <1>1, EmitPlays
<1>3. TypeOK'
  BY <1>1, <1>2 DEF IInv, TypeOK, framing, Places, Statuses, Block_t
<1>4. CursorInv'
  BY <1>1 DEF CursorInv
<1>5. AudioInv'
  BY <1>1, <1>2 DEF AudioInv
<1>6. GrowthInv'
  BY <1>1 DEF GrowthInv
<1>7. ListenerIsFed'
  BY <1>1, EmitPlays, CaughtUpFed
<1> QED BY <1>3, <1>4, <1>5, <1>6, <1>7 DEF IInv

LEMMA FailureKeeps ==
  ASSUME IInv, DecodeFails
  PROVE  IInv'
<1>1. cancelled' \in BOOLEAN
  BY DEF DecodeFails, IInv, TypeOK
<1> QED BY <1>1, ReturnKeeps DEF DecodeFails, Return, Statuses

LEMMA PushFrameInv == IInv /\ PushFrame => IInv'
<1> SUFFICES ASSUME IInv, PushFrame PROVE IInv'
  OBVIOUS
<1> USE DEF PushFrame
<1>1. TypeOK'
  <2>1. T_so_far' \in 0..MaxNewTokens /\ emit_start_frame' \in 0..T_so_far'
    BY FramingAssumption DEF IInv, TypeOK
  <2>2. at' \in Places
    BY DEF Places
  <2> QED BY <2>1, <2>2 DEF IInv, TypeOK, framing
<1>2. CursorInv'
  BY DEF IInv, TypeOK, CursorInv, framing
<1>3. AudioInv'
  BY SilencePlays DEF IInv, CursorInv, AudioInv, TypeOK
<1>4. GrowthInv'
  BY DEF IInv, GrowthInv, framing
<1>5. ListenerIsFed'
  BY DEF IInv, ListenerIsFed, GrowthInv, CursorInv, AudioInv, TypeOK, framing
<1> QED BY <1>1, <1>2, <1>3, <1>4, <1>5 DEF IInv

LEMMA EmitChunkInv == IInv /\ EmitChunk => IInv'
<1> SUFFICES ASSUME IInv, EmitChunk PROVE IInv'
  OBVIOUS
<1> DEFINE end == emit_start_frame + next_chunk
<1>1. /\ at = "push_frame" /\ streaming
      /\ T_so_far = end
      /\ end \in Nat /\ emit_start_frame <= end
      /\ emit_start_frame \in Nat /\ next_chunk \in Nat \ {0}
      /\ chunk_frames \in Nat \ {0} /\ next_chunk <= chunk_frames
  BY DEF EmitChunk, Emittable, IInv, TypeOK, CursorInv
<1>2. CASE DecodeFails
  BY <1>2, FailureKeeps
<1>3. CASE CallbackRefuses(end)
  BY <1>1, <1>3, RefusalKeeps
<1>4. CASE /\ EmitsUpTo(end)
           /\ next_chunk' = NextChunk(emit_start_frame')
           /\ UNCHANGED <<framing, T_so_far, cancelled, at, outcome>>
  <2>1. /\ Plays(audio, Len(audio))' /\ Len(audio') = end
        /\ audio' \in Seq(Block_t)
    BY <1>1, <1>4, EmitPlays DEF EmitsUpTo
  <2>2. emit_start_frame' = end
    BY <1>4 DEF EmitsUpTo
  <2>3. next_chunk' = AtMost(next_chunk * (IF emit_start_frame = 0 THEN 2 ELSE 4),
                             chunk_frames)
    BY <1>1, <1>4, <2>2 DEF NextChunk
  <2>4. next_chunk' \in 1..chunk_frames
    BY <1>1, <2>3 DEF AtMost
  <2>5. TypeOK'
    BY <1>1, <1>4, <2>1, <2>2, <2>4 DEF IInv, TypeOK, framing, Block_t
  <2>6. CursorInv'
    BY <1>1, <1>4, <2>2, <2>4 DEF IInv, CursorInv, framing
  <2>7. AudioInv'
    BY <1>1, <1>4, <2>1, <2>2 DEF IInv, CursorInv, AudioInv
  <2>8. GrowthInv'
    <3>1. CASE emit_start_frame = 0
      BY <1>1, <2>2, <2>3, <3>1 DEF GrowthInv, AtMost
    <3>2. CASE emit_start_frame > 0
      <4>1. next_chunk <= 3 * emit_start_frame
        BY <1>1, <3>2 DEF IInv, GrowthInv
      <4> QED BY <1>1, <2>2, <2>3, <3>2, <4>1 DEF GrowthInv, AtMost
    <3> QED BY <1>1, <3>1, <3>2
  <2>9. ListenerIsFed'
    BY <1>1, <1>4, <2>1, CaughtUpFed
  <2> QED BY <2>5, <2>6, <2>7, <2>8, <2>9 DEF IInv
<1> QED BY <1>2, <1>3, <1>4 DEF EmitChunk

LEMMA PushReturnsInv == IInv /\ PushReturns => IInv'
<1> SUFFICES ASSUME IInv, PushReturns PROVE IInv'
  OBVIOUS
<1> USE DEF PushReturns, Emittable
<1>1. TypeOK'
  BY DEF IInv, TypeOK, framing, Places
<1>2. CursorInv'
  BY DEF IInv, TypeOK, CursorInv, framing
<1>3. AudioInv'
  BY SilencePlays DEF IInv, AudioInv
<1>4. GrowthInv'
  BY DEF IInv, GrowthInv, framing
<1>5. ListenerIsFed'
  BY QuietFed DEF framing
<1> QED BY <1>1, <1>2, <1>3, <1>4, <1>5 DEF IInv

LEMMA LoopEndsInv == IInv /\ LoopEnds => IInv'
<1> SUFFICES ASSUME IInv, LoopEnds PROVE IInv'
  OBVIOUS
<1> USE DEF LoopEnds
<1>1. TypeOK'
  BY DEF IInv, TypeOK, framing, Places
<1>2. CursorInv'
  BY DEF IInv, TypeOK, CursorInv, framing
<1>3. AudioInv'
  BY SilencePlays DEF IInv, AudioInv
<1>4. GrowthInv'
  BY DEF GrowthInv
<1>5. ListenerIsFed'
  BY QuietFed DEF framing
<1> QED BY <1>1, <1>2, <1>3, <1>4, <1>5 DEF IInv

LEMMA LoopAbortsInv == IInv /\ LoopAborts => IInv'
<1> SUFFICES ASSUME IInv, LoopAborts PROVE IInv'
  OBVIOUS
<1> PICK status \in {"CANCELLED", "GENERATE_FAILED"} : Return(status)
  BY DEF LoopAborts
<1>1. cancelled' \in BOOLEAN
  BY DEF LoopAborts, IInv, TypeOK
<1> QED BY <1>1, ReturnKeeps DEF LoopAborts, Return, Statuses

LEMMA FlushInv == IInv /\ Flush => IInv'
<1> SUFFICES ASSUME IInv, Flush PROVE IInv'
  OBVIOUS
<1>1. /\ at = "flush" /\ streaming
      /\ T_so_far \in Nat /\ emit_start_frame \in Nat
      /\ emit_start_frame <= T_so_far /\ Len(audio) = emit_start_frame
      /\ cancelled \in BOOLEAN
  BY DEF Flush, IInv, TypeOK, CursorInv, AudioInv
<1>2. CASE T_so_far > emit_start_frame /\ DecodeFails
  BY <1>2, FailureKeeps
<1>3. CASE T_so_far > emit_start_frame /\ CallbackRefuses(T_so_far)
  BY <1>1, <1>3, RefusalKeeps
<1>4. CASE /\ T_so_far > emit_start_frame
           /\ EmitsUpTo(T_so_far) /\ Return("OK")
           /\ UNCHANGED <<framing, next_chunk, T_so_far, cancelled>>
  <2>1. /\ Plays(audio, Len(audio))' /\ Len(audio') = T_so_far
        /\ audio' \in Seq(Block_t)
    BY <1>1, <1>4, EmitPlays DEF EmitsUpTo
  <2>2. /\ emit_start_frame' = T_so_far /\ T_so_far' = T_so_far
        /\ at' = "returned" /\ outcome' = "OK"
    BY <1>4 DEF EmitsUpTo, Return
  <2>3. TypeOK'
    BY <1>1, <1>4, <2>1, <2>2 DEF IInv, TypeOK, framing, Block_t, Places, Statuses
  <2>4. CursorInv'
    BY <2>2 DEF CursorInv
  <2>5. AudioInv'
    BY <2>1, <2>2 DEF AudioInv
  <2>6. GrowthInv'
    BY <2>2 DEF GrowthInv
  <2>7. ListenerIsFed'
    BY <2>1, <2>2, CaughtUpFed
  <2> QED BY <2>3, <2>4, <2>5, <2>6, <2>7 DEF IInv
<1>5. CASE /\ ~(T_so_far > emit_start_frame)
           /\ Return("OK")
           /\ UNCHANGED <<framing, next_chunk, T_so_far, emit_start_frame,
                          cancelled, audio>>
  <2>1. Len(audio) = T_so_far
    BY <1>1, <1>5
  <2> QED BY <1>1, <1>5, <2>1, ReturnKeeps DEF Return, Statuses
<1> QED BY <1>2, <1>3, <1>4, <1>5 DEF Flush

LEMMA DecodeChunkInv == IInv /\ DecodeChunk => IInv'
<1> SUFFICES ASSUME IInv, DecodeChunk PROVE IInv'
  OBVIOUS
<1> DEFINE end == AtMost(emit_start_frame + chunk_frames, T_so_far)
<1>1. /\ at = "decode" /\ ~streaming
      /\ end \in Nat /\ emit_start_frame <= end /\ end <= T_so_far
  BY DEF DecodeChunk, IInv, TypeOK, CursorInv, AtMost
<1>2. CASE /\ EmitsUpTo(end)
           /\ UNCHANGED <<framing, next_chunk, T_so_far, cancelled, at, outcome>>
  <2>1. /\ Plays(audio, Len(audio))' /\ Len(audio') = end
        /\ audio' \in Seq(Block_t)
    BY <1>1, <1>2, EmitPlays DEF EmitsUpTo
  <2>2. emit_start_frame' = end
    BY <1>2 DEF EmitsUpTo
  <2> HIDE DEF end
  <2>3. TypeOK'
    BY <1>1, <1>2, <2>1, <2>2 DEF IInv, TypeOK, framing, Block_t
  <2>4. CursorInv'
    BY <1>1, <1>2 DEF IInv, CursorInv, framing
  <2>5. AudioInv'
    BY <1>1, <1>2, <2>1, <2>2 DEF IInv, CursorInv, AudioInv
  <2>6. GrowthInv'
    BY <1>1, <1>2 DEF GrowthInv, framing
  <2>7. ListenerIsFed'
    BY <1>1, <1>2 DEF ListenerIsFed, framing
  <2> QED BY <2>3, <2>4, <2>5, <2>6, <2>7 DEF IInv
<1>3. CASE /\ audio' = <<>> /\ Return("GENERATE_FAILED")
           /\ UNCHANGED <<framing, next_chunk, T_so_far, emit_start_frame, cancelled>>
  <2>1. /\ audio' = <<>> /\ audio' \in Seq(Block_t) /\ Len(audio') = 0
        /\ at' = "returned" /\ outcome' = "GENERATE_FAILED"
    BY <1>3 DEF Return
  <2>2. TypeOK'
    BY <1>3, <2>1 DEF IInv, TypeOK, framing, Block_t, Places, Statuses
  <2>3. CursorInv' /\ GrowthInv' /\ ListenerIsFed'
    BY <2>1 DEF CursorInv, GrowthInv, ListenerIsFed
  <2>4. AudioInv'
    BY <2>1 DEF AudioInv, Plays
  <2> QED BY <2>2, <2>3, <2>4 DEF IInv
<1> QED BY <1>2, <1>3 DEF DecodeChunk

LEMMA ReturnAudioInv == IInv /\ ReturnAudio => IInv'
<1> SUFFICES ASSUME IInv, ReturnAudio PROVE IInv'
  OBVIOUS
<1>1. Len(audio) = T_so_far /\ cancelled' \in BOOLEAN
  BY DEF ReturnAudio, IInv, TypeOK, AudioInv
<1>2. PICK status \in {"OK", "OOM"} : Return(status)
  BY DEF ReturnAudio
<1> QED BY <1>1, <1>2, ReturnKeeps DEF ReturnAudio, Return, Statuses

LEMMA StutterInv == IInv /\ UNCHANGED vars => IInv'
<1> SUFFICES ASSUME IInv, UNCHANGED vars PROVE IInv'
  OBVIOUS
<1> USE DEF vars, framing
<1>1. TypeOK' /\ CursorInv' /\ GrowthInv' /\ ListenerIsFed'
  BY DEF IInv, TypeOK, CursorInv, GrowthInv, ListenerIsFed
<1>2. AudioInv'
  BY SilencePlays DEF IInv, AudioInv
<1> QED BY <1>1, <1>2 DEF IInv
-----------------------------------------------------------------------------
(* The inductive invariant holds of every synthesis. *)
THEOREM Invariance == Spec => []IInv
<1>1. IInv /\ [Next]_vars => IInv'
  BY PushFrameInv, EmitChunkInv, PushReturnsInv, LoopEndsInv, LoopAbortsInv,
     FlushInv, DecodeChunkInv, ReturnAudioInv, StutterInv DEF Next, Returned
<1> QED BY InitInv, <1>1, PTL DEF Spec

(* The state of the rolling decoder keeps its types: chunk sizes stay in   *)
(* 1..chunk_frames, the cursor never passes the frames that exist.         *)
THEOREM TypeCorrect == Spec => []TypeOK
BY Invariance, PTL DEF IInv

(* No frame is ever decoded with less left context than it is due. *)
THEOREM ContextIsKept == Spec => []ContextKept
<1>1. IInv => ContextKept
  <2> SUFFICES ASSUME IInv, NEW i \in DOMAIN audio
               PROVE  i - 1 - audio[i].from >= AtMost(i - 1, left_ctx_frames)
    BY DEF ContextKept
  <2>1. DOMAIN audio = 1..Len(audio)
    BY DEF IInv, TypeOK
  <2> QED BY <2>1 DEF IInv, AudioInv, Plays
<1> QED BY <1>1, Invariance, PTL

(* For every framing, a stream whose first block is out never has more     *)
(* than four frames produced for each one sent.                            *)
THEOREM ListenerStaysFed == Spec => []ListenerIsFed
<1>1. IInv => ListenerIsFed
  BY DEF IInv
<1> QED BY <1>1, Invariance, PTL
-----------------------------------------------------------------------------
(* The frame numbers of a sequence that Plays the first n frames. *)
LEMMA PlaysFirstFrames ==
  ASSUME NEW a, NEW n \in Nat, Plays(a, n)
  PROVE  [i \in DOMAIN a |-> a[i].frame] = Delivery!FirstFrames(n)
<1>1. DOMAIN a = 1..n
  BY DEF Plays
<1> QED BY <1>1 DEF Plays, Delivery!FirstFrames

LEMMA NothingHeard == [i \in DOMAIN <<>> |-> <<>>[i].frame] = <<>>
OBVIOUS

(* What is heard, in terms of the length of the audio. *)
LEMMA HeardFacts ==
  ASSUME IInv
  PROVE  heard = IF streaming \/ outcome = "OK"
                   THEN Delivery!FirstFrames(Len(audio)) ELSE <<>>
<1>1. Plays(audio, Len(audio)) /\ Len(audio) \in Nat
  BY DEF IInv, AudioInv, TypeOK
<1>2. [i \in DOMAIN audio |-> audio[i].frame] = Delivery!FirstFrames(Len(audio))
  BY <1>1, PlaysFirstFrames
<1> QED BY <1>2 DEF heard

LEMMA HeardFactsPrime ==
  ASSUME IInv'
  PROVE  heard' = IF streaming' \/ outcome' = "OK"
                    THEN Delivery!FirstFrames(Len(audio')) ELSE <<>>
<1>1. Plays(audio, Len(audio))' /\ Len(audio') \in Nat /\ audio' \in Seq(Block_t)
  BY DEF IInv, AudioInv, TypeOK, Block_t
<1>2. [i \in DOMAIN audio' |-> audio'[i].frame] = Delivery!FirstFrames(Len(audio'))
  <2>1. DOMAIN audio' = 1..Len(audio')
    BY <1>1
  <2>2. \A i \in 1..Len(audio') : audio'[i].frame = i
    BY <1>1 DEF Plays
  <2> QED BY <2>1, <2>2 DEF Delivery!FirstFrames
<1> QED BY <1>2 DEF heard

LEMMA FirstFramesLen ==
  ASSUME NEW n \in Nat
  PROVE  Len(Delivery!FirstFrames(n)) = n
BY DEF Delivery!FirstFrames

(* One step of the code is one step of the promise, or none. *)
LEMMA StepRefines ==
  ASSUME IInv, IInv', [Next]_vars
  PROVE  [Delivery!Next]_(Delivery!vars)
<1> USE DEF Delivery!Next, Delivery!vars
<1>1. heard = IF streaming \/ outcome = "OK"
                THEN Delivery!FirstFrames(Len(audio)) ELSE <<>>
  BY HeardFacts
<1>2. heard' = IF streaming' \/ outcome' = "OK"
                 THEN Delivery!FirstFrames(Len(audio')) ELSE <<>>
  BY HeardFactsPrime
<1>3. at # "returned" => outcome = "running"
  BY DEF IInv, CursorInv
<1>4. ASSUME UNCHANGED <<streaming, audio>>, outcome' # "OK", outcome # "OK"
      PROVE  heard' = heard
  BY <1>1, <1>2, <1>4
<1>5. ASSUME at # "returned", outcome' \in {"CANCELLED", "GENERATE_FAILED", "OOM"},
             UNCHANGED <<framing, T_so_far, audio>>
      PROVE  Delivery!GiveUp
  BY <1>3, <1>4, <1>5 DEF Delivery!GiveUp, framing
<1>6. ASSUME NEW end \in Nat, streaming, at # "returned",
             emit_start_frame < end, end <= T_so_far,
             UNCHANGED <<framing, T_so_far>>,
             Len(audio') = end, outcome' \in {"running", "CANCELLED"}
      PROVE  Delivery!Deliver
  <2>1. Len(audio) = emit_start_frame /\ emit_start_frame \in Nat /\ T_so_far \in Nat
    BY <1>6 DEF IInv, AudioInv, TypeOK
  <2>2. Len(heard) = emit_start_frame /\ heard' = Delivery!FirstFrames(end)
    BY <1>1, <1>2, <1>6, <2>1, FirstFramesLen DEF framing
  <2>3. end \in Len(heard)+1 .. T_so_far
    BY <1>6, <2>1, <2>2
  <2> QED BY <1>3, <1>6, <2>2, <2>3 DEF Delivery!Deliver
<1>7. ASSUME at # "returned", outcome' = "OK", UNCHANGED T_so_far
      PROVE  Delivery!Finish
  <2>1. Len(audio') = T_so_far
    BY <1>7 DEF IInv, AudioInv
  <2> QED BY <1>2, <1>3, <1>7, <2>1 DEF Delivery!Finish
<1>8. ASSUME NEW end \in Nat, streaming, at # "returned",
             emit_start_frame < end, end <= T_so_far, CallbackRefuses(end)
      PROVE  Delivery!Deliver
  <2>1. /\ UNCHANGED <<framing, T_so_far>> /\ outcome' = "CANCELLED"
        /\ audio' = audio \o Block(emit_start_frame, end)
    BY <1>8 DEF CallbackRefuses, Return
  <2>2. UNCHANGED framing /\ emit_start_frame <= end
    BY <1>8, <2>1 DEF IInv, TypeOK
  <2>3. Len(audio') = end
    BY <1>8, <2>1, <2>2, EmitPlays
  <2> QED BY <1>6, <1>8, <2>1, <2>3
<1>9. ASSUME at # "returned", DecodeFails
      PROVE  Delivery!GiveUp
  BY <1>5, <1>9 DEF DecodeFails, Return
<1>10. CASE PushFrame
  <2>1. heard' = heard
    BY <1>3, <1>4, <1>10 DEF PushFrame, framing
  <2> QED BY <1>3, <1>10, <2>1 DEF PushFrame, Delivery!Produce
<1>11. CASE EmitChunk
  <2> DEFINE end == emit_start_frame + next_chunk
  <2>1. /\ at = "push_frame" /\ streaming /\ end \in Nat
        /\ emit_start_frame < end /\ end <= T_so_far
    BY <1>11 DEF EmitChunk, Emittable, IInv, TypeOK, CursorInv
  <2>2. CASE DecodeFails
    BY <1>9, <2>1, <2>2
  <2>3. CASE CallbackRefuses(end)
    BY <1>8, <2>1, <2>3
  <2>4. CASE EmitsUpTo(end) /\ UNCHANGED <<framing, T_so_far, cancelled, at, outcome>>
    <3>1. Len(audio') = end
      <4>1. UNCHANGED framing /\ emit_start_frame <= end
        BY <2>1, <2>4 DEF IInv, TypeOK
      <4> QED BY <2>1, <2>4, <4>1, EmitPlays DEF EmitsUpTo
    <3> QED BY <1>3, <1>6, <2>1, <2>4, <3>1
  <2> QED BY <1>11, <2>2, <2>3, <2>4 DEF EmitChunk
<1>12. CASE PushReturns
  BY <1>3, <1>4, <1>12 DEF PushReturns, framing
<1>13. CASE LoopEnds
  BY <1>3, <1>4, <1>13 DEF LoopEnds, framing
<1>14. CASE LoopAborts
  BY <1>5, <1>14 DEF LoopAborts, Return
<1>15. CASE Flush
  <2>1. /\ at = "flush" /\ streaming
        /\ T_so_far \in Nat /\ emit_start_frame \in Nat
    BY <1>15 DEF Flush, IInv, TypeOK, CursorInv
  <2>2. CASE T_so_far > emit_start_frame /\ DecodeFails
    BY <1>9, <2>1, <2>2
  <2>3. CASE T_so_far > emit_start_frame /\ CallbackRefuses(T_so_far)
    BY <1>8, <2>1, <2>3
  <2>4. CASE Return("OK") /\ UNCHANGED T_so_far
    BY <1>7, <2>1, <2>4 DEF Return
  <2> QED BY <1>15, <2>2, <2>3, <2>4 DEF Flush
<1>16. CASE DecodeChunk
  <2>1. at = "decode" /\ ~streaming /\ outcome = "running"
    BY <1>16, <1>3 DEF DecodeChunk, IInv, CursorInv
  <2>2. CASE UNCHANGED <<framing, next_chunk, T_so_far, cancelled, at, outcome>>
    BY <1>1, <1>2, <2>1, <2>2 DEF framing
  <2>3. CASE /\ Return("GENERATE_FAILED")
             /\ UNCHANGED <<framing, next_chunk, T_so_far, emit_start_frame, cancelled>>
    BY <1>1, <1>2, <2>1, <2>3 DEF Return, framing, Delivery!GiveUp
  <2> QED BY <1>16, <2>2, <2>3 DEF DecodeChunk
<1>17. CASE ReturnAudio
  <2>1. CASE Return("OK")
    BY <1>7, <1>17, <2>1 DEF ReturnAudio, Return
  <2>2. CASE Return("OOM")
    BY <1>5, <1>17, <2>2 DEF ReturnAudio, Return
  <2> QED BY <1>17, <2>1, <2>2 DEF ReturnAudio
<1>18. CASE UNCHANGED vars
  BY <1>18 DEF vars, framing, heard
<1> QED
  BY <1>10, <1>11, <1>12, <1>13, <1>14, <1>15, <1>16, <1>17, <1>18 DEF Next, Returned

(* Streamed or buffered, with any framing, the frames are heard in order,  *)
(* each once, and all of them when the synthesis returns QT_STATUS_OK.     *)
THEOREM Refinement == Spec => DeliversFrames
<1>1. Init => Delivery!Init
  BY NothingHeard DEF Init, Delivery!Init, heard
<1>2. IInv /\ IInv' /\ [Next]_vars => [Delivery!Next]_(Delivery!vars)
  BY StepRefines
<1> QED BY <1>1, <1>2, Invariance, PTL DEF Spec, DeliversFrames, Delivery!Spec
=============================================================================
