------------------------------ MODULE TalkerLoop ------------------------------
(***************************************************************************)
(* The generation loop of pipeline_tts_synthesize (src/src/pipeline-tts.cpp*)
(* lines 640-848) over the talker's KV cache (kv-cache.h), which successive*)
(* syntheses share without ever clearing it.                               *)
(*                                                                         *)
(* Step 0 prefills the cache with the prompt.  Every further step appends  *)
(* one row: through the prebuilt graph of talker-exec.h while the position *)
(* fits its window, through talker-forward.h past it.  Each step draws one *)
(* random number for c0 and one per acoustic codebook; Philox gives every  *)
(* draw a subsequence of its own.                                          *)
(*                                                                         *)
(* A cache row is tagged with the synthesis and the position that wrote it.*)
(* What push_frame does with a finished frame is ChunkedDecode's subject:  *)
(* here it takes the frame, is cancelled by its callback, or fails.        *)
(***************************************************************************)
EXTENDS Integers, Sequences

CONSTANTS
  MaxSeqLen,      \* talker_kv.max_seq_len
  Window,         \* tx_exec_window, the rows the prebuilt graph attends
  PromptLens,     \* lengths T_ctx a prompt may have
  CodeGroups,     \* num_code_groups: codebooks of a frame
  MaxNewTokens,   \* params->max_new_tokens
  MaxSyntheses    \* bound: syntheses in one behaviour

ASSUME TalkerAssumption ==
  /\ MaxSeqLen \in Nat \ {0}
  /\ Window \in 1..MaxSeqLen
  /\ PromptLens \subseteq Nat \ {0}
  /\ CodeGroups \in Nat \ {0}
  /\ MaxNewTokens \in Nat
  /\ MaxSyntheses \in Nat

VARIABLES
  tx_exec_enabled,  \* the prebuilt graph exists (GPU, flash attention)
  kv,               \* row -> <<synthesis, position>> that wrote it last
  cur_len,          \* talker_kv.cur_len
  n_tx_frames,      \* the loop's own count of rows
  synthesis,        \* number of the current synthesis, 0 before the first
  T_ctx,            \* length of its prompt
  step,
  phase,            \* where the loop is
  status,           \* what the last synthesis returned
  subseq_counter,
  drawn,            \* the subsequences it drew from, in order
  attended,         \* the rows its last forward pass attended
  cancel,           \* params->cancel answers true
  late              \* forward passes begun since it did

cache == <<kv, cur_len, attended>>
random == <<subseq_counter, drawn>>
request == <<tx_exec_enabled, synthesis, T_ctx>>
vars == <<cache, random, request, n_tx_frames, step, phase, status, cancel, late>>

Rows == 0..MaxSeqLen-1
NeverWritten == <<0, 0>>
Row == (0..MaxSyntheses) \X Nat
Phases == {"idle", "head", "forward", "sample", "predict", "push"}
Statuses == {"none", "OK", "CANCELLED", "GENERATE_FAILED"}

Return(s) == phase' = "idle" /\ status' = s
Goto(p) == phase' = p /\ UNCHANGED status
-----------------------------------------------------------------------------
Init ==
  /\ tx_exec_enabled \in BOOLEAN
  /\ kv = [r \in Rows |-> NeverWritten]
  /\ cur_len = 0
  /\ n_tx_frames = 0
  /\ synthesis = 0
  /\ T_ctx = 1
  /\ step = 0
  /\ phase = "idle"
  /\ status = "none"
  /\ subseq_counter = 0
  /\ drawn = <<>>
  /\ attended = {}
  /\ cancel = FALSE
  /\ late = 0

(* A request, its prompt built: the locals of the loop start afresh, the   *)
(* cache stays as the synthesis before left it.                            *)
Begin ==
  /\ phase = "idle"
  /\ synthesis < MaxSyntheses
  /\ synthesis' = synthesis + 1
  /\ T_ctx' \in PromptLens
  /\ step' = 0
  /\ n_tx_frames' = 0
  /\ subseq_counter' = 0
  /\ drawn' = <<>>
  /\ attended' = {}
  /\ cancel' = FALSE
  /\ late' = 0
  /\ Goto("head")
  /\ UNCHANGED <<tx_exec_enabled, kv, cur_len>>

(* The client asks for the synthesis to be cancelled. *)
RaiseCancel ==
  /\ phase # "idle"
  /\ ~cancel
  /\ cancel' = TRUE
  /\ UNCHANGED <<cache, random, request, n_tx_frames, step, phase, status, late>>

SpentBug == step > MaxNewTokens

(* The loop's condition: max_new_tokens frames were generated. *)
Spent == step >= MaxNewTokens

PollBug == cancel /\ step = 0   \* polls only before the first step

(* The poll of params->cancel. *)
Poll == cancel

LoopHead ==
  /\ phase = "head"
  /\ \/ Spent /\ Return("OK")
     \/ ~Spent /\ Poll /\ Return("CANCELLED")
     \/ ~Spent /\ ~Poll /\ Goto("forward")
  /\ UNCHANGED <<cache, random, request, n_tx_frames, step, cancel, late>>
-----------------------------------------------------------------------------
(* The outcome of a graph that writes `written` into the cache and then    *)
(* attends the rows `visible`, the last of which is `last`: the write head *)
(* moves past it.  The computation may also fail, before or after the rows *)
(* were written, and then the head stays at `head`.                        *)
Compute(written, visible, last, head) ==
  \/ /\ kv' = written
     /\ attended' = {kv'[r] : r \in visible}
     /\ cur_len' = last + 1
     /\ Goto("sample")
  \/ /\ kv' \in {kv, written}
     /\ cur_len' = head
     /\ Return("GENERATE_FAILED")
     /\ UNCHANGED attended

Forward ==
  /\ phase = "forward"
  /\ late' = IF cancel THEN late + 1 ELSE late
  /\ UNCHANGED <<random, request, step, cancel>>

(* Step 0: talker_forward_prefill rewinds the cache and writes the prompt. *)
Prefill ==
  /\ Forward
  /\ step = 0
  /\ n_tx_frames' = T_ctx
  /\ IF T_ctx > MaxSeqLen
       THEN /\ cur_len' = 0
            /\ Return("GENERATE_FAILED")
            /\ UNCHANGED <<kv, attended>>
       ELSE Compute([r \in Rows |-> IF r < T_ctx THEN <<synthesis, r>> ELSE kv[r]],
                    0..T_ctx-1, T_ctx - 1, 0)

FitsWindowBug == tx_exec_enabled   \* lets the window wrap around

(* tx_ok: the prebuilt graph serves the positions its window holds. *)
FitsWindow == tx_exec_enabled /\ n_tx_frames < Window

(* talker_exec_decode at position n_past: writes row n_past % Window; the  *)
(* mask shows the rows up to n_past, or the whole window once it wrapped.  *)
ExecDecode ==
  LET n_past == n_tx_frames
      row == n_past % Window
      visible == IF n_past < Window THEN 0..n_past ELSE 0..Window-1
  IN  /\ Forward
      /\ step > 0 /\ FitsWindow
      /\ n_tx_frames' = n_tx_frames + 1
      /\ Compute([kv EXCEPT ![row] = <<synthesis, n_past>>],
                 visible, n_past, cur_len)

(* talker_forward_decode appends at the cache's own write head. *)
LegacyDecode ==
  /\ Forward
  /\ step > 0 /\ ~FitsWindow
  /\ n_tx_frames' = n_tx_frames + 1
  /\ IF cur_len + 1 > MaxSeqLen
       THEN /\ Return("GENERATE_FAILED")
            /\ UNCHANGED cache
       ELSE Compute([kv EXCEPT ![cur_len] = <<synthesis, cur_len>>],
                    0..cur_len, cur_len, cur_len)
-----------------------------------------------------------------------------
(* c0 is sampled: no candidate is left, or it is EOS, or a code. *)
SampleFirstCode ==
  /\ phase = "sample"
  /\ drawn' = Append(drawn, subseq_counter)
  /\ subseq_counter' = subseq_counter + 1
  /\ \/ Return("GENERATE_FAILED")
     \/ Return("OK")
     \/ Goto("predict")
  /\ UNCHANGED <<cache, request, n_tx_frames, step, cancel, late>>

PredictorDrawsBug(base, groups) == [g \in 1..groups |-> base + g - 1]

(* The draws of the code predictor for `groups` codebooks. *)
PredictorDraws(base, groups) == [g \in 1..groups |-> base + g]

(* The code predictor samples the other codebooks of the frame, one after  *)
(* the other, from the subsequences after the one c0 used; it may fail at  *)
(* any of them.                                                            *)
Predict ==
  /\ phase = "predict"
  /\ LET base == subseq_counter - 1
     IN  \/ /\ drawn' = drawn \o PredictorDraws(base, CodeGroups - 1)
            /\ subseq_counter' = subseq_counter + CodeGroups - 1
            /\ Goto("push")
         \/ /\ \E g \in 0..CodeGroups-1 : drawn' = drawn \o PredictorDraws(base, g)
            /\ Return("GENERATE_FAILED")
            /\ UNCHANGED subseq_counter
  /\ UNCHANGED <<cache, request, n_tx_frames, step, cancel, late>>

(* The frame joins all_codes and goes to push_frame; if that succeeds the  *)
(* next embedding is built from the frame and the loop goes on.            *)
Push ==
  /\ phase = "push"
  /\ \/ /\ step' = step + 1
        /\ Goto("head")
     \/ /\ \E s \in {"CANCELLED", "GENERATE_FAILED"} : Return(s)
        /\ UNCHANGED step
  /\ UNCHANGED <<cache, random, request, n_tx_frames, cancel, late>>

Served == phase = "idle" /\ synthesis = MaxSyntheses /\ UNCHANGED vars

Next ==
  \/ Begin \/ RaiseCancel \/ LoopHead \/ Prefill \/ ExecDecode \/ LegacyDecode
  \/ SampleFirstCode \/ Predict \/ Push
  \/ Served

Spec == Init /\ [][Next]_vars
-----------------------------------------------------------------------------
TypeOK ==
  /\ tx_exec_enabled \in BOOLEAN
  /\ kv \in [Rows -> Row]
  /\ cur_len \in 0..MaxSeqLen
  /\ n_tx_frames \in Nat
  /\ synthesis \in 0..MaxSyntheses
  /\ T_ctx \in Nat \ {0}
  /\ step \in 0..MaxNewTokens
  /\ phase \in Phases
  /\ status \in Statuses
  /\ subseq_counter \in Nat
  /\ drawn \in Seq(Nat)
  /\ attended \subseteq Row
  /\ cancel \in BOOLEAN
  /\ late \in Nat

(* Whichever path computed the step, the talker attended the prompt and    *)
(* every frame of its own synthesis, and nothing else: no row left by an   *)
(* earlier synthesis, no row evicted by the window (docs/BASELINE.md,      *)
(* finding 1), no hole where exec and legacy path take over.               *)
AttendsWholeSequence ==
  phase = "sample" =>
    attended = {<<synthesis, p>> : p \in 0 .. T_ctx + step - 1}

(* The draws of a synthesis use the Philox subsequences 0, 1, 2, ... in    *)
(* order: none is used twice and none is skipped, so the same seed gives   *)
(* the codes of the upstream Python pipeline (philox.h).                   *)
SubsequencesInOrder == \A i \in DOMAIN drawn : drawn[i] = i - 1

(* Once cancel answers true at most one more forward pass begins: "the     *)
(* granularity is one AR frame" (pipeline-tts.cpp line 683).               *)
CancelWithinOneFrame == late <= 1
=============================================================================
