------------------------------- MODULE AbiStatus -------------------------------
(***************************************************************************)
(* What a caller of qt_synthesize (src/src/qwen.cpp) learns of its call:   *)
(* the status, the message of qt_last_error, what `out` holds.  Threads    *)
(* call one after the other and at the same time, each on a context of its *)
(* own or under the server's mutex; the message and the mark of a failed   *)
(* allocation are thread_local and outlive the call that set them.         *)
(*                                                                         *)
(* The synthesis itself is the subject of TalkerLoop and ChunkedDecode:    *)
(* here it is the ways in which it may end.                                *)
(***************************************************************************)
EXTENDS Integers, FiniteSets

CONSTANTS
  Threads,   \* threads that call the library
  MaxCalls   \* bound: calls of one thread

ASSUME AbiAssumption == MaxCalls \in Nat

VARIABLES
  at,              \* thread -> where it is
  calls,           \* thread -> number of its current or last call
  streaming,       \* thread -> whether on_chunk is set
  out,             \* thread -> what the out of its call points at
  rc,              \* thread -> status of the synthesis, then of the call
  g_last_error,    \* slot -> the call that wrote it, as <<thread, number>>
  g_alloc_failed,  \* slot -> the mark of a failed graph allocation
  exhausted        \* thread -> an allocation failed in the current call

call == <<calls, streaming>>
slots == <<g_last_error, g_alloc_failed>>
vars == <<at, call, out, rc, slots, exhausted>>

Places == {"caller", "checking", "building", "generating", "decoding", "returning",
           "crashed"}
Synthesizing == {"building", "generating", "decoding"}
Statuses == {"none", "OK", "INVALID_PARAMS", "MODE_INVALID", "GENERATE_FAILED", "OOM",
             "CANCELLED", "NO_CONTEXT"}

(* out: NULL, an empty qt_audio, or one with the audio of a call. *)
NullOut == -1
Empty == 0

NoCall == <<>>

SlotBug(t) == CHOOSE u \in Threads : TRUE   \* static, not thread_local

(* thread_local: the variables a thread sees are its own. *)
Slot(t) == t

This(t) == <<t, calls[t]>>

GoesTo(t, p) == at' = [at EXCEPT ![t] = p]

qt_set_error(t) == g_last_error' = [g_last_error EXCEPT ![Slot(t)] = This(t)]

qt_note_alloc_failure(t) ==
  /\ g_alloc_failed' = [g_alloc_failed EXCEPT ![Slot(t)] = TRUE]
  /\ exhausted' = [exhausted EXCEPT ![t] = TRUE]

(* A graph may fail to be allocated, which leaves the mark. *)
MayExhaust(t) == qt_note_alloc_failure(t) \/ UNCHANGED <<g_alloc_failed, exhausted>>

qt_audio_free(t) ==
  out' = [out EXCEPT ![t] = IF @ = NullOut THEN @ ELSE Empty]

(* qt_synthesize, qt_init return to the caller. *)
Returns(t, status) == rc' = [rc EXCEPT ![t] = status] /\ GoesTo(t, "caller")
-----------------------------------------------------------------------------
Init ==
  /\ at = [t \in Threads |-> "caller"]
  /\ calls = [t \in Threads |-> 0]
  /\ streaming = [t \in Threads |-> FALSE]
  /\ out = [t \in Threads |-> Empty]
  /\ rc = [t \in Threads |-> "none"]
  /\ g_last_error = [t \in Threads |-> NoCall]
  /\ g_alloc_failed = [t \in Threads |-> FALSE]
  /\ exhausted = [t \in Threads |-> FALSE]

(* The caller calls qt_synthesize, streaming or not, and passes no out, an *)
(* empty one, or the one of its last call as it is.                        *)
Call(t) ==
  /\ at[t] = "caller"
  /\ calls[t] < MaxCalls
  /\ calls' = [calls EXCEPT ![t] = @ + 1]
  /\ \E s \in BOOLEAN : streaming' = [streaming EXCEPT ![t] = s]
  /\ \E o \in {NullOut, Empty, out[t]} : out' = [out EXCEPT ![t] = o]
  /\ rc' = [rc EXCEPT ![t] = "none"]
  /\ exhausted' = [exhausted EXCEPT ![t] = FALSE]
  /\ GoesTo(t, "checking")
  /\ UNCHANGED slots

(* qt_init: a load that fails throws; one that fails to project the        *)
(* special texts leaves the mark as well.                                  *)
LoadFails(t) ==
  /\ at[t] = "caller"
  /\ calls[t] < MaxCalls
  /\ calls' = [calls EXCEPT ![t] = @ + 1]
  /\ g_last_error' = [g_last_error EXCEPT ![Slot(t)] = This(t)']
  /\ \E noted \in BOOLEAN :
       /\ g_alloc_failed' = [g_alloc_failed EXCEPT ![Slot(t)] = @ \/ noted]
       /\ exhausted' = [exhausted EXCEPT ![t] = noted]
  /\ Returns(t, "NO_CONTEXT")
  /\ UNCHANGED <<streaming, out>>

(* A NULL handle, no out to fill, a newer ABI, an empty text, a combination*)
(* of parameters the model has no use for.                                 *)
Refuse(t) ==
  /\ at[t] = "checking"
  /\ qt_set_error(t)
  /\ qt_audio_free(t)
  /\ \E s \in {"INVALID_PARAMS", "MODE_INVALID"} : Returns(t, s)
  /\ UNCHANGED <<call, g_alloc_failed, exhausted>>

ClearedBug(mark) == mark   \* the mark of an earlier call is kept

(* qt_take_alloc_failure() before the synthesis. *)
Cleared(mark) == FALSE

AcceptedBug(t) == TRUE   \* buffered, and nowhere to put the audio

(* Only a stream can do without an out. *)
Accepted(t) == streaming[t] \/ out[t] # NullOut

Start(t) ==
  /\ at[t] = "checking"
  /\ Accepted(t)
  /\ g_alloc_failed' = [g_alloc_failed EXCEPT ![Slot(t)] = Cleared(@)]
  /\ GoesTo(t, "building")
  /\ UNCHANGED <<call, out, rc, g_last_error, exhausted>>
-----------------------------------------------------------------------------
(* pipeline_tts_synthesize returns to the facade. *)
Ends(t, status) == rc' = [rc EXCEPT ![t] = status] /\ GoesTo(t, "returning")

(* The reference and the prompt: a refusal or a failure with a message, a  *)
(* failure of the speaker encoder or the prompt builder without one.       *)
Build(t) ==
  /\ at[t] = "building"
  /\ \/ GoesTo(t, "generating") /\ UNCHANGED <<rc, g_last_error>>
     \/ /\ qt_set_error(t)
        /\ \E s \in {"INVALID_PARAMS", "GENERATE_FAILED"} : Ends(t, s)
     \/ Ends(t, "GENERATE_FAILED") /\ UNCHANGED g_last_error
  /\ UNCHANGED <<call, out, g_alloc_failed, exhausted>>

(* The loop: cancelled, a forward pass or a sample that fails, without a   *)
(* message; while streaming a sink that refuses, or a codec that fails.    *)
Generate(t) ==
  /\ at[t] = "generating"
  /\ \/ /\ GoesTo(t, "decoding")
        /\ UNCHANGED <<rc, slots, exhausted>>
     \/ /\ Ends(t, "CANCELLED")
        /\ UNCHANGED <<slots, exhausted>>
     \/ /\ MayExhaust(t)
        /\ Ends(t, "GENERATE_FAILED")
        /\ UNCHANGED g_last_error
     \/ /\ streaming[t]
        /\ MayExhaust(t)
        /\ qt_set_error(t)
        /\ Ends(t, "GENERATE_FAILED")
  /\ UNCHANGED <<call, out>>

NoAudioBug(t) == out[t]   \* an utterance without frames leaves out alone

(* An utterance without frames, or one that was streamed. *)
NoAudio(t) == Empty

(* The tail of a stream and the empty out that goes with it. *)
EndStream(t) ==
  /\ at[t] = "decoding"
  /\ streaming[t]
  /\ \/ /\ out[t] # NullOut
        /\ out' = [out EXCEPT ![t] = NoAudio(t)]
        /\ Ends(t, "OK")
        /\ UNCHANGED <<slots, exhausted>>
     \/ /\ out[t] = NullOut   \* out->samples = NULL
        /\ GoesTo(t, "crashed")
        /\ UNCHANGED <<out, rc, slots, exhausted>>
     \/ /\ Ends(t, "CANCELLED")
        /\ UNCHANGED <<out, slots, exhausted>>
     \/ /\ MayExhaust(t)
        /\ qt_set_error(t)
        /\ Ends(t, "GENERATE_FAILED")
        /\ UNCHANGED out
  /\ UNCHANGED call

(* The decode of a whole utterance and the copy the caller gets. *)
FillAudio(t) ==
  /\ at[t] = "decoding"
  /\ ~streaming[t]
  /\ \/ /\ \E audio \in {NoAudio(t), calls[t]} : out' = [out EXCEPT ![t] = audio]
        /\ Ends(t, "OK")
        /\ UNCHANGED <<slots, exhausted>>
     \/ /\ MayExhaust(t)   \* no audio
        /\ qt_set_error(t)
        /\ Ends(t, "GENERATE_FAILED")
        /\ UNCHANGED out
     \/ /\ exhausted' = [exhausted EXCEPT ![t] = TRUE]   \* malloc failed
        /\ qt_set_error(t)
        /\ Ends(t, "OOM")
        /\ UNCHANGED <<out, g_alloc_failed>>
  /\ UNCHANGED call

(* The facade catches an exception: of the prompt builder, perhaps after a *)
(* failed graph allocation, or of anything else.                           *)
Throw(t) ==
  /\ at[t] \in Synthesizing
  /\ IF at[t] = "building" THEN MayExhaust(t) ELSE UNCHANGED <<g_alloc_failed, exhausted>>
  /\ qt_set_error(t)
  /\ qt_audio_free(t)
  /\ Returns(t, "GENERATE_FAILED")
  /\ UNCHANGED call

ExplainedBug(t) == UNCHANGED g_last_error   \* the status changes, the message stays

(* "out of device memory during synthesis ..." *)
Explained(t) == qt_set_error(t)

(* A failure with the mark becomes QT_STATUS_OOM. *)
Return(t) ==
  /\ at[t] = "returning"
  /\ IF rc[t] = "GENERATE_FAILED" /\ g_alloc_failed[Slot(t)]
       THEN /\ g_alloc_failed' = [g_alloc_failed EXCEPT ![Slot(t)] = FALSE]
            /\ Explained(t)
            /\ Returns(t, "OOM")
       ELSE Returns(t, rc[t]) /\ UNCHANGED slots
  /\ UNCHANGED <<call, out, exhausted>>

(* What a call does next. *)
Proceed(t) ==
  \/ Call(t) \/ LoadFails(t) \/ Refuse(t) \/ Start(t)
  \/ Build(t) \/ Generate(t) \/ EndStream(t) \/ FillAudio(t) \/ Throw(t) \/ Return(t)

(* A write to NULL ends the process. *)
Alive == \A t \in Threads : at[t] # "crashed"
Crashed == ~Alive /\ UNCHANGED vars

AllCallsMade == (\A t \in Threads : at[t] = "caller" /\ calls[t] = MaxCalls) /\ UNCHANGED vars

Next ==
  \/ Alive /\ \E t \in Threads : Proceed(t)
  \/ Crashed
  \/ AllCallsMade

Spec == Init /\ [][Next]_vars
-----------------------------------------------------------------------------
(* tts_status_to_http (src/src/tts-server.h): what a wav request is        *)
(* answered with.                                                          *)
tts_status_to_http(status) ==
  CASE status = "OK" -> 200
    [] status \in {"INVALID_PARAMS", "MODE_INVALID"} -> 400
    [] status = "OOM" -> 503
    [] OTHER -> 502

TypeOK ==
  /\ at \in [Threads -> Places]
  /\ calls \in [Threads -> 0..MaxCalls]
  /\ streaming \in [Threads -> BOOLEAN]
  /\ out \in [Threads -> {NullOut, Empty} \union 1..MaxCalls]
  /\ rc \in [Threads -> Statuses]
  /\ g_last_error \in [Threads -> (Threads \X (1..MaxCalls)) \union {NoCall}]
  /\ g_alloc_failed \in [Threads -> BOOLEAN]
  /\ exhausted \in [Threads -> BOOLEAN]
  /\ \A t \in Threads : at[t] \in Synthesizing /\ ~streaming[t] => out[t] # NullOut

Returned(t) == at[t] = "caller" /\ calls[t] > 0

(* 503 is "transient, the process stays up" (tts-server.h line 221): it is *)
(* the answer only to a request that itself ran out of memory, not to one  *)
(* that follows, or runs beside, one that did.                             *)
RetryOnlyWhenExhausted ==
  \A t \in Threads : Returned(t) /\ tts_status_to_http(rc[t]) = 503 => exhausted[t]

(* "two threads running qt_synthesize concurrently never race on each      *)
(* other's diagnostics" (qwen.h lines 82-84): what a thread reads is a     *)
(* message of one of its own calls.                                        *)
DiagnosticsStayOnTheirThread ==
  \A t \in Threads :
    g_last_error[Slot(t)] # NoCall => g_last_error[Slot(t)][1] = t

(* A client told that its request is wrong, or to try again, is told why:  *)
(* the message with a 400 or a 503 is of this call.                        *)
ActionableErrorIsExplained ==
  \A t \in Threads :
    Returned(t) /\ tts_status_to_http(rc[t]) \in {400, 503}
      => g_last_error[Slot(t)] = This(t)

(* A caller that reuses its qt_audio never takes the audio of an earlier   *)
(* call for that of a successful one.                                      *)
SuccessIsNotStale ==
  \A t \in Threads :
    Returned(t) /\ rc[t] = "OK"
      => out[t] \in (IF streaming[t] THEN {Empty} ELSE {Empty, calls[t]})

(* "out=NULL is valid there" (qwen.cpp lines 451-453): a stream without an *)
(* out comes to its end like any other.                                    *)
StreamNeedsNoOut == Alive
=============================================================================
