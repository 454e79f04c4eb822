-------------------------- MODULE TalkerLoop_proofs --------------------------
(***************************************************************************)
(* For every cache size, window, prompt length, number of codebooks and of *)
(* syntheses: the type invariant and the safety invariants of TalkerLoop.  *)
(***************************************************************************)
EXTENDS TalkerLoop, TLAPS

(* Where the write head stands, relative to the step the loop is in. *)
HeadInv ==
  /\ phase \in {"sample", "predict", "push"}
       => /\ cur_len = T_ctx + step
          /\ n_tx_frames = cur_len
          /\ step < MaxNewTokens
  /\ phase \in {"head", "forward"} /\ step > 0
       => /\ cur_len = T_ctx + step - 1
          /\ n_tx_frames = cur_len
  /\ phase = "forward" => step < MaxNewTokens

(* The prompt is in the cache. *)
Filled ==
  \/ phase \in {"sample", "predict", "push"}
  \/ phase \in {"head", "forward"} /\ step > 0

(* The rows below the write head are this synthesis' own, in order. *)
OwnRows ==
  Filled => \A p \in 0..cur_len-1 : kv[p] = <<synthesis, p>>

DrawInv ==
  /\ SubsequencesInOrder
  /\ phase # "idle" => Len(drawn) = subseq_counter
  /\ phase = "predict" => subseq_counter > 0

CancelInv ==
  /\ late <= 1
  /\ phase = "forward" => late = 0
  /\ late = 1 => cancel

CacheInv == HeadInv /\ OwnRows /\ AttendsWholeSequence

IInv == TypeOK /\ CacheInv /\ DrawInv /\ CancelInv
-----------------------------------------------------------------------------
LEMMA InitInv == Init => IInv
<1> SUFFICES ASSUME Init PROVE IInv
  OBVIOUS
<1>1. TypeOK
  <2>1. kv \in [Rows -> Row]
    BY TalkerAssumption DEF Init, Row, NeverWritten
  <2>2. /\ cur_len \in 0..MaxSeqLen /\ synthesis \in 0..MaxSyntheses
        /\ step \in 0..MaxNewTokens
    BY TalkerAssumption DEF Init
  <2>3. drawn \in Seq(Nat) /\ attended \subseteq Row
    BY DEF Init
  <2>4. /\ n_tx_frames \in Nat /\ T_ctx \in Nat \ {0}
        /\ subseq_counter \in Nat /\ late \in Nat
    BY DEF Init
  <2>5. /\ tx_exec_enabled \in BOOLEAN /\ cancel \in BOOLEAN
        /\ phase \in Phases /\ status \in Statuses
    BY DEF Init, Phases, Statuses
  <2> QED BY <2>1, <2>2, <2>3, <2>4, <2>5 DEF TypeOK
<1>2. CacheInv
  BY DEF Init, CacheInv, HeadInv, OwnRows, Filled, AttendsWholeSequence
<1>3. DrawInv /\ CancelInv
  BY DEF Init, DrawInv, CancelInv, SubsequencesInOrder
<1> QED BY <1>1, <1>2, <1>3 DEF IInv

LEMMA BeginInv == IInv /\ Begin => IInv'
<1> SUFFICES ASSUME IInv, Begin PROVE IInv'
  OBVIOUS
<1> USE DEF Begin, Goto
<1>1. TypeOK'
  <2>1. /\ synthesis' \in 0..MaxSyntheses /\ step' \in 0..MaxNewTokens
        /\ T_ctx' \in Nat \ {0}
    BY TalkerAssumption DEF IInv, TypeOK
  <2>2. drawn' \in Seq(Nat) /\ attended' \subseteq Row
    OBVIOUS
  <2> QED BY <2>1, <2>2 DEF IInv, TypeOK, Phases
<1>2. CacheInv'
  BY DEF CacheInv, HeadInv, OwnRows, Filled, AttendsWholeSequence
<1>3. DrawInv' /\ CancelInv'
  BY DEF DrawInv, CancelInv, SubsequencesInOrder
<1> QED BY <1>1, <1>2, <1>3 DEF IInv

LEMMA RaiseCancelInv == IInv /\ RaiseCancel => IInv'
<1> SUFFICES ASSUME IInv, RaiseCancel PROVE IInv'
  OBVIOUS
<1> USE DEF RaiseCancel, cache, random, request
<1>1. TypeOK'
  BY DEF IInv, TypeOK
<1>2. CacheInv'
  BY DEF IInv, CacheInv, HeadInv, OwnRows, Filled, AttendsWholeSequence
<1>3. DrawInv' /\ CancelInv'
  BY DEF IInv, DrawInv, CancelInv, SubsequencesInOrder
<1> QED BY <1>1, <1>2, <1>3 DEF IInv

LEMMA LoopHeadInv == IInv /\ LoopHead => IInv'
<1> SUFFICES ASSUME IInv, LoopHead PROVE IInv'
  OBVIOUS
<1> USE DEF LoopHead, Goto, Return, Spent, Poll, cache, random, request
<1>1. TypeOK'
  BY DEF IInv, TypeOK, Phases, Statuses
<1>2. CacheInv'
  <2>1. CASE phase' = "idle"
    BY <2>1 DEF CacheInv, HeadInv, OwnRows, Filled, AttendsWholeSequence
  <2>2. CASE phase' = "forward" /\ step < MaxNewTokens
    BY <2>2 DEF IInv, CacheInv, HeadInv, OwnRows, Filled, AttendsWholeSequence
  <2> QED BY <2>1, <2>2, TalkerAssumption DEF IInv, TypeOK
<1>3. DrawInv'
  BY DEF IInv, DrawInv, SubsequencesInOrder
<1>4. CancelInv'
  BY DEF IInv, TypeOK, CancelInv
<1> QED BY <1>1, <1>2, <1>3, <1>4 DEF IInv
-----------------------------------------------------------------------------
(* A forward pass gives up: nothing but the cache's rows and heads moves.  *)
LEMMA FailedPass ==
  ASSUME IInv, Forward, Return("GENERATE_FAILED"), UNCHANGED attended,
         kv' \in [Rows -> Row], cur_len' \in 0..MaxSeqLen, n_tx_frames' \in Nat
  PROVE  IInv'
<1> USE DEF Forward, Return, random, request
<1>1. TypeOK'
  BY DEF IInv, TypeOK, Phases, Statuses
<1>2. CacheInv'
  BY DEF CacheInv, HeadInv, OwnRows, Filled, AttendsWholeSequence
<1>3. DrawInv'
  BY DEF IInv, DrawInv, SubsequencesInOrder
<1>4. CancelInv'
  BY DEF IInv, TypeOK, CancelInv
<1> QED BY <1>1, <1>2, <1>3, <1>4 DEF IInv

(* A forward pass that ends at position `last` of this synthesis, having   *)
(* left every row up to it in place, and attended those rows.              *)
LEMMA PassKeeps ==
  ASSUME IInv, Forward,
         NEW written \in [Rows -> Row], NEW last \in Rows, NEW head \in 0..MaxSeqLen,
         last = T_ctx + step - 1,
         \A p \in 0..last : written[p] = <<synthesis, p>>,
         n_tx_frames' = last + 1,
         Compute(written, 0..last, last, head)
  PROVE  IInv'
<1>1. last \in Nat /\ last + 1 \in 0..MaxSeqLen /\ 0..last \subseteq Rows
  BY TalkerAssumption DEF Rows
<1>2. CASE /\ kv' \in {kv, written} /\ cur_len' = head
           /\ Return("GENERATE_FAILED") /\ UNCHANGED attended
  <2>1. kv' \in [Rows -> Row]
    BY <1>2 DEF IInv, TypeOK
  <2> QED BY <1>1, <1>2, <2>1, FailedPass
<1>3. CASE /\ kv' = written
           /\ attended' = {kv'[r] : r \in 0..last}
           /\ cur_len' = last + 1
           /\ Goto("sample")
  <2> USE DEF Forward, Goto, random, request
  <2>1. attended' \subseteq Row
    BY <1>1, <1>3
  <2>2. TypeOK'
    BY <1>1, <1>3, <2>1 DEF IInv, TypeOK, Phases
  <2>3. attended' = {<<synthesis, p>> : p \in 0..last}
    BY <1>1, <1>3
  <2>4. last = T_ctx' + step' - 1 /\ synthesis' = synthesis
    BY DEF IInv, TypeOK
  <2>5. AttendsWholeSequence'
    BY <2>3, <2>4 DEF AttendsWholeSequence
  <2>6. HeadInv'
    BY <1>1, <1>3, <2>4 DEF IInv, CacheInv, HeadInv, TypeOK
  <2>7. OwnRows'
    BY <1>1, <1>3, <2>4 DEF OwnRows, Filled
  <2>8. DrawInv'
    BY <1>3 DEF IInv, DrawInv, SubsequencesInOrder
  <2>9. CancelInv'
    BY <1>3 DEF IInv, TypeOK, CancelInv
  <2> QED BY <2>2, <2>5, <2>6, <2>7, <2>8, <2>9 DEF IInv, CacheInv
<1> QED BY <1>2, <1>3 DEF Compute

LEMMA PrefillInv == IInv /\ Prefill => IInv'
<1> SUFFICES ASSUME IInv, Prefill PROVE IInv'
  OBVIOUS
<1>1. Forward /\ step = 0 /\ n_tx_frames' = T_ctx /\ T_ctx \in Nat \ {0}
  BY DEF Prefill, IInv, TypeOK
<1>2. CASE T_ctx > MaxSeqLen
  <2>1. /\ cur_len' = 0 /\ kv' = kv /\ attended' = attended
        /\ Return("GENERATE_FAILED")
    BY <1>2 DEF Prefill
  <2>2. cur_len' \in 0..MaxSeqLen /\ kv' \in [Rows -> Row]
    BY <2>1, TalkerAssumption DEF IInv, TypeOK
  <2> QED BY <1>1, <2>1, <2>2, FailedPass
<1>3. CASE ~(T_ctx > MaxSeqLen)
  <2> DEFINE written == [r \in Rows |-> IF r < T_ctx THEN <<synthesis, r>> ELSE kv[r]]
             last == T_ctx - 1
  <2>1. last \in Rows /\ 0 \in 0..MaxSeqLen /\ last = T_ctx + step - 1
    BY <1>1, <1>3, TalkerAssumption DEF Rows
  <2>2. written \in [Rows -> Row]
    BY <1>1 DEF IInv, TypeOK, Row, Rows
  <2>3. \A p \in 0..last : written[p] = <<synthesis, p>>
    BY <1>1, <1>3, TalkerAssumption DEF Rows
  <2>4. Compute(written, 0..last, last, 0)
    BY <1>3 DEF Prefill
  <2>5. n_tx_frames' = last + 1
    BY <1>1
  <2> HIDE DEF written, last
  <2> QED BY <1>1, <2>1, <2>2, <2>3, <2>4, <2>5, PassKeeps
<1> QED BY <1>2, <1>3

LEMMA Remainder ==
  ASSUME NEW n \in Nat, NEW w \in Nat \ {0}, n < w
  PROVE  n % w = n
OBVIOUS

(* Appending the next row keeps the rows before it. *)
LEMMA AppendRow ==
  ASSUME IInv, phase = "forward", step > 0, cur_len < MaxSeqLen
  PROVE  /\ cur_len \in Rows /\ cur_len = T_ctx + step - 1
         /\ [kv EXCEPT ![cur_len] = <<synthesis, cur_len>>] \in [Rows -> Row]
         /\ \A p \in 0..cur_len :
              [kv EXCEPT ![cur_len] = <<synthesis, cur_len>>][p] = <<synthesis, p>>
<1>1. cur_len \in Rows /\ cur_len \in Nat /\ cur_len = T_ctx + step - 1
  BY TalkerAssumption DEF IInv, CacheInv, HeadInv, TypeOK, Rows
<1>2. kv \in [Rows -> Row] /\ <<synthesis, cur_len>> \in Row
  BY <1>1 DEF IInv, TypeOK, Row
<1>3. \A p \in 0..cur_len-1 : kv[p] = <<synthesis, p>>
  BY DEF IInv, CacheInv, OwnRows, Filled
<1>4. 0..cur_len \subseteq Rows
  BY <1>1, TalkerAssumption DEF Rows
<1>5. ASSUME NEW p \in 0..cur_len
      PROVE  [kv EXCEPT ![cur_len] = <<synthesis, cur_len>>][p] = <<synthesis, p>>
  <2>1. CASE p = cur_len
    BY <1>1, <1>2, <2>1
  <2>2. CASE p \in 0..cur_len-1
    BY <1>1, <1>2, <1>3, <1>4, <2>2
  <2> QED BY <1>1, <2>1, <2>2
<1> QED BY <1>1, <1>2, <1>5

LEMMA ExecDecodeInv == IInv /\ ExecDecode => IInv'
<1> SUFFICES ASSUME IInv, ExecDecode PROVE IInv'
  OBVIOUS
<1>1. /\ Forward /\ phase = "forward" /\ step > 0
      /\ n_tx_frames < Window /\ n_tx_frames' = n_tx_frames + 1
  BY DEF ExecDecode, Forward, FitsWindow
<1>2. n_tx_frames = cur_len /\ cur_len \in Nat /\ cur_len < MaxSeqLen
  BY <1>1, TalkerAssumption DEF IInv, CacheInv, HeadInv, TypeOK
<1>3. n_tx_frames % Window = cur_len
  BY <1>1, <1>2, Remainder, TalkerAssumption
<1>4. Compute([kv EXCEPT ![cur_len] = <<synthesis, cur_len>>], 0..cur_len, cur_len, cur_len)
  BY <1>1, <1>2, <1>3 DEF ExecDecode
<1>5. cur_len \in 0..MaxSeqLen
  BY DEF IInv, TypeOK
<1> QED BY <1>1, <1>2, <1>4, <1>5, AppendRow, PassKeeps

LEMMA LegacyDecodeInv == IInv /\ LegacyDecode => IInv'
<1> SUFFICES ASSUME IInv, LegacyDecode PROVE IInv'
  OBVIOUS
<1>1. /\ Forward /\ phase = "forward" /\ step > 0
      /\ n_tx_frames' = n_tx_frames + 1
  BY DEF LegacyDecode, Forward
<1>2. n_tx_frames = cur_len /\ cur_len \in 0..MaxSeqLen
  BY <1>1 DEF IInv, CacheInv, HeadInv, TypeOK
<1>3. CASE cur_len + 1 > MaxSeqLen
  <2>1. Return("GENERATE_FAILED") /\ UNCHANGED cache
    BY <1>3 DEF LegacyDecode
  <2>2. kv' \in [Rows -> Row] /\ cur_len' \in 0..MaxSeqLen /\ n_tx_frames' \in Nat
    BY <1>1, <1>2, <2>1 DEF IInv, TypeOK, cache
  <2> QED BY <1>1, <2>1, <2>2, FailedPass DEF cache
<1>4. CASE ~(cur_len + 1 > MaxSeqLen)
  <2>1. Compute([kv EXCEPT ![cur_len] = <<synthesis, cur_len>>], 0..cur_len, cur_len, cur_len)
    BY <1>4 DEF LegacyDecode
  <2>2. cur_len < MaxSeqLen
    BY <1>2, <1>4, TalkerAssumption
  <2> QED BY <1>1, <1>2, <2>1, <2>2, AppendRow, PassKeeps
<1> QED BY <1>3, <1>4
-----------------------------------------------------------------------------
LEMMA SampleFirstCodeInv == IInv /\ SampleFirstCode => IInv'
<1> SUFFICES ASSUME IInv, SampleFirstCode PROVE IInv'
  OBVIOUS
<1>1. /\ phase = "sample" /\ phase' \in {"idle", "predict"} /\ status' \in Statuses
      /\ drawn' = Append(drawn, subseq_counter)
      /\ subseq_counter' = subseq_counter + 1
      /\ UNCHANGED <<kv, cur_len, attended, tx_exec_enabled, synthesis, T_ctx>>
      /\ UNCHANGED <<n_tx_frames, step, cancel, late>>
  BY DEF SampleFirstCode, Goto, Return, Statuses, cache, request, IInv, TypeOK
<1>2. drawn \in Seq(Nat) /\ Len(drawn) = subseq_counter /\ subseq_counter \in Nat
  BY <1>1 DEF IInv, DrawInv, TypeOK
<1>3. TypeOK'
  BY <1>1, <1>2 DEF IInv, TypeOK, Phases
<1>4. CacheInv'
  BY <1>1 DEF IInv, CacheInv, HeadInv, OwnRows, Filled, AttendsWholeSequence
<1>5. DrawInv'
  <2>1. Len(drawn') = subseq_counter' /\ DOMAIN drawn' = 1..subseq_counter + 1
    BY <1>1, <1>2
  <2>2. \A i \in 1..subseq_counter : drawn[i] = i - 1
    BY <1>2 DEF IInv, DrawInv, SubsequencesInOrder
  <2>3. \A i \in 1..subseq_counter + 1 : drawn'[i] = i - 1
    BY <1>1, <1>2, <2>2
  <2> QED BY <1>1, <1>2, <2>1, <2>3 DEF DrawInv, SubsequencesInOrder
<1>6. CancelInv'
  BY <1>1 DEF IInv, CancelInv
<1> QED BY <1>3, <1>4, <1>5, <1>6 DEF IInv

(* The predictor's draws follow those of the frames before it. *)
LEMMA DrawsFollow ==
  ASSUME IInv, phase = "predict", NEW g \in Nat
  PROVE  LET d == drawn \o PredictorDraws(subseq_counter - 1, g)
         IN  /\ d \in Seq(Nat)
             /\ Len(d) = subseq_counter + g
             /\ \A i \in DOMAIN d : d[i] = i - 1
<1> DEFINE new == PredictorDraws(subseq_counter - 1, g)
<1>1. /\ drawn \in Seq(Nat) /\ Len(drawn) = subseq_counter
      /\ subseq_counter \in Nat /\ subseq_counter > 0
      /\ \A i \in 1..subseq_counter : drawn[i] = i - 1
  <2>1. /\ drawn \in Seq(Nat) /\ Len(drawn) = subseq_counter
        /\ subseq_counter \in Nat /\ subseq_counter > 0
    BY DEF IInv, DrawInv, TypeOK
  <2>2. \A i \in DOMAIN drawn : drawn[i] = i - 1
    BY DEF IInv, DrawInv, SubsequencesInOrder
  <2>3. DOMAIN drawn = 1..subseq_counter
    BY <2>1
  <2> QED BY <2>1, <2>2, <2>3
<1>2. new = [i \in 1..g |-> subseq_counter - 1 + i]
  BY DEF PredictorDraws
<1>3. new \in Seq(Nat) /\ Len(new) = g
  BY <1>1, <1>2
<1>4. \A i \in 1..g : new[i] = subseq_counter + i - 1
  BY <1>1, <1>2
<1> HIDE DEF new
<1>5. drawn \o new \in Seq(Nat) /\ Len(drawn \o new) = subseq_counter + g
  <2>1. drawn \in Seq(Nat) /\ new \in Seq(Nat)
    BY <1>1, <1>3
  <2>2. drawn \o new \in Seq(Nat) /\ Len(drawn \o new) = Len(drawn) + Len(new)
    BY <2>1
  <2> QED BY <1>1, <1>3, <2>2
<1>6. ASSUME NEW i \in 1..subseq_counter + g
      PROVE  (drawn \o new)[i] = i - 1
  <2>1. CASE i <= subseq_counter
    BY <1>1, <1>3, <2>1
  <2>2. CASE i > subseq_counter
    <3>1. (drawn \o new)[i] = new[i - subseq_counter] /\ i - subseq_counter \in 1..g
      <4>1. i \in Nat /\ i > Len(drawn) /\ i <= Len(drawn) + Len(new)
        BY <1>1, <1>3, <2>2
      <4>2. drawn \in Seq(Nat) /\ new \in Seq(Nat)
        BY <1>1, <1>3
      <4>3. (drawn \o new)[i] = new[i - Len(drawn)]
        BY <4>1, <4>2
      <4> QED BY <1>1, <1>3, <4>1, <4>3
    <3>2. new[i - subseq_counter] = subseq_counter + (i - subseq_counter) - 1
      BY <1>4, <3>1
    <3> QED BY <1>1, <3>1, <3>2
  <2>3. i <= subseq_counter \/ i > subseq_counter
    BY <1>1
  <2> QED BY <2>1, <2>2, <2>3
<1>7. DOMAIN (drawn \o new) = 1..subseq_counter + g
  BY <1>5
<1> QED BY <1>5, <1>6, <1>7 DEF new

LEMMA PredictInv == IInv /\ Predict => IInv'
<1> SUFFICES ASSUME IInv, Predict PROVE IInv'
  OBVIOUS
<1> DEFINE base == subseq_counter - 1
<1>1. /\ phase = "predict"
      /\ UNCHANGED <<kv, cur_len, attended, tx_exec_enabled, synthesis, T_ctx>>
      /\ UNCHANGED <<n_tx_frames, step, cancel, late>>
  BY DEF Predict, cache, request
<1>2. CodeGroups - 1 \in Nat /\ subseq_counter \in Nat
  BY TalkerAssumption DEF IInv, TypeOK
<1>3. PICK g \in Nat : drawn' = drawn \o PredictorDraws(base, g)
  <2>1. CASE drawn' = drawn \o PredictorDraws(base, CodeGroups - 1)
    BY <1>2, <2>1
  <2>2. CASE \E g \in 0..CodeGroups-1 : drawn' = drawn \o PredictorDraws(base, g)
    <3>1. PICK n \in 0..CodeGroups-1 : drawn' = drawn \o PredictorDraws(base, n)
      BY <2>2
    <3>2. n \in Nat
      BY <1>2
    <3> QED BY <3>1, <3>2
  <2> QED BY <2>1, <2>2 DEF Predict
<1>4. /\ drawn' \in Seq(Nat)
      /\ \A i \in DOMAIN drawn' : drawn'[i] = i - 1
  BY <1>1, <1>3, DrawsFollow
<1>5. /\ phase' \in {"push", "idle"} /\ status' \in Statuses
      /\ subseq_counter' \in Nat
  BY <1>2 DEF Predict, Goto, Return, Statuses, IInv, TypeOK
<1>6. phase' # "idle" => Len(drawn') = subseq_counter'
  <2>1. CASE /\ drawn' = drawn \o PredictorDraws(base, CodeGroups - 1)
             /\ subseq_counter' = subseq_counter + CodeGroups - 1
    <3>1. Len(drawn') = subseq_counter + (CodeGroups - 1)
      BY <1>1, <1>2, <2>1, DrawsFollow
    <3> QED BY <1>2, <2>1, <3>1
  <2>2. CASE Return("GENERATE_FAILED")
    BY <2>2 DEF Return
  <2> QED BY <2>1, <2>2 DEF Predict
<1>7. TypeOK'
  BY <1>1, <1>4, <1>5 DEF IInv, TypeOK, Phases
<1>8. CacheInv'
  BY <1>1, <1>5 DEF IInv, CacheInv, HeadInv, OwnRows, Filled, AttendsWholeSequence
<1>9. DrawInv' /\ CancelInv'
  BY <1>1, <1>4, <1>5, <1>6 DEF IInv, DrawInv, SubsequencesInOrder, CancelInv
<1> QED BY <1>7, <1>8, <1>9 DEF IInv

LEMMA PushInv == IInv /\ Push => IInv'
<1> SUFFICES ASSUME IInv, Push PROVE IInv'
  OBVIOUS
<1>1. /\ phase = "push" /\ status' \in Statuses
      /\ \/ phase' = "head" /\ step' = step + 1
         \/ phase' = "idle" /\ step' = step
      /\ UNCHANGED <<kv, cur_len, attended, tx_exec_enabled, synthesis, T_ctx>>
      /\ UNCHANGED <<subseq_counter, drawn, n_tx_frames, cancel, late>>
  BY DEF Push, Goto, Return, Statuses, cache, random, request, IInv, TypeOK
<1>2. step \in Nat /\ step < MaxNewTokens /\ step' \in 0..MaxNewTokens
  BY <1>1, TalkerAssumption DEF IInv, CacheInv, HeadInv, TypeOK
<1>3. TypeOK'
  BY <1>1, <1>2 DEF IInv, TypeOK, Phases
<1>4. CacheInv'
  <2>1. HeadInv'
    <3>1. cur_len = T_ctx + step /\ n_tx_frames = cur_len /\ T_ctx \in Nat
      BY <1>1 DEF IInv, CacheInv, HeadInv, TypeOK
    <3>2. CASE phase' = "head" /\ step' = step + 1
      BY <1>1, <1>2, <3>1, <3>2 DEF HeadInv
    <3>3. CASE phase' = "idle"
      BY <3>3 DEF HeadInv
    <3> QED BY <1>1, <3>2, <3>3
  <2>2. OwnRows'
    BY <1>1 DEF IInv, CacheInv, OwnRows, Filled
  <2>3. AttendsWholeSequence'
    BY <1>1 DEF AttendsWholeSequence
  <2> QED BY <2>1, <2>2, <2>3 DEF CacheInv
<1>5. DrawInv' /\ CancelInv'
  BY <1>1 DEF IInv, DrawInv, SubsequencesInOrder, CancelInv
<1> QED BY <1>3, <1>4, <1>5 DEF IInv

LEMMA StutterInv == IInv /\ UNCHANGED vars => IInv'
<1> SUFFICES ASSUME IInv, UNCHANGED vars PROVE IInv'
  OBVIOUS
<1> USE DEF vars, cache, random, request
<1>1. TypeOK'
  BY DEF IInv, TypeOK
<1>2. CacheInv'
  BY DEF IInv, CacheInv, HeadInv, OwnRows, Filled, AttendsWholeSequence
<1>3. DrawInv' /\ CancelInv'
  BY DEF IInv, DrawInv, SubsequencesInOrder, CancelInv
<1> QED BY <1>1, <1>2, <1>3 DEF IInv
-----------------------------------------------------------------------------
(* The inductive invariant holds of every run of syntheses. *)
THEOREM Invariance == Spec => []IInv
<1>1. IInv /\ [Next]_vars => IInv'
  BY BeginInv, RaiseCancelInv, LoopHeadInv, PrefillInv, ExecDecodeInv,
     LegacyDecodeInv, SampleFirstCodeInv, PredictInv, PushInv, StutterInv
  DEF Next, Served
<1> QED BY InitInv, <1>1, PTL DEF Spec

(* The write head never leaves the cache, whatever the prompt and window.  *)
THEOREM TypeCorrect == Spec => []TypeOK
BY Invariance, PTL DEF IInv

(* Every forward pass attends the whole of its own synthesis and no stale  *)
(* row, on the prebuilt graph, past it, and where one hands over.          *)
THEOREM AttentionIsComplete == Spec => []AttendsWholeSequence
BY Invariance, PTL DEF IInv, CacheInv

(* No Philox subsequence is used twice or skipped within a synthesis. *)
THEOREM DrawsAreFresh == Spec => []SubsequencesInOrder
BY Invariance, PTL DEF IInv, DrawInv

(* A cancelled synthesis begins at most one more forward pass. *)
THEOREM CancelIsPrompt == Spec => []CancelWithinOneFrame
BY Invariance, PTL DEF IInv, CancelInv, CancelWithinOneFrame
=============================================================================
