---------------------------- MODULE WebUi_proofs ----------------------------
(***************************************************************************)
(* What the page's one controller and one phase are worth, and what a      *)
(* player is given, for any number of runs, any stream, any cut of it into *)
(* chunks and any timing: two runs at once only after a late reset,        *)
(* silence from a run that was stopped, all of the answer heard, each      *)
(* block given a time to come, and the end reported once.                  *)
(*                                                                         *)
(* The second half is about one tape per run, the bytes of its answer:     *)
(* the page has handed on the whole samples of those it has read, the      *)
(* player's blocks are stretches of the tape that follow each other, and   *)
(* what waits is the stretch after them.                                   *)
(***************************************************************************)
EXTENDS WebUi, SequenceTheorems, FiniteSetTheorems, TLAPS

LiveRuns == {r \in Runs : stage[r] \in {"llm"} \cup Requesting /\ ~aborted[r]}
ResetRuns == {r \in Runs : stage[r] = "reset"}

StagesOK ==
  /\ stage \in [Runs -> Stages]
  /\ aborted \in [Runs -> BOOLEAN]
  /\ abortRef \in Runs \cup {None}

(* While the page generates, the run whose controller it has is alive: the *)
(* stop button has something to abort.                                     *)
StopHasATarget == phase = "generating" => abortRef \in LiveRuns

(* A run that was aborted waits for the LLM or is over.                    *)
AbortedIsOut == \A r \in Runs : aborted[r] => stage[r] \in {"llm"} \cup Over

(* The run the page shows is one that no late reset has paid for.          *)
RunsArePaidFor ==
  Cardinality(LiveRuns) <= Cardinality(ResetRuns) + (IF phase = "generating" THEN 1 ELSE 0)

RunInv == StagesOK /\ StopHasATarget /\ AbortedIsOut /\ RunsArePaidFor
-----------------------------------------------------------------------------
(* The sets of runs are finite, and their sizes numbers.                   *)
LEMMA RunSetsFinite ==
  /\ IsFiniteSet(LiveRuns) /\ Cardinality(LiveRuns) \in Nat
  /\ IsFiniteSet(ResetRuns) /\ Cardinality(ResetRuns) \in Nat
<1>1. IsFiniteSet(Runs)
  BY PageAssumption, FS_Interval DEF Runs
<1>2. IsFiniteSet(LiveRuns) /\ IsFiniteSet(ResetRuns)
  BY <1>1, FS_Subset DEF LiveRuns, ResetRuns
<1> QED
  BY <1>2, FS_CardinalityType

(* One more, or one fewer, changes the size by at most one.                *)
LEMMA OneMore ==
  ASSUME NEW S, NEW x, IsFiniteSet(S)
  PROVE  /\ Cardinality(S \cup {x}) \in Nat
         /\ Cardinality(S \cup {x}) <= Cardinality(S) + 1
         /\ x \notin S => Cardinality(S \cup {x}) = Cardinality(S) + 1
         /\ x \in S => Cardinality(S \ {x}) = Cardinality(S) - 1
         /\ Cardinality(S) \in Nat
<1>1. Cardinality(S) \in Nat
  BY FS_CardinalityType
<1>2. Cardinality(S \cup {x}) = IF x \in S THEN Cardinality(S) ELSE Cardinality(S) + 1
  BY FS_AddElement
<1>3. Cardinality(S \ {x}) = IF x \in S THEN Cardinality(S) - 1 ELSE Cardinality(S)
  BY FS_RemoveElement
<1> QED
  BY <1>1, <1>2, <1>3

(* At first there is no run.                                               *)
LEMMA InitRunInv == Init => RunInv
<1> SUFFICES ASSUME Init PROVE RunInv
  OBVIOUS
<1>1. StagesOK /\ StopHasATarget /\ AbortedIsOut
  BY DEF Init, StagesOK, StopHasATarget, AbortedIsOut, Stages
<1>2. LiveRuns = {} /\ phase # "generating"
  BY DEF Init, LiveRuns, Requesting
<1>3. RunsArePaidFor
  BY <1>2, FS_EmptySet, RunSetsFinite DEF RunsArePaidFor
<1> QED
  BY <1>1, <1>3 DEF RunInv

(* A run that ends badly leaves the page without one: it was alive, or it  *)
(* is one more that has reset the page.                                    *)
LEMMA ThrowsKeeps ==
  ASSUME RunInv, NEW r \in Runs, stage[r] \in {"llm"} \cup Requesting, Throws(r),
         UNCHANGED aborted
  PROVE  RunInv'
<1> USE DEF RunInv, Throws, GoesTo, Resets
<1>1. phase' # "generating" /\ StopHasATarget'
  BY DEF StopHasATarget
<1>2. StagesOK' /\ AbortedIsOut'
  BY DEF StagesOK, AbortedIsOut, Stages, Over, Requesting
<1>3. CASE aborted[r]
  <2>1. LiveRuns' = LiveRuns /\ ResetRuns' = ResetRuns \cup {r} /\ r \notin ResetRuns
    BY <1>3 DEF LiveRuns, ResetRuns, StagesOK, Requesting
  <2>2. Cardinality(ResetRuns') = Cardinality(ResetRuns) + 1
    BY <2>1, OneMore, RunSetsFinite
  <2>3. RunsArePaidFor'
    BY <1>1, <2>1, <2>2, RunSetsFinite DEF RunsArePaidFor
  <2> QED
    BY <1>1, <1>2, <2>3
<1>4. CASE ~aborted[r]
  <2>1. LiveRuns' = LiveRuns \ {r} /\ ResetRuns' = ResetRuns /\ r \in LiveRuns
    BY <1>4 DEF LiveRuns, ResetRuns, StagesOK, Requesting
  <2>2. Cardinality(LiveRuns') = Cardinality(LiveRuns) - 1
    BY <2>1, OneMore, RunSetsFinite
  <2>3. RunsArePaidFor'
    BY <1>1, <2>1, <2>2, RunSetsFinite DEF RunsArePaidFor
  <2> QED
    BY <1>1, <1>2, <2>3
<1> QED
  BY <1>3, <1>4

(* A step after which the same runs are alive, on the same page.           *)
LEMMA SameRunsKeep ==
  ASSUME RunInv, UNCHANGED <<phase, abortRef, aborted>>, StagesOK', AbortedIsOut',
         LiveRuns' = LiveRuns, ResetRuns' = ResetRuns
  PROVE  RunInv'
  BY DEF RunInv, StopHasATarget, RunsArePaidFor

(* The page showed no run, and shows the new one.                          *)
LEMMA ClickRunKeeps == RunInv /\ ClickRun => RunInv'
<1> SUFFICES ASSUME RunInv, ClickRun PROVE RunInv'
  OBVIOUS
<1> USE DEF RunInv
<1>1. PICK r \in Runs :
        /\ stage[r] = "new" /\ abortRef' = r
        /\ GoesTo(r, "llm") \/ GoesTo(r, "fetch")
  BY DEF ClickRun
<1>2. phase # "generating" /\ phase' = "generating" /\ aborted' = aborted
  BY DEF ClickRun, MayRun, Resets
<1>3. ~aborted[r]
  BY <1>1 DEF AbortedIsOut, Over
<1>4. StagesOK' /\ AbortedIsOut'
  BY <1>1, <1>2, <1>3 DEF StagesOK, AbortedIsOut, GoesTo, Stages, Requesting
<1>5. LiveRuns' = LiveRuns \cup {r} /\ ResetRuns' = ResetRuns
  BY <1>1, <1>2, <1>3 DEF LiveRuns, ResetRuns, GoesTo, StagesOK, Requesting
<1>6. StopHasATarget'
  BY <1>1, <1>5 DEF StopHasATarget
<1>7. RunsArePaidFor'
  <2>1. Cardinality(LiveRuns') \in Nat /\ Cardinality(LiveRuns') <= Cardinality(LiveRuns) + 1
    BY <1>5, OneMore, RunSetsFinite
  <2> QED
    BY <1>2, <1>5, <2>1, RunSetsFinite DEF RunsArePaidFor
<1> QED
  BY <1>4, <1>6, <1>7

(* The page stops showing the run it aborts.                               *)
LEMMA ClickStopKeeps == RunInv /\ ClickStop => RunInv'
<1> SUFFICES ASSUME RunInv, ClickStop PROVE RunInv'
  OBVIOUS
<1> USE DEF RunInv, ClickStop, Aborts, Resets
<1>1. phase = "generating" /\ phase' # "generating" /\ abortRef \in LiveRuns
  BY DEF StopHasATarget
<1>2. StagesOK' /\ AbortedIsOut'
  BY <1>1 DEF StagesOK, AbortedIsOut, LiveRuns, Stages, Over, Requesting
<1>3. LiveRuns' = LiveRuns \ {abortRef} /\ ResetRuns' = ResetRuns
  BY <1>1 DEF LiveRuns, ResetRuns, StagesOK, Requesting
<1>4. RunsArePaidFor'
  <2>1. Cardinality(LiveRuns') = Cardinality(LiveRuns) - 1
    BY <1>1, <1>3, OneMore, RunSetsFinite
  <2> QED
    BY <1>1, <1>3, <2>1, RunSetsFinite DEF RunsArePaidFor
<1> QED
  BY <1>1, <1>2, <1>4 DEF StopHasATarget

(* An end of the LLM's text goes on, any other may throw.                  *)
LEMMA LlmDeltaKeeps == ASSUME RunInv, NEW r \in Runs, LlmDelta(r) PROVE RunInv'
<1>1. CASE Throws(r)
  BY <1>1, ThrowsKeeps DEF LlmDelta
<1>2. CASE UNCHANGED <<stage, page>>
  <2>1. UNCHANGED <<stage, aborted, phase, abortRef>>
    BY <1>2 DEF LlmDelta, page
  <2> QED
    BY <2>1, SameRunsKeep DEF RunInv, StagesOK, AbortedIsOut, LiveRuns, ResetRuns
<1>3. CASE ~aborted[r] /\ GoesTo(r, "fetch") /\ UNCHANGED <<phase, abortRef>>
  <2>1. StagesOK' /\ AbortedIsOut' /\ UNCHANGED aborted
    BY <1>3 DEF LlmDelta, RunInv, StagesOK, AbortedIsOut, GoesTo, Stages, Requesting
  <2>2. LiveRuns' = LiveRuns /\ ResetRuns' = ResetRuns
    BY <1>3, <2>1 DEF LlmDelta, RunInv, StagesOK, GoesTo, LiveRuns, ResetRuns, Requesting
  <2> QED
    BY <1>3, <2>1, <2>2, SameRunsKeep
<1> QED
  BY <1>1, <1>2, <1>3 DEF LlmDelta

(* A request is answered, with a stream or an error.                       *)
LEMMA ResponseKeeps == ASSUME RunInv, NEW r \in Runs, Response(r) PROVE RunInv'
<1>1. CASE Throws(r)
  BY <1>1, ThrowsKeeps DEF Response, Requesting
<1>2. CASE GoesTo(r, "stream") /\ UNCHANGED page
  <2>1. UNCHANGED <<aborted, phase, abortRef>>
    BY <1>2 DEF Response, page
  <2>2. StagesOK' /\ AbortedIsOut'
    BY <1>2, <2>1
    DEF Response, RunInv, StagesOK, AbortedIsOut, GoesTo, Stages, Requesting, Over
  <2>3. LiveRuns' = LiveRuns /\ ResetRuns' = ResetRuns
    BY <1>2, <2>1 DEF Response, RunInv, StagesOK, GoesTo, LiveRuns, ResetRuns, Requesting
  <2> QED
    BY <2>1, <2>2, <2>3, SameRunsKeep
<1> QED
  BY <1>1, <1>2 DEF Response

(* A stream that ends is of a run that was alive.                          *)
LEMMA StreamEndsKeeps == ASSUME RunInv, NEW r \in Runs, StreamEnds(r) PROVE RunInv'
<1> USE DEF RunInv, StreamEnds, GoesTo
<1>1. phase' # "generating" /\ ~aborted[r]
  BY DEF AbortedIsOut, Over
<1>2. StagesOK' /\ AbortedIsOut'
  BY <1>1 DEF StagesOK, AbortedIsOut, Stages, Over
<1>3. LiveRuns' = LiveRuns \ {r} /\ ResetRuns' = ResetRuns /\ r \in LiveRuns
  BY <1>1 DEF LiveRuns, ResetRuns, StagesOK, Requesting
<1>4. RunsArePaidFor'
  <2>1. Cardinality(LiveRuns') = Cardinality(LiveRuns) - 1
    BY <1>1, <1>3, OneMore, RunSetsFinite
  <2> QED
    BY <1>1, <1>3, <2>1, RunSetsFinite DEF RunsArePaidFor
<1> QED
  BY <1>1, <1>2, <1>4 DEF StopHasATarget

(* Every step keeps it.                                                    *)
LEMMA NextRunInv == RunInv /\ [Next]_vars => RunInv'
<1> SUFFICES ASSUME RunInv, [Next]_vars PROVE RunInv'
  OBVIOUS
<1>1. ASSUME UNCHANGED <<stage, aborted, phase, abortRef>> PROVE RunInv'
  BY <1>1, SameRunsKeep DEF RunInv, StagesOK, AbortedIsOut, LiveRuns, ResetRuns
<1>2. CASE ClickRun \/ ClickStop
  BY <1>2, ClickRunKeeps, ClickStopKeeps
<1>3. CASE ClickStopAudio \/ Tick \/ UNCHANGED vars
  BY <1>1, <1>3 DEF ClickStopAudio, Tick, vars, page
<1>4. ASSUME NEW r \in Runs, RunSteps(r) PROVE RunInv'
  <2>1. CASE LlmDelta(r) \/ Response(r) \/ StreamEnds(r)
    BY <2>1, LlmDeltaKeeps, ResponseKeeps, StreamEndsKeeps
  <2>2. CASE StreamBreaks(r)
    BY <2>2, ThrowsKeeps DEF StreamBreaks, Requesting
  <2>3. CASE SourceEnds(r)
    BY <1>1, <2>3 DEF SourceEnds
  <2>4. CASE \E n \in ChunkSizes : Chunk(r, n)
    BY <1>1, <2>4 DEF Chunk
  <2> QED
    BY <1>4, <2>1, <2>2, <2>3, <2>4 DEF RunSteps
<1> QED
  BY <1>2, <1>3, <1>4 DEF Next

(* run() and the catch of App.tsx: however many runs are started, stopped  *)
(* and answered late, there are two at once only after a late reset.       *)
THEOREM RunsAreBounded == Spec => []OneRunPerReset
<1>1. RunInv => OneRunPerReset
  <2> SUFFICES ASSUME RunInv PROVE Cardinality(LiveRuns) <= 1 + Cardinality(ResetRuns)
    BY DEF OneRunPerReset, LiveRuns, ResetRuns
  <2> QED
    BY RunSetsFinite DEF RunInv, RunsArePaidFor
<1> QED
  BY <1>1, InitRunInv, NextRunInv, PTL DEF Spec
-----------------------------------------------------------------------------
(* Every player has blocks, which another field's assignment leaves alone. *)
HasBlocks(p) == "blocks" \in DOMAIN p

PlayersOK ==
  /\ players = [r \in Runs |-> players[r]]
  /\ \A r \in Runs : HasBlocks(players[r])
  /\ playerRef \in Runs \cup {None}
  /\ total = [r \in Runs |-> total[r]]

(* What was stopped was aborted.                                           *)
StoppedIsAborted == \A r \in stopped : r \in Runs /\ aborted[r]

SilenceInv == RunInv /\ PlayersOK /\ StoppedIsAborted

(* Every method leaves a player with blocks; stop() empties them and the   *)
(* end of a block changes none.                                            *)
LEMMA MethodsKeepBlocks ==
  ASSUME NEW p, HasBlocks(p), NEW samples, NEW t
  PROVE  /\ HasBlocks(push(p, samples, t))
         /\ HasBlocks(start(p, t))
         /\ HasBlocks(setOnEnded(markEnded(p, t)))
         /\ HasBlocks(stop(p)) /\ stop(p).blocks = <<>>
         /\ HasBlocks(sourceOnEnded(p)) /\ sourceOnEnded(p).blocks = p.blocks
<1>1. ASSUME NEW q, HasBlocks(q)
      PROVE  HasBlocks(scheduleBlock(q, t))
  BY <1>1 DEF HasBlocks, scheduleBlock
<1>2. ASSUME NEW q, HasBlocks(q)
      PROVE  HasBlocks(start(q, t))
  BY <1>1, <1>2 DEF HasBlocks, start
<1>3. ASSUME NEW q, HasBlocks(q)
      PROVE  HasBlocks(Report(q)) /\ Report(q).blocks = q.blocks
  BY <1>3 DEF HasBlocks, Report
<1>4. HasBlocks(push(p, samples, t))
  BY <1>1 DEF HasBlocks, push
<1>5. HasBlocks(markEnded(p, t))
  BY <1>1, <1>2, <1>3 DEF HasBlocks, markEnded
<1>6. HasBlocks(setOnEnded(markEnded(p, t)))
  BY <1>5 DEF HasBlocks, setOnEnded
<1>7. HasBlocks(stop(p)) /\ stop(p).blocks = <<>>
  BY DEF HasBlocks, stop, NewPlayer
<1>8. HasBlocks(sourceOnEnded(p)) /\ sourceOnEnded(p).blocks = p.blocks
  BY <1>3 DEF HasBlocks, sourceOnEnded
<1> QED
  BY <1>2, <1>4, <1>6, <1>7, <1>8

(* At first the players are new and nothing was stopped.                   *)
LEMMA InitSilenceInv == Init => SilenceInv
<1> SUFFICES ASSUME Init PROVE SilenceInv
  OBVIOUS
<1>1. HasBlocks(NewPlayer)
  BY DEF HasBlocks, NewPlayer
<1>2. PlayersOK /\ StoppedIsAborted
  BY <1>1 DEF Init, PlayersOK, StoppedIsAborted
<1> QED
  BY <1>2, InitRunInv DEF SilenceInv

(* The page's player is stopped, if it has one.                            *)
LEMMA StopsPlayerKeeps ==
  ASSUME PlayersOK, StopsPlayer
  PROVE  /\ players' = [r \in Runs |-> players'[r]]
         /\ \A r \in Runs : HasBlocks(players'[r])
         /\ \A r \in Runs : players'[r].blocks \in {players[r].blocks, <<>>}
<1>1. CASE playerRef = None
  BY <1>1 DEF PlayersOK, StopsPlayer
<1>2. CASE playerRef # None
  <2>1. playerRef \in Runs /\ players' = [players EXCEPT ![playerRef] = stop(@)]
    BY <1>2 DEF PlayersOK, StopsPlayer
  <2>2. HasBlocks(stop(players[playerRef])) /\ stop(players[playerRef]).blocks = <<>>
    BY <2>1, MethodsKeepBlocks DEF PlayersOK
  <2> QED
    BY <2>1, <2>2 DEF PlayersOK
<1> QED
  BY <1>1, <1>2

(* What a step does to the runs that are stopped.                          *)
Silent ==
  \A r \in stopped :
    total'[r] = total[r] /\ players'[r].blocks \in {players[r].blocks, <<>>}

(* The clicks: what they stop, they have aborted.                          *)
LEMMA ClicksKeep ==
  ASSUME SilenceInv, ClickRun \/ ClickStop \/ ClickStopAudio
  PROVE  PlayersOK' /\ StoppedIsAborted' /\ Silent
<1> USE DEF SilenceInv
<1>1. StopsPlayer /\ total' = total
  BY DEF ClickRun, ClickStop, ClickStopAudio, answers
<1>2. playerRef' \in Runs \cup {None}
  BY DEF ClickRun, ClickStop, ClickStopAudio, PlayersOK
<1>3. StoppedIsAborted'
  <2>1. CASE ClickRun \/ ClickStopAudio
    BY <2>1 DEF ClickRun, ClickStopAudio, StoppedIsAborted
  <2>2. CASE ClickStop
    BY <2>2 DEF ClickStop, Aborts, StoppedIsAborted, RunInv, StagesOK, StopHasATarget, LiveRuns
  <2> QED
    BY <2>1, <2>2
<1> QED
  BY <1>1, <1>2, <1>3, StopsPlayerKeeps DEF PlayersOK, StoppedIsAborted, Silent

(* A run's own steps: one that was stopped has no stream to take them in.  *)
LEMMA RunStepsKeep ==
  ASSUME SilenceInv, NEW r \in Runs, RunSteps(r)
  PROVE  PlayersOK' /\ StoppedIsAborted' /\ Silent
<1> USE DEF SilenceInv
<1>1. stopped' = stopped /\ aborted' = aborted /\ StoppedIsAborted'
  BY DEF RunSteps, LlmDelta, Response, StreamEnds, StreamBreaks, SourceEnds, Chunk,
         StoppedIsAborted
<1>2. playerRef' \in Runs \cup {None}
  BY DEF RunSteps, LlmDelta, Response, StreamEnds, StreamBreaks, SourceEnds, Chunk, Throws,
         PlayersOK, page
<1>3. r \in stopped => stage[r] # "stream"
  BY DEF StoppedIsAborted, RunInv, AbortedIsOut, Over
<1>4. CASE LlmDelta(r) \/ Response(r) \/ StreamBreaks(r)
  <2>1. players' = players /\ total' = total
    BY <1>4 DEF LlmDelta, Response, StreamBreaks, answers
  <2> QED
    BY <1>1, <1>2, <2>1 DEF PlayersOK, Silent
<1>5. CASE StreamEnds(r)
  <2>1. /\ players' = [players EXCEPT ![r] = setOnEnded(markEnded(@, now))]
        /\ total' = total /\ r \notin stopped
    BY <1>3, <1>5 DEF StreamEnds, answers
  <2>2. HasBlocks(setOnEnded(markEnded(players[r], now)))
    BY MethodsKeepBlocks DEF PlayersOK
  <2> QED
    BY <1>1, <1>2, <2>1, <2>2 DEF PlayersOK, Silent, StoppedIsAborted
<1>6. CASE SourceEnds(r)
  <2>1. players' = [players EXCEPT ![r] = sourceOnEnded(@)] /\ total' = total
    BY <1>6 DEF SourceEnds, answers
  <2>2. /\ HasBlocks(sourceOnEnded(players[r]))
        /\ sourceOnEnded(players[r]).blocks = players[r].blocks
    BY MethodsKeepBlocks DEF PlayersOK
  <2> QED
    BY <1>1, <1>2, <2>1, <2>2 DEF PlayersOK, Silent, StoppedIsAborted
<1>7. CASE \E n \in ChunkSizes : Chunk(r, n)
  <2>1. r \notin stopped
    BY <1>3, <1>7 DEF Chunk
  <2>2. \/ players' = players
        \/ \E samples : players' = [players EXCEPT ![r] = push(@, samples, now)]
        \/ \E samples : players' = [players EXCEPT ![r] = start(push(@, samples, now), now)]
    BY <1>7 DEF Chunk, PlayersOK
  <2>3. total' = total \/ \E n : total' = [total EXCEPT ![r] = n]
    BY <1>7 DEF Chunk
  <2>4. \A samples : /\ HasBlocks(push(players[r], samples, now))
                     /\ HasBlocks(start(push(players[r], samples, now), now))
    BY MethodsKeepBlocks DEF PlayersOK
  <2>5. /\ players' = [s \in Runs |-> players'[s]]
        /\ \A s \in Runs : HasBlocks(players'[s])
        /\ \A s \in Runs \ {r} : players'[s] = players[s]
    BY <2>2, <2>4 DEF PlayersOK
  <2>6. total' = [s \in Runs |-> total'[s]] /\ \A s \in Runs \ {r} : total'[s] = total[s]
    BY <2>3 DEF PlayersOK
  <2> QED
    BY <1>1, <1>2, <2>1, <2>5, <2>6 DEF PlayersOK, Silent, StoppedIsAborted
<1> QED
  BY <1>4, <1>5, <1>6, <1>7 DEF RunSteps

(* Every step keeps the invariant and is silent.                           *)
LEMMA NextSilent == SilenceInv /\ [Next]_vars => SilenceInv' /\ Silent
<1> SUFFICES ASSUME SilenceInv, [Next]_vars PROVE SilenceInv' /\ Silent
  OBVIOUS
<1>1. RunInv'
  BY NextRunInv DEF SilenceInv
<1>2. CASE Tick \/ UNCHANGED vars
  BY <1>1, <1>2 DEF Tick, vars, page, answers, SilenceInv, PlayersOK, StoppedIsAborted, Silent
<1>3. CASE ClickRun \/ ClickStop \/ ClickStopAudio
  BY <1>1, <1>3, ClicksKeep DEF SilenceInv
<1>4. CASE \E r \in Runs : RunSteps(r)
  BY <1>1, <1>4, RunStepsKeep DEF SilenceInv
<1> QED
  BY <1>2, <1>3, <1>4 DEF Next

(* stop() of App.tsx: a run it has stopped hands no sample to a player and *)
(* gives the audio context no block, whatever comes and whatever runs      *)
(* later.                                                                  *)
THEOREM StoppedRunsAreSilent == Spec => StopSilences
<1>1. SilenceInv /\ [Next]_vars =>
        [\A r \in stopped :
           /\ total'[r] = total[r]
           /\ players'[r].blocks \in {players[r].blocks, <<>>}]_vars
  BY NextSilent DEF Silent
<1> QED
  BY <1>1, InitSilenceInv, NextSilent, PTL DEF Spec, StopSilences
-----------------------------------------------------------------------------
(* What a player has been given is a stretch of the answer, cut into blocks*)
(* that sound one after the other, and nextTime is where the next may.     *)
PlayerInv(p) ==
  /\ p \in Player(Sample, Nat)
  /\ \A i \in 1 .. Len(p.blocks) :
       Len(p.blocks[i].sound) \in 1 .. MaxSource /\ Follows(p.blocks[i].sound, Before(p, i))
  /\ \A i \in 2 .. Len(p.blocks) : EndOf(p.blocks[i - 1]) <= p.blocks[i].at
  /\ p.blocks # <<>> => EndOf(p.blocks[Len(p.blocks)]) <= p.nextTime
  /\ Follows(p.pending, Before(p, Len(p.blocks) + 1))
  /\ Before(p, Len(p.blocks) + 1) + 2 * Len(p.pending) = 2 * p.pushed
  /\ p.over <= Len(p.blocks)

(* The next block is to start where the last one ends.                     *)
NextFollows(p) == p.blocks # <<>> => EndOf(p.blocks[Len(p.blocks)]) = p.nextTime

(* The blocks a method gives the context at time t.                        *)
GivesInTime(p, q, t) ==
  \A i \in Len(p.blocks) + 1 .. Len(q.blocks) : InTime(q.blocks, i, t)

-----------------------------------------------------------------------------
LEMMA SmallerOf ==
  ASSUME NEW a \in Int, NEW b \in Int
  PROVE  Min({a, b}) = IF a <= b THEN a ELSE b
BY DEF Min

(* n samples, cut into blocks of s: all but the last block are full.       *)
LEMMA CutUp ==
  ASSUME NEW n \in Nat \ {0}, NEW s \in Nat \ {0}
  PROVE  LET k == (n + s - 1) \div s IN
         /\ k \in Nat \ {0} /\ (k - 1) * s < n /\ n <= k * s
         /\ \A i \in 1 .. k : /\ (i - 1) * s \in Nat /\ i * s = (i - 1) * s + s
                              /\ (i - 1) * s < n
                              /\ i < k => i * s < n
<1> DEFINE k == (n + s - 1) \div s
<1>1. k \in Nat \ {0} /\ (k - 1) * s < n /\ n <= k * s
  OBVIOUS
<1> HIDE DEF k
<1>2. ASSUME NEW i \in 1 .. k
      PROVE  /\ (i - 1) * s \in Nat /\ i * s = (i - 1) * s + s
             /\ (i - 1) * s <= (k - 1) * s
             /\ i < k => i * s <= (k - 1) * s
  BY <1>1
<1>3. \A i \in 1 .. k : /\ (i - 1) * s \in Nat /\ i * s = (i - 1) * s + s
                        /\ (i - 1) * s < n
                        /\ i < k => i * s < n
  BY <1>1, <1>2
<1> QED
  BY <1>1, <1>3 DEF k

(* A piece of a stretch is a stretch.                                      *)
LEMMA Piece ==
  ASSUME NEW S, NEW s \in Seq(S), NEW b \in Nat, Follows(s, b),
         NEW m \in Nat, NEW e \in Nat, m < e, e <= Len(s)
  PROVE  LET t == SubSeq(s, m + 1, e) IN
         t \in Seq(S) /\ Len(t) = e - m /\ Follows(t, b + 2 * m) /\ LastByte(t) = b + 2 * e
<1> DEFINE t == SubSeq(s, m + 1, e)
<1>1. /\ Len(s) \in Nat
      /\ \A j \in 1 .. Len(s) : s[j] \in S /\ s[j] = <<b + 2 * j - 1, b + 2 * j>>
  BY LenProperties DEF Follows
<1>2. m + 1 \in Int /\ e \in Int /\ \A i \in m + 1 .. e : s[i] \in S
  BY <1>1
<1>3. /\ t \in Seq(S)
      /\ Len(t) = IF m + 1 <= e THEN e - (m + 1) + 1 ELSE 0
      /\ \A j \in 1 .. e - (m + 1) + 1 : t[j] = s[(m + 1) + j - 1]
  BY <1>2, SubSeqProperties
<1> HIDE DEF t
<1>4. Len(t) = e - m
  BY <1>3
<1>5. ASSUME NEW j \in 1 .. e - m
      PROVE  t[j] = <<(b + 2 * m) + 2 * j - 1, (b + 2 * m) + 2 * j>>
  <2>1. /\ j \in 1 .. e - (m + 1) + 1 /\ (m + 1) + j - 1 = m + j
        /\ b + 2 * (m + j) - 1 = (b + 2 * m) + 2 * j - 1
        /\ b + 2 * (m + j) = (b + 2 * m) + 2 * j
    OBVIOUS
  <2>2. m + j \in 1 .. Len(s)
    BY <1>1
  <2>3. t[j] = s[m + j]
    BY <1>3, <2>1
  <2> QED
    BY <1>1, <2>1, <2>2, <2>3
<1>6. t = [j \in 1 .. Len(t) |-> t[j]]
  BY <1>3
<1>7. Follows(t, b + 2 * m)
  BY <1>4, <1>5, <1>6 DEF Follows
<1>8. LastByte(t) = b + 2 * e
  <2>1. e - m \in 1 .. e - m /\ (b + 2 * m) + 2 * (e - m) = b + 2 * e
    OBVIOUS
  <2> QED
    BY <1>4, <1>5, <2>1 DEF LastByte
<1> QED
  BY <1>3, <1>4, <1>7, <1>8 DEF t

(* A stretch that goes on. *)
LEMMA Longer ==
  ASSUME NEW S, NEW s \in Seq(S), NEW t \in Seq(S), NEW b \in Nat,
         Follows(s, b), Follows(t, b + 2 * Len(s))
  PROVE  Follows(s \o t, b) /\ s \o t \in Seq(S) /\ Len(s \o t) = Len(s) + Len(t)
<1>1. Len(s \o t) = Len(s) + Len(t) /\ s \o t \in Seq(S)
  OBVIOUS
<1>2. \A j \in 1 .. Len(s) : s[j] = <<b + 2 * j - 1, b + 2 * j>>
  BY DEF Follows
<1>3. \A j \in 1 .. Len(t) : t[j] = <<b + 2 * Len(s) + 2 * j - 1, b + 2 * Len(s) + 2 * j>>
  BY DEF Follows
<1>4. ASSUME NEW j \in 1 .. Len(s) + Len(t)
      PROVE  (s \o t)[j] = <<b + 2 * j - 1, b + 2 * j>>
  <2>1. CASE j <= Len(s)
    BY <1>2, <2>1
  <2>2. CASE j > Len(s)
    <3>1. (s \o t)[j] = t[j - Len(s)] /\ j - Len(s) \in 1 .. Len(t)
      BY <2>2
    <3> QED
      BY <1>3, <3>1
  <2> QED
    BY <2>1, <2>2
<1>5. s \o t = [j \in 1 .. Len(s) + Len(t) |-> (s \o t)[j]]
  BY <1>1, LenProperties
<1> QED
  BY <1>1, <1>4, <1>5 DEF Follows
(* The blocks that samples make, the first of them at a given time.        *)
Cut(samples, first) ==
  LET size == Take(Len(samples)) IN
  [k \in 1 .. BlocksOf(Len(samples)) |->
     [at |-> first + (k - 1) * size,
      sound |-> SubSeq(samples, (k - 1) * size + 1, Min({k * size, Len(samples)}))]]

Block == [at: Nat, sound: Seq(Sample)]

(* The blocks of a stretch that goes on after byte b are stretches, cut at *)
(* c[1], c[2] and so on; each sounds until the next begins.                *)
CutAt(blocks, c, b, first, n) ==
  /\ c \in [0 .. Len(blocks) -> 0 .. n] /\ c[0] = 0 /\ c[Len(blocks)] = n
  /\ \A k \in 1 .. Len(blocks) :
       /\ blocks[k].at = first + c[k - 1] /\ EndOf(blocks[k]) = first + c[k]
       /\ Len(blocks[k].sound) \in 1 .. MaxSource
       /\ Follows(blocks[k].sound, b + 2 * c[k - 1])
       /\ LastByte(blocks[k].sound) = b + 2 * c[k]

LEMMA CutsAreStretches ==
  ASSUME NEW s \in Seq(Sample), Len(s) # 0, NEW b \in Nat, Follows(s, b), NEW first \in Nat
  PROVE  /\ Cut(s, first) \in Seq(Block) /\ Len(Cut(s, first)) \in Nat \ {0}
         /\ \E c : CutAt(Cut(s, first), c, b, first, Len(s))
<1> DEFINE n == Len(s)
           z == Take(n)
           K == (n + z - 1) \div z
           cut == Cut(s, first)
           c == [k \in 0 .. K |-> IF k = K THEN n ELSE k * z]
<1>1. n \in Nat \ {0}
  BY LenProperties
<1>2. z \in Nat \ {0} /\ z <= n /\ z <= MaxSource
  <2>1. z = IF n <= MaxSource THEN n ELSE MaxSource
    BY <1>1, SmallerOf, PlayerAssumption DEF Take
  <2> QED
    BY <1>1, <2>1, PlayerAssumption
<1> HIDE DEF z
<1>3. BlocksOf(n) = K
  BY <1>1 DEF BlocksOf, z
<1> HIDE DEF n
<1>4. /\ K \in Nat \ {0} /\ (K - 1) * z < n /\ n <= K * z
      /\ \A i \in 1 .. K : /\ (i - 1) * z \in Nat /\ i * z = (i - 1) * z + z
                           /\ (i - 1) * z < n
                           /\ i < K => i * z < n
  BY <1>1, <1>2, CutUp
<1> HIDE DEF K
<1>5. cut = [k \in 1 .. K |-> [at |-> first + (k - 1) * z,
                               sound |-> SubSeq(s, (k - 1) * z + 1, Min({k * z, n}))]]
  BY <1>3 DEF Cut, z, n
<1> HIDE DEF cut
<1>6. c \in [0 .. K -> 0 .. n] /\ c[0] = 0 /\ c[K] = n
  <2>1. ASSUME NEW k \in 0 .. K PROVE (IF k = K THEN n ELSE k * z) \in 0 .. n
    <3>1. CASE k = K
      BY <1>1, <3>1
    <3>2. CASE k = 0
      BY <1>1, <1>2, <3>2
    <3>3. CASE k # 0 /\ k # K
      <4>1. k \in 1 .. K /\ k < K
        BY <1>4, <3>3
      <4>2. k * z \in Nat /\ k * z < n
        BY <1>2, <1>4, <4>1
      <4> QED
        BY <1>1, <3>3, <4>2
    <3> QED
      BY <3>1, <3>2, <3>3
  <2>2. 0 \in 0 .. K /\ K \in 0 .. K /\ 0 # K /\ 0 * z = 0
    BY <1>2, <1>4
  <2> QED
    BY <2>1, <2>2
<1>7. ASSUME NEW k \in 1 .. K
      PROVE  /\ cut[k] \in Block
             /\ cut[k].at = first + c[k - 1] /\ EndOf(cut[k]) = first + c[k]
             /\ Len(cut[k].sound) \in 1 .. MaxSource
             /\ Follows(cut[k].sound, b + 2 * c[k - 1])
             /\ LastByte(cut[k].sound) = b + 2 * c[k]
  <2> DEFINE m == (k - 1) * z
             e == Min({k * z, n})
  <2>1. m \in Nat /\ k * z = m + z /\ m < n /\ (k < K => k * z < n) /\ k \in Nat /\ k <= K
    BY <1>4
  <2>2. k - 1 \in 0 .. K /\ k \in 0 .. K /\ k - 1 # K
    BY <1>4
  <2>3. c[k - 1] = m
    BY <2>2
  <2>4. e = IF m + z <= n THEN m + z ELSE n
    BY <1>1, <1>2, <2>1, SmallerOf
  <2>5. c[k] = e
    <3>1. CASE k = K
      <4>1. n <= m + z
        BY <1>4, <2>1, <3>1
      <4>2. e = n
        BY <1>1, <1>2, <2>1, <2>4, <4>1
      <4> QED
        BY <2>2, <3>1, <4>2
    <3>2. CASE k # K
      <4>1. k < K
        BY <1>4, <2>1, <3>2
      <4>2. m + z < n
        BY <2>1, <4>1
      <4>3. e = m + z
        BY <1>1, <1>2, <2>1, <2>4, <4>2
      <4> QED
        BY <2>1, <2>2, <3>2, <4>3
    <3> QED
      BY <3>1, <3>2
  <2> HIDE DEF c
  <2>6. cut[k] = [at |-> first + m, sound |-> SubSeq(s, m + 1, e)]
    BY <1>5
  <2> HIDE DEF m, e
  <2>7. e \in Nat /\ m < e /\ e <= n /\ e - m <= z
    BY <1>1, <1>2, <2>1, <2>4
  <2>8. /\ SubSeq(s, m + 1, e) \in Seq(Sample) /\ Len(SubSeq(s, m + 1, e)) = e - m
        /\ Follows(SubSeq(s, m + 1, e), b + 2 * m)
        /\ LastByte(SubSeq(s, m + 1, e)) = b + 2 * e
    BY <2>1, <2>7, Piece DEF n
  <2>9. cut[k].at = first + m /\ cut[k].sound = SubSeq(s, m + 1, e)
    <3> DEFINE at == first + m
               sound == SubSeq(s, m + 1, e)
    <3>1. cut[k] = [at |-> at, sound |-> sound]
      BY <2>6
    <3> HIDE DEF at, sound
    <3>2. cut[k].at = at /\ cut[k].sound = sound
      BY <3>1
    <3> QED
      BY <3>2 DEF at, sound
  <2>10. e - m \in 1 .. MaxSource /\ first + m \in Nat /\ first + m + (e - m) = first + e
    BY <1>2, <2>1, <2>7, PlayerAssumption
  <2>11. cut[k] \in Block
    BY <2>6, <2>8, <2>10 DEF Block
  <2>12. EndOf(cut[k]) = first + e
    BY <2>8, <2>9, <2>10 DEF EndOf
  <2> QED
    BY <2>3, <2>5, <2>8, <2>9, <2>10, <2>11, <2>12
<1> HIDE DEF c
<1>8. cut = [k \in 1 .. K |-> cut[k]]
  BY <1>5
<1>9. cut \in Seq(Block) /\ Len(cut) = K
  BY <1>4, <1>7, <1>8
<1>10. CutAt(cut, c, b, first, n)
  BY <1>6, <1>7, <1>9 DEF CutAt
<1> QED
  BY <1>4, <1>9, <1>10 DEF cut, n

(* Nothing makes no block.                                                 *)
LEMMA CutOfNothing == ASSUME NEW s, Len(s) = 0, NEW first PROVE Cut(s, first) = <<>>
BY DEF Cut, BlocksOf

(* What is heard of the answer up to block i, where what waits is heard    *)
(* after the last.                                                         *)
LEMMA BeforeIsByte ==
  ASSUME NEW p, PlayerInv(p)
  PROVE  /\ Len(p.blocks) \in Nat /\ Len(p.pending) \in Nat
         /\ p.pending \in Seq(Sample) /\ p.blocks \in Seq(Block)
         /\ p.given \in Nat /\ p.pushed \in Nat /\ p.nextTime \in Nat
         /\ \A i \in 1 .. Len(p.blocks) :
              p.blocks[i].at \in Nat /\ EndOf(p.blocks[i]) \in Nat
         /\ \A i \in 1 .. Len(p.blocks) + 1 : Before(p, i) \in Nat
<1>1. /\ p.pending \in Seq(Sample) /\ p.blocks \in Seq(Block)
      /\ p.given \in Nat /\ p.pushed \in Nat /\ p.nextTime \in Nat
  BY DEF PlayerInv, Player, Block
<1>2. Len(p.blocks) \in Nat /\ Len(p.pending) \in Nat
  BY <1>1
<1>3. \A i \in 1 .. Len(p.blocks) :
        p.blocks[i].at \in Nat /\ p.blocks[i].sound \in Seq(Sample)
  <2>1. \A i \in 1 .. Len(p.blocks) : p.blocks[i] \in Block
    BY <1>1, LenProperties
  <2> QED
    BY <2>1 DEF Block
<1>4. ASSUME NEW i \in 1 .. Len(p.blocks)
      PROVE  EndOf(p.blocks[i]) \in Nat /\ LastByte(p.blocks[i].sound) \in Nat
  <2> DEFINE s == p.blocks[i].sound
  <2>1. s \in Seq(Sample) /\ Len(s) \in 1 .. MaxSource /\ p.blocks[i].at \in Nat
    BY <1>3 DEF PlayerInv
  <2> HIDE DEF s
  <2>2. Len(s) \in 1 .. Len(s)
    BY <2>1, PlayerAssumption
  <2>3. s[Len(s)] \in Sample
    BY <2>1, <2>2, LenProperties
  <2>4. s[Len(s)][2] \in 1 .. MaxBytes
    BY <2>3 DEF Sample
  <2>5. LastByte(s) \in Nat
    BY <2>4, PageAssumption DEF LastByte
  <2>6. Len(s) \in Nat
    BY <2>1, PlayerAssumption
  <2> QED
    BY <2>1, <2>5, <2>6 DEF EndOf, s
<1>5. ASSUME NEW i \in 1 .. Len(p.blocks) + 1 PROVE Before(p, i) \in Nat
  <2>1. CASE i = 1
    BY <1>1, <2>1 DEF Before
  <2>2. CASE i # 1
    <3>1. i - 1 \in 1 .. Len(p.blocks)
      BY <1>2, <2>2
    <3> QED
      BY <1>4, <2>2, <3>1 DEF Before
  <2> QED
    BY <2>1, <2>2
<1> QED
  BY <1>1, <1>2, <1>3, <1>4, <1>5

(* scheduleBlock gives the context what waits, after what it has.          *)
LEMMA ScheduleKeeps ==
  ASSUME NEW p, PlayerInv(p), NEW t \in Nat
  PROVE  LET q == scheduleBlock(p, t) IN
         /\ PlayerInv(q) /\ q.pending = <<>>
         /\ q = [p EXCEPT !.pending = <<>>, !.nextTime = q.nextTime, !.blocks = q.blocks]
         /\ NextFollows(p) => GivesInTime(p, q, t)
         /\ p.pending # <<>> => NextFollows(q)
<1> DEFINE first == NotBefore(p.nextTime, t)
           n == Len(p.blocks)
           l == Len(p.pending)
           b == Before(p, n + 1)
           cut == Cut(p.pending, first)
           q == [p EXCEPT !.pending = <<>>, !.nextTime = first + l, !.blocks = @ \o cut]
<1>1. scheduleBlock(p, t) = q
  BY DEF scheduleBlock, Cut
<1>2. /\ n \in Nat /\ l \in Nat /\ p.pending \in Seq(Sample) /\ p.blocks \in Seq(Block)
      /\ p.given \in Nat /\ p.nextTime \in Nat
      /\ \A i \in 1 .. n : p.blocks[i].at \in Nat /\ EndOf(p.blocks[i]) \in Nat
  BY BeforeIsByte
<1>3. b \in Nat
  <2>1. n + 1 \in 1 .. Len(p.blocks) + 1
    BY <1>2
  <2> QED
    BY <2>1, BeforeIsByte
<1>4. /\ first \in Nat /\ p.nextTime <= first /\ t <= first
      /\ first = p.nextTime \/ p.nextTime < t
  BY <1>2, PlayerAssumption DEF NotBefore
<1>5. /\ \A i \in 1 .. n : Len(p.blocks[i].sound) \in 1 .. MaxSource
                           /\ Follows(p.blocks[i].sound, Before(p, i))
      /\ \A i \in 2 .. n : EndOf(p.blocks[i - 1]) <= p.blocks[i].at
      /\ p.blocks # <<>> => EndOf(p.blocks[n]) <= p.nextTime
      /\ Follows(p.pending, b)
      /\ b + 2 * l = 2 * p.pushed
      /\ p.over <= n
  BY DEF PlayerInv
<1>6. p \in Player(Sample, Nat)
  BY DEF PlayerInv
<1> HIDE DEF first, l
<1>7. /\ q.pending = <<>> /\ q.nextTime = first + l /\ q.blocks = p.blocks \o cut
      /\ q.given = p.given /\ q.pushed = p.pushed /\ q.over = p.over
      /\ q = [p EXCEPT !.pending = <<>>, !.nextTime = q.nextTime, !.blocks = q.blocks]
  BY <1>6 DEF Player
<1>8. Len(<<>>) = 0 /\ \A byte : Follows(<<>>, byte)
  BY DEF Follows
<1>9. CASE l = 0
  <2>1. cut = <<>>
    BY <1>9, CutOfNothing DEF l
  <2>2. q.blocks = p.blocks
    BY <1>2, <1>7, <2>1, ConcatEmptySeq
  <2>3. q \in Player(Sample, Nat)
    <3>1. p.blocks \o cut = p.blocks
      BY <1>2, <2>1, ConcatEmptySeq
    <3>2. first + l \in Nat /\ <<>> \in Seq(Sample)
      BY <1>2, <1>4
    <3> HIDE DEF cut
    <3> QED
      BY <1>6, <3>1, <3>2 DEF Player
  <2> HIDE DEF q
  <2>4. \A i : Before(q, i) = Before(p, i)
    BY <1>7, <2>2 DEF Before
  <2>5. p.blocks # <<>> => n \in 1 .. n
    BY <1>2
  <2>6. q.blocks # <<>> => EndOf(q.blocks[n]) <= q.nextTime
    <3> SUFFICES ASSUME q.blocks # <<>> PROVE EndOf(q.blocks[n]) <= q.nextTime
      OBVIOUS
    <3>1. /\ EndOf(p.blocks[n]) \in Nat /\ EndOf(p.blocks[n]) <= p.nextTime
      BY <1>2, <1>5, <2>2, <2>5
    <3>2. EndOf(p.blocks[n]) <= first + l
      BY <1>2, <1>4, <3>1
    <3> QED
      BY <1>7, <2>2, <3>2
  <2>7. Before(q, n + 1) + 2 * Len(q.pending) = 2 * q.pushed
    BY <1>3, <1>5, <1>7, <1>8, <1>9, <2>4
  <2>8. PlayerInv(q)
    BY <1>5, <1>7, <1>8, <2>2, <2>3, <2>4, <2>6, <2>7 DEF PlayerInv
  <2>9. p.pending = <<>>
    BY <1>2, <1>9, EmptySeq DEF l
  <2>10. GivesInTime(p, q, t)
    <3>1. n + 1 .. n = {}
      BY <1>2
    <3> QED
      BY <2>2, <3>1 DEF GivesInTime
  <2> QED
    BY <1>1, <1>7, <2>8, <2>9, <2>10
<1>10. CASE l # 0
  <2>1. PICK c : CutAt(cut, c, b, first, l)
    BY <1>2, <1>3, <1>4, <1>5, <1>10, CutsAreStretches DEF l
  <2>2. cut \in Seq(Block) /\ Len(cut) \in Nat \ {0}
    BY <1>2, <1>3, <1>4, <1>5, <1>10, CutsAreStretches DEF l
  <2> DEFINE k == Len(cut)
  <2>3. /\ p.blocks \o cut \in Seq(Block) /\ Len(p.blocks \o cut) = n + k
        /\ \A i \in 1 .. n + k :
             (p.blocks \o cut)[i] = IF i <= n THEN p.blocks[i] ELSE cut[i - n]
    BY <1>2, <2>2, ConcatProperties
  <2>4. first + l \in Nat /\ <<>> \in Seq(Sample)
    BY <1>2, <1>4
  <2> HIDE DEF cut
  <2>5. q \in Player(Sample, Nat)
    BY <1>6, <2>3, <2>4 DEF Player, Block
  <2> HIDE DEF q
  <2>6. /\ \A i \in 0 .. k : c[i] \in Nat /\ c[i] <= l
        /\ c[0] = 0 /\ c[k] = l
        /\ \A i \in 1 .. k :
             /\ cut[i].at = first + c[i - 1] /\ EndOf(cut[i]) = first + c[i]
             /\ Len(cut[i].sound) \in 1 .. MaxSource
             /\ Follows(cut[i].sound, b + 2 * c[i - 1])
             /\ LastByte(cut[i].sound) = b + 2 * c[i]
    <3>1. /\ c \in [0 .. k -> 0 .. l] /\ c[0] = 0 /\ c[k] = l
          /\ \A i \in 1 .. k :
               /\ cut[i].at = first + c[i - 1] /\ EndOf(cut[i]) = first + c[i]
               /\ Len(cut[i].sound) \in 1 .. MaxSource
               /\ Follows(cut[i].sound, b + 2 * c[i - 1])
               /\ LastByte(cut[i].sound) = b + 2 * c[i]
      BY <2>1 DEF CutAt
    <3>2. ASSUME NEW i \in 0 .. k PROVE c[i] \in Nat /\ c[i] <= l
      <4>1. c[i] \in 0 .. l
        BY <3>1
      <4> QED
        BY <1>2, <4>1
    <3> QED
      BY <3>1, <3>2
  <2> HIDE DEF k
  <2>7. k \in Nat \ {0}
    BY <2>2 DEF k
  <2>8. \A i \in 1 .. n : q.blocks[i] = p.blocks[i]
    BY <1>2, <1>7, <2>3, <2>7
  <2>9. \A i \in 1 .. k : q.blocks[n + i] = cut[i]
    <3> SUFFICES ASSUME NEW i \in 1 .. k PROVE q.blocks[n + i] = cut[i]
      OBVIOUS
    <3>1. n + i \in 1 .. n + k /\ ~(n + i <= n) /\ n + i - n = i
      BY <1>2, <2>7
    <3> QED
      BY <1>7, <2>3, <3>1
  <2>10. \A i \in 1 .. n + 1 : Before(q, i) = Before(p, i)
    <3> SUFFICES ASSUME NEW i \in 1 .. n + 1, i # 1 PROVE Before(q, i) = Before(p, i)
      BY <1>7 DEF Before
    <3>1. i - 1 \in 1 .. n
      BY <1>2
    <3> QED
      BY <2>8, <3>1 DEF Before
  <2>11. \A i \in 0 .. k : Before(q, n + 1 + i) = b + 2 * c[i]
    <3> SUFFICES ASSUME NEW i \in 0 .. k PROVE Before(q, n + 1 + i) = b + 2 * c[i]
      OBVIOUS
    <3>1. CASE i = 0
      <4>1. n + 1 + i = n + 1 /\ n + 1 \in 1 .. n + 1
        BY <1>2, <3>1
      <4> QED
        BY <1>3, <2>6, <2>10, <3>1, <4>1
    <3>2. CASE i # 0
      <4>1. i \in 1 .. k /\ n + 1 + i # 1 /\ (n + 1 + i) - 1 = n + i
        BY <1>2, <2>7, <3>2
      <4> QED
        BY <2>6, <2>9, <4>1 DEF Before
    <3> QED
      BY <3>1, <3>2
  <2>12. ASSUME NEW i \in 1 .. n + k
         PROVE  /\ Len(q.blocks[i].sound) \in 1 .. MaxSource
                /\ Follows(q.blocks[i].sound, Before(q, i))
    <3>1. CASE i <= n
      <4>1. i \in 1 .. n /\ i \in 1 .. n + 1
        BY <1>2, <3>1
      <4> QED
        BY <1>5, <2>8, <2>10, <4>1
    <3>2. CASE i > n
      <4> DEFINE j == i - n
      <4>1. j \in 1 .. k /\ i = n + j /\ i = n + 1 + (j - 1) /\ j - 1 \in 0 .. k
        <5> HIDE DEF n
        <5> QED
          BY <1>2, <2>7, <3>2
      <4> HIDE DEF j
      <4>2. q.blocks[i] = cut[j] /\ Before(q, i) = b + 2 * c[j - 1]
        BY <2>9, <2>11, <4>1
      <4> QED
        BY <2>6, <4>1, <4>2
    <3> QED
      BY <1>2, <3>1, <3>2
  <2>13. ASSUME NEW i \in 2 .. n + k
         PROVE  EndOf(q.blocks[i - 1]) <= q.blocks[i].at
    <3>1. CASE i <= n
      <4>1. i \in 2 .. n /\ i \in 1 .. n /\ i - 1 \in 1 .. n
        BY <1>2, <3>1
      <4> QED
        BY <1>5, <2>8, <4>1
    <3>2. CASE i = n + 1
      <4>1. n \in 1 .. n /\ i - 1 = n /\ 1 \in 1 .. k /\ p.blocks # <<>>
        BY <1>2, <2>7, <3>2
      <4>2. q.blocks[i - 1] = p.blocks[n] /\ q.blocks[i] = cut[1]
        BY <2>8, <2>9, <3>2, <4>1
      <4>3. cut[1].at = first
        BY <1>4, <2>6, <4>1
      <4>4. EndOf(p.blocks[n]) \in Nat /\ EndOf(p.blocks[n]) <= p.nextTime
        BY <1>2, <1>5, <4>1
      <4>5. EndOf(p.blocks[n]) <= first
        BY <1>2, <1>4, <4>4
      <4> QED
        BY <4>2, <4>3, <4>5
    <3>3. CASE i > n + 1
      <4> DEFINE j == i - n
      <4>1. /\ j \in 1 .. k /\ i = n + j
            /\ j - 1 \in 1 .. k /\ i - 1 = n + (j - 1) /\ j - 1 \in 0 .. k
        BY <1>2, <2>7, <3>3
      <4> HIDE DEF j
      <4>2. q.blocks[i] = cut[j] /\ q.blocks[i - 1] = cut[j - 1]
        BY <2>9, <4>1
      <4>3. cut[j].at = first + c[j - 1] /\ EndOf(cut[j - 1]) = first + c[j - 1]
        BY <2>6, <4>1
      <4>4. first + c[j - 1] \in Nat
        BY <1>4, <2>6, <4>1
      <4> QED
        BY <4>2, <4>3, <4>4
    <3> QED
      BY <1>2, <2>7, <3>1, <3>2, <3>3
  <2>14. EndOf(q.blocks[n + k]) <= q.nextTime
    <3>1. k \in 1 .. k
      BY <2>7
    <3>2. q.blocks[n + k] = cut[k] /\ EndOf(cut[k]) = first + l
      BY <2>6, <2>9, <3>1
    <3> QED
      BY <1>7, <2>4, <3>2
  <2>15. Before(q, n + k + 1) = b + 2 * l
    <3>1. k \in 0 .. k /\ n + 1 + k = n + k + 1
      BY <1>2, <2>7
    <3> QED
      BY <2>6, <2>11, <3>1
  <2>16. Before(q, n + k + 1) + 2 * Len(q.pending) = 2 * q.pushed
    BY <1>2, <1>3, <1>5, <1>7, <1>8, <2>15
  <2>17. Len(q.blocks) = n + k /\ q.over <= n + k
    <3>1. p.over \in Nat
      BY <1>6 DEF Player
    <3> QED
      BY <1>2, <1>5, <1>7, <2>3, <2>7, <3>1
  <2>18. PlayerInv(q)
    BY <1>7, <1>8, <2>5, <2>12, <2>13, <2>14, <2>16, <2>17 DEF PlayerInv
  <2>19. NextFollows(q)
    <3>1. k \in 1 .. k
      BY <2>7
    <3>2. q.blocks[n + k] = cut[k] /\ EndOf(cut[k]) = first + l
      BY <2>6, <2>9, <3>1
    <3> QED
      BY <1>7, <2>17, <3>2 DEF NextFollows
  <2>20. ASSUME NextFollows(p), NEW i \in n + 1 .. n + k PROVE InTime(q.blocks, i, t)
    <3> DEFINE j == i - n
    <3>1. /\ j \in 1 .. k /\ i = n + j /\ j - 1 \in 0 .. k /\ i \in Nat
          /\ j # 1 => j - 1 \in 1 .. k /\ i - 1 = n + (j - 1)
          /\ j = 1 => i = n + 1 /\ i - 1 = n
      BY <1>2, <2>7
    <3> HIDE DEF j
    <3>2. q.blocks[i] = cut[j] /\ cut[j].at = first + c[j - 1] /\ c[j - 1] \in Nat
      BY <2>6, <2>9, <3>1
    <3>3. t <= q.blocks[i].at
      BY <1>4, <3>2
    <3>4. CASE j = 1
      <4>1. q.blocks[i].at = first
        BY <1>4, <2>6, <3>1, <3>2, <3>4
      <4>2. ASSUME i > 1
            PROVE  q.blocks[i].at = EndOf(q.blocks[i - 1]) \/ EndOf(q.blocks[i - 1]) < t
        <5>1. i - 1 = n /\ n \in 1 .. n
          BY <1>2, <3>1, <3>4, <4>2
        <5>2. q.blocks[i - 1] = p.blocks[n] /\ p.blocks # <<>>
          BY <1>2, <2>8, <5>1
        <5>3. EndOf(p.blocks[n]) = p.nextTime
          BY <2>20, <5>2 DEF NextFollows
        <5> QED
          BY <1>4, <4>1, <5>2, <5>3
      <4> QED
        BY <3>3, <4>2 DEF InTime
    <3>5. CASE j # 1
      <4>1. q.blocks[i - 1] = cut[j - 1] /\ EndOf(cut[j - 1]) = first + c[j - 1]
        BY <2>6, <2>9, <3>1, <3>5
      <4> QED
        BY <3>2, <3>3, <4>1 DEF InTime
    <3> QED
      BY <3>4, <3>5
  <2>21. NextFollows(p) => GivesInTime(p, q, t)
    BY <2>17, <2>20 DEF GivesInTime
  <2> QED
    BY <1>1, <1>7, <2>18, <2>19, <2>21
<1> QED
  BY <1>9, <1>10

(* The invariant is about the samples and the blocks.                      *)
LEMMA SameSamples ==
  ASSUME NEW p, PlayerInv(p), NEW q \in Player(Sample, Nat),
         q.blocks = p.blocks, q.pending = p.pending, q.given = p.given, q.pushed = p.pushed,
         q.nextTime = p.nextTime \/ p.blocks = <<>>, q.over <= Len(p.blocks)
  PROVE  PlayerInv(q)
<1>1. \A i : Before(q, i) = Before(p, i)
  BY DEF Before
<1>2. q.blocks # <<>> => EndOf(q.blocks[Len(q.blocks)]) <= q.nextTime
  BY DEF PlayerInv
<1>3. Follows(q.pending, Before(q, Len(q.blocks) + 1))
  BY <1>1 DEF PlayerInv
<1>4. Before(q, Len(q.blocks) + 1) + 2 * Len(q.pending) = 2 * q.pushed
  BY <1>1 DEF PlayerInv
<1>5. \A i \in 1 .. Len(q.blocks) :
        Len(q.blocks[i].sound) \in 1 .. MaxSource /\ Follows(q.blocks[i].sound, Before(q, i))
  BY <1>1 DEF PlayerInv
<1>6. \A i \in 2 .. Len(q.blocks) : EndOf(q.blocks[i - 1]) <= q.blocks[i].at
  BY DEF PlayerInv
<1> QED
  BY <1>2, <1>3, <1>4, <1>5, <1>6 DEF PlayerInv

(* A player that has nothing to play, as stop() and the first one.         *)
LEMMA EmptyPlayer ==
  ASSUME NEW q \in Player(Sample, Nat), q.blocks = <<>>, q.pending = <<>>,
         q.given = q.pushed, q.over = 0
  PROVE  PlayerInv(q)
<1>1. Len(<<>>) = 0 /\ \A byte : Follows(<<>>, byte)
  BY DEF Follows
<1>2. Before(q, 1) = 2 * q.given /\ q.given \in Nat
  BY DEF Before, Player
<1>3. Before(q, Len(q.blocks) + 1) + 2 * Len(q.pending) = 2 * q.pushed
  BY <1>1, <1>2
<1> QED
  BY <1>1, <1>3 DEF PlayerInv

LEMMA NewPlayerIs == PlayerInv(NewPlayer)
<1>1. NewPlayer \in Player(Sample, Nat)
  BY DEF NewPlayer, Player
<1> QED
  BY <1>1, EmptyPlayer DEF NewPlayer

(* Once stop() has been called, what the answer had brought is forgotten.  *)
LEMMA StopKeeps ==
  ASSUME NEW p, PlayerInv(p)
  PROVE  LET q == stop(p) IN
         /\ PlayerInv(q) /\ q.blocks = <<>> /\ q.pending = <<>> /\ q.over = 0
         /\ ~q.started /\ ~q.ended /\ q.onended = p.onended /\ q.reports = p.reports
         /\ q.pushed = p.pushed
<1> DEFINE q == stop(p)
<1>1. p \in Player(Sample, Nat)
  BY DEF PlayerInv
<1>2. p.pushed \in Nat /\ p.onended \in BOOLEAN /\ p.reports \in Nat
  BY <1>1 DEF Player
<1>3. NewPlayer \in Player(Sample, Nat)
  BY DEF NewPlayer, Player
<1>4. q \in Player(Sample, Nat)
  <2> HIDE DEF NewPlayer
  <2> QED
    BY <1>2, <1>3 DEF stop, Player
<1>5. /\ q.blocks = <<>> /\ q.pending = <<>> /\ q.over = 0
      /\ ~q.started /\ ~q.ended /\ q.onended = p.onended /\ q.reports = p.reports
      /\ q.pushed = p.pushed /\ q.given = p.pushed
  BY DEF stop, NewPlayer
<1> HIDE DEF q
<1>6. PlayerInv(q)
  BY <1>4, <1>5, EmptyPlayer
<1> QED
  BY <1>5, <1>6 DEF q

(* A method that gives the context nothing.                                *)
LEMMA GivesNothing ==
  ASSUME NEW p, NEW q, q.blocks = p.blocks, Len(p.blocks) \in Nat, NEW t
  PROVE  GivesInTime(p, q, t)
<1>1. Len(p.blocks) + 1 .. Len(q.blocks) = {}
  OBVIOUS
<1> QED
  BY <1>1 DEF GivesInTime

(* Samples that come next are kept, or given to the context.               *)
LEMMA PushKeeps ==
  ASSUME NEW p, PlayerInv(p), NEW samples \in Seq(Sample), Follows(samples, 2 * p.pushed),
         NEW t \in Nat
  PROVE  LET q == push(p, samples, t) IN
         /\ PlayerInv(q) /\ q.pushed = p.pushed + Len(samples)
         /\ q.started = p.started /\ q.ended = p.ended /\ q.onended = p.onended
         /\ q.reports = p.reports /\ (~p.started => q.blocks = p.blocks)
         /\ NextFollows(p) => NextFollows(q) /\ GivesInTime(p, q, t)
<1> DEFINE b == Before(p, Len(p.blocks) + 1)
           fed == [p EXCEPT !.pending = @ \o samples, !.pushed = @ + Len(samples),
                            !.ctx = TRUE]
<1>1. p \in Player(Sample, Nat) /\ b + 2 * Len(p.pending) = 2 * p.pushed
      /\ Follows(p.pending, b)
  BY DEF PlayerInv
<1>2. /\ Len(p.blocks) \in Nat /\ Len(p.pending) \in Nat
      /\ p.pending \in Seq(Sample) /\ p.pushed \in Nat
  BY BeforeIsByte
<1>3. b \in Nat
  <2>1. Len(p.blocks) + 1 \in 1 .. Len(p.blocks) + 1
    BY <1>2
  <2> QED
    BY <2>1, BeforeIsByte
<1> HIDE DEF b
<1>4. CASE samples = <<>>
  <2>1. push(p, samples, t) = p /\ Len(samples) = 0
    BY <1>4 DEF push
  <2>2. GivesInTime(p, p, t)
    BY <1>2, GivesNothing
  <2> QED
    BY <1>2, <2>1, <2>2
<1>5. CASE samples # <<>>
  <2>1. /\ Follows(p.pending \o samples, b) /\ p.pending \o samples \in Seq(Sample)
        /\ Len(p.pending \o samples) = Len(p.pending) + Len(samples)
    <3>1. Follows(samples, b + 2 * Len(p.pending))
      BY <1>1
    <3> QED
      BY <1>1, <1>2, <1>3, <3>1, Longer
  <2>2. Len(samples) \in Nat
    BY LenProperties
  <2>3. b + 2 * (Len(p.pending) + Len(samples)) = 2 * (p.pushed + Len(samples))
    <3> DEFINE x == Len(p.pending)
               y == p.pushed
               z == Len(samples)
    <3>1. x \in Nat /\ y \in Nat /\ z \in Nat /\ b + 2 * x = 2 * y
      BY <1>1, <1>2, <2>2
    <3> HIDE DEF x, y, z
    <3>2. b + 2 * (x + z) = 2 * (y + z)
      BY <1>3, <3>1
    <3> QED
      BY <3>2 DEF x, y, z
  <2>4. /\ fed.pending = p.pending \o samples /\ fed.pushed = p.pushed + Len(samples)
        /\ fed.blocks = p.blocks /\ fed.given = p.given /\ fed.nextTime = p.nextTime
        /\ fed.over = p.over /\ fed.started = p.started /\ fed.ended = p.ended
        /\ fed.onended = p.onended /\ fed.reports = p.reports
    BY <1>1 DEF Player
  <2>5. fed \in Player(Sample, Nat)
    <3>1. p.pushed + Len(samples) \in Nat
      BY <1>2, <2>2
    <3> QED
      BY <1>1, <2>1, <3>1 DEF Player
  <2> HIDE DEF fed
  <2>6. \A i : Before(fed, i) = Before(p, i)
    BY <2>4 DEF Before
  <2>7. Follows(fed.pending, Before(fed, Len(fed.blocks) + 1))
    BY <2>1, <2>4, <2>6 DEF b
  <2>8. Before(fed, Len(fed.blocks) + 1) + 2 * Len(fed.pending) = 2 * fed.pushed
    BY <2>1, <2>3, <2>4, <2>6 DEF b
  <2>9. PlayerInv(fed)
    BY <2>4, <2>5, <2>6, <2>7, <2>8 DEF PlayerInv
  <2>10. push(p, samples, t) = IF p.started THEN scheduleBlock(fed, t) ELSE fed
    BY <1>5 DEF push, fed
  <2>11. CASE p.started
    <3> DEFINE q == scheduleBlock(fed, t)
    <3>1. /\ PlayerInv(q)
          /\ q = [fed EXCEPT !.pending = <<>>, !.nextTime = q.nextTime, !.blocks = q.blocks]
          /\ NextFollows(fed) => GivesInTime(fed, q, t)
          /\ fed.pending # <<>> => NextFollows(q)
      BY <2>9, ScheduleKeeps
    <3> HIDE DEF q
    <3>2. /\ q.pushed = fed.pushed /\ q.started = fed.started /\ q.ended = fed.ended
          /\ q.onended = fed.onended /\ q.reports = fed.reports
      BY <2>5, <3>1 DEF Player
    <3>3. fed.pending # <<>>
      <4>1. Len(samples) # 0 /\ Len(samples) \in Nat
        BY <1>5, EmptySeq
      <4>2. Len(fed.pending) # 0
        BY <1>2, <2>1, <2>4, <4>1
      <4>3. Len(<<>>) = 0
        OBVIOUS
      <4> QED
        BY <4>2, <4>3
    <3>4. NextFollows(p) => NextFollows(q) /\ GivesInTime(p, q, t)
      BY <2>4, <3>1, <3>3 DEF NextFollows, GivesInTime
    <3> QED
      BY <2>4, <2>10, <2>11, <3>1, <3>2, <3>4 DEF q
  <2>12. CASE ~p.started
    <3>1. NextFollows(p) => NextFollows(fed) /\ GivesInTime(p, fed, t)
      BY <1>2, <2>4, GivesNothing DEF NextFollows
    <3> QED
      BY <2>4, <2>9, <2>10, <2>12, <3>1
  <2> QED
    BY <2>11, <2>12
<1> QED
  BY <1>4, <1>5

(* A player that had given the context no block starts with what waits.    *)
LEMMA StartKeeps ==
  ASSUME NEW p, PlayerInv(p), p.started \/ p.blocks = <<>>, NEW t \in Nat
  PROVE  LET q == start(p, t) IN
         /\ PlayerInv(q) /\ q.pushed = p.pushed /\ q.ended = p.ended
         /\ q.onended = p.onended /\ q.reports = p.reports
         /\ ~q.started => ~p.started /\ q.blocks = p.blocks /\ q.pending = <<>>
         /\ NextFollows(p) => NextFollows(q) /\ GivesInTime(p, q, t)
<1>1. p \in Player(Sample, Nat) /\ p.over <= Len(p.blocks)
  BY DEF PlayerInv
<1>2. CASE p.started \/ p.pending = <<>>
  <2> DEFINE q == [p EXCEPT !.ctx = TRUE]
  <2>1. start(p, t) = q
    BY <1>2 DEF start
  <2>2. q \in Player(Sample, Nat)
    BY <1>1 DEF Player
  <2>3. /\ q.blocks = p.blocks /\ q.pending = p.pending /\ q.given = p.given
        /\ q.pushed = p.pushed /\ q.nextTime = p.nextTime /\ q.over = p.over
        /\ q.started = p.started /\ q.ended = p.ended /\ q.onended = p.onended
        /\ q.reports = p.reports
    BY <1>1 DEF Player
  <2> HIDE DEF q
  <2>4. PlayerInv(q)
    BY <1>1, <2>2, <2>3, SameSamples
  <2>5. NextFollows(p) => NextFollows(q) /\ GivesInTime(p, q, t)
    <3>1. Len(p.blocks) \in Nat
      BY BeforeIsByte
    <3> QED
      BY <2>3, <3>1, GivesNothing DEF NextFollows
  <2> QED
    BY <1>2, <2>1, <2>3, <2>4, <2>5
<1>3. CASE ~(p.started \/ p.pending = <<>>)
  <2> DEFINE s == [p EXCEPT !.ctx = TRUE, !.started = TRUE, !.nextTime = t + StartLead]
             q == scheduleBlock(s, t)
  <2>1. start(p, t) = q
    BY <1>3 DEF start
  <2>2. s \in Player(Sample, Nat)
    <3>1. t + StartLead \in Nat
      BY PlayerAssumption
    <3> QED
      BY <1>1, <3>1 DEF Player
  <2>3. /\ s.blocks = p.blocks /\ s.pending = p.pending /\ s.given = p.given
        /\ s.pushed = p.pushed /\ s.over = p.over
        /\ s.started = TRUE /\ s.ended = p.ended /\ s.onended = p.onended
        /\ s.reports = p.reports
    BY <1>1 DEF Player
  <2> HIDE DEF s
  <2>4. PlayerInv(s)
    BY <1>1, <1>3, <2>2, <2>3, SameSamples
  <2>5. /\ PlayerInv(q)
        /\ q = [s EXCEPT !.pending = <<>>, !.nextTime = q.nextTime, !.blocks = q.blocks]
        /\ NextFollows(s) => GivesInTime(s, q, t)
        /\ s.pending # <<>> => NextFollows(q)
    BY <2>4, ScheduleKeeps
  <2> HIDE DEF q
  <2>7. NextFollows(q) /\ GivesInTime(p, q, t)
    BY <1>3, <2>3, <2>5 DEF NextFollows, GivesInTime
  <2>6. /\ q.pushed = s.pushed /\ q.started = s.started /\ q.ended = s.ended
        /\ q.onended = s.onended /\ q.reports = s.reports
    BY <2>2, <2>5 DEF Player
  <2> QED
    BY <2>1, <2>3, <2>5, <2>6, <2>7
<1> QED
  BY <1>2, <1>3

(* What a player has to do with the end of its answer: it has blocks once  *)
(* it has started, keeps nothing back once the answer has ended, and has   *)
(* reported the end once, if at all, when its last block had sounded.      *)
Ends(p, done) ==
  /\ p.ended \/ p.onended => done
  /\ ~p.started /\ ~p.ended => p.blocks = <<>>
  /\ done => p.pending = <<>>
  /\ ~done => NextFollows(p)
  /\ p.reports # 0 => /\ p.reports = 1 /\ p.onended
                      /\ p.over = Len(p.blocks) /\ ~p.started

(* A player of an answer that goes on has heard of no end.                 *)
LEMMA NotEnded ==
  ASSUME NEW p, Ends(p, FALSE)
  PROVE  /\ ~p.ended /\ ~p.onended /\ p.reports = 0 /\ (p.started \/ p.blocks = <<>>)
         /\ NextFollows(p)
  BY DEF Ends

(* The end of the stream, with the callback: what waited is scheduled.     *)
LEMMA MarkEndedKeeps ==
  ASSUME NEW p, PlayerInv(p), Ends(p, FALSE), NEW t \in Nat
  PROVE  LET q == setOnEnded(markEnded(p, t)) IN
         PlayerInv(q) /\ q.pushed = p.pushed /\ Ends(q, TRUE) /\ GivesInTime(p, q, t)
<1> DEFINE e == [p EXCEPT !.ended = TRUE]
           d == IF e.started THEN scheduleBlock(e, t) ELSE start(e, t)
           m == IF d.started THEN d ELSE Report(d)
           q == [m EXCEPT !.onended = TRUE]
<1>1. setOnEnded(markEnded(p, t)) = q
  BY DEF setOnEnded, markEnded
<1>2. p \in Player(Sample, Nat) /\ p.over <= Len(p.blocks)
  BY DEF PlayerInv
<1>3. /\ e \in Player(Sample, Nat) /\ e.blocks = p.blocks /\ e.pending = p.pending
      /\ e.given = p.given /\ e.pushed = p.pushed /\ e.over = p.over
      /\ e.started = p.started /\ e.ended = TRUE /\ e.onended = p.onended
      /\ e.reports = p.reports /\ e.nextTime = p.nextTime
  BY <1>2 DEF Player
<1> HIDE DEF e
<1>4. PlayerInv(e) /\ NextFollows(e)
  BY <1>2, <1>3, NotEnded, SameSamples DEF NextFollows
<1>5. /\ PlayerInv(d) /\ d.pushed = p.pushed /\ d.ended /\ ~d.onended /\ d.reports = 0
      /\ d.pending = <<>> /\ GivesInTime(e, d, t)
  <2>1. CASE e.started
    <3> DEFINE s == scheduleBlock(e, t)
    <3>1. /\ PlayerInv(s) /\ s.pending = <<>>
          /\ s = [e EXCEPT !.pending = <<>>, !.nextTime = s.nextTime, !.blocks = s.blocks]
          /\ GivesInTime(e, s, t)
      BY <1>4, ScheduleKeeps
    <3> HIDE DEF s
    <3>2. /\ s.pushed = e.pushed /\ s.ended = e.ended
          /\ s.onended = e.onended /\ s.reports = e.reports
      BY <1>3, <3>1 DEF Player
    <3> QED
      BY <1>3, <2>1, <3>1, <3>2, NotEnded DEF s
  <2>2. CASE ~e.started
    <3>1. e.blocks = <<>> /\ ~p.onended /\ p.reports = 0
      BY <1>3, <2>2, NotEnded
    <3> DEFINE s == start(e, t)
    <3>2. /\ PlayerInv(s) /\ s.pushed = e.pushed /\ s.ended = e.ended
          /\ s.onended = e.onended /\ s.reports = e.reports
          /\ GivesInTime(e, s, t)
      BY <1>4, <3>1, StartKeeps
    <3>3. s.pending = <<>>
      <4>1. CASE e.pending = <<>>
        <5>1. s = [e EXCEPT !.ctx = TRUE]
          BY <4>1 DEF start
        <5> QED
          BY <1>3, <4>1, <5>1 DEF Player
      <4>2. CASE e.pending # <<>>
        <5>1. s = scheduleBlock([e EXCEPT !.ctx = TRUE, !.started = TRUE,
                                          !.nextTime = t + StartLead], t)
          BY <2>2, <4>2 DEF start
        <5> QED
          BY <1>3, <5>1 DEF scheduleBlock, Player
      <4> QED
        BY <4>1, <4>2
    <3> HIDE DEF s
    <3> QED
      BY <1>3, <2>2, <3>1, <3>2, <3>3 DEF s
  <2> QED
    BY <2>1, <2>2
<1> HIDE DEF d
<1>6. d \in Player(Sample, Nat) /\ d.over <= Len(d.blocks)
  BY <1>5 DEF PlayerInv
<1>7. m = d
  BY <1>5, <1>6 DEF Report, Player
<1>8. /\ q \in Player(Sample, Nat) /\ q.blocks = d.blocks /\ q.pending = d.pending
      /\ q.given = d.given /\ q.pushed = d.pushed /\ q.over = d.over
      /\ q.ended = d.ended /\ q.onended = TRUE /\ q.reports = d.reports
      /\ q.nextTime = d.nextTime
  BY <1>6, <1>7 DEF Player
<1> HIDE DEF q, m
<1>9. PlayerInv(q)
  BY <1>5, <1>6, <1>8, SameSamples
<1>10. Ends(q, TRUE)
  BY <1>5, <1>8 DEF Ends
<1>11. GivesInTime(p, q, t)
  BY <1>3, <1>5, <1>8 DEF GivesInTime
<1> QED
  BY <1>1, <1>5, <1>8, <1>9, <1>10, <1>11

(* A block has sounded: the last of them is reported.                      *)
LEMMA SourceOnEndedKeeps ==
  ASSUME NEW p, PlayerInv(p), NEW done \in BOOLEAN, Ends(p, done),
         p.over < Len(p.blocks)
  PROVE  LET q == sourceOnEnded(p) IN
         PlayerInv(q) /\ q.pushed = p.pushed /\ Ends(q, done)
<1> DEFINE o == [p EXCEPT !.over = @ + 1]
           s == [o EXCEPT !.started = FALSE]
<1>1. p \in Player(Sample, Nat) /\ Len(p.blocks) \in Nat /\ p.over \in Nat
  BY BeforeIsByte DEF PlayerInv, Player
<1>2. p.reports = 0 /\ 0 + 1 = 1
  BY <1>1 DEF Ends
<1>3. p.over + 1 \in Nat /\ p.over + 1 <= Len(p.blocks)
  BY <1>1
<1>4. /\ o \in Player(Sample, Nat) /\ o.blocks = p.blocks /\ o.pending = p.pending
      /\ o.given = p.given /\ o.pushed = p.pushed /\ o.over = p.over + 1
      /\ o.started = p.started /\ o.ended = p.ended /\ o.onended = p.onended
      /\ o.reports = p.reports /\ o.nextTime = p.nextTime
  BY <1>1, <1>3 DEF Player
<1> HIDE DEF o
<1>5. PlayerInv(o)
  BY <1>3, <1>4, SameSamples
<1>6. CASE ~LastHeard(p)
  <2>1. sourceOnEnded(p) = o
    BY <1>6 DEF sourceOnEnded, o
  <2>2. Ends(o, done)
    BY <1>2, <1>4 DEF Ends, NextFollows
  <2> QED
    BY <1>4, <1>5, <2>1, <2>2
<1>7. CASE LastHeard(p)
  <2>1. p.over + 1 = Len(p.blocks) /\ p.ended
    BY <1>7 DEF LastHeard
  <2>2. /\ s \in Player(Sample, Nat) /\ s.blocks = o.blocks /\ s.pending = o.pending
        /\ s.given = o.given /\ s.pushed = o.pushed /\ s.over = o.over
        /\ s.started = FALSE /\ s.ended = o.ended /\ s.onended = o.onended
        /\ s.reports = o.reports /\ s.nextTime = o.nextTime
    BY <1>4 DEF Player
  <2> HIDE DEF s
  <2> DEFINE q == [s EXCEPT !.reports = IF s.onended THEN @ + 1 ELSE @]
  <2>3. sourceOnEnded(p) = q
    BY <1>7 DEF sourceOnEnded, Report, o, s
  <2>4. /\ q \in Player(Sample, Nat) /\ q.blocks = s.blocks /\ q.pending = s.pending
        /\ q.given = s.given /\ q.pushed = s.pushed /\ q.over = s.over
        /\ q.started = s.started /\ q.ended = s.ended /\ q.onended = s.onended
        /\ q.nextTime = s.nextTime
        /\ q.reports = (IF s.onended THEN 1 ELSE 0)
    <3>1. s.reports = 0 /\ s.reports + 1 = 1
      BY <1>2, <1>4, <2>2
    <3>2. (IF s.onended THEN s.reports + 1 ELSE s.reports) = IF s.onended THEN 1 ELSE 0
      BY <3>1
    <3>3. (IF s.onended THEN 1 ELSE 0) \in Nat
      OBVIOUS
    <3>4. q = [s EXCEPT !.reports = IF s.onended THEN 1 ELSE 0]
      BY <2>2, <3>2 DEF Player
    <3> QED
      BY <2>2, <3>3, <3>4 DEF Player
  <2> HIDE DEF q
  <2>5. PlayerInv(q)
    BY <1>3, <1>4, <1>5, <2>2, <2>4, SameSamples
  <2>6. Ends(q, done)
    BY <1>4, <2>1, <2>2, <2>4 DEF Ends, NextFollows
  <2> QED
    BY <1>4, <2>2, <2>3, <2>4, <2>5, <2>6
<1> QED
  BY <1>6, <1>7

(* The bytes of the answer after a given one.                              *)
Bytes(from, n) == [i \in 1 .. n |-> from + i]

LEMMA BytesAre ==
  ASSUME NEW from \in Nat, NEW n \in Nat
  PROVE  /\ Bytes(from, n) \in Seq(Nat) /\ Len(Bytes(from, n)) = n
         /\ \A i \in 1 .. n : Bytes(from, n)[i] = from + i
         /\ from + n <= MaxBytes => Bytes(from, n) \in Seq(1 .. MaxBytes)
<1>1. \A i \in 1 .. n : from + i \in Nat /\ from + i >= 1
  OBVIOUS
<1>2. Bytes(from, n) \in Seq(Nat) /\ Len(Bytes(from, n)) = n
  BY <1>1 DEF Bytes
<1>3. \A i \in 1 .. n : Bytes(from, n)[i] = from + i
  BY DEF Bytes
<1>4. ASSUME from + n <= MaxBytes PROVE Bytes(from, n) \in Seq(1 .. MaxBytes)
  <2>1. \A i \in 1 .. n : from + i \in 1 .. MaxBytes
    BY <1>4, PageAssumption
  <2> QED
    BY <2>1 DEF Bytes
<1> QED
  BY <1>2, <1>3, <1>4

(* Bytes and the next ones.                                                *)
LEMMA BytesGoOn ==
  ASSUME NEW a \in Nat, NEW x \in Nat, NEW y \in Nat
  PROVE  Bytes(a, x) \o Bytes(a + x, y) = Bytes(a, x + y)
<1> DEFINE s == Bytes(a, x)
           t == Bytes(a + x, y)
<1>1. /\ s \in Seq(Nat) /\ Len(s) = x /\ \A i \in 1 .. x : s[i] = a + i
      /\ t \in Seq(Nat) /\ Len(t) = y /\ \A i \in 1 .. y : t[i] = (a + x) + i
  <2>1. a + x \in Nat
    OBVIOUS
  <2> QED
    BY <2>1, BytesAre
<1> HIDE DEF s, t
<1>2. /\ s \o t \in Seq(Nat) /\ Len(s \o t) = x + y
      /\ \A i \in 1 .. x + y : (s \o t)[i] = IF i <= x THEN s[i] ELSE t[i - x]
  BY <1>1, ConcatProperties
<1>3. ASSUME NEW i \in 1 .. x + y PROVE (s \o t)[i] = a + i
  <2>1. CASE i <= x
    <3>1. i \in 1 .. x
      BY <2>1
    <3> QED
      BY <1>1, <1>2, <2>1, <3>1
  <2>2. CASE ~(i <= x)
    <3>1. i - x \in 1 .. y /\ (a + x) + (i - x) = a + i
      BY <2>2
    <3> QED
      BY <1>1, <1>2, <2>2, <3>1
  <2> QED
    BY <2>1, <2>2
<1>4. s \o t = [i \in 1 .. x + y |-> (s \o t)[i]]
  BY <1>2, LenProperties
<1>5. s \o t = Bytes(a, x + y)
  BY <1>3, <1>4 DEF Bytes
<1> QED
  BY <1>5 DEF s, t

(* The first of them, and the rest.                                        *)
LEMMA BytesSplit ==
  ASSUME NEW a \in Nat, NEW n \in Nat, NEW w \in Nat, w <= n
  PROVE  /\ SubSeq(Bytes(a, n), 1, w) = Bytes(a, w)
         /\ SubSeq(Bytes(a, n), w + 1, n) = Bytes(a + w, n - w)
<1> DEFINE s == Bytes(a, n)
           f == SubSeq(s, 1, w)
           g == SubSeq(s, w + 1, n)
<1>1. \A i \in 1 .. n : s[i] = a + i /\ s[i] \in Nat
  <2>1. \A i \in 1 .. n : s[i] = a + i
    BY BytesAre
  <2>2. \A i \in 1 .. n : a + i \in Nat
    OBVIOUS
  <2> QED
    BY <2>1, <2>2
<1> HIDE DEF s
<1>2. /\ f \in Seq(Nat) /\ Len(f) = IF 1 <= w THEN w - 1 + 1 ELSE 0
      /\ \A i \in 1 .. w - 1 + 1 : f[i] = s[1 + i - 1]
  <2>1. \A i \in 1 .. w : s[i] \in Nat
    BY <1>1
  <2> QED
    BY <2>1, SubSeqProperties
<1>3. /\ g \in Seq(Nat) /\ Len(g) = IF w + 1 <= n THEN n - (w + 1) + 1 ELSE 0
      /\ \A i \in 1 .. n - (w + 1) + 1 : g[i] = s[(w + 1) + i - 1]
  <2>1. \A i \in w + 1 .. n : s[i] \in Nat
    BY <1>1
  <2> QED
    BY <2>1, SubSeqProperties
<1> HIDE DEF f, g
<1>4. Len(f) = w /\ Len(g) = n - w
  BY <1>2, <1>3
<1>5. ASSUME NEW i \in 1 .. w PROVE f[i] = a + i
  <2>1. i \in 1 .. w - 1 + 1 /\ 1 + i - 1 = i /\ i \in 1 .. n
    OBVIOUS
  <2> QED
    BY <1>1, <1>2, <2>1
<1>6. ASSUME NEW i \in 1 .. n - w PROVE g[i] = (a + w) + i
  <2>1. /\ i \in 1 .. n - (w + 1) + 1 /\ (w + 1) + i - 1 = w + i /\ w + i \in 1 .. n
        /\ a + (w + i) = (a + w) + i
    OBVIOUS
  <2> QED
    BY <1>1, <1>3, <2>1
<1>7. f = [i \in 1 .. w |-> f[i]] /\ g = [i \in 1 .. n - w |-> g[i]]
  BY <1>2, <1>3, <1>4, LenProperties
<1>8. f = Bytes(a, w) /\ g = Bytes(a + w, n - w)
  BY <1>5, <1>6, <1>7 DEF Bytes
<1> QED
  BY <1>8 DEF f, g, s

(* An even number of bytes makes samples that follow each other.           *)
LEMMA SamplesFollow ==
  ASSUME NEW a \in Nat, NEW h \in Nat, a + 2 * h <= MaxBytes
  PROVE  LET s == Samples(Bytes(a, 2 * h)) IN
         s \in Seq(Sample) /\ Len(s) = h /\ Follows(s, a)
<1> DEFINE bytes == Bytes(a, 2 * h)
           s == Samples(bytes)
<1>1. 2 * h \in Nat /\ (2 * h) \div 2 = h
  OBVIOUS
<1>2. Len(bytes) = 2 * h /\ \A i \in 1 .. 2 * h : bytes[i] = a + i
  BY <1>1, BytesAre
<1> HIDE DEF bytes
<1>3. s = [i \in 1 .. h |-> <<bytes[2 * i - 1], bytes[2 * i]>>]
  BY <1>1, <1>2 DEF Samples
<1>4. ASSUME NEW i \in 1 .. h
      PROVE  /\ bytes[2 * i - 1] = a + 2 * i - 1 /\ bytes[2 * i] = a + 2 * i
             /\ <<a + 2 * i - 1, a + 2 * i>> \in Sample
  <2>1. /\ 2 * i - 1 \in 1 .. 2 * h /\ 2 * i \in 1 .. 2 * h
        /\ a + (2 * i - 1) = a + 2 * i - 1
    OBVIOUS
  <2>2. a + 2 * i - 1 \in 1 .. MaxBytes /\ a + 2 * i \in 1 .. MaxBytes
    BY PageAssumption
  <2> QED
    BY <1>2, <2>1, <2>2 DEF Sample
<1>5. s = [i \in 1 .. h |-> <<a + 2 * i - 1, a + 2 * i>>]
  BY <1>3, <1>4
<1> HIDE DEF s
<1>6. s \in Seq(Sample) /\ Len(s) = h
  <2>1. \A i \in 1 .. h : <<a + 2 * i - 1, a + 2 * i>> \in Sample
    BY <1>4
  <2>2. s \in [1 .. h -> Sample]
    BY <1>5, <2>1
  <2> QED
    BY <2>2
<1> QED
  BY <1>5, <1>6 DEF Follows, s, bytes

(* Bytes after an even number of them: the whole samples of both.          *)
LEMMA WholeAfterEven ==
  ASSUME NEW h \in Nat, NEW n \in Nat
  PROVE  /\ Whole(n) \in Nat /\ Whole(n) <= n /\ n - Whole(n) \in Nat
         /\ Whole(2 * h + n) = 2 * h + Whole(n)
         /\ \E k \in Nat : Whole(n) = 2 * k
<1>1. PICK k \in Nat, odd \in {0, 1} : n = 2 * k + odd
  <2>1. n \div 2 \in Nat
    OBVIOUS
  <2>2. n = 2 * (n \div 2) + 0 \/ n = 2 * (n \div 2) + 1
    OBVIOUS
  <2> QED
    BY <2>1, <2>2
<1>2. n % 2 = odd /\ (2 * h + n) % 2 = odd
  BY <1>1
<1> QED
  BY <1>1, <1>2 DEF Whole

-----------------------------------------------------------------------------
(* The page has handed to the player the whole samples of what it has      *)
(* read, in order, and keeps the odd byte.                                 *)
BytesInv(r) ==
  /\ received[r] \in 0 .. MaxBytes
  /\ total[r] = Whole(received[r])
  /\ carry[r] = Bytes(total[r], received[r] - total[r])
  /\ 2 * players[r].pushed = total[r]

RunHeard(r) ==
  PlayerInv(players[r]) /\ BytesInv(r) /\ Ends(players[r], stage[r] = "done")

PageOK ==
  /\ now \in 0 .. MaxTime
  /\ phase \in {"idle", "generating", "done", "error"} /\ frames \in BOOLEAN
  /\ playerRef \in Runs \cup {None}
  /\ text \in [Runs -> BOOLEAN]
  /\ stopped \subseteq Runs

(* Fields of the runs.                                                     *)
RunFields ==
  /\ players = [r \in Runs |-> players[r]]
  /\ carry = [r \in Runs |-> carry[r]] /\ received = [r \in Runs |-> received[r]]
  /\ total = [r \in Runs |-> total[r]]

HeardInv == PageOK /\ RunFields /\ \A r \in Runs : RunHeard(r)

(* The bytes of a run, as numbers.                                         *)
LEMMA BytesTyped ==
  ASSUME NEW r \in Runs, RunHeard(r)
  PROVE  /\ received[r] \in Nat /\ received[r] <= MaxBytes /\ total[r] \in 0 .. MaxBytes
         /\ received[r] - total[r] \in Nat /\ players[r].pushed \in Nat
         /\ carry[r] \in Seq(1 .. MaxBytes)
<1>1. received[r] \in Nat /\ received[r] <= MaxBytes
  BY PageAssumption DEF RunHeard, BytesInv
<1>2. total[r] \in Nat /\ total[r] <= received[r] /\ received[r] - total[r] \in Nat
  BY <1>1, WholeAfterEven DEF RunHeard, BytesInv
<1>3. players[r].pushed \in Nat
  BY DEF RunHeard, PlayerInv, Player
<1>4. carry[r] \in Seq(1 .. MaxBytes)
  <2>1. total[r] + (received[r] - total[r]) = received[r]
    BY <1>1, <1>2
  <2> QED
    <3>1. Bytes(total[r], received[r] - total[r]) \in Seq(1 .. MaxBytes)
      BY <1>1, <1>2, <2>1, BytesAre
    <3> QED
      BY <3>1 DEF RunHeard, BytesInv
<1>5. total[r] \in 0 .. MaxBytes
  BY <1>1, <1>2, PageAssumption
<1> QED
  BY <1>1, <1>2, <1>3, <1>4, <1>5

LEMMA InitHeardInv == Init => HeardInv
<1> SUFFICES ASSUME Init PROVE HeardInv
  OBVIOUS
<1>1. PageOK
  <2>1. 0 \in 0 .. MaxTime
    BY PageAssumption
  <2> QED
    BY <2>1 DEF Init, PageOK
<1>2. RunFields
  BY DEF Init, RunFields
<1>3. ASSUME NEW r \in Runs PROVE RunHeard(r)
  <2>1. Whole(0) = 0 /\ 0 - 0 = 0 /\ 0 \in 0 .. MaxBytes /\ 2 * 0 = 0
    BY PageAssumption DEF Whole
  <2>2. Bytes(0, 0) = <<>>
    BY DEF Bytes
  <2>3. BytesInv(r)
    BY <2>1, <2>2 DEF Init, BytesInv, NewPlayer
  <2>4. Ends(players[r], stage[r] = "done")
    BY DEF Init, Ends, NewPlayer, NextFollows
  <2> QED
    BY <2>3, <2>4, NewPlayerIs DEF Init, RunHeard
<1> QED
  BY <1>1, <1>2, <1>3 DEF HeardInv

(* A run that a step leaves alone, but perhaps for its stage.              *)
LEMMA RunStays ==
  ASSUME NEW r \in Runs, RunHeard(r), players'[r] = players[r],
         received'[r] = received[r], carry'[r] = carry[r], total'[r] = total[r],
         stage'[r] = stage[r] \/ "done" \notin {stage[r], stage'[r]}
  PROVE  RunHeard(r)'
<1>1. (stage'[r] = "done") = (stage[r] = "done")
  OBVIOUS
<1>2. Ends(players'[r], stage'[r] = "done")
  BY <1>1 DEF RunHeard
<1>3. PlayerInv(players'[r])
  BY DEF RunHeard
<1>4. BytesInv(r)'
  BY DEF RunHeard, BytesInv
<1> QED
  BY <1>2, <1>3, <1>4 DEF RunHeard

(* A run whose player another method has changed, and no bytes.            *)
LEMMA RunPlays ==
  ASSUME NEW r \in Runs, RunHeard(r), PlayerInv(players'[r]),
         Ends(players'[r], stage'[r] = "done"), players'[r].pushed = players[r].pushed,
         received'[r] = received[r], carry'[r] = carry[r], total'[r] = total[r]
  PROVE  RunHeard(r)'
<1>1. BytesInv(r)'
  BY DEF RunHeard, BytesInv
<1> QED
  BY <1>1 DEF RunHeard

(* A stop of the page's player.                                            *)
LEMMA StopHeard ==
  ASSUME HeardInv, StopsPlayer, UNCHANGED answers,
         \A r \in Runs : stage'[r] = stage[r] \/ "done" \notin {stage[r], stage'[r]}
  PROVE  RunFields' /\ \A r \in Runs : RunHeard(r)'
<1>1. UNCHANGED <<received, carry, total>>
  BY DEF answers
<1>2. CASE playerRef = None
  <2>1. players' = players
    BY <1>2 DEF StopsPlayer
  <2> QED
    BY <1>1, <2>1, RunStays DEF HeardInv, RunFields
<1>3. CASE playerRef # None
  <2>1. playerRef \in Runs /\ players' = [players EXCEPT ![playerRef] = stop(@)]
    BY <1>3 DEF HeardInv, PageOK, StopsPlayer
  <2>2. /\ players'[playerRef] = stop(players[playerRef])
        /\ \A r \in Runs \ {playerRef} : players'[r] = players[r]
        /\ players' = [r \in Runs |-> players'[r]]
    BY <2>1 DEF HeardInv, RunFields
  <2>3. ASSUME NEW r \in Runs \ {playerRef} PROVE RunHeard(r)'
    BY <1>1, <2>2, <2>3, RunStays DEF HeardInv
  <2>4. ASSUME NEW r \in Runs, r = playerRef PROVE RunHeard(r)'
    <3> DEFINE p == players[r]
               q == stop(p)
    <3>1. PlayerInv(p) /\ Ends(p, stage[r] = "done")
      BY DEF HeardInv, RunHeard
    <3>2. /\ PlayerInv(q) /\ q.blocks = <<>> /\ q.pending = <<>> /\ q.over = 0
          /\ ~q.started /\ ~q.ended /\ q.onended = p.onended /\ q.reports = p.reports
          /\ q.pushed = p.pushed
      BY <3>1, StopKeeps
    <3>3. (stage'[r] = "done") = (stage[r] = "done")
      OBVIOUS
    <3>4. players'[r] = q
      BY <2>2, <2>4
    <3> HIDE DEF q, p
    <3>5. Len(<<>>) = 0
      OBVIOUS
    <3>6. Ends(q, stage[r] = "done")
      BY <3>1, <3>2, <3>5 DEF Ends, NextFollows
    <3>7. Ends(players'[r], stage'[r] = "done")
      BY <3>3, <3>4, <3>6
    <3>8. PlayerInv(players'[r]) /\ players'[r].pushed = players[r].pushed
      BY <3>2, <3>4 DEF p
    <3>9. RunHeard(r)
      BY DEF HeardInv
    <3> QED
      BY <1>1, <3>7, <3>8, <3>9, RunPlays
  <2> QED
    <3>1. \A r \in Runs : RunHeard(r)'
      BY <2>3, <2>4
    <3> QED
      BY <1>1, <2>2, <3>1 DEF HeardInv, RunFields
<1> QED
  BY <1>2, <1>3

(* The clicks stop a player.                                               *)
LEMMA ClicksHear ==
  ASSUME HeardInv, RunInv, ClickRun \/ ClickStop \/ ClickStopAudio
  PROVE  HeardInv'
<1> USE DEF HeardInv
<1>1. StopsPlayer /\ UNCHANGED <<answers, now, text>>
  BY DEF ClickRun, ClickStop, ClickStopAudio
<1>2. phase' \in {"idle", "generating", "done", "error"} /\ frames' \in BOOLEAN
      /\ playerRef' \in Runs \cup {None}
  BY DEF ClickRun, ClickStop, ClickStopAudio, Resets, PageOK
<1>3. stopped' \subseteq Runs
  BY DEF ClickRun, ClickStop, ClickStopAudio, PageOK, RunInv, StopHasATarget, LiveRuns
<1>4. PageOK'
  BY <1>1, <1>2, <1>3 DEF PageOK
<1>5. ASSUME NEW r \in Runs
      PROVE  stage'[r] = stage[r] \/ "done" \notin {stage[r], stage'[r]}
  <2>1. CASE ClickRun
    <3>1. PICK s \in Runs : stage[s] = "new" /\ (GoesTo(s, "llm") \/ GoesTo(s, "fetch"))
      BY <2>1 DEF ClickRun
    <3> QED
      BY <3>1 DEF GoesTo, RunInv, StagesOK
  <2>2. CASE ClickStop
    <3>1. Aborts(abortRef)
      BY <2>2 DEF ClickStop
    <3> QED
      BY <3>1 DEF Aborts, RunInv, StagesOK, Requesting
  <2>3. CASE ClickStopAudio
    BY <2>3 DEF ClickStopAudio
  <2> QED
    BY <2>1, <2>2, <2>3
<1> QED
  BY <1>1, <1>4, <1>5, StopHeard

(* A run that goes on, or throws, has played nothing in this step.         *)
LEMMA RunGoesOn ==
  ASSUME HeardInv, RunInv, NEW r \in Runs,
         LlmDelta(r) \/ Response(r) \/ StreamBreaks(r)
  PROVE  HeardInv'
<1> USE DEF HeardInv
<1>1. UNCHANGED <<now, aborted, players, answers, stopped>>
  BY DEF LlmDelta, Response, StreamBreaks
<1>2. stage[r] # "done"
  BY DEF LlmDelta, Response, StreamBreaks
<1>3. /\ phase' \in {"idle", "generating", "done", "error"} /\ frames' \in BOOLEAN
      /\ playerRef' \in Runs \cup {None}
  BY DEF LlmDelta, Response, StreamBreaks, Throws, Resets, PageOK, page
<1>4. text' \in [Runs -> BOOLEAN]
  BY DEF LlmDelta, Response, StreamBreaks, PageOK
<1>5. PageOK'
  BY <1>1, <1>3, <1>4 DEF PageOK
<1>6. UNCHANGED <<players, received, carry, total>>
  BY <1>1 DEF answers
<1>7. \/ stage' = stage
      \/ \E s \in {"fetch", "stream", "reset", "failed"} : stage' = [stage EXCEPT ![r] = s]
  BY DEF LlmDelta, Response, StreamBreaks, Throws, GoesTo
<1>8. ASSUME NEW s \in Runs
      PROVE  stage'[s] = stage[s] \/ "done" \notin {stage[s], stage'[s]}
  BY <1>2, <1>7 DEF RunInv, StagesOK
<1>9. \A s \in Runs : RunHeard(s)'
  BY <1>6, <1>8, RunStays
<1> QED
  BY <1>5, <1>6, <1>9 DEF RunFields

(* A step of one run that changes its player.                              *)
LEMMA OneRunPlays ==
  ASSUME HeardInv, NEW r \in Runs, NEW q, players' = [players EXCEPT ![r] = q],
         PageOK', RunHeard(r)', UNCHANGED answers,
         \A s \in Runs \ {r} : stage'[s] = stage[s]
  PROVE  HeardInv'
<1>1. UNCHANGED <<received, carry, total>>
  BY DEF answers
<1>2. /\ players' = [s \in Runs |-> players'[s]]
      /\ \A s \in Runs \ {r} : players'[s] = players[s]
  BY DEF HeardInv, RunFields
<1>3. \A s \in Runs \ {r} : RunHeard(s)'
  BY <1>1, <1>2, RunStays DEF HeardInv
<1> QED
  BY <1>1, <1>2, <1>3 DEF HeardInv, RunFields

LEMMA StreamEndsHeard ==
  ASSUME HeardInv, RunInv, NEW r \in Runs, StreamEnds(r)
  PROVE  HeardInv' /\ GivesInTime(players[r], players'[r], now)
<1> DEFINE q == setOnEnded(markEnded(players[r], now))
<1>1. /\ players' = [players EXCEPT ![r] = q] /\ UNCHANGED answers
      /\ stage' = [stage EXCEPT ![r] = "done"] /\ stage[r] = "stream"
      /\ UNCHANGED <<now, frames, playerRef, text, stopped>> /\ phase' = "done"
  BY DEF StreamEnds, GoesTo
<1>2. PageOK'
  BY <1>1 DEF HeardInv, PageOK
<1>3. /\ stage'[r] = "done" /\ \A s \in Runs \ {r} : stage'[s] = stage[s]
  BY <1>1 DEF RunInv, StagesOK
<1>4. now \in Nat /\ RunHeard(r) /\ PlayerInv(players[r]) /\ Ends(players[r], FALSE)
  <2>1. (stage[r] = "done") = FALSE
    BY <1>1
  <2>2. RunHeard(r) /\ PlayerInv(players[r]) /\ Ends(players[r], stage[r] = "done")
    BY DEF HeardInv, RunHeard
  <2>3. now \in Nat
    BY PageAssumption DEF HeardInv, PageOK
  <2> QED
    BY <2>1, <2>2, <2>3
<1>5. /\ PlayerInv(q) /\ q.pushed = players[r].pushed /\ Ends(q, TRUE)
      /\ GivesInTime(players[r], q, now)
  BY <1>4, MarkEndedKeeps
<1> HIDE DEF q
<1>6. players'[r] = q
  BY <1>1 DEF HeardInv, RunFields
<1>7. (stage'[r] = "done") = TRUE
  BY <1>3
<1>8. Ends(players'[r], stage'[r] = "done")
  BY <1>5, <1>6, <1>7
<1>9. UNCHANGED <<received, carry, total>>
  BY <1>1 DEF answers
<1>10. RunHeard(r)'
  BY <1>4, <1>5, <1>6, <1>8, <1>9, RunPlays
<1> QED
  BY <1>1, <1>2, <1>3, <1>5, <1>6, <1>10, OneRunPlays

LEMMA SourceEndsHeard ==
  ASSUME HeardInv, RunInv, NEW r \in Runs, SourceEnds(r)
  PROVE  HeardInv'
<1> DEFINE q == sourceOnEnded(players[r])
           done == stage[r] = "done"
<1>1. /\ players' = [players EXCEPT ![r] = q] /\ UNCHANGED answers
      /\ stage' = stage /\ UNCHANGED <<now, phase, frames, playerRef, text, stopped>>
      /\ players[r].over < Len(players[r].blocks)
  BY DEF SourceEnds, SourceOver
<1>2. PageOK'
  BY <1>1 DEF HeardInv, PageOK
<1>3. RunHeard(r) /\ PlayerInv(players[r]) /\ Ends(players[r], done) /\ done \in BOOLEAN
  BY DEF HeardInv, RunHeard
<1> HIDE DEF done
<1>4. PlayerInv(q) /\ q.pushed = players[r].pushed /\ Ends(q, done)
  BY <1>1, <1>3, SourceOnEndedKeeps
<1> HIDE DEF q
<1>5. players'[r] = q
  BY <1>1 DEF HeardInv, RunFields
<1>6. Ends(players'[r], stage'[r] = "done")
  BY <1>1, <1>4, <1>5 DEF done
<1>7. UNCHANGED <<received, carry, total>>
  BY <1>1 DEF answers
<1>8. RunHeard(r)'
  BY <1>3, <1>4, <1>5, <1>6, <1>7, RunPlays
<1> QED
  BY <1>1, <1>2, <1>8, OneRunPlays

(* A chunk is cut after its last whole sample, and what is whole pushed.   *)
LEMMA ChunkHeard ==
  ASSUME HeardInv, RunInv, NEW r \in Runs, NEW n \in ChunkSizes, Chunk(r, n)
  PROVE  HeardInv' /\ GivesInTime(players[r], players'[r], now)
<1> DEFINE p == players[r]
           a == total[r]
           h == p.pushed
           x == received[r] - a
           buf == carry[r] \o [i \in 1 .. n |-> received[r] + i]
           aligned == SubSeq(buf, 1, Whole(Len(buf)))
           samples == Samples(aligned)
           count == Len(samples) + total[r] \div 2
           fed == push(p, samples, now)
           played == IF ~fed.started /\ count >= MinStart THEN start(fed, now) ELSE fed
           l == x + n
           w == Whole(l)
<1>1. /\ stage[r] = "stream" /\ received[r] + n <= MaxBytes
      /\ received' = [received EXCEPT ![r] = received[r] + n]
      /\ carry' = [carry EXCEPT ![r] = Left(buf)]
      /\ UNCHANGED <<now, phase, playerRef, stage, text, stopped>>
      /\ IF aligned = <<>>
           THEN UNCHANGED <<players, total, frames>>
           ELSE /\ total' = [total EXCEPT ![r] = a + Len(aligned)]
                /\ players' = [players EXCEPT ![r] = played]
                /\ frames' = TRUE \/ UNCHANGED frames
  BY DEF Chunk
<1>2. PageOK /\ RunFields /\ RunHeard(r) /\ n \in Nat /\ now \in Nat
  BY PageAssumption DEF HeardInv, PageOK
<1>3. /\ received[r] \in Nat /\ a \in Nat /\ x \in Nat /\ h \in Nat
      /\ 2 * h = a /\ carry[r] = Bytes(a, x) /\ a + x = received[r]
  <2>1. received[r] \in Nat /\ a \in 0 .. MaxBytes /\ x \in Nat /\ h \in Nat
    BY <1>2, BytesTyped
  <2>2. 2 * h = a /\ carry[r] = Bytes(a, x)
    BY <1>2 DEF RunHeard, BytesInv
  <2>3. a \in Nat
    BY <2>1, PageAssumption
  <2>4. a + x = received[r]
    BY <2>1, <2>3
  <2> QED
    BY <2>1, <2>2, <2>3, <2>4
<1>4. PlayerInv(p) /\ Ends(p, FALSE)
  <2>1. (stage[r] = "done") = FALSE
    BY <1>1
  <2>2. PlayerInv(p) /\ Ends(p, stage[r] = "done")
    BY <1>2 DEF RunHeard
  <2> QED
    BY <2>1, <2>2
<1>5. /\ ~p.ended /\ ~p.onended /\ p.reports = 0 /\ (p.started \/ p.blocks = <<>>)
      /\ NextFollows(p) /\ Len(p.blocks) \in Nat
  BY <1>4, NotEnded, BeforeIsByte
<1>6. PageOK'
  BY <1>1, <1>2 DEF PageOK
<1> HIDE DEF p, a, h, played, fed, count, samples, aligned, x
<1>7. buf = Bytes(a, l)
  <2>1. [i \in 1 .. n |-> received[r] + i] = Bytes(a + x, n)
    BY <1>3 DEF Bytes
  <2> QED
    <3>1. Bytes(a, x) \o Bytes(a + x, n) = Bytes(a, x + n)
      BY <1>2, <1>3, BytesGoOn
    <3> QED
      BY <1>3, <2>1, <3>1
<1> HIDE DEF buf
<1>8. l \in Nat /\ a + l = received[r] + n /\ a + l <= MaxBytes /\ a + l \in Nat
  BY <1>1, <1>2, <1>3
<1> HIDE DEF l
<1>9. /\ w \in Nat /\ w <= l /\ l - w \in Nat
      /\ Whole(received[r] + n) = a + w
  <2>1. Whole(2 * h + l) = 2 * h + Whole(l)
    BY <1>3, <1>8, WholeAfterEven
  <2> QED
    BY <1>3, <1>8, <2>1, WholeAfterEven
<1>10. PICK k \in Nat : w = 2 * k
  BY <1>3, <1>8, WholeAfterEven
<1>11. Len(buf) = l
  BY <1>3, <1>7, <1>8, BytesAre
<1> HIDE DEF w
<1>12. aligned = Bytes(a, w) /\ Left(buf) = Bytes(a + w, l - w) /\ Len(aligned) = w
  <2>1. aligned = SubSeq(Bytes(a, l), 1, w) /\ Left(buf) = SubSeq(Bytes(a, l), w + 1, l)
    BY <1>7, <1>11 DEF aligned, Left, w
  <2>2. aligned = Bytes(a, w) /\ Left(buf) = Bytes(a + w, l - w)
    <3>1. /\ SubSeq(Bytes(a, l), 1, w) = Bytes(a, w)
          /\ SubSeq(Bytes(a, l), w + 1, l) = Bytes(a + w, l - w)
      <4>1. a \in Nat /\ l \in Nat /\ w \in Nat /\ w <= l
        BY <1>3, <1>8, <1>9
      <4> QED
        BY <4>1, BytesSplit
    <3> QED
      BY <2>1, <3>1
  <2> QED
    BY <1>3, <1>9, <2>2, BytesAre
<1>13. /\ samples \in Seq(Sample) /\ Len(samples) = k /\ Follows(samples, 2 * h)
  <2>1. a + 2 * k <= MaxBytes
    BY <1>3, <1>8, <1>9, <1>10, PageAssumption
  <2>2. samples = Samples(Bytes(a, 2 * k))
    BY <1>10, <1>12 DEF samples
  <2> QED
    BY <1>3, <2>1, <2>2, SamplesFollow
<1>14. /\ received'[r] = received[r] + n /\ carry'[r] = Left(buf)
       /\ received' = [s \in Runs |-> received'[s]] /\ carry' = [s \in Runs |-> carry'[s]]
       /\ \A s \in Runs \ {r} : received'[s] = received[s] /\ carry'[s] = carry[s]
  BY <1>1, <1>2 DEF RunFields
<1>15. received'[r] \in 0 .. MaxBytes /\ (received[r] + n) - (a + w) = l - w
  <2>1. received[r] + n \in 0 .. MaxBytes
    BY <1>2, <1>3, <1>8, PageAssumption
  <2>2. (a + l) - (a + w) = l - w
    BY <1>3, <1>8, <1>9
  <2> QED
    BY <1>8, <1>14, <2>1, <2>2
<1>16. /\ total'[r] = a + w /\ total' = [s \in Runs |-> total'[s]]
       /\ \A s \in Runs \ {r} : total'[s] = total[s]
  <2>1. CASE aligned = <<>>
    <3>1. w = 0 /\ total' = total
      BY <1>1, <1>12, <2>1
    <3>2. a + w = a
      BY <1>3, <3>1
    <3> QED
      BY <1>2, <3>1, <3>2 DEF RunFields, a
  <2>2. CASE aligned # <<>>
    <3>1. total' = [total EXCEPT ![r] = a + w]
      BY <1>1, <1>12, <2>2
    <3> QED
      BY <1>2, <3>1 DEF RunFields
  <2> QED
    BY <2>1, <2>2
<1>17. /\ PlayerInv(players'[r]) /\ players'[r].pushed = h + k /\ Ends(players'[r], FALSE)
       /\ players' = [s \in Runs |-> players'[s]]
       /\ \A s \in Runs \ {r} : players'[s] = players[s]
       /\ GivesInTime(p, players'[r], now)
  <2>1. CASE aligned = <<>>
    <3>1. w = 0 /\ players' = players
      BY <1>1, <1>12, <2>1
    <3>2. k = 0
      BY <1>10, <3>1
    <3>3. h + k = h
      BY <1>3, <3>2
    <3>4. GivesInTime(p, p, now)
      BY <1>5, GivesNothing
    <3> QED
      BY <1>2, <1>4, <3>1, <3>3, <3>4 DEF RunFields, p, h
  <2>2. CASE aligned # <<>>
    <3>1. players' = [players EXCEPT ![r] = played]
      BY <1>1, <2>2
    <3>2. /\ PlayerInv(fed) /\ fed.pushed = h + k
          /\ fed.started = p.started /\ fed.ended = p.ended /\ fed.onended = p.onended
          /\ fed.reports = p.reports /\ (~p.started => fed.blocks = p.blocks)
          /\ NextFollows(fed) /\ GivesInTime(p, fed, now)
      BY <1>2, <1>4, <1>5, <1>13, PushKeeps DEF fed, h
    <3>3. /\ PlayerInv(played) /\ played.pushed = h + k
          /\ ~played.ended /\ ~played.onended /\ played.reports = 0
          /\ ~played.started => played.blocks = <<>>
          /\ NextFollows(played) /\ GivesInTime(p, played, now)
      <4>1. CASE played = fed
        BY <1>5, <3>2, <4>1
      <4>2. CASE ~fed.started /\ played = start(fed, now)
        <5> DEFINE q == start(fed, now)
        <5>1. fed.started \/ fed.blocks = <<>>
          BY <1>5, <3>2
        <5>2. /\ PlayerInv(q) /\ q.pushed = fed.pushed /\ q.ended = fed.ended
              /\ q.onended = fed.onended /\ q.reports = fed.reports
              /\ ~q.started => ~fed.started /\ q.blocks = fed.blocks /\ q.pending = <<>>
              /\ NextFollows(q) /\ GivesInTime(fed, q, now)
          BY <1>2, <3>2, <5>1, StartKeeps
        <5> HIDE DEF q
        <5>3. GivesInTime(p, q, now)
          BY <3>2, <4>2, <5>2 DEF GivesInTime
        <5> QED
          BY <1>5, <3>2, <4>2, <5>1, <5>2, <5>3 DEF q
      <4> QED
        BY <4>1, <4>2 DEF played
    <3>4. Ends(played, FALSE)
      BY <3>3 DEF Ends
    <3> QED
      BY <1>2, <3>1, <3>3, <3>4 DEF RunFields
  <2> QED
    BY <2>1, <2>2
<1>18. BytesInv(r)'
  <2>1. 2 * (h + k) = a + w
    BY <1>3, <1>10
  <2> QED
    BY <1>9, <1>12, <1>14, <1>15, <1>16, <1>17, <2>1 DEF BytesInv
<1>19. RunHeard(r)'
  <2>1. (stage'[r] = "done") = FALSE
    BY <1>1
  <2>2. Ends(players'[r], stage'[r] = "done")
    BY <1>17, <2>1
  <2> QED
    BY <1>17, <1>18, <2>2 DEF RunHeard
<1>20. \A s \in Runs \ {r} : RunHeard(s)'
  BY <1>1, <1>14, <1>16, <1>17, RunStays DEF HeardInv
<1> QED
  BY <1>6, <1>14, <1>16, <1>17, <1>19, <1>20 DEF HeardInv, RunFields, p

(* Every step keeps it.                                                    *)
LEMMA NextHeardInv == HeardInv /\ RunInv /\ [Next]_vars => HeardInv'
<1> SUFFICES ASSUME HeardInv, RunInv, [Next]_vars PROVE HeardInv'
  OBVIOUS
<1>1. ASSUME Tick \/ UNCHANGED vars PROVE HeardInv'
  <2>1. /\ UNCHANGED <<phase, frames, playerRef, text, stopped, players, stage>>
        /\ UNCHANGED <<received, carry, total>>
    BY <1>1 DEF Tick, vars, page, answers
  <2>2. now' \in 0 .. MaxTime
    <3>1. now \in 0 .. MaxTime
      BY DEF HeardInv, PageOK
    <3>2. now' = now \/ (now < MaxTime /\ now' = now + 1)
      BY <1>1 DEF Tick, vars
    <3> QED
      BY <3>1, <3>2, PageAssumption
  <2>3. PageOK'
    BY <2>1, <2>2 DEF HeardInv, PageOK
  <2>4. \A r \in Runs : RunHeard(r)'
    BY <2>1, RunStays DEF HeardInv
  <2> QED
    BY <2>1, <2>3, <2>4 DEF HeardInv, RunFields
<1>2. CASE ClickRun \/ ClickStop \/ ClickStopAudio
  BY <1>2, ClicksHear
<1>3. ASSUME NEW r \in Runs, RunSteps(r) PROVE HeardInv'
  BY <1>3, RunGoesOn, StreamEndsHeard, SourceEndsHeard, ChunkHeard DEF RunSteps
<1> QED
  BY <1>1, <1>2, <1>3 DEF Next

(* The invariants of the page and of its runs hold throughout.             *)
THEOREM PageInvariance == Spec => [](HeardInv /\ RunInv)
BY InitHeardInv, NextHeardInv, InitRunInv, NextRunInv, PTL DEF Spec

(* The state the page and its players keep is what it is declared to be,   *)
(* and no block is longer than pcmPlayer.ts lets it be.                    *)
THEOREM PageTypeCorrect == Spec => []TypeOK
<1>1. HeardInv /\ RunInv => TypeOK
  <2> SUFFICES ASSUME HeardInv, RunInv PROVE TypeOK
    OBVIOUS
  <2>1. /\ now \in 0 .. MaxTime
        /\ phase \in {"idle", "generating", "done", "error"}
        /\ frames \in BOOLEAN
        /\ {abortRef, playerRef} \subseteq Runs \cup {None}
        /\ stage \in [Runs -> Stages]
        /\ text \in [Runs -> BOOLEAN] /\ aborted \in [Runs -> BOOLEAN]
        /\ stopped \subseteq Runs
    BY DEF HeardInv, PageOK, RunInv, StagesOK
  <2>2. ASSUME NEW r \in Runs
        PROVE  /\ players[r] \in Player(Sample, Nat)
               /\ received[r] \in 0 .. MaxBytes /\ total[r] \in 0 .. MaxBytes
               /\ carry[r] \in Seq(1 .. MaxBytes)
               /\ \A i \in DOMAIN players[r].blocks :
                    Len(players[r].blocks[i].sound) \in 1 .. MaxSource
    <3>1. RunHeard(r) /\ PlayerInv(players[r])
      BY DEF HeardInv, RunHeard
    <3>2. players[r].blocks \in Seq(Block)
      BY <3>1, BeforeIsByte
    <3>3. \A i \in DOMAIN players[r].blocks :
            Len(players[r].blocks[i].sound) \in 1 .. MaxSource
      <4>1. DOMAIN players[r].blocks = 1 .. Len(players[r].blocks)
        BY <3>2, LenProperties
      <4> QED
        BY <3>1, <4>1 DEF PlayerInv
    <3>4. received[r] \in 0 .. MaxBytes /\ players[r] \in Player(Sample, Nat)
      BY <3>1 DEF RunHeard, BytesInv, PlayerInv
    <3> QED
      BY <3>1, <3>3, <3>4, BytesTyped
  <2>3. /\ players \in [Runs -> Player(Sample, Nat)]
        /\ received \in [Runs -> 0 .. MaxBytes] /\ total \in [Runs -> 0 .. MaxBytes]
        /\ carry \in [Runs -> Seq(1 .. MaxBytes)]
    <3> HIDE DEF Runs
    <3> QED
      BY <2>2 DEF HeardInv, RunFields
  <2> QED
    BY <2>1, <2>2, <2>3 DEF TypeOK
<1> QED
  BY <1>1, PageInvariance, PTL

(* fetchSpeech and PcmPlayer: wherever the network cuts the answer,        *)
(* however long it is and whenever its player starts, falls behind or is   *)
(* stopped, what sounds is the samples of the answer since the last stop,  *)
(* each once, in order, none of its blocks before the last one's end.      *)
THEOREM StreamIsHeard == Spec => []HearsTheStream
<1>1. HeardInv /\ RunInv => HearsTheStream
  <2> SUFFICES ASSUME HeardInv, RunInv, NEW r \in Runs
               PROVE  LET p == players[r]
                          last == Len(p.blocks)
                      IN /\ \A i \in 1 .. last : Follows(p.blocks[i].sound, Before(p, i))
                         /\ \A i \in 2 .. last : EndOf(p.blocks[i - 1]) <= p.blocks[i].at
                         /\ Follows(p.pending, Before(p, last + 1))
                         /\ Before(p, last + 1) + 2 * Len(p.pending) = Whole(received[r])
                         /\ stage[r] = "done" => p.pending = <<>>
    BY DEF HearsTheStream
  <2>1. PlayerInv(players[r]) /\ BytesInv(r) /\ Ends(players[r], stage[r] = "done")
    BY DEF HeardInv, RunHeard
  <2> QED
    BY <2>1 DEF PlayerInv, BytesInv, Ends
<1> QED
  BY <1>1, PageInvariance, PTL

(* A step that changes no player's blocks gives nothing.                   *)
LEMMA BlocksStay ==
  ASSUME HeardInv, NEW r \in Runs, players'[r].blocks \in {players[r].blocks, <<>>}
  PROVE  GivesInTime(players[r], players'[r], now)
<1>1. Len(players[r].blocks) \in Nat
  <2>1. PlayerInv(players[r])
    BY DEF HeardInv, RunHeard
  <2> QED
    BY <2>1, BeforeIsByte
<1>2. Len(<<>>) = 0
  OBVIOUS
<1>3. Len(players[r].blocks) + 1 .. Len(players'[r].blocks) = {}
  BY <1>1, <1>2
<1> QED
  BY <1>3 DEF GivesInTime

(* Whatever step gives blocks gives them a time to come.                   *)
LEMMA StepsGiveInTime ==
  ASSUME HeardInv, RunInv, Next, NEW s \in Runs
  PROVE  GivesInTime(players[s], players'[s], now)
<1>1. CASE Tick
  BY <1>1, BlocksStay DEF Tick
<1>2. CASE ClickRun \/ ClickStop \/ ClickStopAudio
  <2>1. StopsPlayer
    BY <1>2 DEF ClickRun, ClickStop, ClickStopAudio
  <2>2. players'[s] = players[s] \/ players'[s] = stop(players[s])
    BY <2>1 DEF StopsPlayer, HeardInv, RunFields
  <2>3. stop(players[s]).blocks = <<>>
    BY DEF stop, NewPlayer
  <2> QED
    BY <2>2, <2>3, BlocksStay
<1>3. ASSUME NEW r \in Runs, RunSteps(r) PROVE GivesInTime(players[s], players'[s], now)
  <2>1. CASE s = r /\ (StreamEnds(r) \/ \E n \in ChunkSizes : Chunk(r, n))
    BY <2>1, StreamEndsHeard, ChunkHeard
  <2>2. CASE s # r \/ LlmDelta(r) \/ Response(r) \/ StreamBreaks(r)
    <3>1. \/ players' = players
          \/ \E q : players' = [players EXCEPT ![r] = q]
      BY <1>3 DEF RunSteps, LlmDelta, Response, StreamBreaks, StreamEnds, SourceEnds, Chunk
    <3>2. players'[s] = players[s]
      <4>1. CASE s # r
        BY <3>1, <4>1 DEF HeardInv, RunFields
      <4>2. CASE LlmDelta(r) \/ Response(r) \/ StreamBreaks(r)
        BY <4>2 DEF LlmDelta, Response, StreamBreaks
      <4> QED
        BY <2>2, <4>1, <4>2
    <3> QED
      BY <3>2, BlocksStay
  <2>3. CASE s = r /\ SourceEnds(r)
    <3>1. players'[s] = sourceOnEnded(players[s])
      BY <2>3 DEF SourceEnds, HeardInv, RunFields
    <3>2. sourceOnEnded(players[s]).blocks = players[s].blocks
      <4>1. players[s] \in Player(Sample, Nat)
        BY DEF HeardInv, RunHeard, PlayerInv
      <4> QED
        BY <4>1 DEF sourceOnEnded, Report, Player
    <3> QED
      BY <3>1, <3>2, BlocksStay
  <2> QED
    BY <1>3, <2>1, <2>2, <2>3 DEF RunSteps
<1> QED
  BY <1>1, <1>2, <1>3 DEF Next

(* scheduleBlock, wherever it is called: however late the network is, no   *)
(* block is given a start that has passed, and each starts where the one   *)
(* before it ends, unless that one is over.                                *)
THEOREM BlocksStartInTime == Spec => NeverIntoThePast
<1>1. HeardInv /\ RunInv /\ [Next]_vars
        => [\A r \in Runs :
              \A i \in Len(players[r].blocks) + 1 .. Len(players'[r].blocks) :
                InTime(players'[r].blocks, i, now)]_vars
  BY StepsGiveInTime DEF GivesInTime
<1> QED
  BY <1>1, PageInvariance, PTL DEF Spec, NeverIntoThePast

(* markEnded and onended: whichever of the end of the stream and the end   *)
(* of the last block comes first, the end is reported at most once, and    *)
(* once all of the answer has sounded.                                     *)
THEOREM EndIsReportedOnce == Spec => []EndReportedOnce
<1>1. HeardInv /\ RunInv => EndReportedOnce
  <2> SUFFICES ASSUME HeardInv, RunInv, NEW r \in Runs
               PROVE  LET p == players[r]
                      IN /\ p.reports <= 1
                         /\ p.reports = 1 => /\ stage[r] = "done" /\ p.over = Len(p.blocks)
                                             /\ p.pending = <<>> /\ ~p.started
    BY DEF EndReportedOnce
  <2>1. Ends(players[r], stage[r] = "done")
    BY DEF HeardInv, RunHeard
  <2>2. players[r].reports = 0 \/ players[r].reports = 1
    BY <2>1 DEF Ends
  <2> QED
    BY <2>1, <2>2 DEF Ends
<1> QED
  BY <1>1, PageInvariance, PTL
=============================================================================
