--------------------------------- MODULE WebUi ---------------------------------
(***************************************************************************)
(* The page of the web UI (src/webui/src/App.tsx): a click starts a run,   *)
(* an asynchronous function that may ask an LLM for the text and then      *)
(* streams the speech (lib/ttsApi.ts) into a player of its own.  The page  *)
(* remembers one controller, abortRef, and one player, playerRef, those of *)
(* the last run; runs that were stopped or forgotten go on until they      *)
(* notice.  An action is one task of the browser's event loop, with the    *)
(* microtasks it leaves.  The playback mode is 'live'; of `playing`, which *)
(* only labels a button, nothing depends.                                  *)
(***************************************************************************)
EXTENDS PcmPlayer, FiniteSets

CONSTANTS
  MaxRuns,     \* bound: clicks on the button that starts a run
  ChunkSizes,  \* sizes, in bytes, of the chunks the network delivers
  MaxBytes,    \* bound: bytes of one answer
  MinStart,    \* MIN_START_SAMPLES
  MaxTime,     \* bound: how long the clock runs
  None

ASSUME PageAssumption ==
  /\ MaxRuns \in Nat /\ MaxBytes \in Nat /\ MinStart \in Nat /\ MaxTime \in Nat
  /\ ChunkSizes \subseteq Nat \ {0}

VARIABLES
  now,        \* currentTime of the audio contexts
  phase,      \* ui.phase
  frames,     \* ui.frames > 0
  abortRef,   \* the run whose controller the page has
  playerRef,  \* the run whose player the page has
  stage,      \* where each run is
  text,       \* the LLM has said something
  aborted,    \* ctrl.signal.aborted
  players,    \* the player of each run
  received,   \* bytes of the answer the page has read
  carry,      \* those that wait for the rest of their sample
  total,      \* those handed to the player
  stopped     \* the runs that were the page's when the user stopped it

page == <<phase, frames, abortRef, playerRef>>
answers == <<received, carry, total>>
vars == <<now, page, stage, text, aborted, players, answers, stopped>>

Runs == 1 .. MaxRuns
Requesting == {"fetch", "stream"}
Over == {"done", "failed", "cancelled", "reset"}
Stages == {"new", "llm"} \cup Requesting \cup Over

(* Bytes are numbered; a sample is the two it is made of. *)
Sample == (1 .. MaxBytes) \X (1 .. MaxBytes)
Samples(bytes) == [i \in 1 .. Len(bytes) \div 2 |-> <<bytes[2 * i - 1], bytes[2 * i]>>]
-----------------------------------------------------------------------------
Init ==
  /\ now = 0
  /\ phase = "idle" /\ frames = FALSE
  /\ abortRef = None /\ playerRef = None
  /\ stage = [r \in Runs |-> "new"]
  /\ text = [r \in Runs |-> FALSE]
  /\ aborted = [r \in Runs |-> FALSE]
  /\ players = [r \in Runs |-> NewPlayer]
  /\ received = [r \in Runs |-> 0]
  /\ carry = [r \in Runs |-> <<>>]
  /\ total = [r \in Runs |-> 0]
  /\ stopped = {}

GoesTo(r, s) == stage' = [stage EXCEPT ![r] = s]

(* The reducer's 'reset', and 'start', which resets too. *)
Resets(p) == phase' = p /\ frames' = FALSE

(* playerRef.current?.stop() *)
StopsPlayer ==
  players' = IF playerRef = None THEN players
             ELSE [players EXCEPT ![playerRef] = stop(@)]

MayRunBug == TRUE   \* a second click starts a second run

MayRun == phase # "generating"

(* run(), with a text of the user's or a prompt for the LLM. *)
ClickRun ==
  /\ MayRun
  /\ \E r \in Runs :
       /\ stage[r] = "new" /\ \A s \in Runs : s < r => stage[s] # "new"
       /\ abortRef' = r
       /\ \/ GoesTo(r, "llm") /\ UNCHANGED playerRef
          \/ GoesTo(r, "fetch") /\ playerRef' = r
  /\ StopsPlayer
  /\ Resets("generating")
  /\ UNCHANGED <<now, text, aborted, answers, stopped>>

(* The catch of run(): an error of a run that was aborted resets the page, *)
(* whichever run the page shows by now.                                    *)
Throws(r) ==
  /\ IF aborted[r] THEN GoesTo(r, "reset") /\ Resets("idle")
                   ELSE GoesTo(r, "failed") /\ phase' = "error" /\ UNCHANGED frames
  /\ UNCHANGED <<abortRef, playerRef>>

(* A delta of the LLM, the end of its answer or an error.  Its request has *)
(* a controller of its own, so that a run that was stopped learns of it    *)
(* only here.                                                              *)
LlmDelta(r) ==
  /\ stage[r] = "llm"
  /\ \/ /\ ~aborted[r]
        /\ text' = [text EXCEPT ![r] = TRUE]
        /\ UNCHANGED <<stage, page>>
     \/ /\ ~aborted[r] /\ text[r]
        /\ GoesTo(r, "fetch")
        /\ playerRef' = r
        /\ UNCHANGED <<text, phase, frames, abortRef>>
     \/ Throws(r) /\ UNCHANGED text
  /\ UNCHANGED <<now, aborted, players, answers, stopped>>

(* fetch: a status of 200, or an error that is reported. *)
Response(r) ==
  /\ stage[r] = "fetch"
  /\ \/ GoesTo(r, "stream") /\ UNCHANGED page
     \/ Throws(r)
  /\ UNCHANGED <<now, text, aborted, players, answers, stopped>>
-----------------------------------------------------------------------------
(* usable: the bytes, of n, that make whole samples. *)
Whole(n) == n - (n % 2)

LeftBug(buf) == <<>>   \* floor(len / 2) of each chunk

(* The odd byte waits for the next chunk. *)
Left(buf) == SubSeq(buf, Whole(Len(buf)) + 1, Len(buf))

(* A chunk of the stream: whole samples go to the player, which starts     *)
(* once it has enough of them.                                             *)
Chunk(r, n) ==
  LET buf == carry[r] \o [i \in 1 .. n |-> received[r] + i]
      aligned == SubSeq(buf, 1, Whole(Len(buf)))
      count == Len(Samples(aligned)) + total[r] \div 2
      fed == push(players[r], Samples(aligned), now)
  IN /\ stage[r] = "stream"
     /\ received[r] + n <= MaxBytes
     /\ received' = [received EXCEPT ![r] = @ + n]
     /\ carry' = [carry EXCEPT ![r] = Left(buf)]
     /\ IF aligned = <<>>
          THEN UNCHANGED <<players, total, frames>>
          ELSE /\ total' = [total EXCEPT ![r] = @ + Len(aligned)]
               /\ players' = [players EXCEPT ![r] =
                    IF ~fed.started /\ count >= MinStart THEN start(fed, now) ELSE fed]
               /\ \/ frames' = TRUE
                  \/ total[r] > 0 /\ UNCHANGED frames   \* within 200 ms
     /\ UNCHANGED <<now, phase, abortRef, playerRef, stage, text, aborted, stopped>>

(* The stream comes to its end, or breaks. *)
StreamEnds(r) ==
  /\ stage[r] = "stream"
  /\ GoesTo(r, "done")
  /\ players' = [players EXCEPT ![r] = setOnEnded(markEnded(@, now))]
  /\ phase' = "done"
  /\ UNCHANGED <<now, frames, abortRef, playerRef, text, aborted, answers, stopped>>

StreamBreaks(r) ==
  /\ stage[r] = "stream"
  /\ Throws(r)
  /\ UNCHANGED <<now, text, aborted, players, answers, stopped>>

AbortsBug(r) == UNCHANGED <<aborted, stage>>   \* the player is stopped, the run is not

(* abort(): a request or a stream rejects before the next task, and the    *)
(* catch resets the page as the click has done.                            *)
Aborts(r) ==
  /\ aborted' = [aborted EXCEPT ![r] = TRUE]
  /\ stage' = [stage EXCEPT ![r] = IF @ \in Requesting THEN "cancelled" ELSE @]

(* The button beside the one that starts a run, there while it generates. *)
ClickStop ==
  /\ phase = "generating"
  /\ Aborts(abortRef)
  /\ StopsPlayer
  /\ Resets("idle")
  /\ stopped' = stopped \cup {abortRef}
  /\ UNCHANGED <<now, abortRef, playerRef, text, answers>>

(* The one among the audio controls, there once there is audio. *)
ClickStopAudio ==
  /\ frames
  /\ StopsPlayer
  /\ UNCHANGED <<now, phase, frames, abortRef, playerRef, stage, text, aborted, answers,
                 stopped>>

(* A block has sounded. *)
SourceEnds(r) ==
  /\ SourceOver(players[r], now)
  /\ players' = [players EXCEPT ![r] = sourceOnEnded(@)]
  /\ UNCHANGED <<now, phase, frames, abortRef, playerRef, stage, text, aborted, answers,
                 stopped>>

Tick ==
  /\ now < MaxTime
  /\ now' = now + 1
  /\ UNCHANGED <<page, stage, text, aborted, players, answers, stopped>>

RunSteps(r) ==
  \/ LlmDelta(r) \/ Response(r) \/ StreamEnds(r) \/ StreamBreaks(r) \/ SourceEnds(r)
  \/ \E n \in ChunkSizes : Chunk(r, n)

Next ==
  \/ ClickRun \/ ClickStop \/ ClickStopAudio \/ Tick
  \/ \E r \in Runs : RunSteps(r)

Spec == Init /\ [][Next]_vars
-----------------------------------------------------------------------------
TypeOK ==
  /\ now \in 0 .. MaxTime
  /\ phase \in {"idle", "generating", "done", "error"}
  /\ frames \in BOOLEAN
  /\ {abortRef, playerRef} \subseteq Runs \cup {None}
  /\ stage \in [Runs -> Stages]
  /\ <<text, aborted>> \in [Runs -> BOOLEAN] \X [Runs -> BOOLEAN]
  /\ players \in [Runs -> Player(Sample, Nat)]
  /\ <<received, total>> \in [Runs -> 0 .. MaxBytes] \X [Runs -> 0 .. MaxBytes]
  /\ carry \in [Runs -> Seq(1 .. MaxBytes)]
  /\ stopped \subseteq Runs
  /\ \A r \in Runs : \A i \in DOMAIN players[r].blocks :
       Len(players[r].blocks[i].sound) \in 1 .. MaxSource

(* The sound goes on after a byte of the answer; which byte that is for    *)
(* what is heard i-th, the last to be what waits.                          *)
Follows(sound, byte) ==
  sound = [j \in 1 .. Len(sound) |-> <<byte + 2 * j - 1, byte + 2 * j>>]

LastByte(sound) == sound[Len(sound)][2]
Before(p, i) == IF i = 1 THEN 2 * p.given ELSE LastByte(p.blocks[i - 1].sound)

(* A chunk may end between the two bytes of a sample, and a byte dropped   *)
(* there turns all that follows into noise (ttsApi.ts lines 92-96); blocks *)
(* follow each other with "no pile-up" (pcmPlayer.ts lines 11-13).         *)
(* Wherever the network cuts the answer and whenever the player starts,    *)
(* falls behind or is stopped, what it plays is the samples of the answer  *)
(* since the last stop, none missing, split or repeated, no two blocks     *)
(* sound at once, and of an answer that came to its end nothing is kept    *)
(* back.                                                                   *)
HearsTheStream ==
  \A r \in Runs :
    LET p == players[r]
        last == Len(p.blocks)
    IN /\ \A i \in 1 .. last : Follows(p.blocks[i].sound, Before(p, i))
       /\ \A i \in 2 .. last : EndOf(p.blocks[i - 1]) <= p.blocks[i].at
       /\ Follows(p.pending, Before(p, last + 1))
       /\ Before(p, last + 1) + 2 * Len(p.pending) = Whole(received[r])
       /\ stage[r] = "done" => p.pending = <<>>

(* Block i of those, given to the context at time t, starts then or later, *)
(* and where the one before it ends, unless that one is over by then.      *)
InTime(blocks, i, t) ==
  /\ t <= blocks[i].at
  /\ i > 1 => \/ blocks[i].at = EndOf(blocks[i - 1])
              \/ EndOf(blocks[i - 1]) < t

(* "Never schedule into the past -- sources firing late pile up and sum",  *)
(* and "a block starts exactly when the previous ends" (pcmPlayer.ts lines *)
(* 11-13 and 97): whenever the network falls behind what is played, a      *)
(* chunk's blocks are given a time to come, and a gap is left only where   *)
(* there was nothing left to play.                                         *)
NeverIntoThePast ==
  [][\A r \in Runs :
       \A i \in Len(players[r].blocks) + 1 .. Len(players'[r].blocks) :
         InTime(players'[r].blocks, i, now)]_vars

(* The end of the stream and the end of the last block come in either      *)
(* order: the page is told at most once that a run has been heard, and not *)
(* before it has been, to its end.                                         *)
EndReportedOnce ==
  \A r \in Runs :
    LET p == players[r]
    IN /\ p.reports <= 1
       /\ p.reports = 1 => /\ stage[r] = "done" /\ p.over = Len(p.blocks)
                           /\ p.pending = <<>> /\ ~p.started

(* The page shows one run, and starts another only once it shows none: two *)
(* are alive at once only if a run that was stopped while the LLM answered *)
(* has since reset the page under a later one, once for each such run.     *)
OneRunPerReset ==
  Cardinality({r \in Runs : stage[r] \in {"llm"} \cup Requesting /\ ~aborted[r]})
    <= 1 + Cardinality({r \in Runs : stage[r] = "reset"})

(* A run the user has stopped never gives a player another sample, however *)
(* late its answers come and whatever runs next: a player that was stopped *)
(* opens a new context for the next sample it gets.                        *)
StopSilences ==
  [][\A r \in stopped :
       /\ total'[r] = total[r]
       /\ players'[r].blocks \in {players[r].blocks, <<>>}]_vars
=============================================================================
