-------------------------- MODULE SpeechServer_proofs --------------------------
(***************************************************************************)
(* For every set of connections, pool size and bound on requests and       *)
(* blocks: at most one synthesis at a time, the context freed last, and a  *)
(* stream that stops once its client is gone.                              *)
(***************************************************************************)
EXTENDS SpeechServer, SequenceTheorems, TLAPS

Typed ==
  /\ server \in {"starting", "listening", "draining", "freed"}
  /\ jobs \in Seq(Connections)
  /\ stage \in [Connections -> Stages]
  /\ client \in [Connections -> Clients]
  /\ format \in [Connections -> Formats]
  /\ mutex \in Connections \union {NoOne}
  /\ split \in [Connections -> BOOLEAN]
  /\ wasted \in [Connections -> Nat]
  /\ lateWrites \in [Connections -> Nat]

(* Accepted connections are queued, each of them once. *)
QueueInv ==
  /\ \A i \in 1..Len(jobs) : stage[jobs[i]] = "queued"
  /\ \A i, j \in 1..Len(jobs) : jobs[i] = jobs[j] => i = j

(* The server accepts nothing before it listens, and nothing is left of    *)
(* what it accepted once the context is freed.                             *)
OrderInv ==
  /\ server = "starting" => jobs = <<>> /\ \A c \in Connections : stage[c] = "new"
  /\ server = "freed" => jobs = <<>> /\ Busy = {}

(* A write to a client that is gone ends its synthesis, and a block of a   *)
(* text in one piece is such a write; before a synthesis and after its     *)
(* answer there is nothing of the kind.                                    *)
WasteInv ==
  \A c \in Connections :
    /\ lateWrites[c] <= 1
    /\ ~split[c] => wasted[c] <= 1
    /\ stage[c] = "synthesizing" => lateWrites[c] = 0 /\ (~split[c] => wasted[c] = 0)
    /\ stage[c] \notin {"synthesizing", "answering", "finishing"}
         => wasted[c] = 0 /\ lateWrites[c] = 0

waste == <<split, wasted, lateWrites>>

IInv == Typed /\ OneSynthesisAtATime /\ QueueInv /\ OrderInv /\ WasteInv

Working(c) == stage[c] \in Stages \ {"new", "queued", "closed"}
-----------------------------------------------------------------------------
LEMMA InitInv == Init => IInv
<1> SUFFICES ASSUME Init PROVE IInv
  OBVIOUS
<1>1. Typed
  BY DEF Init, Typed, Stages, Clients, Formats
<1>2. OneSynthesisAtATime
  BY ServerAssumption DEF Init, OneSynthesisAtATime
<1>3. QueueInv
  BY DEF Init, QueueInv
<1>4. OrderInv
  BY DEF Init, OrderInv
<1>5. WasteInv
  BY DEF Init, WasteInv
<1> QED BY <1>1, <1>2, <1>3, <1>4, <1>5 DEF IInv

(* The queue and the order of shutdown survive whatever a worker does with *)
(* the connection it serves, as long as it does not queue it again.        *)
LEMMA WorkerStep ==
  ASSUME IInv, NEW c \in Connections, Working(c), NEW s, s # "queued",
         GoesTo(c, s), UNCHANGED <<server, jobs>>
  PROVE  QueueInv' /\ OrderInv'
<1>1. \A d \in Connections : stage[d] = "queued" => stage'[d] = "queued"
  BY DEF IInv, Typed, Working, GoesTo
<1>2. \A i \in 1..Len(jobs) : jobs[i] \in Connections
  BY DEF IInv, Typed
<1>3. QueueInv'
  BY <1>1, <1>2 DEF IInv, QueueInv
<1>4. server \notin {"starting", "freed"}
  <2>1. stage[c] # "new" /\ c \in Busy
    BY DEF Working, Busy
  <2> QED BY <2>1 DEF IInv, OrderInv
<1> QED BY <1>3, <1>4 DEF OrderInv

(* A step of a worker outside the mutex leaves the holder alone. *)
LEMMA UnlockedStep ==
  ASSUME IInv, NEW c \in Connections, NEW s,
         stage[c] # "synthesizing", s # "synthesizing",
         GoesTo(c, s), UNCHANGED mutex
  PROVE  OneSynthesisAtATime'
BY DEF IInv, Typed, OneSynthesisAtATime, GoesTo

(* A request that is over leaves the types and nothing wasted. *)
LEMMA OverStep ==
  ASSUME IInv, NEW c \in Connections, RequestOver(c),
         NEW s \in {"idle", "closed"}, GoesTo(c, s),
         client' \in [Connections -> Clients], UNCHANGED <<server, jobs, mutex>>
  PROVE  Typed' /\ WasteInv'
<1>1. Typed'
  BY DEF IInv, Typed, RequestOver, GoesTo, Stages, Formats
<1>2. WasteInv'
  BY DEF IInv, Typed, WasteInv, RequestOver, GoesTo
<1> QED BY <1>1, <1>2

(* Closing a connection ends its request, if it has one. *)
LEMMA CloseStep ==
  ASSUME IInv, NEW c \in Connections, Close(c), UNCHANGED <<server, jobs, mutex>>
  PROVE  Typed' /\ WasteInv'
<1>1. client' \in [Connections -> Clients]
  BY DEF IInv, Typed, Close, Clients
<1> QED BY <1>1, OverStep DEF Close

(* A step of a worker that neither starts a synthesis nor leaves one.      *)
LEMMA QuietStep ==
  ASSUME IInv, NEW c \in Connections, NEW s, GoesTo(c, s), UNCHANGED waste,
         stage[c] \notin {"synthesizing", "answering", "finishing"}, s # "synthesizing"
  PROVE  WasteInv'
BY DEF IInv, Typed, WasteInv, GoesTo, waste
-----------------------------------------------------------------------------
(* The server's own steps touch no connection but the one a worker takes.  *)
LEMMA ListenInv == IInv /\ Listen => IInv'
BY DEF IInv, Listen, perRequest, synthesis, Typed, OneSynthesisAtATime, QueueInv,
       OrderInv, WasteInv, Busy

LEMMA SignalInv == IInv /\ Signal => IInv'
BY DEF IInv, Signal, perRequest, synthesis, Typed, OneSynthesisAtATime, QueueInv,
       OrderInv, WasteInv, Busy

LEMMA FreeContextInv == IInv /\ FreeContext => IInv'
BY DEF IInv, FreeContext, Drained, perRequest, synthesis, Typed, OneSynthesisAtATime,
       QueueInv, OrderInv, WasteInv, Busy

LEMMA AcceptInv ==
  ASSUME IInv, NEW c \in Connections, Accept(c)
  PROVE  IInv'
<1>1. Typed'
  BY AppendProperties DEF IInv, Accept, GoesTo, perRequest, synthesis, Typed, Stages
<1>2. OneSynthesisAtATime'
  BY UnlockedStep DEF Accept
<1>3. QueueInv'
  <2>1. /\ Len(jobs') = Len(jobs) + 1
        /\ \A i \in 1..Len(jobs) : jobs'[i] = jobs[i]
        /\ jobs'[Len(jobs) + 1] = c
        /\ Len(jobs) \in Nat
    BY AppendProperties DEF IInv, Accept, Typed
  <2>2. \A i \in 1..Len(jobs) : jobs[i] \in Connections /\ jobs[i] # c
    BY DEF IInv, Typed, QueueInv, Accept
  <2>3. \A i \in 1..Len(jobs') : i \in 1..Len(jobs) \/ i = Len(jobs) + 1
    BY <2>1
  <2>4. \A i \in 1..Len(jobs') : stage'[jobs'[i]] = "queued"
    BY <2>1, <2>2, <2>3 DEF IInv, Typed, QueueInv, Accept, GoesTo
  <2>5. \A i, j \in 1..Len(jobs') : jobs'[i] = jobs'[j] => i = j
    BY <2>1, <2>2, <2>3 DEF IInv, QueueInv
  <2> QED BY <2>4, <2>5 DEF QueueInv
<1>4. OrderInv'
  BY DEF Accept, OrderInv
<1>5. WasteInv'
  BY QuietStep DEF Accept, perRequest, synthesis, waste
<1> QED BY <1>1, <1>2, <1>3, <1>4, <1>5 DEF IInv

LEMMA TakeJobInv == IInv /\ TakeJob => IInv'
<1> SUFFICES ASSUME IInv, TakeJob PROVE IInv'
  OBVIOUS
<1> DEFINE c == Head(jobs)
<1>1. /\ c \in Connections /\ c = jobs[1] /\ 1 \in 1..Len(jobs)
      /\ jobs' \in Seq(Connections)
      /\ Len(jobs') = Len(jobs) - 1
      /\ \A i \in 1..Len(jobs') : jobs'[i] = jobs[i + 1]
      /\ Len(jobs) \in Nat
  BY HeadTailProperties, EmptySeq DEF IInv, Typed, TakeJob
<1>2. stage[c] = "queued"
  BY <1>1 DEF IInv, QueueInv
<1>3. Typed'
  BY <1>1 DEF IInv, Typed, TakeJob, GoesTo, perRequest, synthesis, Stages
<1>4. OneSynthesisAtATime'
  BY <1>1, <1>2, UnlockedStep DEF TakeJob
<1>5. QueueInv'
  <2>1. \A i \in 1..Len(jobs') : i + 1 \in 1..Len(jobs) /\ jobs[i + 1] \in Connections
    BY <1>1 DEF IInv, Typed
  <2>2. \A i \in 1..Len(jobs') : jobs[i + 1] # c
    <3> SUFFICES ASSUME NEW i \in 1..Len(jobs'), jobs[i + 1] = c PROVE FALSE
      OBVIOUS
    <3>1. i + 1 = 1
      BY <1>1, <2>1 DEF IInv, QueueInv
    <3> QED BY <3>1, <1>1
  <2>3. \A i \in 1..Len(jobs') : stage'[jobs'[i]] = "queued"
    BY <1>1, <2>1, <2>2 DEF IInv, Typed, QueueInv, TakeJob, GoesTo
  <2>4. \A i, j \in 1..Len(jobs') : jobs'[i] = jobs'[j] => i = j
    <3> SUFFICES ASSUME NEW i \in 1..Len(jobs'), NEW j \in 1..Len(jobs'), jobs'[i] = jobs'[j]
                 PROVE  i = j
      OBVIOUS
    <3>1. i + 1 = j + 1
      BY <1>1, <2>1 DEF IInv, QueueInv
    <3> QED BY <3>1, <1>1
  <2> QED BY <2>3, <2>4 DEF QueueInv
<1>6. OrderInv'
  BY DEF IInv, OrderInv, TakeJob
<1>7. WasteInv'
  BY <1>1, <1>2, QuietStep DEF TakeJob, perRequest, synthesis, waste
<1> QED BY <1>3, <1>4, <1>5, <1>6, <1>7 DEF IInv

LEMMA ClientMovesInv ==
  ASSUME IInv, NEW c \in Connections, ClientMoves(c)
  PROVE  IInv'
<1>1. Typed'
  BY DEF IInv, Typed, ClientMoves, perRequest, synthesis, Clients
<1>2. UNCHANGED <<server, jobs, stage, mutex, split, wasted, lateWrites>>
  BY DEF ClientMoves, perRequest, synthesis
<1>3. Busy' = Busy
  BY <1>2 DEF Busy
<1> QED
  BY <1>1, <1>2, <1>3 DEF IInv, OneSynthesisAtATime, QueueInv, OrderInv, WasteInv
-----------------------------------------------------------------------------
(* What a worker does outside the mutex.                                   *)
LEMMA HangupInv ==
  ASSUME IInv, NEW c \in Connections, Hangup(c)
  PROVE  IInv'
<1>1. Close(c) /\ UNCHANGED <<server, jobs, mutex>> /\ GoesTo(c, "closed")
  BY DEF Hangup, Close
<1>2. Working(c) /\ stage[c] # "synthesizing"
  BY DEF Hangup, KeepAliveEnds, Working, Stages
<1>3. Typed' /\ WasteInv'
  BY <1>1, CloseStep
<1>4. OneSynthesisAtATime'
  BY <1>1, <1>2, UnlockedStep
<1>5. QueueInv' /\ OrderInv'
  BY <1>1, <1>2, WorkerStep
<1> QED BY <1>3, <1>4, <1>5 DEF IInv

LEMMA ArriveInv ==
  ASSUME IInv, NEW c \in Connections, Arrive(c)
  PROVE  IInv'
<1>1. GoesTo(c, "handling") /\ UNCHANGED <<server, jobs, client, mutex, waste>>
  BY DEF Arrive, synthesis, waste
<1>2. Working(c) /\ stage[c] = "idle"
  BY DEF Arrive, Working, Stages
<1>3. Typed'
  BY <1>1 DEF IInv, Typed, Arrive, GoesTo, Stages, Formats, waste
<1>4. WasteInv'
  BY <1>1, <1>2, QuietStep
<1>5. OneSynthesisAtATime'
  BY <1>1, <1>2, UnlockedStep
<1>6. QueueInv' /\ OrderInv'
  BY <1>1, <1>2, WorkerStep
<1> QED BY <1>3, <1>4, <1>5, <1>6 DEF IInv

LEMMA HandleOtherInv ==
  ASSUME IInv, NEW c \in Connections, HandleOther(c)
  PROVE  IInv'
<1>1. GoesTo(c, "answering") /\ UNCHANGED <<server, jobs, client, format, mutex, waste>>
  BY DEF HandleOther, waste
<1>2. Working(c) /\ stage[c] = "handling"
  BY DEF HandleOther, Working, Stages
<1>3. Typed' /\ WasteInv'
  BY <1>1, <1>2, QuietStep DEF IInv, Typed, GoesTo, Stages, waste
<1>4. OneSynthesisAtATime'
  BY <1>1, <1>2, UnlockedStep
<1>5. QueueInv' /\ OrderInv'
  BY <1>1, <1>2, WorkerStep
<1> QED BY <1>3, <1>4, <1>5 DEF IInv

(* Both kinds of speech request reach their lock_guard alike. *)
LEMMA ToLock ==
  ASSUME IInv, NEW c \in Connections, stage[c] = "handling", GoesTo(c, "locking"),
         UNCHANGED <<server, jobs, client, format, mutex, waste>>
  PROVE  IInv'
<1>1. Working(c)
  BY DEF Working, Stages
<1>2. Typed'
  BY DEF IInv, Typed, GoesTo, Stages, waste
<1>3. WasteInv'
  BY QuietStep
<1>4. OneSynthesisAtATime'
  BY UnlockedStep
<1>5. QueueInv' /\ OrderInv'
  BY <1>1, WorkerStep
<1> QED BY <1>2, <1>3, <1>4, <1>5 DEF IInv

(* A worker outside the mutex may close its connection at any point. *)
LEMMA CloseInv ==
  ASSUME IInv, NEW c \in Connections, Working(c), stage[c] # "synthesizing",
         Close(c), UNCHANGED <<server, jobs, mutex>>
  PROVE  IInv'
<1>1. GoesTo(c, "closed")
  BY DEF Close
<1>2. Typed' /\ WasteInv'
  BY CloseStep
<1>3. OneSynthesisAtATime'
  BY <1>1, UnlockedStep
<1>4. QueueInv' /\ OrderInv'
  BY <1>1, WorkerStep
<1> QED BY <1>2, <1>3, <1>4 DEF IInv

LEMMA HandleWavInv ==
  ASSUME IInv, NEW c \in Connections, HandleWav(c)
  PROVE  IInv'
BY ToLock DEF HandleWav, perRequest, synthesis, waste

LEMMA HandlePcmInv ==
  ASSUME IInv, NEW c \in Connections, HandlePcm(c)
  PROVE  IInv'
<1>1. CASE GoesTo(c, "locking") /\ UNCHANGED <<client, requests, perRequest>>
  BY <1>1, ToLock DEF HandlePcm, perRequest, synthesis, waste
<1>2. CASE Close(c)
  <2>1. Working(c) /\ stage[c] # "synthesizing"
    BY DEF HandlePcm, Working, Stages
  <2> QED BY <1>2, <2>1, CloseInv DEF HandlePcm
<1> QED BY <1>1, <1>2 DEF HandlePcm

LEMMA AnsweredInv ==
  ASSUME IInv, NEW c \in Connections, stage[c] \in {"answering", "finishing"},
         NEW a, Answered(c, a), UNCHANGED <<server, jobs, mutex>>
  PROVE  IInv'
<1>1. GoesTo(c, "idle") /\ RequestOver(c) /\ UNCHANGED client
  BY DEF Answered
<1>2. Working(c) /\ stage[c] # "synthesizing"
  BY DEF Working, Stages
<1>3. Typed' /\ WasteInv'
  <2>1. client' \in [Connections -> Clients]
    BY <1>1 DEF IInv, Typed
  <2> QED BY <1>1, <2>1, OverStep
<1>4. OneSynthesisAtATime'
  BY <1>1, <1>2, UnlockedStep
<1>5. QueueInv' /\ OrderInv'
  BY <1>1, <1>2, WorkerStep
<1> QED BY <1>3, <1>4, <1>5 DEF IInv

LEMMA RespondInv ==
  ASSUME IInv, NEW c \in Connections, Respond(c)
  PROVE  IInv'
<1>1. Working(c) /\ stage[c] = "answering"
  BY DEF Respond, Working, Stages
<1>2. CASE Close(c)
  BY <1>1, <1>2, CloseInv DEF Respond
<1>3. CASE Answered(c, IF rc[c] = "OK" THEN "whole" ELSE "error")
  BY <1>1, <1>3, AnsweredInv DEF Respond
<1> QED BY <1>2, <1>3 DEF Respond

LEMMA FinishStreamInv ==
  ASSUME IInv, NEW c \in Connections, FinishStream(c)
  PROVE  IInv'
<1>1. Working(c) /\ stage[c] = "finishing"
  BY DEF FinishStream, Working, Stages
<1>2. CASE Close(c)
  BY <1>1, <1>2, CloseInv DEF FinishStream
<1>3. CASE Answered(c, "whole")
  BY <1>1, <1>3, AnsweredInv DEF FinishStream
<1> QED BY <1>2, <1>3 DEF FinishStream
-----------------------------------------------------------------------------
(* What a worker does to the mutex and under it.                           *)
LEMMA LockInv ==
  ASSUME IInv, NEW c \in Connections, Lock(c)
  PROVE  IInv'
<1>1. /\ GoesTo(c, "synthesizing")
      /\ mutex = NoOne /\ mutex' = c
      /\ UNCHANGED <<server, jobs, client, format, wasted, lateWrites>>
  BY DEF Lock, LockIsFree
<1>2. Working(c) /\ stage[c] = "locking"
  BY DEF Lock, Working, Stages
<1>3. Typed'
  BY <1>1 DEF IInv, Typed, Lock, GoesTo, Stages
<1>4. WasteInv'
  BY <1>1, <1>2 DEF IInv, Typed, WasteInv, Lock, GoesTo
<1>5. OneSynthesisAtATime'
  BY <1>1, ServerAssumption DEF IInv, Typed, OneSynthesisAtATime, GoesTo
<1>6. QueueInv' /\ OrderInv'
  BY <1>1, <1>2, WorkerStep
<1> QED BY <1>3, <1>4, <1>5, <1>6 DEF IInv

(* The holder lets go; its last block and its last write may be wasted.    *)
LEMMA UnlockInv ==
  ASSUME IInv, NEW c \in Connections, stage[c] = "synthesizing",
         NEW result, Unlock(c, result), UNCHANGED <<server, jobs, client, format, split>>,
         wasted' = wasted \/ wasted' = [wasted EXCEPT ![c] = @ + 1],
         lateWrites' = lateWrites \/ lateWrites' = [lateWrites EXCEPT ![c] = @ + 1]
  PROVE  IInv'
<1> DEFINE s == IF format[c] = "wav" THEN "answering" ELSE "finishing"
<1>1. GoesTo(c, s) /\ s \in {"answering", "finishing"} /\ mutex' = NoOne
  BY DEF Unlock
<1>2. Working(c)
  BY DEF Working, Stages
<1>3. mutex = c
  BY DEF IInv, OneSynthesisAtATime
<1> HIDE DEF s
<1>4. Typed'
  <2>1. ASSUME NEW f \in [Connections -> Nat]
        PROVE  [f EXCEPT ![c] = @ + 1] \in [Connections -> Nat]
    OBVIOUS
  <2>2. /\ wasted' \in [Connections -> Nat]
        /\ lateWrites' \in [Connections -> Nat]
    BY <2>1 DEF IInv, Typed
  <2> QED BY <1>1, <2>2 DEF IInv, Typed, GoesTo, Stages
<1>5. WasteInv'
  BY <1>1 DEF IInv, Typed, WasteInv, GoesTo
<1>6. OneSynthesisAtATime'
  BY <1>1, <1>3, ServerAssumption DEF IInv, Typed, OneSynthesisAtATime, GoesTo
<1>7. QueueInv' /\ OrderInv'
  BY <1>1, <1>2, WorkerStep
<1> QED BY <1>4, <1>5, <1>6, <1>7 DEF IInv

(* The synthesis goes on: all that may have changed is what it wasted. *)
LEMMA GoesOn ==
  ASSUME IInv, Typed', WasteInv', UNCHANGED <<server, jobs, stage, mutex>>
  PROVE  IInv'
<1>1. Busy' = Busy
  BY DEF Busy
<1> QED BY <1>1 DEF IInv, OneSynthesisAtATime, QueueInv, OrderInv

(* A write that succeeds finds a client that is there, one that fails ends *)
(* the synthesis.                                                          *)
LEMMA WriteInv ==
  ASSUME IInv, NEW c \in Connections, stage[c] = "synthesizing", NEW blocks,
         Write(c, blocks), UNCHANGED <<server, jobs, client, format, split>>,
         wasted' = [wasted EXCEPT ![c] = IF Abandoned(c) THEN @ + 1 ELSE @]
           \/ wasted' = wasted
  PROVE  IInv'
<1>1. wasted' = wasted \/ wasted' = [wasted EXCEPT ![c] = @ + 1]
  BY DEF IInv, Typed
<1>2. lateWrites' = lateWrites \/ lateWrites' = [lateWrites EXCEPT ![c] = @ + 1]
  BY DEF Write, IInv, Typed
<1>3. CASE Unlock(c, "CANCELLED")
  BY <1>1, <1>2, <1>3, UnlockInv
<1>4. CASE TRUE \in SinkSays(c) /\ UNCHANGED <<rc, mutex, stage>>
  <2>1. ~Abandoned(c)
    BY <1>4 DEF SinkSays, WriteTaken, Abandoned
  <2>2. UNCHANGED <<wasted, lateWrites>>
    BY <2>1 DEF Write, IInv, Typed
  <2>3. Typed' /\ WasteInv'
    BY <1>4, <2>2 DEF IInv, Typed, WasteInv
  <2> QED BY <1>4, <2>3, GoesOn
<1> QED BY <1>3, <1>4 DEF Write

(* A block the trimmer keeps back costs a client that is gone no write. *)
LEMMA KeepBackInv ==
  ASSUME IInv, NEW c \in Connections, stage[c] = "synthesizing", NEW blocks,
         KeepBack(c, blocks), UNCHANGED <<server, jobs, client, format, split>>,
         wasted' = [wasted EXCEPT ![c] = IF Abandoned(c) THEN @ + 1 ELSE @]
  PROVE  IInv'
<1>1. split[c] /\ UNCHANGED <<lateWrites, mutex, stage>>
  BY DEF KeepBack
<1>2. Typed'
  BY <1>1 DEF IInv, Typed
<1>3. WasteInv'
  BY <1>1 DEF IInv, Typed, WasteInv
<1> QED BY <1>1, <1>2, <1>3, GoesOn

LEMMA PushInv ==
  ASSUME IInv, NEW c \in Connections, Push(c)
  PROVE  IInv'
BY WriteInv, KeepBackInv DEF Push

LEMMA EndPieceInv ==
  ASSUME IInv, NEW c \in Connections, EndPiece(c)
  PROVE  IInv'
<1>1. CASE Write(c, made[c])
  BY <1>1, WriteInv DEF EndPiece
<1>2. CASE UNCHANGED <<made, begun, lateWrites, rc, mutex, stage>>
  <2>1. Typed' /\ WasteInv'
    BY <1>2 DEF EndPiece, IInv, Typed, WasteInv
  <2> QED BY <1>2, <2>1, GoesOn DEF EndPiece
<1> QED BY <1>1, <1>2 DEF EndPiece

LEMMA EndSynthesisInv ==
  ASSUME IInv, NEW c \in Connections, EndSynthesis(c)
  PROVE  IInv'
BY UnlockInv DEF EndSynthesis
-----------------------------------------------------------------------------
LEMMA NextInv == IInv /\ [Next]_vars => IInv'
<1> SUFFICES ASSUME IInv, [Next]_vars PROVE IInv'
  OBVIOUS
<1>1. CASE UNCHANGED vars
  <2>1. UNCHANGED <<server, jobs, stage, client, format, mutex, split, wasted, lateWrites>>
    BY <1>1 DEF vars, perRequest, synthesis
  <2> QED
    BY <2>1 DEF IInv, Typed, OneSynthesisAtATime, QueueInv, OrderInv, WasteInv, Busy
<1>2. CASE Listen \/ Signal \/ FreeContext \/ TakeJob
  BY <1>2, ListenInv, SignalInv, FreeContextInv, TakeJobInv
<1>3. ASSUME NEW c \in Connections, Accept(c) \/ Arrive(c) \/ ClientMoves(c)
      PROVE  IInv'
  BY <1>3, AcceptInv, ArriveInv, ClientMovesInv
<1>4. ASSUME NEW c \in Connections, Serve(c)
      PROVE  IInv'
  BY <1>4, HangupInv, HandleOtherInv, HandleWavInv, HandlePcmInv, LockInv, PushInv,
     EndPieceInv, EndSynthesisInv, RespondInv, FinishStreamInv DEF Serve
<1> QED BY <1>1, <1>2, <1>3, <1>4 DEF Next, Exited

(* The invariant of the server holds throughout.                           *)
THEOREM Invariance == Spec => []IInv
<1>1. Init => IInv
  BY InitInv
<1>2. IInv /\ [Next]_vars => IInv'
  BY NextInv
<1> QED BY <1>1, <1>2, PTL DEF Spec

(* One synthesis at a time, for any number of connections and threads: the *)
(* connection that synthesizes is the one that holds g_synth_mutex.        *)
THEOREM MutualExclusion == Spec => []OneSynthesisAtATime
<1>1. IInv => OneSynthesisAtATime
  BY DEF IInv
<1> QED BY <1>1, Invariance, PTL

(* qt_free comes last, for any number of connections and threads: once the *)
(* context is freed nothing is queued or served, and nobody has the mutex. *)
THEOREM FreedLast == Spec => []ContextFreedLast
<1>1. IInv => ContextFreedLast
  <2> SUFFICES ASSUME IInv, server = "freed"
               PROVE  jobs = <<>> /\ Busy = {} /\ mutex = NoOne
    BY DEF ContextFreedLast
  <2>1. jobs = <<>> /\ Busy = {}
    BY DEF IInv, OrderInv
  <2>2. ASSUME mutex \in Connections PROVE FALSE
    <3>1. stage[mutex] = "synthesizing"
      BY <2>2 DEF IInv, OneSynthesisAtATime
    <3> QED BY <3>1, <2>1, <2>2 DEF Busy
  <2> QED BY <2>1, <2>2 DEF IInv, Typed
<1> QED BY <1>1, Invariance, PTL

(* For any number of clients and blocks, of texts in one piece and split:  *)
(* a client that is gone is written to at most once, which ends the        *)
(* synthesis, and of a text in one piece costs at most one block.          *)
THEOREM AbandonedStreamsStop == Spec => []AbandonedStreamStops
<1>1. IInv => AbandonedStreamStops
  BY DEF IInv, Typed, WasteInv, AbandonedStreamStops
<1> QED BY <1>1, Invariance, PTL
-----------------------------------------------------------------------------
(* What the argument above leaves out of the types. *)
Counted ==
  /\ workers \in PoolSizes
  /\ requests \in [Connections -> 0..MaxRequests]
  /\ made \in [Connections -> 0..MaxBlocks]
  /\ kept \in [Connections -> BOOLEAN]
  /\ begun \in [Connections -> BOOLEAN]
  /\ rc \in [Connections -> Results]
  /\ answer \in [Connections -> Answers]

(* A request that is over leaves nothing of its synthesis. *)
LEMMA OverCounts ==
  ASSUME Counted, NEW c \in Connections, RequestOver(c), NEW a \in Answers,
         answer' = [answer EXCEPT ![c] = a], workers' = workers,
         requests' \in [Connections -> 0..MaxRequests]
  PROVE  Counted'
<1>1. 0 \in 0..MaxBlocks /\ "none" \in Results
  BY ServerAssumption DEF Results
<1> QED BY <1>1 DEF Counted, RequestOver

LEMMA CloseCounts ==
  ASSUME Counted, NEW c \in Connections, Close(c), workers' = workers
  PROVE  Counted'
<1>1. 0 \in 0..MaxRequests /\ "none" \in Answers
  BY ServerAssumption DEF Answers
<1>2. requests' \in [Connections -> 0..MaxRequests]
  BY <1>1 DEF Counted, Close
<1> QED BY <1>1, <1>2, OverCounts DEF Close

LEMMA AnsweredCounts ==
  ASSUME Counted, NEW c \in Connections, NEW a \in Answers, Answered(c, a),
         workers' = workers
  PROVE  Counted'
<1>1. requests' \in [Connections -> 0..MaxRequests]
  BY DEF Counted, Answered
<1> QED BY <1>1, OverCounts DEF Answered

LEMMA ArriveCounts ==
  ASSUME Counted, NEW c \in Connections, Arrive(c)
  PROVE  Counted'
<1>1. requests[c] + 1 \in 0..MaxRequests /\ "none" \in Answers
  BY ServerAssumption DEF Counted, Arrive, MoreRequests, Answers
<1> QED BY <1>1 DEF Counted, Arrive, synthesis

LEMMA UnlockCounts ==
  ASSUME Counted, NEW c \in Connections, NEW result \in Results, Unlock(c, result),
         begun' \in [Connections -> BOOLEAN], UNCHANGED <<workers, requests, answer>>
  PROVE  Counted'
<1>1. 0 \in 0..MaxBlocks
  BY ServerAssumption
<1> QED BY <1>1 DEF Counted, Unlock

LEMMA WriteCounts ==
  ASSUME Counted, NEW c \in Connections, split[c] \in BOOLEAN,
         NEW blocks \in 0..MaxBlocks, Write(c, blocks),
         UNCHANGED <<workers, requests, answer>>
  PROVE  Counted'
<1>1. CASE Unlock(c, "CANCELLED") /\ UNCHANGED begun
  BY <1>1, UnlockCounts DEF Counted, Results
<1>2. CASE /\ begun' = [begun EXCEPT ![c] = TRUE]
           /\ made' = [made EXCEPT ![c] = blocks]
           /\ \E more \in {FALSE, split[c]} : kept' = [kept EXCEPT ![c] = more]
           /\ UNCHANGED <<rc, mutex, stage>>
  BY <1>2 DEF Counted
<1> QED BY <1>1, <1>2 DEF Write

LEMMA PushCounts ==
  ASSUME Counted, NEW c \in Connections, split[c] \in BOOLEAN, Push(c)
  PROVE  Counted'
<1>1. made[c] + 1 \in 0..MaxBlocks
  BY ServerAssumption DEF Counted, Push
<1>2. CASE Write(c, made[c] + 1)
  BY <1>1, <1>2, WriteCounts DEF Push
<1>3. CASE KeepBack(c, made[c] + 1)
  BY <1>1, <1>3 DEF Counted, Push, KeepBack
<1> QED BY <1>2, <1>3 DEF Push

LEMMA EndPieceCounts ==
  ASSUME Counted, NEW c \in Connections, split[c] \in BOOLEAN, EndPiece(c)
  PROVE  Counted'
<1>1. made[c] \in 0..MaxBlocks
  BY DEF Counted
<1>2. CASE Write(c, made[c])
  BY <1>1, <1>2, WriteCounts DEF EndPiece
<1>3. CASE /\ kept' = [kept EXCEPT ![c] = FALSE]
           /\ UNCHANGED <<made, begun, lateWrites, rc, mutex, stage>>
  BY <1>3 DEF Counted, EndPiece
<1> QED BY <1>2, <1>3 DEF EndPiece

LEMMA EndSynthesisCounts ==
  ASSUME Counted, NEW c \in Connections, EndSynthesis(c)
  PROVE  Counted'
<1>1. PICK result \in {"OK", "FAILED"} : Unlock(c, result)
  BY DEF EndSynthesis
<1>2. begun' \in [Connections -> BOOLEAN]
  BY DEF Counted, EndSynthesis
<1> QED BY <1>1, <1>2, UnlockCounts DEF EndSynthesis, Results

(* The steps of a connection's worker and client, one by one. *)
LEMMA ConnectionCounts ==
  ASSUME Counted, NEW c \in Connections, split[c] \in BOOLEAN,
         Accept(c) \/ Arrive(c) \/ Serve(c) \/ ClientMoves(c)
  PROVE  Counted'
<1>1. CASE UNCHANGED <<workers, requests, made, kept, begun, rc, answer>>
  BY <1>1 DEF Counted
<1>2. CASE Accept(c) \/ ClientMoves(c) \/ HandleWav(c) \/ Lock(c)
  BY <1>1, <1>2 DEF Accept, ClientMoves, HandleWav, Lock, perRequest, synthesis
<1>3. CASE Arrive(c) \/ Push(c) \/ EndPiece(c)
  BY <1>3, ArriveCounts, PushCounts, EndPieceCounts
<1>4. CASE HandleOther(c)
  BY <1>4 DEF Counted, HandleOther, Results
<1>5. CASE HandlePcm(c)
  BY <1>1, <1>5, CloseCounts DEF HandlePcm, perRequest, synthesis
<1>6. CASE EndSynthesis(c)
  BY <1>6, EndSynthesisCounts
<1>7. CASE Respond(c)
  BY <1>7, CloseCounts, AnsweredCounts DEF Respond, Answers
<1>8. CASE FinishStream(c)
  BY <1>8, CloseCounts, AnsweredCounts DEF FinishStream, Answers
<1>9. CASE Hangup(c)
  BY <1>9, CloseCounts DEF Hangup
<1> QED BY <1>2, <1>3, <1>4, <1>5, <1>6, <1>7, <1>8, <1>9 DEF Serve

(* Type correctness, for any number of connections, threads, requests and  *)
(* blocks: among it that a connection carries no more than its requests.   *)
THEOREM TypeCorrect == Spec => []TypeOK
<1>1. Init => Counted
  BY ServerAssumption DEF Init, Counted, Results, Answers
<1>2. IInv /\ Counted /\ [Next]_vars => Counted'
  <2> SUFFICES ASSUME IInv, Counted, [Next]_vars PROVE Counted'
    OBVIOUS
  <2>1. ASSUME UNCHANGED <<workers, requests, perRequest>> PROVE Counted'
    BY <2>1 DEF Counted, perRequest, synthesis
  <2>2. CASE UNCHANGED vars \/ Listen \/ Signal \/ FreeContext \/ TakeJob
    BY <2>1, <2>2 DEF vars, Listen, Signal, FreeContext, TakeJob
  <2>3. ASSUME NEW c \in Connections,
               Accept(c) \/ Arrive(c) \/ Serve(c) \/ ClientMoves(c)
        PROVE  Counted'
    BY <2>3, ConnectionCounts DEF IInv, Typed
  <2> QED BY <2>2, <2>3 DEF Next, Exited
<1>3. IInv /\ Counted => TypeOK
  BY DEF IInv, Typed, Counted, TypeOK
<1> QED BY <1>1, <1>2, <1>3, Invariance, PTL DEF Spec
=============================================================================
