----------------------------- MODULE SpeechServer -----------------------------
(***************************************************************************)
(* The HTTP layer (src/src/tts-server.h) in front of the single synthesis  *)
(* context: connection threads that share g_synth_mutex, clients that stop *)
(* reading or go away, SIGTERM, and the qt_free of src/tools/tts-server.cpp*)
(* once the server has returned.                                           *)
(*                                                                         *)
(* httplib is external: an accept loop that queues connections, a pool of  *)
(* workers that serves a connection's requests one after the other, writes *)
(* that fail when the client is gone or stops reading for 120 s.           *)
(*                                                                         *)
(* A synthesis is the blocks it makes, the audio of them that reaches its  *)
(* sink and the status it ends with.  A long text is split into pieces and *)
(* its blocks go through join_trimmer, which may keep them back: here all  *)
(* that matters is whether a block reaches the sink, the rest is the       *)
(* subject of the other modules.                                           *)
(***************************************************************************)
EXTENDS Integers, Sequences, FiniteSets

CONSTANTS
  Connections,   \* the connections clients may open
  NoOne,         \* nobody holds the mutex
  PoolSizes,     \* threads the pool may have (it depends on the machine)
  MaxRequests,   \* bound: requests on one connection (httplib: 100)
  MaxBlocks      \* bound: blocks of one synthesis

ASSUME ServerAssumption ==
  /\ NoOne \notin Connections
  /\ PoolSizes \subseteq Nat \ {0}
  /\ MaxRequests \in Nat
  /\ MaxBlocks \in Nat

VARIABLES
  server,     \* "starting", "listening", "draining" after stop(), "freed"
  workers,    \* threads of the pool
  jobs,       \* accepted connections no worker has taken yet
  stage,      \* connection -> what its worker does
  client,     \* connection -> what its client does
  requests,   \* connection -> requests it has sent
  format,     \* connection -> what the current request asks for
  split,      \* connection -> its stream is synthesized in several pieces
  mutex,      \* holder of g_synth_mutex
  made,       \* connection -> blocks of the synthesis that runs
  kept,       \* connection -> join_trimmer holds audio of them
  begun,      \* connection -> its sink took audio
  rc,         \* connection -> status of its synthesis
  answer,     \* connection -> how its last answer ended on the wire
  wasted,     \* connection -> stream blocks made although the client was gone
  lateWrites  \* connection -> writes of audio to a client that was gone

synthesis == <<split, made, kept, begun, rc, wasted, lateWrites>>
perRequest == <<format, synthesis, answer>>
vars == <<server, workers, jobs, stage, client, requests, perRequest, mutex>>

Stages == {"new", "queued", "idle", "handling", "locking", "synthesizing",
           "answering", "finishing", "closed"}
Formats == {"none", "other", "wav", "pcm"}
Results == {"none", "OK", "FAILED", "CANCELLED", "REFUSED"}

(* "stalled": the client stopped reading and its buffers are full.         *)
(* "leaving": it closed, but its kernel has not answered a write with a    *)
(* reset yet, so the next write still succeeds.                            *)
Clients == {"reading", "stalled", "leaving", "gone"}

(* "whole": a complete, well-formed 200; "error": a 4xx or 5xx.  A         *)
(* connection that ends before its answer does leaves "none".              *)
Answers == {"none", "whole", "error"}

Busy == {c \in Connections : stage[c] \notin {"new", "queued", "closed"}}

GoesTo(c, s) == stage' = [stage EXCEPT ![c] = s]

(* The socket takes a write. *)
WriteTaken(c) == client[c] \in {"reading", "leaving"}

WriteFailsBug(c) == client[c] = "gone"   \* no write timeout

(* A write fails: the connection was reset, or nothing could be written    *)
(* for 120 s.                                                              *)
WriteFails(c) == client[c] \in {"stalled", "gone"}
-----------------------------------------------------------------------------
Init ==
  /\ server = "starting"
  /\ workers \in PoolSizes
  /\ jobs = <<>>
  /\ stage = [c \in Connections |-> "new"]
  /\ client = [c \in Connections |-> "reading"]
  /\ requests = [c \in Connections |-> 0]
  /\ format = [c \in Connections |-> "none"]
  /\ split = [c \in Connections |-> FALSE]
  /\ mutex = NoOne
  /\ made = [c \in Connections |-> 0]
  /\ kept = [c \in Connections |-> FALSE]
  /\ begun = [c \in Connections |-> FALSE]
  /\ rc = [c \in Connections |-> "none"]
  /\ answer = [c \in Connections |-> "none"]
  /\ wasted = [c \in Connections |-> 0]
  /\ lateWrites = [c \in Connections |-> 0]

(* listen() binds, or fails: then main frees the context and exits.        *)
Listen ==
  /\ server = "starting"
  /\ server' \in {"listening", "freed"}
  /\ UNCHANGED <<workers, jobs, stage, client, requests, perRequest, mutex>>

(* SIGINT or SIGTERM: tts_on_signal closes the listening socket.           *)
Signal ==
  /\ server = "listening"
  /\ server' = "draining"
  /\ UNCHANGED <<workers, jobs, stage, client, requests, perRequest, mutex>>

DrainedBug == jobs = <<>>   \* does not join the workers

(* The pool's shutdown serves the queued connections and joins the workers.*)
Drained == jobs = <<>> /\ Busy = {}

(* listen() returns and main calls qt_free. *)
FreeContext ==
  /\ server = "draining"
  /\ Drained
  /\ server' = "freed"
  /\ UNCHANGED <<workers, jobs, stage, client, requests, perRequest, mutex>>

Exited == server = "freed" /\ UNCHANGED vars
-----------------------------------------------------------------------------
Accept(c) ==
  /\ server = "listening"
  /\ stage[c] = "new"
  /\ jobs' = Append(jobs, c)
  /\ GoesTo(c, "queued")
  /\ UNCHANGED <<server, workers, client, requests, perRequest, mutex>>

TakeJob ==
  /\ jobs # <<>>
  /\ Cardinality(Busy) < workers
  /\ GoesTo(Head(jobs), "idle")
  /\ jobs' = Tail(jobs)
  /\ UNCHANGED <<server, workers, client, requests, perRequest, mutex>>

KeepAliveEndsBug(c) == stage[c] = "idle" /\ client[c] = "gone"

(* No further request comes: the keep-alive timeout, the end of the        *)
(* connection, or the listening socket closed.                             *)
KeepAliveEnds(c) == stage[c] = "idle"

(* The handler of a request returns: its buffer, its status and what it    *)
(* captured go out of scope.                                               *)
RequestOver(c) ==
  /\ format' = [format EXCEPT ![c] = "none"]
  /\ split' = [split EXCEPT ![c] = FALSE]
  /\ made' = [made EXCEPT ![c] = 0]
  /\ kept' = [kept EXCEPT ![c] = FALSE]
  /\ begun' = [begun EXCEPT ![c] = FALSE]
  /\ rc' = [rc EXCEPT ![c] = "none"]
  /\ wasted' = [wasted EXCEPT ![c] = 0]
  /\ lateWrites' = [lateWrites EXCEPT ![c] = 0]

(* The worker closes the socket; nothing is left of the connection.        *)
Close(c) ==
  /\ RequestOver(c)
  /\ GoesTo(c, "closed")
  /\ client' = [client EXCEPT ![c] = "gone"]
  /\ requests' = [requests EXCEPT ![c] = 0]
  /\ answer' = [answer EXCEPT ![c] = "none"]

Hangup(c) ==
  /\ KeepAliveEnds(c)
  /\ Close(c)
  /\ UNCHANGED <<server, workers, jobs, mutex>>

MoreRequestsBug(c) == requests[c] <= MaxRequests

(* A connection carries a limited number of requests. *)
MoreRequests(c) == requests[c] < MaxRequests

(* A request was read, body included. *)
Arrive(c) ==
  /\ stage[c] = "idle"
  /\ client[c] # "gone"
  /\ MoreRequests(c)
  /\ requests' = [requests EXCEPT ![c] = @ + 1]
  /\ \E f \in Formats \ {"none"} : format' = [format EXCEPT ![c] = f]
  /\ answer' = [answer EXCEPT ![c] = "none"]
  /\ GoesTo(c, "handling")
  /\ UNCHANGED <<server, workers, jobs, client, synthesis, mutex>>

(* Every handler that needs no synthesis: GET /health, /v1/voices, ..., and*)
(* a speech request that does not parse or names an unknown voice.         *)
HandleOther(c) ==
  /\ stage[c] = "handling"
  /\ rc' = [rc EXCEPT ![c] = IF format[c] = "other" THEN "OK" ELSE "REFUSED"]
  /\ GoesTo(c, "answering")
  /\ UNCHANGED <<server, workers, jobs, client, requests, format, split, made, kept, begun,
                 answer, wasted, lateWrites, mutex>>

(* A wav request reaches its lock_guard. *)
HandleWav(c) ==
  /\ stage[c] = "handling"
  /\ format[c] = "wav"
  /\ GoesTo(c, "locking")
  /\ UNCHANGED <<server, workers, jobs, client, requests, perRequest, mutex>>

(* write_content_chunked starts no provider while the server stops or once *)
(* the peer has closed; before that, its headers may not go out.           *)
StreamRefused(c) == server # "listening" \/ client[c] = "leaving" \/ WriteFails(c)

(* A pcm request: the headers go out, then the chunked provider runs up to *)
(* its lock_guard, unless the server is stopping or the client left.       *)
HandlePcm(c) ==
  /\ stage[c] = "handling"
  /\ format[c] = "pcm"
  /\ \/ /\ server = "listening" /\ client[c] = "reading"
        /\ GoesTo(c, "locking")
        /\ UNCHANGED <<client, requests, perRequest>>
     \/ /\ StreamRefused(c)
        /\ Close(c)
  /\ UNCHANGED <<server, workers, jobs, mutex>>
-----------------------------------------------------------------------------
LockIsFreeBug(c) == mutex = NoOne \/ format[c] = "pcm"   \* the provider takes no lock

LockIsFree(c) == mutex = NoOne

(* std::mutex lets any of the waiting threads in.  be.synthesize begins: a *)
(* text longer than split_chars makes several pieces.  For a file that is  *)
(* left out: its sink is a buffer that takes all the trimmer lets through. *)
Lock(c) ==
  /\ stage[c] = "locking"
  /\ LockIsFree(c)
  /\ mutex' = c
  /\ GoesTo(c, "synthesizing")
  /\ \E long \in {FALSE, format[c] = "pcm"} : split' = [split EXCEPT ![c] = long]
  /\ UNCHANGED <<server, workers, jobs, client, requests, format, answer, made, kept,
                 begun, rc, wasted, lateWrites>>

(* be.synthesize returns, its trimmer and the lock_guard go out of scope; a*)
(* stream goes on to sink.done(), a file to its response.                  *)
Unlock(c, result) ==
  /\ rc' = [rc EXCEPT ![c] = result]
  /\ made' = [made EXCEPT ![c] = 0]
  /\ kept' = [kept EXCEPT ![c] = FALSE]
  /\ mutex' = NoOne
  /\ GoesTo(c, IF format[c] = "wav" THEN "answering" ELSE "finishing")

SinkSaysBug(c) == {TRUE}   \* the result of sink.write is dropped

(* What a sink may return: a buffer takes every block, a socket may fail.  *)
SinkSays(c) ==
  IF format[c] = "wav" THEN {TRUE}
  ELSE {ok \in BOOLEAN : IF ok THEN WriteTaken(c) ELSE WriteFails(c)}

(* A stream whose client is gone. *)
Abandoned(c) == format[c] = "pcm" /\ client[c] = "gone"

(* Audio reaches the sink; one that returns false cancels the synthesis of *)
(* the piece, and with it the pieces that were to follow.  Otherwise the   *)
(* trimmer of a split text may have more of what was made so far.  What it *)
(* passes on of one push in several writes is one here.                    *)
Write(c, blocks) ==
  /\ lateWrites' = [lateWrites EXCEPT ![c] = IF Abandoned(c) THEN @ + 1 ELSE @]
  /\ \/ /\ TRUE \in SinkSays(c)
        /\ begun' = [begun EXCEPT ![c] = TRUE]
        /\ made' = [made EXCEPT ![c] = blocks]
        /\ \E more \in {FALSE, split[c]} : kept' = [kept EXCEPT ![c] = more]
        /\ UNCHANGED <<rc, mutex, stage>>
     \/ /\ FALSE \in SinkSays(c)
        /\ Unlock(c, "CANCELLED")
        /\ UNCHANGED begun

(* join_trimmer takes the block and returns true without a call of the     *)
(* sink: silence before the speech of a later piece, silence after the     *)
(* speech of any but the last.                                             *)
KeepBack(c, blocks) ==
  /\ split[c]
  /\ made' = [made EXCEPT ![c] = blocks]
  /\ kept' = [kept EXCEPT ![c] = TRUE]
  /\ UNCHANGED <<begun, lateWrites, rc, mutex, stage>>

(* on_chunk with one more block: the sink's itself, or the trimmer's. *)
Push(c) ==
  /\ stage[c] = "synthesizing"
  /\ made[c] < MaxBlocks
  /\ wasted' = [wasted EXCEPT ![c] = IF Abandoned(c) THEN @ + 1 ELSE @]
  /\ Write(c, made[c] + 1) \/ KeepBack(c, made[c] + 1)
  /\ UNCHANGED <<server, workers, jobs, client, requests, format, split, answer>>

(* end_piece and the begin_piece of the next: of the silence that was kept *)
(* some is written, or all of it is dropped.                               *)
EndPiece(c) ==
  /\ stage[c] = "synthesizing"
  /\ kept[c]
  /\ \/ Write(c, made[c]) /\ ~kept'[c]
     \/ /\ kept' = [kept EXCEPT ![c] = FALSE]
        /\ UNCHANGED <<made, begun, lateWrites, rc, mutex, stage>>
  /\ UNCHANGED <<server, workers, jobs, client, requests, format, split, answer, wasted>>

(* qt_synthesize has returned for the last piece and its end_piece is done,*)
(* or it has failed for one of them.                                       *)
EndSynthesis(c) ==
  /\ stage[c] = "synthesizing"
  /\ \/ Unlock(c, "OK") /\ ~kept[c]
     \/ Unlock(c, "FAILED")
  /\ UNCHANGED <<server, workers, jobs, client, requests, format, split, begun, answer,
                 wasted, lateWrites>>

(* The answer was written in full; its worker waits for the next request.  *)
Answered(c, a) ==
  /\ RequestOver(c)
  /\ answer' = [answer EXCEPT ![c] = a]
  /\ GoesTo(c, "idle")
  /\ UNCHANGED <<client, requests>>

(* The response is written in one go, outside the lock. *)
Respond(c) ==
  /\ stage[c] = "answering"
  /\ \/ WriteTaken(c) /\ Answered(c, IF rc[c] = "OK" THEN "whole" ELSE "error")
     \/ WriteFails(c) /\ Close(c)
  /\ UNCHANGED <<server, workers, jobs, mutex>>

(* sink.done() writes the last chunk whatever the synthesis returned; it   *)
(* does nothing once a write has failed.                                   *)
FinishStream(c) ==
  /\ stage[c] = "finishing"
  /\ \/ rc[c] # "CANCELLED" /\ WriteTaken(c) /\ Answered(c, "whole")
     \/ (rc[c] = "CANCELLED" \/ WriteFails(c)) /\ Close(c)
  /\ UNCHANGED <<server, workers, jobs, mutex>>

(* The client stops reading, reads again, closes, or is found to be gone.  *)
ClientMoves(c) ==
  /\ stage[c] \notin {"new", "closed"}
  /\ \E to \in Clients :
       /\ <<client[c], to>> \in {<<"reading", "stalled">>, <<"stalled", "reading">>,
                                 <<"reading", "leaving">>, <<"stalled", "leaving">>,
                                 <<"leaving", "gone">>}
       /\ client' = [client EXCEPT ![c] = to]
  /\ UNCHANGED <<server, workers, jobs, stage, requests, perRequest, mutex>>
-----------------------------------------------------------------------------
(* What the worker of a connection does by itself. *)
Serve(c) ==
  \/ Hangup(c) \/ HandleOther(c) \/ HandleWav(c) \/ HandlePcm(c)
  \/ Lock(c) \/ Push(c) \/ EndPiece(c) \/ EndSynthesis(c)
  \/ Respond(c) \/ FinishStream(c)

Next ==
  \/ Listen \/ Signal \/ FreeContext \/ TakeJob
  \/ \E c \in Connections : Accept(c) \/ Arrive(c) \/ Serve(c) \/ ClientMoves(c)
  \/ Exited

Spec == Init /\ [][Next]_vars

(* Threads that can run do run; a waiting thread gets the mutex if it stays*)
(* free.  Nothing is assumed of the clients.                               *)
Fairness ==
  /\ WF_vars(TakeJob) /\ WF_vars(FreeContext)
  /\ \A c \in Connections : WF_vars(Serve(c))

FairSpec == Spec /\ Fairness
-----------------------------------------------------------------------------
TypeOK ==
  /\ server \in {"starting", "listening", "draining", "freed"}
  /\ workers \in PoolSizes
  /\ jobs \in Seq(Connections)
  /\ stage \in [Connections -> Stages]
  /\ client \in [Connections -> Clients]
  /\ requests \in [Connections -> 0..MaxRequests]
  /\ format \in [Connections -> Formats]
  /\ mutex \in Connections \union {NoOne}
  /\ <<split, kept, begun>> \in [Connections -> BOOLEAN] \X [Connections -> BOOLEAN]
                                \X [Connections -> BOOLEAN]
  /\ made \in [Connections -> 0..MaxBlocks]
  /\ rc \in [Connections -> Results]
  /\ answer \in [Connections -> Answers]
  /\ wasted \in [Connections -> Nat]
  /\ lateWrites \in [Connections -> Nat]

(* "Single GPU context" (tts-server.h line 71): at most one connection     *)
(* synthesizes, and it is the one that holds the mutex.  A wav response is *)
(* written without it; a stream is written under it, so that one whose     *)
(* client is slow keeps the others waiting.                                *)
OneSynthesisAtATime == \A c \in Connections : stage[c] = "synthesizing" <=> mutex = c

(* qt_free comes last: once the context is freed no worker serves a        *)
(* connection, none is queued, and so no synthesis will touch it again.    *)
ContextFreedLast ==
  server = "freed" => jobs = <<>> /\ Busy = {} /\ mutex = NoOne

(* A stream nobody reads frees the GPU (tts-server.h lines 258-260): the   *)
(* first write to a client that is gone is the last, and the synthesis is  *)
(* over with it, the pieces that were to follow included.  Of a text in    *)
(* one piece every block is written, so at most one is synthesized in vain;*)
(* of a split text the silence join_trimmer keeps back comes on top.       *)
AbandonedStreamStops ==
  \A c \in Connections :
    /\ lateWrites[c] > 0 => lateWrites[c] = 1 /\ stage[c] # "synthesizing"
    /\ ~split[c] => wasted[c] <= 1

(* Whatever the clients do, and whoever holds the mutex meanwhile, an      *)
(* accepted connection is served to its end and gives its worker back.     *)
EveryConnectionEnds ==
  \A c \in Connections : stage[c] = "queued" ~> stage[c] = "closed"

(* SIGTERM ends the process: running and queued requests drain, then the   *)
(* context is freed.                                                       *)
DrainCompletes == server = "draining" ~> server = "freed"

(* "once the stream starts the 200 header is already out and a failure can *)
(* only end in an empty body" (tts-server.h lines 191-193).                *)
FailureEndsInEmptyBody ==
  [][\A c \in Connections :
       format[c] = "pcm" /\ rc[c] = "FAILED" /\ begun[c] => answer'[c] # "whole"]_vars
=============================================================================
