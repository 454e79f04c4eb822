------------------------------- MODULE PcmPlayer -------------------------------
(***************************************************************************)
(* The player of the web UI (src/webui/src/lib/pcmPlayer.ts): samples wait *)
(* in `pending` until playback starts, then go to the audio context in     *)
(* blocks, each scheduled where the one before it ends.  A player is a     *)
(* record and a method a function of it and of the context's clock, which  *)
(* counts samples.  Web Audio is there and its context runs: pause and     *)
(* resume are left out.                                                    *)
(***************************************************************************)
EXTENDS Integers, Sequences, FiniteSetsExt

CONSTANTS
  MaxSource,  \* MAX_SOURCE_SAMPLES: samples of a block, at most
  StartLead,  \* from start() to the first block (80 ms)
  LateLead    \* from now to a block that comes too late (30 ms)

ASSUME PlayerAssumption ==
  /\ MaxSource \in Nat \ {0}
  /\ StartLead \in Nat \ {0} /\ LateLead \in Nat \ {0}

(* blocks: those given to the context that is open, and when they start;   *)
(* over: how many of them have reported their end.  The last block is      *)
(* lastSource.  pushed: the samples pushed so far; given: those pushed     *)
(* before the last stop().  reports: calls of the callback.                *)
Player(Sample, Clock) ==
  [ctx: BOOLEAN, pending: Seq(Sample), nextTime: Clock, started: BOOLEAN, ended: BOOLEAN,
   blocks: Seq([at: Clock, sound: Seq(Sample)]), over: Nat, onended: BOOLEAN,
   pushed: Nat, given: Nat, reports: Nat]

NewPlayer ==
  [ctx |-> FALSE, pending |-> <<>>, nextTime |-> 0, started |-> FALSE, ended |-> FALSE,
   blocks |-> <<>>, over |-> 0, onended |-> FALSE, pushed |-> 0, given |-> 0,
   reports |-> 0]

EndOf(block) == block.at + Len(block.sound)
-----------------------------------------------------------------------------
TakeBug(n) == n   \* a block takes whatever waits

Take(n) == Min({n, MaxSource})

(* How many blocks n samples make. *)
BlocksOf(n) == IF n = 0 THEN 0 ELSE (n + Take(n) - 1) \div Take(n)

NotBeforeBug(t, now) == t   \* a block that comes too late is not moved

(* "Never schedule into the past." *)
NotBefore(t, now) == IF t < now THEN now + LateLead ELSE t

scheduleBlock(p, now) ==
  LET first == NotBefore(p.nextTime, now)
      size == Take(Len(p.pending))
      Block(k) == [at |-> first + (k - 1) * size,
                   sound |-> SubSeq(p.pending, (k - 1) * size + 1,
                                    Min({k * size, Len(p.pending)}))]
  IN [p EXCEPT !.pending = <<>>,
               !.nextTime = first + Len(p.pending),
               !.blocks = @ \o [k \in 1 .. BlocksOf(Len(p.pending)) |-> Block(k)]]

push(p, samples, now) ==
  LET fed == [p EXCEPT !.pending = @ \o samples, !.pushed = @ + Len(samples),
                       !.ctx = TRUE]
  IN IF samples = <<>> THEN p
     ELSE IF p.started THEN scheduleBlock(fed, now) ELSE fed

start(p, now) ==
  IF p.started \/ p.pending = <<>> THEN [p EXCEPT !.ctx = TRUE]
  ELSE scheduleBlock([p EXCEPT !.ctx = TRUE, !.started = TRUE,
                               !.nextTime = now + StartLead], now)

Report(p) == [p EXCEPT !.reports = IF p.onended THEN @ + 1 ELSE @]

markEnded(p, now) ==
  LET q == [p EXCEPT !.ended = TRUE]
      drained == IF q.started THEN scheduleBlock(q, now) ELSE start(q, now)
  IN IF drained.started THEN drained ELSE Report(drained)

setOnEnded(p) == [p EXCEPT !.onended = TRUE]

(* The context is closed: what it had been given no longer sounds and      *)
(* reports nothing.                                                        *)
stop(p) ==
  [NewPlayer EXCEPT !.onended = p.onended, !.reports = p.reports,
                    !.pushed = p.pushed, !.given = p.pushed]

(* The next block has sounded. *)
SourceOver(p, now) ==
  p.over < Len(p.blocks) /\ EndOf(p.blocks[p.over + 1]) <= now

LastHeardBug(p) == p.ended   \* any block, not lastSource

(* src === this.lastSource && this.ended && this.pending.length === 0 *)
LastHeard(p) == p.over + 1 = Len(p.blocks) /\ p.ended /\ p.pending = <<>>

sourceOnEnded(p) ==
  LET q == [p EXCEPT !.over = @ + 1]
  IN IF LastHeard(p) THEN Report([q EXCEPT !.started = FALSE]) ELSE q
=============================================================================
