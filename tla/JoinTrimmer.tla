------------------------------ MODULE JoinTrimmer ------------------------------
(***************************************************************************)
(* The joins of a long text (src/tools/tts-server.cpp, lines               *)
(* 119-223 and 384-403).  A long text is synthesized piece by piece on one *)
(* stream; join_trimmer, between the pipeline and the client's sink,       *)
(* shortens the silence at the end of a piece and at the start of the next.*)
(*                                                                         *)
(* A sample is its position in its piece, loud or silent; a block is silent*)
(* when none of its samples is loud (the code compares its RMS with a      *)
(* threshold).  The fades only scale samples inside the silence and are    *)
(* left out.                                                               *)
(***************************************************************************)
EXTENDS Integers, Sequences, FiniteSets, SequencesExt

CONSTANTS
  Block,       \* kBlock
  LeadKeep,    \* lead_keep
  TrailKeep,   \* trail_keep
  MaxPieces,   \* bound: pieces of a text
  MaxSamples,  \* bound: samples of a piece
  MaxPush      \* bound: samples of one push

ASSUME TrimmerAssumption ==
  /\ Block \in Nat \ {0}
  /\ LeadKeep \in Nat
  /\ TrailKeep \in Nat
  /\ MaxPieces \in Nat /\ MaxPieces >= 2
  /\ MaxSamples \in Nat
  /\ MaxPush \in Nat \ {0}

VARIABLES
  pieces,      \* pieces the text was split into
  piece,       \* the current one, 0 before the first
  phase,       \* where the adapter's loop is
  status,      \* what it returned
  fed,         \* samples pushed in this piece
  loud,        \* those of them that are loud
  leading,
  hold_trail,
  spoke,
  pend,
  lead,
  held,
  out,         \* samples of this piece the sink took
  quiet,       \* silent samples it took since the last loud one
  join         \* silence that separated this piece from the speech before it

text == <<pieces, piece>>
input == <<fed, loud>>
flags == <<leading, hold_trail, spoke>>
output == <<out, quiet, join>>
vars == <<text, phase, status, input, flags, pend, lead, held, output>>

Phases == {"between", "synthesizing", "pushing", "ending", "cutting", "done"}

(* No loud sample was taken before this piece. *)
NoSpeechYet == -1

Silent(b) == Range(b) \cap loud = {}

(* Silent samples at the front of s, and those after its last loud one, or *)
(* after `before` if it has none.                                          *)
SilenceBefore(s) == Cardinality({i \in DOMAIN s : Silent(SubSeq(s, 1, i))})
SilenceAfter(before, s) ==
  IF ~Silent(s) THEN Cardinality({i \in DOMAIN s : Silent(SubSeq(s, i, Len(s)))})
  ELSE IF before = NoSpeechYet THEN before
  ELSE before + Len(s)
-----------------------------------------------------------------------------
Init ==
  /\ pieces \in 2..MaxPieces
  /\ piece = 0
  /\ phase = "between"
  /\ status = "none"
  /\ fed = 0
  /\ loud = {}
  /\ leading = FALSE
  /\ hold_trail = FALSE
  /\ spoke = FALSE
  /\ pend = <<>>
  /\ lead = <<>>
  /\ held = <<>>
  /\ out = <<>>
  /\ quiet = NoSpeechYet
  /\ join = 0

Return(s) == phase' = "done" /\ status' = s
Goto(p) == phase' = p /\ UNCHANGED status

(* begin_piece(k == 0, k + 1 == pieces.size()) *)
BeginPiece ==
  /\ phase = "between"
  /\ piece < pieces
  /\ piece' = piece + 1
  /\ leading' = (piece # 0)
  /\ hold_trail' = (piece' # pieces)
  /\ spoke' = FALSE
  /\ pend' = <<>> /\ lead' = <<>> /\ held' = <<>>
  /\ fed' = 0 /\ loud' = {}
  /\ out' = <<>> /\ join' = 0
  /\ Goto("synthesizing")
  /\ UNCHANGED <<pieces, quiet>>

AllSpoken ==
  /\ phase = "between"
  /\ piece = pieces
  /\ Return("OK")
  /\ UNCHANGED <<text, input, flags, pend, lead, held, output>>

(* push(s, n): the samples join the incomplete block. *)
Push ==
  /\ phase = "synthesizing"
  /\ \E n \in 1..MaxPush :
       /\ fed + n <= MaxSamples
       /\ fed' = fed + n
       /\ \E l \in SUBSET (fed+1 .. fed+n) : loud' = loud \union l
       /\ pend' = pend \o [i \in 1..n |-> fed + i]
  /\ Goto("pushing")
  /\ UNCHANGED <<text, flags, lead, held, output>>

SynthesisFails ==
  /\ phase = "synthesizing"
  /\ \E s \in {"CANCELLED", "FAILED"} : Return(s)
  /\ UNCHANGED <<text, input, flags, pend, lead, held, output>>

SynthesisEnds ==
  /\ phase = "synthesizing"
  /\ Goto("ending")
  /\ UNCHANGED <<text, input, flags, pend, lead, held, output>>
-----------------------------------------------------------------------------
(* The sink takes the samples s. *)
Takes(s) ==
  /\ out' = out \o s
  /\ quiet' = SilenceAfter(quiet, s)
  /\ join' = IF out = <<>> /\ quiet # NoSpeechYet THEN quiet + SilenceBefore(s) ELSE join

(* emit(a) then emit(b), going on to phase p if the sink takes them; an    *)
(* empty one does not reach the sink.                                      *)
Emit(a, b, p) ==
  \/ Takes(a \o b) /\ Goto(p)
  \/ a # <<>> /\ UNCHANGED output /\ Return("CANCELLED")
  \/ b # <<>> /\ Takes(a) /\ Return("CANCELLED")

RecentBug(s) == s   \* never forgets

(* The end of the lead-in silence, lead_keep samples of it. *)
Recent(s) == SubSeq(s, Len(s) - Min({Len(s), LeadKeep}) + 1, Len(s))

ReleasedBug == <<>>   \* drops the silence inside a piece

(* The silence held back goes out when speech resumes. *)
Released == held

(* block(b), then phase p.                                                 *)
LeadIn(b, p) ==   \* still before the first speech of a piece but the first
  /\ leading /\ Silent(b)
  /\ lead' = Recent(lead \o b)
  /\ Goto(p)
  /\ UNCHANGED <<leading, spoke, held, output>>

Hold(b, p) ==   \* silence after speech, perhaps the end of the piece
  /\ ~leading /\ Silent(b)
  /\ hold_trail /\ spoke
  /\ held' = held \o b
  /\ Goto(p)
  /\ UNCHANGED <<leading, spoke, lead, output>>

PassOn(b, p) ==
  /\ ~Silent(b) \/ (~leading /\ ~(hold_trail /\ spoke))
  /\ Emit(lead \o Released, b, p)
  /\ leading' = FALSE
  /\ spoke' = (spoke \/ ~Silent(b))
  /\ lead' = <<>> /\ held' = <<>>

TakeBlock(b, p) ==
  /\ LeadIn(b, p) \/ Hold(b, p) \/ PassOn(b, p)
  /\ UNCHANGED <<text, input, hold_trail>>

(* The loop of push over whole blocks. *)
NextBlock ==
  /\ phase = "pushing"
  /\ Len(pend) >= Block
  /\ pend' = SubSeq(pend, Block + 1, Len(pend))
  /\ TakeBlock(SubSeq(pend, 1, Block), "pushing")

PushReturns ==
  /\ phase = "pushing"
  /\ Len(pend) < Block
  /\ Goto("synthesizing")
  /\ UNCHANGED <<text, input, flags, pend, lead, held, output>>

RestBug == <<>>   \* forgets the incomplete block

(* The samples that do not fill a block. *)
Rest == pend

(* end_piece: the incomplete block is a block of its own ... *)
LastBlock ==
  /\ phase = "ending"
  /\ IF Rest = <<>>
       THEN /\ Goto("cutting")
            /\ UNCHANGED <<text, input, flags, lead, held, output>>
       ELSE TakeBlock(Rest, "cutting")
  /\ pend' = <<>>

KeptBug == held   \* no cut

(* ... and at most trail_keep of the silence at the end goes out. *)
Kept == SubSeq(held, 1, Min({Len(held), TrailKeep}))

CutTrail ==
  /\ phase = "cutting"
  /\ Emit(<<>>, Kept, "between")
  /\ held' = <<>>
  /\ UNCHANGED <<text, input, flags, pend, lead>>

Returned == phase = "done" /\ UNCHANGED vars

Next ==
  \/ BeginPiece \/ AllSpoken
  \/ Push \/ SynthesisFails \/ SynthesisEnds
  \/ NextBlock \/ PushReturns \/ LastBlock \/ CutTrail
  \/ Returned

Spec == Init /\ [][Next]_vars
-----------------------------------------------------------------------------
TypeOK ==
  /\ pieces \in 2..MaxPieces
  /\ piece \in 0..pieces
  /\ phase \in Phases
  /\ status \in {"none", "OK", "CANCELLED", "FAILED"}
  /\ fed \in 0..MaxSamples
  /\ loud \subseteq 1..fed
  /\ <<leading, hold_trail, spoke>> \in BOOLEAN \X BOOLEAN \X BOOLEAN
  /\ pend \in Seq(1..fed) /\ held \in Seq(1..fed) /\ out \in Seq(1..fed)
  /\ lead \in Seq(1..fed) /\ Len(lead) <= LeadKeep
  /\ quiet \in Int /\ join \in Nat

(* What the client hears of a piece is one slice of it: no silence inside  *)
(* a piece is dropped ("held back, not dropped", line 130), nothing is     *)
(* repeated or reordered, wherever the sink's samples were cut into pushes.*)
HearsASlice ==
  \A i \in DOMAIN out : out[i] = out[1] + i - 1

(* Every loud sample of a piece that ended well is heard, whatever was cut *)
(* around it.                                                              *)
HearsAllSpeech ==
  phase = "between" => loud \subseteq Range(out)

(* "keeps at most trail_keep of silence at the end of a piece and lead_keep*)
(* at the start of the next one" (lines 126-127): the silence between the  *)
(* speech of two pieces is that, and what is silent of the two blocks the  *)
(* speech ends and starts in, also when a piece in between has no speech.  *)
JoinIsShort ==
  join <= TrailKeep + LeadKeep + 2 * (Block - 1)
=============================================================================
