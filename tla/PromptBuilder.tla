----------------------------- MODULE PromptBuilder -----------------------------
(***************************************************************************)
(* The prompt builder and its prefix cache (src/src/prompt-builder.h).     *)
(* The head of a prompt, from the instruction to the end of the codec      *)
(* prefill, costs a pass of the network; it is kept for the next request   *)
(* that has the same one.  The rows of a prompt are pairs of a text and a  *)
(* codec token whose embeddings the code adds; "none" is no codec part.    *)
(* The builder runs under the synthesis mutex, one request at a time.      *)
(***************************************************************************)
EXTENDS PromptRequest

CONSTANT MaxEntries   \* max_prefix_entries

ASSUME CacheAssumption == MaxEntries \in Nat

VARIABLES
  prefix_entries,   \* the cache: [key, rows], oldest first
  request,          \* the request being built or built last
  phase,            \* where prompt_builder_build is, or how it ended
  rows,             \* input_embed up to row
  overlay           \* trailing_text_hidden

vars == <<prefix_entries, request, phase, rows, overlay>>

Phases == {"none", "prefix", "body", "built", "failed", "layout error"}

(* A voice is not part of the key, so a prompt with one is not cached. *)
Cacheable(r) == ~Icl(r) /\ r.voice = Nothing

(* The code writes the three parts into a string, with labels, separators  *)
(* and decimal numbers: two keys are equal when the parts are.             *)
KeyBug(r) == [instruct |-> r.instruct, role |-> <<>>, codec |-> CodecLeft(r)]
Key(r) == [instruct |-> r.instruct, role |-> r.role, codec |-> CodecLeft(r)]

TextRow(t) == [text |-> t, codec |-> "none"]
PaddedRow(t) == [text |-> t, codec |-> "codec_pad"]

(* Instruction and role have no codec part. *)
HeadRows(r) ==
  [i \in 1 .. Len(r.instruct) + 3 |-> TextRow((r.instruct \o r.role)[i])]

CodecRow(t, c, voice) == [text |-> t, codec |-> IF c = VoiceSlot THEN voice ELSE c]

(* The codec prefill, against padding that ends in tts_bos. *)
CodecRows(r) ==
  LET left == CodecLeft(r) IN
  [i \in DOMAIN left |->
     CodecRow(IF i = Len(left) THEN "tts_bos" ELSE "tts_pad", left[i], r.voice)]

Prefix(r) == HeadRows(r) \o CodecRows(r)

(* The utterance beside codec padding, the end of the text, codec_bos. *)
StandardRows(r) ==
  [i \in DOMAIN r.words |-> PaddedRow(r.words[i])]
    \o <<PaddedRow("tts_eos"), [text |-> "tts_pad", codec |-> "codec_bos"]>>

(* Mode B: reference text and utterance, cut or padded to the codes. *)
IclText(r) == r.ref \o r.words \o <<"tts_eos">>
IclCodec(r) == <<"codec_bos">> \o r.codes
IclRows(r) ==
  [i \in DOMAIN IclCodec(r) |->
     [text |-> IF i <= Len(IclText(r)) THEN IclText(r)[i] ELSE "tts_pad",
      codec |-> IclCodec(r)[i]]]

(* trailing_text_hidden: what of the text the codes left out. *)
TrailingBug(r) ==
  IF Icl(r) /\ Len(IclText(r)) > Len(IclCodec(r))
  THEN SubSeq(IclText(r), Len(IclCodec(r)), Len(IclText(r)))
  ELSE <<"tts_pad">>
Trailing(r) ==
  IF Icl(r) /\ Len(IclText(r)) > Len(IclCodec(r))
  THEN SubSeq(IclText(r), Len(IclCodec(r)) + 1, Len(IclText(r)))
  ELSE <<"tts_pad">>

(* The rows the output buffer is made for, n_pad_pre + 1 of them codec_left*)
ContextBug(r) ==
  Len(r.instruct) + 3 + Len(CodecLeft(r))
    + (IF Icl(r) THEN Len(IclText(r)) ELSE Len(r.words) + 1 + 1)
Context(r) ==
  Len(r.instruct) + 3 + Len(CodecLeft(r))
    + (IF Icl(r) THEN 1 + Len(r.codes) ELSE Len(r.words) + 1 + 1)

(* prompt_prefix_cache_find: the first entry with the key. *)
Hits(k) == {i \in DOMAIN prefix_entries : prefix_entries[i].key = k}
First(indices) == CHOOSE i \in indices : \A j \in indices : i <= j

(* The entries that stay when one is added: the oldest make room. *)
YoungestBug == prefix_entries
Youngest ==
  IF Len(prefix_entries) < MaxEntries THEN prefix_entries
  ELSE SubSeq(prefix_entries, Len(prefix_entries) - MaxEntries + 2, Len(prefix_entries))

(* prompt_prefix_cache_store. *)
Store(k, data) ==
  IF MaxEntries = 0 THEN prefix_entries
  ELSE IF Hits(k) # {} THEN [prefix_entries EXCEPT ![First(Hits(k))].rows = data]
  ELSE Append(Youngest, [key |-> k, rows |-> data])
-----------------------------------------------------------------------------
Init ==
  /\ prefix_entries = <<>>
  /\ request \in Requests
  /\ phase = "none"
  /\ rows = <<>>
  /\ overlay = <<>>

(* prompt_builder_build up to the tokens of the prompt. *)
Begin(r) ==
  /\ phase \notin {"prefix", "body"}
  /\ request' = r
  /\ phase' = IF Refused(r) THEN "failed" ELSE "prefix"
  /\ rows' = <<>>
  /\ overlay' = <<>>
  /\ UNCHANGED prefix_entries

Hit == Cacheable(request) /\ Hits(Key(request)) # {}

(* prefix_hit: the cached rows are copied. *)
CopyPrefix ==
  /\ phase = "prefix" /\ Hit
  /\ rows' = prefix_entries[First(Hits(Key(request)))].rows
  /\ phase' = "body"
  /\ UNCHANGED <<prefix_entries, request, overlay>>

(* No hit: the rows are computed, and kept when they may be. *)
ComputePrefix ==
  /\ phase = "prefix" /\ ~Hit
  /\ rows' = Prefix(request)
  /\ prefix_entries' =
       IF Cacheable(request) THEN Store(Key(request), rows') ELSE prefix_entries
  /\ phase' = "body"
  /\ UNCHANGED <<request, overlay>>

(* The rest of the prompt, and the check that the buffer is full. *)
Finish ==
  /\ phase = "body"
  /\ rows' = rows \o (IF Icl(request) THEN IclRows(request) ELSE StandardRows(request))
  /\ overlay' = Trailing(request)
  /\ phase' = IF Len(rows') = Context(request) THEN "built" ELSE "layout error"
  /\ UNCHANGED <<prefix_entries, request>>

(* A projection fails on the backend: before the rows are kept when there  *)
(* is no hit, or after the prefix.                                         *)
Throw ==
  /\ phase = "body" \/ (phase = "prefix" /\ ~Hit)
  /\ phase' = "failed"
  /\ UNCHANGED <<prefix_entries, request, rows, overlay>>

Next ==
  \/ \E r \in Requests : Begin(r)
  \/ CopyPrefix
  \/ ComputePrefix
  \/ Finish
  \/ Throw

Spec == Init /\ [][Next]_vars
-----------------------------------------------------------------------------
Row(codecs) == [text : Symbols, codec : codecs]

(* The state has its types, the cache never outgrows its 16 entries, and   *)
(* what it keeps names no voice.                                           *)
TypeOK ==
  /\ request \in Requests
  /\ phase \in Phases
  /\ rows \in Seq(Row(Symbols \cup {request.voice}))
  /\ overlay \in Seq(Symbols)
  /\ Len(prefix_entries) <= MaxEntries
  /\ \A i \in DOMAIN prefix_entries : prefix_entries[i].rows \in Seq(Row(Symbols))

(* Transparency of the cache (lines 593-601): the prefix a request goes on *)
(* with is the one it would compute, whichever requests filled, evicted or *)
(* failed before it.  A key that forgot an input, or a voice kept under a  *)
(* key that does not name it, would speak with another voice.              *)
PrefixIsFresh == phase = "body" => rows = Prefix(request)

(* The code's own check (line 747): the blocks add up to the buffer that   *)
(* was sized before any of them was written.                               *)
LayoutAddsUp == phase # "layout error"

(* The rows and the overlay are the two streams of the request side by     *)
(* side: each word is spoken once, in its place (lines 367-778).           *)
outcome ==
  IF phase \in {"prefix", "body"} THEN "building"
  ELSE IF phase = "layout error" THEN "failed" ELSE phase
prompt == IF phase = "built" THEN rows ELSE <<>>
Streams == INSTANCE PromptStreams
BuildsStreams == Streams!Spec
=============================================================================
