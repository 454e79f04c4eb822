----------------------------- MODULE PromptRequest -----------------------------
(***************************************************************************)
(* What a synthesis request says to the prompt builder, and how the builder*)
(* reads it (src/src/prompt-builder.h, prompt_builder_build, lines         *)
(* 367-562): the language, the speaker and their dialect are looked up in  *)
(* the tables of the model, and the codec prefill is made of their tokens. *)
(*                                                                         *)
(* Tokens, names and embeddings are opaque values.  Names are taken in     *)
(* lower case already, and tokenization has happened: a text is the        *)
(* sequence of its tokens without the role tokens around it.  The third    *)
(* role token stands in the request because BPE merges the newline before  *)
(* the utterance with the newlines the utterance begins with.              *)
(***************************************************************************)
EXTENDS Integers, Sequences

CONSTANTS
  Tokens,     \* of texts, reference codes, languages and speakers
  Requests,   \* [role, words, instruct, lang, speaker, voice, ref, codes]
  Languages,  \* the language table: a function from names to codec tokens
  Speakers,   \* the speaker table: from names to [id, dialect]
  Nothing     \* no speaker, no voice, no dialect, no reference text

(* The special tokens of the configuration, and "none", no codec part.     *)
Marks ==
  {"think", "nothink", "think_bos", "think_eos", "codec_pad", "codec_bos",
   "tts_pad", "tts_bos", "tts_eos", "none"}
Symbols == Tokens \cup Marks

(* Stands in the codec prefill for the voice of the request: -2 in the     *)
(* code, where no token is negative.                                       *)
VoiceSlot == "voice slot"

ASSUME RequestAssumption ==
  /\ \A r \in Requests :
       /\ r.role \in Seq(Tokens) /\ Len(r.role) = 3
       /\ r.words \in Seq(Tokens) /\ r.instruct \in Seq(Tokens)
       /\ r.ref \in Seq(Tokens) \cup {Nothing} /\ r.codes \in Seq(Tokens)
  /\ \A l \in DOMAIN Languages : Languages[l] \in Tokens
  /\ \A s \in DOMAIN Speakers : Speakers[s].id \in Tokens
  /\ VoiceSlot \notin Tokens
  /\ Nothing \notin DOMAIN Languages \cup DOMAIN Speakers

(* Voice clone mode B: a reference text and reference codes. *)
Icl(r) == r.ref # Nothing /\ r.codes # <<>>

(* The dialect of the speaker replaces the language when the request leaves*)
(* it open (auto) or says chinese.                                         *)
DialectApplies(r) ==
  /\ r.speaker # Nothing
  /\ Speakers[r.speaker].dialect # Nothing
  /\ r.lang \in {"chinese", "auto"}

LanguageName(r) ==
  IF DialectApplies(r) THEN Speakers[r.speaker].dialect ELSE r.lang

(* The refusals of lines 380 to 562, in any order: they all return false.  *)
(* The name the request gives must be known even when a dialect replaces it.*)
Refused(r) ==
  \/ r.speaker # Nothing /\ r.voice # Nothing
  \/ Icl(r) /\ r.voice = Nothing
  \/ r.words = <<>>
  \/ Icl(r) /\ r.ref = <<>>
  \/ r.lang # "auto" /\ r.lang \notin DOMAIN Languages
  \/ r.speaker # Nothing /\ r.speaker \notin DOMAIN Speakers
  \/ r.speaker \in DOMAIN Speakers /\ DialectApplies(r) /\ LanguageName(r) \notin DOMAIN Languages

Thinking(r) ==
  IF LanguageName(r) = "auto" THEN <<"nothink", "think_bos", "think_eos">>
  ELSE <<"think", "think_bos", Languages[LanguageName(r)], "think_eos">>

SpeakerSlot(r) ==
  IF r.speaker # Nothing THEN <<Speakers[r.speaker].id>>
  ELSE IF r.voice # Nothing THEN <<VoiceSlot>> ELSE <<>>

(* codec_left: the codec prefill and the padding that ends it. *)
CodecLeft(r) == Thinking(r) \o SpeakerSlot(r) \o <<"codec_pad">>
=============================================================================
