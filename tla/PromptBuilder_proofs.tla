-------------------------- MODULE PromptBuilder_proofs --------------------------
(***************************************************************************)
(* The prefix cache is transparent, the layout adds up and the rows of a   *)
(* prompt are the two streams of PromptStreams, for every set of requests, *)
(* every table and every size of the cache.                                *)
(***************************************************************************)
EXTENDS PromptBuilder, SequenceTheorems, WellFoundedInduction, TLAPS

-----------------------------------------------------------------------------
(* The streams, row by row.                                                *)

(* The two specifications read a request alike.                            *)
LEMMA SameReading ==
  ASSUME NEW r
  PROVE  /\ Streams!Icl(r) = Icl(r) /\ Streams!CodecLeft(r) = CodecLeft(r)
         /\ Streams!Refused(r) = Refused(r) /\ Streams!VoiceSlot = VoiceSlot
  BY DEF Streams!Icl, Icl, Streams!CodecLeft, CodecLeft, Streams!Thinking, Thinking,
         Streams!SpeakerSlot, SpeakerSlot, Streams!VoiceSlot, VoiceSlot,
         Streams!Refused, Refused, Streams!LanguageName, LanguageName,
         Streams!DialectApplies, DialectApplies

(* The prefill of a request that is not refused is of tokens, and of the   *)
(* slot where there is a voice.                                            *)
LEMMA PrefillTyped ==
  ASSUME NEW r \in Requests, ~Refused(r)
  PROVE  LET S == IF r.voice = Nothing THEN Symbols ELSE Symbols \cup {VoiceSlot} IN
         /\ CodecLeft(r) \in Seq(S)
         /\ Len(CodecLeft(r)) \in Nat \ {0}
<1> DEFINE S == IF r.voice = Nothing THEN Symbols ELSE Symbols \cup {VoiceSlot}
<1>1. /\ "nothink" \in S /\ "think_bos" \in S /\ "think_eos" \in S
      /\ "think" \in S /\ "codec_pad" \in S /\ Tokens \subseteq S
      /\ (r.voice # Nothing => VoiceSlot \in S)
  BY DEF Symbols, Marks
<1>2. LanguageName(r) # "auto" => LanguageName(r) \in DOMAIN Languages
  BY DEF Refused, LanguageName, DialectApplies
<1>3. r.speaker # Nothing => Speakers[r.speaker].id \in S
  BY <1>1, RequestAssumption DEF Refused
<1> HIDE DEF S
<1>4. Thinking(r) \in Seq(S) /\ Len(Thinking(r)) \in Nat
  <2>1. CASE LanguageName(r) = "auto"
    BY <1>1, <2>1 DEF Thinking
  <2>2. CASE LanguageName(r) # "auto"
    <3> DEFINE l == Languages[LanguageName(r)]
    <3>1. l \in S
      BY <1>1, <1>2, <2>2, RequestAssumption
    <3>2. Thinking(r) = <<"think", "think_bos", l, "think_eos">>
      BY <2>2 DEF Thinking
    <3> HIDE DEF l
    <3> QED
      BY <1>1, <3>1, <3>2
  <2> QED
    BY <2>1, <2>2
<1>5. SpeakerSlot(r) \in Seq(S) /\ Len(SpeakerSlot(r)) \in Nat
  <2> DEFINE s == Speakers[r.speaker].id
  <2>1. SpeakerSlot(r) = IF r.speaker # Nothing THEN <<s>>
                         ELSE IF r.voice # Nothing THEN <<VoiceSlot>> ELSE <<>>
    BY DEF SpeakerSlot
  <2>2. r.speaker # Nothing => s \in S
    BY <1>3
  <2> HIDE DEF s
  <2> QED
    BY <1>1, <2>1, <2>2
<1>6. <<"codec_pad">> \in Seq(S) /\ Len(<<"codec_pad">>) = 1
  BY <1>1
<1>7. CodecLeft(r) = (Thinking(r) \o SpeakerSlot(r)) \o <<"codec_pad">>
  BY DEF CodecLeft
<1> DEFINE a == Thinking(r)
           b == SpeakerSlot(r)
           c == <<"codec_pad">>
<1> HIDE DEF a, b, c
<1>8. a \o b \in Seq(S) /\ Len(a \o b) = Len(a) + Len(b)
  BY <1>4, <1>5, ConcatProperties DEF a, b
<1>9. (a \o b) \o c \in Seq(S) /\ Len((a \o b) \o c) = Len(a) + Len(b) + 1
  BY <1>6, <1>8, ConcatProperties DEF c
<1> QED
  BY <1>1, <1>4, <1>5, <1>7, <1>9 DEF S, a, b, c

(* What is before the codec prefill, and how many rows that takes.         *)
Opening(r) == r.instruct \o r.role
OpeningLen(r) == Len(r.instruct) + 3
PrefillLen(r) == Len(CodecLeft(r))

(* What is said after the prefill, and what beside it.                     *)
Said(r) == ((IF Icl(r) THEN r.ref ELSE <<>>) \o r.words) \o <<"tts_eos">>
Beside(r) ==
  IF Icl(r) THEN <<"codec_bos">> \o r.codes
  ELSE Streams!Repeat("codec_pad", Len(r.words) + 1) \o <<"codec_bos">>

(* A token over and over.                                                  *)
LEMMA RepeatIs ==
  ASSUME NEW S, NEW x \in S, NEW k \in Nat
  PROVE  /\ Streams!Repeat(x, k) \in Seq(S) /\ Len(Streams!Repeat(x, k)) = k
         /\ \A i \in 1 .. k : Streams!Repeat(x, k)[i] = x
  BY DEF Streams!Repeat

(* A sequence of one element.                                              *)
LEMMA OneIs ==
  ASSUME NEW S, NEW x \in S
  PROVE  <<x>> \in Seq(S) /\ Len(<<x>>) = 1 /\ <<x>>[1] = x
  OBVIOUS

(* Two sequences after each other, the second's elements by its own index. *)
LEMMA Halves ==
  ASSUME NEW S, NEW s \in Seq(S), NEW t \in Seq(S)
  PROVE  /\ s \o t \in Seq(S) /\ Len(s \o t) = Len(s) + Len(t)
         /\ \A i \in 1 .. Len(s) : (s \o t)[i] = s[i]
         /\ \A j \in 1 .. Len(t) : (s \o t)[Len(s) + j] = t[j]
<1>1. /\ s \o t \in Seq(S) /\ Len(s \o t) = Len(s) + Len(t)
      /\ \A i \in 1 .. Len(s) + Len(t) :
           (s \o t)[i] = IF i <= Len(s) THEN s[i] ELSE t[i - Len(s)]
  BY ConcatProperties
<1>2. Len(s) \in Nat /\ Len(t) \in Nat
  BY LenProperties
<1>3. ASSUME NEW i \in 1 .. Len(s) PROVE (s \o t)[i] = s[i]
  <2>1. i \in 1 .. Len(s) + Len(t) /\ i <= Len(s)
    BY <1>2
  <2> QED
    BY <1>1, <2>1
<1>4. ASSUME NEW j \in 1 .. Len(t) PROVE (s \o t)[Len(s) + j] = t[j]
  <2>1. /\ Len(s) + j \in 1 .. Len(s) + Len(t)
        /\ ~(Len(s) + j <= Len(s)) /\ Len(s) + j - Len(s) = j
    BY <1>2
  <2> QED
    BY <1>1, <2>1
<1> QED
  BY <1>1, <1>3, <1>4

(* A sequence and one more element.                                        *)
LEMMA OneMore ==
  ASSUME NEW S, NEW s \in Seq(S), NEW x \in S
  PROVE  /\ s \o <<x>> \in Seq(S) /\ Len(s \o <<x>>) = Len(s) + 1
         /\ \A i \in 1 .. Len(s) : (s \o <<x>>)[i] = s[i]
         /\ (s \o <<x>>)[Len(s) + 1] = x
<1> DEFINE t == <<x>>
<1>1. t \in Seq(S)
  OBVIOUS
<1>2. Len(t) = 1 /\ t[1] = x /\ 1 \in 1 .. 1
  OBVIOUS
<1> HIDE DEF t
<1>3. /\ s \o t \in Seq(S) /\ Len(s \o t) = Len(s) + Len(t)
      /\ \A i \in 1 .. Len(s) : (s \o t)[i] = s[i]
      /\ \A j \in 1 .. Len(t) : (s \o t)[Len(s) + j] = t[j]
  BY <1>1, Halves
<1>4. /\ s \o t \in Seq(S) /\ Len(s \o t) = Len(s) + 1
      /\ \A i \in 1 .. Len(s) : (s \o t)[i] = s[i]
      /\ (s \o t)[Len(s) + 1] = x
  BY <1>2, <1>3
<1> QED
  BY <1>4 DEF t

(* The tokens of a request and its lengths.                                *)
LEMMA RequestIs ==
  ASSUME NEW r \in Requests, ~Refused(r)
  PROVE  /\ r.instruct \in Seq(Symbols) /\ r.role \in Seq(Symbols) /\ Len(r.role) = 3
         /\ r.words \in Seq(Symbols) /\ r.codes \in Seq(Symbols)
         /\ Icl(r) => r.ref \in Seq(Symbols)
         /\ Opening(r) \in Seq(Symbols) /\ Len(Opening(r)) = OpeningLen(r)
         /\ OpeningLen(r) \in Nat /\ PrefillLen(r) \in Nat \ {0}
         /\ Marks \subseteq Symbols
<1>1. /\ r.instruct \in Seq(Tokens) /\ r.role \in Seq(Tokens) /\ Len(r.role) = 3
      /\ r.words \in Seq(Tokens) /\ r.codes \in Seq(Tokens)
      /\ Icl(r) => r.ref \in Seq(Tokens)
  BY RequestAssumption DEF Icl
<1>2. Tokens \subseteq Symbols /\ Marks \subseteq Symbols
  BY DEF Symbols
<1>3. /\ r.instruct \in Seq(Symbols) /\ r.role \in Seq(Symbols)
      /\ r.words \in Seq(Symbols) /\ r.codes \in Seq(Symbols)
      /\ Icl(r) => r.ref \in Seq(Symbols)
  BY <1>1, <1>2, SeqMonotonic
<1>4. /\ Opening(r) \in Seq(Symbols) /\ Len(Opening(r)) = OpeningLen(r) /\ OpeningLen(r) \in Nat
  <2> DEFINE a == r.instruct
             b == r.role
  <2>1. a \in Seq(Symbols) /\ b \in Seq(Symbols)
    BY <1>3
  <2>2. Opening(r) = a \o b /\ OpeningLen(r) = Len(a) + 3 /\ Len(b) = 3
    BY <1>1 DEF Opening, OpeningLen
  <2> HIDE DEF a, b
  <2>3. Len(a) \in Nat
    BY <2>1, LenProperties
  <2>4. a \o b \in Seq(Symbols) /\ Len(a \o b) = Len(a) + Len(b)
    BY <2>1, Halves
  <2> QED
    BY <2>2, <2>3, <2>4
<1> QED
  BY <1>1, <1>2, <1>3, <1>4, PrefillTyped DEF PrefillLen

(* The text stream, by rows.                                               *)
LEMMA TextIs ==
  ASSUME NEW r \in Requests, ~Refused(r)
  PROVE  LET n == OpeningLen(r)
             m == PrefillLen(r)
             u == Said(r)
             t == Streams!Text(r)
         IN /\ u \in Seq(Symbols) /\ t \in Seq(Symbols) /\ Len(t) = n + m + Len(u)
            /\ \A i \in 1 .. n : t[i] = Opening(r)[i]
            /\ \A j \in 1 .. m : t[n + j] = IF j = m THEN "tts_bos" ELSE "tts_pad"
            /\ \A j \in 1 .. Len(u) : t[n + m + j] = u[j]
            /\ Len(u) = IF Icl(r) THEN Len(r.ref) + Len(r.words) + 1 ELSE Len(r.words) + 1
            /\ ~Icl(r) => /\ \A j \in 1 .. Len(r.words) : u[j] = r.words[j]
                          /\ u[Len(r.words) + 1] = "tts_eos"
<1> DEFINE n == OpeningLen(r)
           m == PrefillLen(r)
           u == Said(r)
           t == Streams!Text(r)
           h == Opening(r)
           pad == Streams!Repeat("tts_pad", m - 1)
           bos == <<"tts_bos">>
           eos == <<"tts_eos">>
           ref == IF Icl(r) THEN r.ref ELSE <<>>
           w == r.words
           before == (h \o pad) \o bos
<1>1. /\ h \in Seq(Symbols) /\ Len(h) = n /\ n \in Nat /\ m \in Nat \ {0}
      /\ w \in Seq(Symbols) /\ ref \in Seq(Symbols)
  BY RequestIs
<1>2. "tts_pad" \in Symbols /\ "tts_bos" \in Symbols /\ "tts_eos" \in Symbols
  BY DEF Symbols, Marks
<1>3. /\ pad \in Seq(Symbols) /\ Len(pad) = m - 1 /\ m - 1 \in Nat /\ n + (m - 1) \in Nat
      /\ \A i \in 1 .. m - 1 : pad[i] = "tts_pad"
  <2>1. m - 1 \in Nat /\ n + (m - 1) \in Nat
    BY <1>1
  <2> QED
    BY <1>2, <2>1, RepeatIs
<1>4. /\ bos \in Seq(Symbols) /\ Len(bos) = 1 /\ bos[1] = "tts_bos"
      /\ eos \in Seq(Symbols) /\ Len(eos) = 1 /\ eos[1] = "tts_eos"
  BY <1>2, OneIs
<1>5. t = ((before \o ref) \o w) \o eos /\ u = (ref \o w) \o eos
  BY SameReading DEF Streams!Text, Said, Opening, PrefillLen
<1>6. w = r.words /\ ref = IF Icl(r) THEN r.ref ELSE <<>>
  OBVIOUS
<1> HIDE DEF h, n, m, u, t, pad, bos, eos, ref, w
<1>7. /\ h \o pad \in Seq(Symbols) /\ Len(h \o pad) = n + (m - 1)
      /\ \A i \in 1 .. n : (h \o pad)[i] = h[i]
      /\ \A j \in 1 .. m - 1 : (h \o pad)[n + j] = "tts_pad"
  <2>1. h \in Seq(Symbols) /\ pad \in Seq(Symbols)
    BY <1>1, <1>3
  <2>2. Len(h) = n /\ Len(pad) = m - 1
    BY <1>1, <1>3
  <2>3. /\ h \o pad \in Seq(Symbols) /\ Len(h \o pad) = Len(h) + Len(pad)
        /\ \A i \in 1 .. Len(h) : (h \o pad)[i] = h[i]
        /\ \A j \in 1 .. Len(pad) : (h \o pad)[Len(h) + j] = pad[j]
    BY <2>1, Halves
  <2>4. /\ h \o pad \in Seq(Symbols) /\ Len(h \o pad) = n + (m - 1)
        /\ \A i \in 1 .. n : (h \o pad)[i] = h[i]
        /\ \A j \in 1 .. m - 1 : (h \o pad)[n + j] = pad[j]
    BY <2>2, <2>3
  <2> QED
    BY <1>3, <2>4
<1>8. /\ before \in Seq(Symbols) /\ Len(before) = n + m
      /\ \A i \in 1 .. n + (m - 1) : before[i] = (h \o pad)[i]
      /\ before[n + m] = "tts_bos"
  <2> DEFINE v == h \o pad
  <2>1. v \in Seq(Symbols)
    BY <1>7
  <2>2. Len(v) = n + (m - 1) /\ n + (m - 1) + 1 = n + m
    BY <1>1, <1>7
  <2>3. before = v \o <<"tts_bos">>
    BY DEF bos
  <2> HIDE DEF v, before
  <2>4. /\ v \o <<"tts_bos">> \in Seq(Symbols) /\ Len(v \o <<"tts_bos">>) = Len(v) + 1
        /\ \A i \in 1 .. Len(v) : (v \o <<"tts_bos">>)[i] = v[i]
        /\ (v \o <<"tts_bos">>)[Len(v) + 1] = "tts_bos"
    BY <1>2, <2>1, OneMore
  <2>5. /\ before \in Seq(Symbols) /\ Len(before) = n + m
        /\ \A i \in 1 .. n + (m - 1) : before[i] = v[i]
        /\ before[n + m] = "tts_bos"
    BY <2>2, <2>3, <2>4
  <2> QED
    BY <2>5 DEF v
<1> HIDE DEF before
<1>9. /\ ref \o w \in Seq(Symbols) /\ Len(ref \o w) = Len(ref) + Len(w)
      /\ Len(ref) \in Nat /\ Len(w) \in Nat
  BY <1>1, ConcatProperties, LenProperties
<1>10. /\ u \in Seq(Symbols) /\ Len(u) = Len(ref) + Len(w) + 1
       /\ \A j \in 1 .. Len(ref) + Len(w) : u[j] = (ref \o w)[j]
       /\ u[Len(ref) + Len(w) + 1] = "tts_eos"
  <2> DEFINE v == ref \o w
  <2>1. v \in Seq(Symbols)
    BY <1>9
  <2>2. Len(v) = Len(ref) + Len(w)
    BY <1>9
  <2>3. u = v \o <<"tts_eos">>
    BY <1>5 DEF eos
  <2> HIDE DEF v
  <2>4. /\ v \o <<"tts_eos">> \in Seq(Symbols) /\ Len(v \o <<"tts_eos">>) = Len(v) + 1
        /\ \A i \in 1 .. Len(v) : (v \o <<"tts_eos">>)[i] = v[i]
        /\ (v \o <<"tts_eos">>)[Len(v) + 1] = "tts_eos"
    BY <1>2, <2>1, OneMore
  <2>5. /\ u \in Seq(Symbols) /\ Len(u) = Len(ref) + Len(w) + 1
        /\ \A j \in 1 .. Len(ref) + Len(w) : u[j] = v[j]
        /\ u[Len(ref) + Len(w) + 1] = "tts_eos"
    BY <2>2, <2>3, <2>4
  <2> QED
    BY <2>5 DEF v
<1>11. t = before \o u
  <2>1. /\ before \in Seq(Symbols) /\ ref \in Seq(Symbols) /\ w \in Seq(Symbols)
        /\ eos \in Seq(Symbols)
    BY <1>1, <1>4, <1>8
  <2>2. (before \o ref) \o w = before \o (ref \o w)
    BY <2>1, ConcatAssociative
  <2> DEFINE v == ref \o w
  <2>3. v \in Seq(Symbols)
    BY <1>9
  <2> HIDE DEF v
  <2>4. (before \o v) \o eos = before \o (v \o eos)
    BY <2>1, <2>3, ConcatAssociative
  <2> QED
    BY <1>5, <2>2, <2>4 DEF v
<1>12. /\ t \in Seq(Symbols) /\ Len(t) = n + m + Len(u)
       /\ \A i \in 1 .. n + m : t[i] = before[i]
       /\ \A j \in 1 .. Len(u) : t[n + m + j] = u[j]
  <2>1. before \in Seq(Symbols) /\ u \in Seq(Symbols)
    BY <1>8, <1>10
  <2>2. /\ before \o u \in Seq(Symbols) /\ Len(before \o u) = Len(before) + Len(u)
        /\ \A i \in 1 .. Len(before) : (before \o u)[i] = before[i]
        /\ \A j \in 1 .. Len(u) : (before \o u)[Len(before) + j] = u[j]
    BY <2>1, Halves
  <2>3. Len(before) = n + m
    BY <1>8
  <2> QED
    BY <1>11, <2>2, <2>3
<1>13. \A i \in 1 .. n : t[i] = h[i]
  <2> SUFFICES ASSUME NEW i \in 1 .. n PROVE t[i] = h[i]
    OBVIOUS
  <2>1. i \in 1 .. n + m /\ i \in 1 .. n + (m - 1)
    BY <1>1
  <2> QED
    BY <1>7, <1>8, <1>12, <2>1
<1>14. ASSUME NEW j \in 1 .. m PROVE t[n + j] = IF j = m THEN "tts_bos" ELSE "tts_pad"
  <2>1. n + j \in 1 .. n + m
    BY <1>1
  <2>2. CASE j = m
    BY <1>8, <1>12, <2>1, <2>2
  <2>3. CASE j # m
    <3>1. j \in 1 .. m - 1 /\ n + j \in 1 .. n + (m - 1)
      BY <1>1, <2>3
    <3> QED
      BY <1>7, <1>8, <1>12, <2>1, <2>3, <3>1
  <2> QED
    BY <2>2, <2>3
<1>15. ~Icl(r) => /\ \A j \in 1 .. Len(w) : u[j] = w[j]
                  /\ u[Len(w) + 1] = "tts_eos"
  <2> SUFFICES ASSUME ~Icl(r)
               PROVE  /\ \A j \in 1 .. Len(w) : u[j] = w[j]
                      /\ u[Len(w) + 1] = "tts_eos"
    OBVIOUS
  <2>1. ref = <<>> /\ Len(ref) = 0
    BY <1>6
  <2>2. ref \o w = w
    BY <1>1, <2>1, ConcatEmptySeq
  <2>3. Len(ref) + Len(w) = Len(w) /\ Len(ref) + Len(w) + 1 = Len(w) + 1
    BY <1>9, <2>1
  <2> QED
    BY <1>10, <2>2, <2>3
<1>16. Len(u) = IF Icl(r) THEN Len(r.ref) + Len(r.words) + 1 ELSE Len(r.words) + 1
  <2>1. CASE Icl(r)
    BY <1>6, <1>10, <2>1
  <2>2. CASE ~Icl(r)
    <3>1. Len(ref) = 0
      BY <1>6, <2>2
    <3> QED
      BY <1>6, <1>9, <1>10, <2>2, <3>1
  <2> QED
    BY <2>1, <2>2
<1> QED
  BY <1>6, <1>10, <1>12, <1>13, <1>14, <1>15, <1>16 DEF n, m, u, t, h

(* The codec stream, by rows.                                              *)
LEMMA CodecIs ==
  ASSUME NEW r \in Requests, ~Refused(r)
  PROVE  LET n == OpeningLen(r)
             m == PrefillLen(r)
             b == Beside(r)
             c == Streams!Codec(r)
         IN /\ b \in Seq(Symbols) /\ c \in Seq(Symbols \cup {r.voice})
            /\ Len(c) = n + m + Len(b)
            /\ \A i \in 1 .. n : c[i] = "none"
            /\ \A j \in 1 .. m :
                 c[n + j] = IF CodecLeft(r)[j] = VoiceSlot THEN r.voice ELSE CodecLeft(r)[j]
            /\ \A j \in 1 .. Len(b) : c[n + m + j] = b[j]
            /\ Len(b) = IF Icl(r) THEN 1 + Len(r.codes) ELSE Len(r.words) + 2
            /\ ~Icl(r) => /\ \A j \in 1 .. Len(r.words) + 1 : b[j] = "codec_pad"
                          /\ b[Len(r.words) + 2] = "codec_bos"
<1> DEFINE n == OpeningLen(r)
           m == PrefillLen(r)
           b == Beside(r)
           c == Streams!Codec(r)
           C == Symbols \cup {r.voice}
           none == Streams!Repeat("none", n)
           voiced == Streams!Voiced(r)
           bos == <<"codec_bos">>
           pad == Streams!Repeat("codec_pad", Len(r.words) + 1)
<1>1. /\ n \in Nat /\ m \in Nat \ {0} /\ r.codes \in Seq(Symbols) /\ r.words \in Seq(Symbols)
      /\ Len(r.words) \in Nat /\ Len(r.codes) \in Nat
  BY RequestIs
<1>2. "none" \in C /\ "codec_bos" \in Symbols /\ "codec_pad" \in Symbols
  BY DEF Symbols, Marks
<1>3. /\ none \in Seq(C) /\ Len(none) = n /\ \A i \in 1 .. n : none[i] = "none"
  <2> HIDE DEF C, n
  <2> QED
    BY <1>1, <1>2, RepeatIs
<1>4. voiced = [j \in 1 .. m |-> IF CodecLeft(r)[j] = VoiceSlot THEN r.voice
                                 ELSE CodecLeft(r)[j]]
  <2>1. DOMAIN CodecLeft(r) = 1 .. m
    BY PrefillTyped, LenProperties DEF PrefillLen
  <2>2. voiced = [j \in DOMAIN CodecLeft(r) |->
                    IF CodecLeft(r)[j] = VoiceSlot THEN r.voice ELSE CodecLeft(r)[j]]
    BY SameReading DEF Streams!Voiced
  <2> QED
    BY <2>1, <2>2
<1>5. voiced \in Seq(C) /\ Len(voiced) = m
  <2>1. ASSUME NEW j \in 1 .. m
        PROVE  (IF CodecLeft(r)[j] = VoiceSlot THEN r.voice ELSE CodecLeft(r)[j]) \in C
    <3>1. CodecLeft(r)[j] \in Symbols \cup {VoiceSlot}
      BY PrefillTyped, LenProperties DEF PrefillLen
    <3> QED
      BY <3>1
  <2> HIDE DEF C, voiced
  <2> QED
    BY <1>1, <1>4, <2>1
<1>6. bos \in Seq(Symbols) /\ Len(bos) = 1 /\ bos[1] = "codec_bos"
  BY <1>2, OneIs
<1>7. /\ pad \in Seq(Symbols) /\ Len(pad) = Len(r.words) + 1
      /\ \A i \in 1 .. Len(r.words) + 1 : pad[i] = "codec_pad"
  <2>1. Len(r.words) + 1 \in Nat
    BY <1>1
  <2> QED
    BY <1>2, <2>1, RepeatIs
<1>8. c = (none \o voiced) \o b /\ b = IF Icl(r) THEN bos \o r.codes ELSE pad \o bos
  BY SameReading DEF Streams!Codec, Beside, OpeningLen
<1> HIDE DEF n, m, b, c, none, voiced, bos, pad
<1>9. b \in Seq(Symbols) /\ Len(b) = IF Icl(r) THEN 1 + Len(r.codes) ELSE Len(r.words) + 2
  <2>1. /\ bos \o r.codes \in Seq(Symbols) /\ Len(bos \o r.codes) = Len(bos) + Len(r.codes)
        /\ pad \o bos \in Seq(Symbols) /\ Len(pad \o bos) = Len(pad) + Len(bos)
    BY <1>1, <1>6, <1>7, ConcatProperties
  <2>2. Len(pad) + Len(bos) = Len(r.words) + 2
    BY <1>1, <1>6, <1>7
  <2> QED
    BY <1>6, <1>8, <2>1, <2>2
<1>10. b \in Seq(C)
  BY <1>9, SeqMonotonic
<1> HIDE DEF C
<1>11. /\ none \o voiced \in Seq(C) /\ Len(none \o voiced) = n + m
       /\ \A i \in 1 .. n : (none \o voiced)[i] = none[i]
       /\ \A j \in 1 .. m : (none \o voiced)[n + j] = voiced[j]
  <2>1. none \in Seq(C) /\ voiced \in Seq(C)
    BY <1>3, <1>5
  <2>2. Len(none) = n /\ Len(voiced) = m
    BY <1>3, <1>5
  <2>3. /\ none \o voiced \in Seq(C) /\ Len(none \o voiced) = Len(none) + Len(voiced)
        /\ \A i \in 1 .. Len(none) : (none \o voiced)[i] = none[i]
        /\ \A j \in 1 .. Len(voiced) : (none \o voiced)[Len(none) + j] = voiced[j]
    BY <2>1, Halves
  <2> QED
    BY <2>2, <2>3
<1>12. /\ c \in Seq(C) /\ Len(c) = n + m + Len(b)
       /\ \A i \in 1 .. n + m : c[i] = (none \o voiced)[i]
       /\ \A j \in 1 .. Len(b) : c[n + m + j] = b[j]
  <2> DEFINE v == none \o voiced
  <2>1. v \in Seq(C) /\ b \in Seq(C)
    BY <1>10, <1>11
  <2>2. Len(v) = n + m /\ c = v \o b
    BY <1>8, <1>11
  <2> HIDE DEF v
  <2>3. /\ v \o b \in Seq(C) /\ Len(v \o b) = Len(v) + Len(b)
        /\ \A i \in 1 .. Len(v) : (v \o b)[i] = v[i]
        /\ \A j \in 1 .. Len(b) : (v \o b)[Len(v) + j] = b[j]
    BY <2>1, Halves
  <2>4. /\ c \in Seq(C) /\ Len(c) = n + m + Len(b)
        /\ \A i \in 1 .. n + m : c[i] = v[i]
        /\ \A j \in 1 .. Len(b) : c[n + m + j] = b[j]
    BY <2>2, <2>3
  <2> QED
    BY <2>4 DEF v
<1>13. ASSUME NEW i \in 1 .. n PROVE c[i] = "none"
  <2>1. i \in 1 .. n + m
    BY <1>1
  <2> QED
    BY <1>3, <1>11, <1>12, <2>1
<1>14. ASSUME NEW j \in 1 .. m PROVE c[n + j] = voiced[j]
  <2>1. n + j \in 1 .. n + m
    BY <1>1
  <2> QED
    BY <1>11, <1>12, <2>1
<1>15. ~Icl(r) => /\ \A j \in 1 .. Len(r.words) + 1 : b[j] = "codec_pad"
                  /\ b[Len(r.words) + 2] = "codec_bos"
  <2> SUFFICES ASSUME ~Icl(r)
               PROVE  /\ \A j \in 1 .. Len(r.words) + 1 : b[j] = "codec_pad"
                      /\ b[Len(r.words) + 2] = "codec_bos"
    OBVIOUS
  <2>1. pad \in Seq(Symbols)
    BY <1>7
  <2>2. b = pad \o <<"codec_bos">> /\ Len(pad) = Len(r.words) + 1
    BY <1>7, <1>8 DEF bos
  <2>3. /\ \A i \in 1 .. Len(pad) : (pad \o <<"codec_bos">>)[i] = pad[i]
        /\ (pad \o <<"codec_bos">>)[Len(pad) + 1] = "codec_bos"
    BY <1>2, <2>1, OneMore
  <2>4. Len(r.words) + 1 + 1 = Len(r.words) + 2
    BY <1>1
  <2> QED
    BY <1>7, <2>2, <2>3, <2>4
<1> QED
  BY <1>4, <1>9, <1>12, <1>13, <1>14, <1>15 DEF n, m, b, c, C

(* The prefix the builder computes, row by row.                            *)
LEMMA PrefixIs ==
  ASSUME NEW r \in Requests, ~Refused(r), NEW D, Symbols \subseteq D,
         r.voice \in D \/ r.voice = Nothing
  PROVE  LET n == OpeningLen(r)
             m == PrefillLen(r)
             p == Prefix(r)
         IN /\ p \in Seq(Row(D)) /\ Len(p) = n + m
            /\ \A i \in 1 .. n : p[i] = TextRow(Opening(r)[i])
            /\ \A j \in 1 .. m :
                 p[n + j] = CodecRow(IF j = m THEN "tts_bos" ELSE "tts_pad",
                                     CodecLeft(r)[j], r.voice)
<1> DEFINE n == OpeningLen(r)
           m == PrefillLen(r)
           p == Prefix(r)
           a == HeadRows(r)
           b == CodecRows(r)
           left == CodecLeft(r)
<1>1. /\ n \in Nat /\ m \in Nat \ {0} /\ Opening(r) \in Seq(Symbols) /\ Len(Opening(r)) = n
  BY RequestIs
<1>2. /\ "none" \in D /\ "tts_bos" \in Symbols /\ "tts_pad" \in Symbols
  BY DEF Symbols, Marks
<1>3. a = [i \in 1 .. n |-> TextRow(Opening(r)[i])]
  BY DEF HeadRows, Opening, OpeningLen
<1>4. b = [j \in 1 .. m |->
             CodecRow(IF j = m THEN "tts_bos" ELSE "tts_pad", left[j], r.voice)]
  <2>1. DOMAIN left = 1 .. m /\ Len(left) = m
    BY PrefillTyped, LenProperties DEF PrefillLen
  <2> QED
    BY <2>1 DEF CodecRows
<1>5. ASSUME NEW i \in 1 .. n PROVE TextRow(Opening(r)[i]) \in Row(D)
  <2>1. Opening(r)[i] \in Symbols
    BY <1>1, ElementOfSeq
  <2> QED
    BY <1>2, <2>1 DEF TextRow, Row
<1>6. ASSUME NEW j \in 1 .. m, NEW x \in Symbols
      PROVE  CodecRow(x, left[j], r.voice) \in Row(D)
  <2>1. (IF left[j] = VoiceSlot THEN r.voice ELSE left[j]) \in D
    <3>1. VoiceSlot \notin Symbols
      BY RequestAssumption DEF Symbols, Marks, VoiceSlot
    <3>2. left[j] \in IF r.voice = Nothing THEN Symbols ELSE Symbols \cup {VoiceSlot}
      BY PrefillTyped, ElementOfSeq DEF PrefillLen
    <3> QED
      BY <3>1, <3>2
  <2> QED
    BY <2>1 DEF CodecRow, Row
<1>7. a \in Seq(Row(D)) /\ Len(a) = n
  <2> HIDE DEF n, a
  <2> QED
    BY <1>1, <1>3, <1>5
<1>8. b \in Seq(Row(D)) /\ Len(b) = m
  <2>1. \A j \in 1 .. m :
          CodecRow(IF j = m THEN "tts_bos" ELSE "tts_pad", left[j], r.voice) \in Row(D)
    BY <1>2, <1>6
  <2> HIDE DEF m, b, left
  <2> QED
    BY <1>1, <1>4, <2>1
<1>9. p = a \o b
  BY DEF Prefix
<1> HIDE DEF n, m, p, a, b, left
<1>10. /\ a \o b \in Seq(Row(D)) /\ Len(a \o b) = Len(a) + Len(b)
       /\ \A i \in 1 .. Len(a) : (a \o b)[i] = a[i]
       /\ \A j \in 1 .. Len(b) : (a \o b)[Len(a) + j] = b[j]
  <2>1. a \in Seq(Row(D)) /\ b \in Seq(Row(D))
    BY <1>7, <1>8
  <2> QED
    BY <2>1, Halves
<1>11. /\ p \in Seq(Row(D)) /\ Len(p) = n + m
       /\ \A i \in 1 .. n : p[i] = a[i]
       /\ \A j \in 1 .. m : p[n + j] = b[j]
  BY <1>7, <1>8, <1>9, <1>10
<1> QED
  BY <1>3, <1>4, <1>11 DEF n, m, p, left

(* The rows after it: what is said, beside what goes with it.              *)
Body(r) == IF Icl(r) THEN IclRows(r) ELSE StandardRows(r)

(* Their texts and codec parts.                                            *)
LEMMA BodyIs ==
  ASSUME NEW r \in Requests, ~Refused(r)
  PROVE  LET u == Said(r)
             b == Beside(r)
         IN /\ Body(r) \in Seq(Row(Symbols)) /\ Len(Body(r)) = Len(b)
            /\ \A j \in 1 .. Len(b) :
                 Body(r)[j] = [text |-> IF j <= Len(u) THEN u[j] ELSE "tts_pad",
                               codec |-> b[j]]
<1> DEFINE u == Said(r)
           b == Beside(r)
           w == r.words
<1>1. /\ u \in Seq(Symbols) /\ b \in Seq(Symbols)
      /\ Len(u) \in Nat /\ Len(b) \in Nat
      /\ w \in Seq(Symbols) /\ Len(w) \in Nat
  BY TextIs, CodecIs, RequestIs, LenProperties
<1>2. /\ "tts_pad" \in Symbols /\ "tts_eos" \in Symbols
      /\ "codec_pad" \in Symbols /\ "codec_bos" \in Symbols
  BY DEF Symbols, Marks
<1>3. CASE Icl(r)
  <2>1. IclText(r) = u /\ IclCodec(r) = b
    BY <1>3 DEF IclText, IclCodec, Said, Beside
  <2> HIDE DEF u, b
  <2>2. DOMAIN b = 1 .. Len(b)
    BY <1>1
  <2> DEFINE row(j) == [text |-> IF j <= Len(u) THEN u[j] ELSE "tts_pad", codec |-> b[j]]
  <2>3. Body(r) = [j \in 1 .. Len(b) |-> row(j)]
    BY <1>3, <2>1, <2>2 DEF Body, IclRows
  <2>4. ASSUME NEW j \in 1 .. Len(b) PROVE row(j) \in Row(Symbols)
    <3>1. b[j] \in Symbols
      BY <1>1, ElementOfSeq
    <3>2. j <= Len(u) => u[j] \in Symbols
      <4>1. j <= Len(u) => j \in 1 .. Len(u)
        BY <1>1
      <4> QED
        BY <1>1, <4>1, ElementOfSeq
    <3> QED
      BY <1>2, <3>1, <3>2 DEF Row
  <2> HIDE DEF row
  <2>5. Body(r) \in Seq(Row(Symbols)) /\ Len(Body(r)) = Len(b)
    BY <1>1, <2>3, <2>4
  <2> QED
    BY <2>3, <2>5 DEF row, u, b
<1>4. CASE ~Icl(r)
  <2> DEFINE k == Len(w)
             s == [j \in 1 .. k |-> PaddedRow(w[j])]
             x == PaddedRow("tts_eos")
             y == [text |-> "tts_pad", codec |-> "codec_bos"]
             z == <<x>>
  <2>1. /\ Len(u) = k + 1 /\ Len(b) = k + 2
        /\ \A j \in 1 .. k : u[j] = w[j]
        /\ u[k + 1] = "tts_eos"
        /\ \A j \in 1 .. k + 1 : b[j] = "codec_pad"
        /\ b[k + 2] = "codec_bos"
    BY <1>4, TextIs, CodecIs
  <2>2. x \in Row(Symbols) /\ y \in Row(Symbols)
    BY <1>2 DEF PaddedRow, Row
  <2>3. \A j \in 1 .. k : PaddedRow(w[j]) \in Row(Symbols)
    <3>1. \A j \in 1 .. k : w[j] \in Symbols
      BY <1>1, ElementOfSeq
    <3> QED
      BY <1>2, <3>1 DEF PaddedRow, Row
  <2>4. s \in Seq(Row(Symbols)) /\ Len(s) = k
    <3> HIDE DEF k
    <3> QED
      BY <1>1, <2>3 DEF k
  <2>5. Body(r) = (s \o <<x>>) \o <<y>>
    <3>1. Body(r) = s \o <<x, y>>
      <4>1. DOMAIN w = 1 .. k
        BY <1>1
      <4> QED
        BY <1>4, <4>1 DEF Body, StandardRows
    <3>2. <<x, y>> = <<x>> \o <<y>>
      OBVIOUS
    <3> DEFINE f == <<x>>
               g == <<y>>
    <3>3. s \in Seq(Row(Symbols)) /\ f \in Seq(Row(Symbols)) /\ g \in Seq(Row(Symbols))
      BY <2>2, <2>4
    <3> HIDE DEF s, x, y, f, g
    <3>4. s \o (f \o g) = (s \o f) \o g
      BY <3>3, ConcatAssociative
    <3> QED
      BY <3>1, <3>2, <3>4 DEF f, g
  <2> HIDE DEF s, x, y, k, u, b, w
  <2>6. /\ s \o <<x>> \in Seq(Row(Symbols)) /\ Len(s \o <<x>>) = Len(s) + 1
        /\ \A j \in 1 .. Len(s) : (s \o <<x>>)[j] = s[j]
        /\ (s \o <<x>>)[Len(s) + 1] = x
    <3>1. s \in Seq(Row(Symbols))
      BY <2>4
    <3> QED
      BY <2>2, <3>1, OneMore
  <2> DEFINE v == s \o <<x>>
  <2>7. /\ v \o <<y>> \in Seq(Row(Symbols)) /\ Len(v \o <<y>>) = Len(v) + 1
        /\ \A j \in 1 .. Len(v) : (v \o <<y>>)[j] = v[j]
        /\ (v \o <<y>>)[Len(v) + 1] = y
    <3>1. v \in Seq(Row(Symbols))
      BY <2>6
    <3> HIDE DEF v
    <3> QED
      BY <2>2, <3>1, OneMore
  <2>8. /\ Len(v) = k + 1 /\ v[k + 1] = x /\ \A j \in 1 .. k : v[j] = s[j]
        /\ k \in Nat
    BY <1>1, <2>4, <2>6 DEF k
  <2>9. Body(r) = v \o <<y>>
    BY <2>5
  <2> HIDE DEF v
  <2>10. /\ Body(r) \in Seq(Row(Symbols)) /\ Len(Body(r)) = Len(b)
    BY <2>1, <2>7, <2>8, <2>9
  <2>11. ASSUME NEW j \in 1 .. Len(b)
         PROVE  Body(r)[j] = [text |-> IF j <= Len(u) THEN u[j] ELSE "tts_pad",
                              codec |-> b[j]]
    <3>1. j \in 1 .. k \/ j = k + 1 \/ j = k + 2
      BY <2>1, <2>8
    <3>2. CASE j \in 1 .. k
      <4>1. j \in 1 .. k + 1 /\ j <= k + 1
        BY <2>8, <3>2
      <4>2. Body(r)[j] = PaddedRow(w[j])
        BY <2>7, <2>8, <2>9, <3>2, <4>1 DEF s
      <4> QED
        BY <2>1, <3>2, <4>1, <4>2 DEF PaddedRow
    <3>3. CASE j = k + 1
      <4>1. j \in 1 .. k + 1 /\ j <= k + 1
        BY <2>8, <3>3
      <4>2. Body(r)[j] = x
        BY <2>7, <2>8, <2>9, <3>3, <4>1
      <4> QED
        BY <2>1, <3>3, <4>1, <4>2 DEF x, PaddedRow
    <3>4. CASE j = k + 2
      <4>1. ~(j <= k + 1) /\ j = k + 1 + 1
        BY <2>8, <3>4
      <4>2. Body(r)[j] = y
        BY <2>7, <2>8, <2>9, <4>1
      <4> QED
        BY <2>1, <3>4, <4>1, <4>2 DEF y
    <3> QED
      BY <3>1, <3>2, <3>3, <3>4
  <2> QED
    BY <2>10, <2>11 DEF u, b
<1> QED
  BY <1>3, <1>4

(* The prompt is the two streams side by side.                             *)
LEMMA SideBySide ==
  ASSUME NEW r \in Requests, ~Refused(r)
  PROVE  /\ Prefix(r) \o Body(r) = Streams!Streams(r)
         /\ Prefix(r) \o Body(r) \in Seq(Row(Symbols \cup {r.voice}))
         /\ Len(Prefix(r) \o Body(r)) = OpeningLen(r) + PrefillLen(r) + Len(Beside(r))
<1> DEFINE n == OpeningLen(r)
           m == PrefillLen(r)
           u == Said(r)
           b == Beside(r)
           t == Streams!Text(r)
           c == Streams!Codec(r)
           p == Prefix(r)
           q == Body(r)
           h == Opening(r)
           left == CodecLeft(r)
           C == Symbols \cup {r.voice}
           row(i) == [text |-> IF i \in DOMAIN t THEN t[i] ELSE "tts_pad", codec |-> c[i]]
           whole == p \o q
<1>1. n \in Nat /\ m \in Nat \ {0}
  BY RequestIs
<1>2. /\ u \in Seq(Symbols) /\ t \in Seq(Symbols) /\ Len(t) = n + m + Len(u)
      /\ \A i \in 1 .. n : t[i] = h[i]
      /\ \A j \in 1 .. m : t[n + j] = IF j = m THEN "tts_bos" ELSE "tts_pad"
      /\ \A j \in 1 .. Len(u) : t[n + m + j] = u[j]
  BY TextIs
<1>3. /\ b \in Seq(Symbols) /\ c \in Seq(C) /\ Len(c) = n + m + Len(b)
      /\ \A i \in 1 .. n : c[i] = "none"
      /\ \A j \in 1 .. m : c[n + j] = IF left[j] = VoiceSlot THEN r.voice ELSE left[j]
      /\ \A j \in 1 .. Len(b) : c[n + m + j] = b[j]
  BY CodecIs
<1>4. /\ p \in Seq(Row(C)) /\ Len(p) = n + m
      /\ \A i \in 1 .. n : p[i] = TextRow(h[i])
      /\ \A j \in 1 .. m :
           p[n + j] = CodecRow(IF j = m THEN "tts_bos" ELSE "tts_pad", left[j], r.voice)
  <2>1. Symbols \subseteq C /\ r.voice \in C
    OBVIOUS
  <2> HIDE DEF C
  <2> QED
    BY <2>1, PrefixIs
<1>5. /\ q \in Seq(Row(Symbols)) /\ Len(q) = Len(b)
      /\ \A j \in 1 .. Len(b) :
           q[j] = [text |-> IF j <= Len(u) THEN u[j] ELSE "tts_pad", codec |-> b[j]]
  BY BodyIs
<1>6. q \in Seq(Row(C))
  <2>1. Row(Symbols) \subseteq Row(C)
    BY DEF Row
  <2> QED
    BY <1>5, <2>1, SeqMonotonic
<1>7. Streams!Streams(r) = [i \in 1 .. Len(c) |-> row(i)]
  <2>1. DOMAIN c = 1 .. Len(c)
    <3> HIDE DEF c, C
    <3> QED
      BY <1>3
  <2> QED
    BY <2>1 DEF Streams!Streams
<1> HIDE DEF n, m, u, b, t, c, p, q, h, left, C, whole
<1>8. /\ Len(u) \in Nat /\ Len(b) \in Nat /\ DOMAIN t = 1 .. n + m + Len(u)
  BY <1>2, <1>3, LenProperties
<1>9. /\ whole \in Seq(Row(C)) /\ Len(whole) = n + m + Len(b)
      /\ \A i \in 1 .. n + m : whole[i] = p[i]
      /\ \A j \in 1 .. Len(b) : whole[n + m + j] = q[j]
  <2>1. p \in Seq(Row(C)) /\ q \in Seq(Row(C))
    BY <1>4, <1>6
  <2>2. /\ p \o q \in Seq(Row(C)) /\ Len(p \o q) = Len(p) + Len(q)
        /\ \A i \in 1 .. Len(p) : (p \o q)[i] = p[i]
        /\ \A j \in 1 .. Len(q) : (p \o q)[Len(p) + j] = q[j]
    BY <2>1, Halves
  <2> QED
    BY <1>4, <1>5, <2>2 DEF whole
<1>10. ASSUME NEW i \in 1 .. Len(c) PROVE whole[i] = row(i)
  <2>1. \/ i \in 1 .. n
        \/ \E j \in 1 .. m : i = n + j
        \/ \E j \in 1 .. Len(b) : i = n + m + j
    <3>1. i \in 1 .. n \/ i - n \in 1 .. m \/ i - (n + m) \in 1 .. Len(b)
      BY <1>1, <1>3, <1>8
    <3>2. i = n + (i - n) /\ i = n + m + (i - (n + m))
      BY <1>1
    <3> QED
      BY <3>1, <3>2
  <2>2. CASE i \in 1 .. n
    <3>1. i \in 1 .. n + m /\ i \in 1 .. n + m + Len(u)
      BY <1>1, <1>8, <2>2
    <3>2. whole[i] = TextRow(h[i]) /\ t[i] = h[i] /\ c[i] = "none" /\ i \in DOMAIN t
      BY <1>2, <1>3, <1>4, <1>8, <1>9, <2>2, <3>1
    <3> QED
      BY <3>2 DEF TextRow
  <2>3. ASSUME NEW j \in 1 .. m, i = n + j PROVE whole[i] = row(i)
    <3>1. i \in 1 .. n + m /\ i \in 1 .. n + m + Len(u)
      BY <1>1, <1>8, <2>3
    <3>2. /\ whole[i] = CodecRow(IF j = m THEN "tts_bos" ELSE "tts_pad", left[j], r.voice)
          /\ t[i] = (IF j = m THEN "tts_bos" ELSE "tts_pad")
          /\ c[i] = (IF left[j] = VoiceSlot THEN r.voice ELSE left[j])
          /\ i \in DOMAIN t
      BY <1>2, <1>3, <1>4, <1>8, <1>9, <2>3, <3>1
    <3> QED
      BY <3>2 DEF CodecRow
  <2>4. ASSUME NEW j \in 1 .. Len(b), i = n + m + j PROVE whole[i] = row(i)
    <3>1. i \in 1 .. n + m + Len(u) <=> j <= Len(u)
      BY <1>1, <1>8, <2>4
    <3>2. /\ whole[i] = [text |-> IF j <= Len(u) THEN u[j] ELSE "tts_pad", codec |-> b[j]]
          /\ c[i] = b[j]
      BY <1>3, <1>5, <1>9, <2>4
    <3>3. i \in DOMAIN t <=> j <= Len(u)
      BY <1>8, <3>1
    <3>4. j <= Len(u) => t[i] = u[j]
      <4>1. j <= Len(u) => j \in 1 .. Len(u)
        BY <1>8
      <4> QED
        BY <1>2, <2>4, <4>1
    <3> QED
      BY <3>2, <3>3, <3>4
  <2> QED
    BY <2>1, <2>2, <2>3, <2>4
<1>11. whole = [i \in 1 .. Len(c) |-> row(i)]
  <2>1. Len(whole) = Len(c)
    BY <1>3, <1>9
  <2>2. whole = [i \in 1 .. Len(whole) |-> whole[i]]
    <3> QED
      BY <1>9
  <2> HIDE DEF row
  <2> QED
    BY <1>10, <2>1, <2>2
<1> QED
  BY <1>7, <1>9, <1>11 DEF whole, p, q, n, m, b, C

(* What the codes left out is what the streams have left.                  *)
LEMMA LeftOver ==
  ASSUME NEW r \in Requests, ~Refused(r)
  PROVE  Trailing(r) = Streams!Leftover(r) /\ Trailing(r) \in Seq(Symbols)
<1> DEFINE n == OpeningLen(r)
           m == PrefillLen(r)
           u == Said(r)
           b == Beside(r)
           t == Streams!Text(r)
           c == Streams!Codec(r)
           rest == SubSeq(u, Len(b) + 1, Len(u))
           left == SubSeq(t, Len(c) + 1, Len(t))
<1>1. n \in Nat /\ m \in Nat
  BY RequestIs
<1>2. /\ u \in Seq(Symbols) /\ t \in Seq(Symbols) /\ Len(t) = n + m + Len(u)
      /\ \A j \in 1 .. Len(u) : t[n + m + j] = u[j]
  BY TextIs
<1>3. b \in Seq(Symbols) /\ Len(c) = n + m + Len(b)
  BY CodecIs
<1>4. ~Icl(r) => Len(u) <= Len(b)
  <2>1. r.words \in Seq(Symbols)
    BY RequestIs
  <2>2. Len(r.words) \in Nat
    BY <2>1, LenProperties
  <2>3. ~Icl(r) => Len(u) = Len(r.words) + 1
    BY TextIs
  <2>4. ~Icl(r) => Len(b) = Len(r.words) + 2
    BY CodecIs
  <2> QED
    BY <2>2, <2>3, <2>4
<1>5. Icl(r) => IclText(r) = u /\ IclCodec(r) = b
  BY DEF IclText, IclCodec, Said, Beside
<1>6. Trailing(r) = IF Icl(r) /\ Len(u) > Len(b) THEN rest ELSE <<"tts_pad">>
  BY <1>5 DEF Trailing
<1>7. Streams!Leftover(r) = IF Len(t) <= Len(c) THEN <<"tts_pad">> ELSE left
  BY DEF Streams!Leftover
<1>8. "tts_pad" \in Symbols
  BY DEF Symbols, Marks
<1> HIDE DEF n, m, u, b, t, c
<1>9. Len(u) \in Nat /\ Len(b) \in Nat
  BY <1>2, <1>3, LenProperties
<1>10. CASE Icl(r) /\ Len(u) > Len(b)
  <2>1. ~(Len(t) <= Len(c))
    BY <1>1, <1>2, <1>3, <1>9, <1>10
  <2> DEFINE x == Len(b) + 1
             y == Len(u)
             d == n + m
  <2>2. /\ x \in 1 .. y /\ y \in Nat /\ x \in Nat \ {0} /\ d \in Nat
        /\ Len(u) = y /\ Len(t) = d + y
        /\ rest = SubSeq(u, x, y) /\ left = SubSeq(t, d + x, d + y)
    <3>1. /\ x \in 1 .. y /\ y \in Nat /\ x \in Nat \ {0} /\ d \in Nat
      BY <1>1, <1>9, <1>10
    <3>2. Len(u) = y /\ Len(t) = d + y /\ rest = SubSeq(u, x, y)
      BY <1>2
    <3>3. Len(c) + 1 = d + x
      BY <1>1, <1>3, <1>9
    <3>4. left = SubSeq(t, d + x, d + y)
      BY <3>2, <3>3
    <3> QED
      BY <3>1, <3>2, <3>4
  <2> HIDE DEF rest, left, x, y, d
  <2>3. rest = [i \in 1 .. y - x + 1 |-> u[x + i - 1]]
    <3>1. y - x + 1 \in Nat
      BY <2>2
    <3> QED
      BY <2>2, <3>1
  <2>4. left = [i \in 1 .. y - x + 1 |-> t[d + x + i - 1]]
    <3>1. d + y - (d + x) + 1 = y - x + 1
      BY <2>2
    <3> QED
      BY <2>2, <3>1
  <2>5. ASSUME NEW i \in 1 .. y - x + 1
        PROVE  t[d + x + i - 1] = u[x + i - 1] /\ u[x + i - 1] \in Symbols
    <3>1. x + i - 1 \in 1 .. Len(u) /\ d + (x + i - 1) = d + x + i - 1
      BY <2>2
    <3> QED
      BY <1>2, <3>1, ElementOfSeq DEF d
  <2>6. rest = left
    BY <2>3, <2>4, <2>5
  <2>7. rest \in Seq(Symbols)
    <3>1. y - x + 1 \in Nat
      BY <2>2
    <3> QED
      BY <2>3, <2>5, <3>1
  <2> QED
    BY <1>6, <1>7, <1>10, <2>1, <2>6, <2>7
<1>11. CASE ~(Icl(r) /\ Len(u) > Len(b))
  <2>1. Len(u) <= Len(b)
    BY <1>4, <1>9, <1>11
  <2>2. Len(t) <= Len(c)
    BY <1>1, <1>2, <1>3, <1>9, <2>1
  <2>3. <<"tts_pad">> \in Seq(Symbols)
    BY <1>8
  <2> QED
    BY <1>6, <1>7, <1>11, <2>2, <2>3
<1> QED
  BY <1>10, <1>11

(* The buffer is made for that many rows.                                  *)
LEMMA BlocksFill ==
  ASSUME NEW r \in Requests, ~Refused(r)
  PROVE  Len(Prefix(r) \o Body(r)) = Context(r)
<1> DEFINE n == Len(r.instruct)
           m == PrefillLen(r)
<1>1. Len(Prefix(r) \o Body(r)) = OpeningLen(r) + m + Len(Beside(r))
  BY SideBySide
<1>2. OpeningLen(r) = n + 3 /\ m = Len(CodecLeft(r))
  BY DEF OpeningLen, PrefillLen
<1>3. /\ r.instruct \in Seq(Symbols) /\ r.words \in Seq(Symbols) /\ r.codes \in Seq(Symbols)
      /\ m \in Nat
  BY RequestIs
<1>4. n \in Nat /\ Len(r.words) \in Nat /\ Len(r.codes) \in Nat
  BY <1>3, LenProperties
<1>5. Len(Beside(r)) = IF Icl(r) THEN 1 + Len(r.codes) ELSE Len(r.words) + 2
  BY CodecIs
<1>6. Context(r) = n + 3 + m + (IF Icl(r) THEN 1 + Len(r.codes) ELSE Len(r.words) + 1 + 1)
  BY <1>2 DEF Context
<1> HIDE DEF n, m
<1>7. CASE Icl(r)
  BY <1>1, <1>2, <1>3, <1>4, <1>5, <1>6, <1>7
<1>8. CASE ~Icl(r)
  <2>1. Len(Beside(r)) = Len(r.words) + 1 + 1
    BY <1>4, <1>5, <1>8
  <2> QED
    BY <1>1, <1>2, <1>6, <1>8, <2>1
<1> QED
  BY <1>7, <1>8

-----------------------------------------------------------------------------
(* The cache.                                                              *)

(* A request that was not refused and whose prefix may be kept.            *)
CacheableRequests == {r \in Requests : ~Refused(r) /\ Cacheable(r)}

(* What an entry holds: the prefix of some request, under its key.         *)
Entry == {[key |-> Key(r), rows |-> Prefix(r)] : r \in CacheableRequests}

(* Every entry is whole, whoever stored it, and there is room for it.      *)
CacheInv ==
  /\ prefix_entries \in Seq(Entry)
  /\ Len(prefix_entries) <= MaxEntries

(* The request in hand was let in, and the rows are those of its prefix    *)
(* until the body is added.                                                *)
BuildInv ==
  /\ request \in Requests
  /\ phase \in Phases \ {"layout error"}
  /\ phase \in {"prefix", "body"} => ~Refused(request)
  /\ phase = "body" => rows = Prefix(request)
  /\ rows \in Seq(Row(Symbols \cup {request.voice}))
  /\ overlay \in Seq(Symbols)

PromptInv == CacheInv /\ BuildInv

(* Two cacheable requests with one key have one prefix: the key forgets    *)
(* nothing the prefix depends on.                                          *)
LEMMA KeyIsEnough ==
  ASSUME NEW q \in Requests, NEW r \in Requests,
         Cacheable(q), Cacheable(r), Key(q) = Key(r)
  PROVE  Prefix(q) = Prefix(r)
<1>1. q.instruct = r.instruct /\ q.role = r.role /\ CodecLeft(q) = CodecLeft(r)
  BY DEF Key
<1>2. q.voice = r.voice
  BY DEF Cacheable
<1>3. HeadRows(q) = HeadRows(r)
  BY <1>1 DEF HeadRows
<1>4. CodecRows(q) = CodecRows(r)
  BY <1>1, <1>2 DEF CodecRows
<1> QED BY <1>3, <1>4 DEF Prefix

(* The first of a set of indices is one of them. *)
LEMMA FirstOfIndices ==
  ASSUME NEW S \in SUBSET Nat, S # {}
  PROVE  First(S) \in S
<1>1. PICK n \in S : \A m \in S : ~(<<m, n>> \in OpToRel(<, Nat))
  BY NatLessThanWellFounded, WFMin
<1>2. ASSUME NEW m \in S  PROVE  n <= m
  <2>1. ~(<<m, n>> \in {ss \in Nat \X Nat : ss[1] < ss[2]})
    BY <1>1 DEF OpToRel
  <2> QED BY <2>1
<1> QED BY <1>2 DEF First

(* A hit copies what the cache holds under the key.                        *)
LEMMA HitIsOwn ==
  ASSUME CacheInv, request \in Requests, Hit
  PROVE  prefix_entries[First(Hits(Key(request)))].rows = Prefix(request)
<1> DEFINE k == Key(request)
           e == prefix_entries[First(Hits(k))]
<1>1. Hits(k) \in SUBSET Nat /\ Hits(k) # {}
  BY DEF CacheInv, Hit, Hits
<1>2. First(Hits(k)) \in Hits(k)
  BY <1>1, FirstOfIndices
<1>3. e \in Entry /\ e.key = k
  BY <1>2 DEF Hits, CacheInv
<1>4. PICK r \in CacheableRequests : e = [key |-> Key(r), rows |-> Prefix(r)]
  BY <1>3 DEF Entry
<1>5. Key(r) = Key(request) /\ Cacheable(r) /\ Cacheable(request) /\ r \in Requests
  BY <1>3, <1>4 DEF CacheableRequests, Hit
<1>6. Prefix(r) = Prefix(request)
  BY <1>5, KeyIsEnough
<1> QED
  BY <1>4, <1>6

(* Making room keeps whole entries, and leaves a place.                    *)
LEMMA YoungestAreEntries ==
  ASSUME CacheInv, MaxEntries # 0
  PROVE  Youngest \in Seq(Entry) /\ Len(Youngest) < MaxEntries
<1>1. CASE Len(prefix_entries) < MaxEntries
  BY <1>1 DEF Youngest, CacheInv
<1>2. CASE ~(Len(prefix_entries) < MaxEntries)
  <2> DEFINE last == Len(prefix_entries)
             s == SubSeq(prefix_entries, 2, last)
  <2>1. last \in Nat /\ last = MaxEntries /\ last # 0
    BY <1>2, CacheAssumption DEF CacheInv
  <2>2. Youngest = s
    BY <1>2, <2>1 DEF Youngest
  <2>3. \A i \in 2 .. last : prefix_entries[i] \in Entry
    BY <2>1 DEF CacheInv
  <2> HIDE DEF last
  <2>4. s \in Seq(Entry) /\ Len(s) = IF 2 <= last THEN last - 2 + 1 ELSE 0
    BY <2>1, <2>3, SubSeqProperties
  <2> HIDE DEF s
  <2>5. Len(s) < MaxEntries
    BY <2>1, <2>4
  <2> QED
    BY <2>2, <2>4, <2>5
<1> QED
  BY <1>1, <1>2

(* Storing the prefix of a request leaves the cache whole: an entry it     *)
(* overwrites had that prefix already.                                     *)
LEMMA StoreIsEntry ==
  ASSUME CacheInv, request \in Requests, ~Refused(request), Cacheable(request)
  PROVE  LET kept == Store(Key(request), Prefix(request)) IN
         kept \in Seq(Entry) /\ Len(kept) <= MaxEntries
<1> DEFINE k == Key(request)
           d == Prefix(request)
           i == First(Hits(k))
           e == [key |-> k, rows |-> d]
<1>1. e \in Entry
  BY DEF Entry, CacheableRequests
<1>2. CASE MaxEntries = 0
  BY <1>2 DEF Store, CacheInv
<1>3. CASE MaxEntries # 0 /\ Hits(k) # {}
  <2>0. Hits(k) \in SUBSET Nat
    BY DEF Hits, CacheInv
  <2>1. i \in Hits(k)
    BY <1>3, <2>0, FirstOfIndices
  <2>2. prefix_entries[i].rows = d
    BY <1>3, HitIsOwn DEF Hit
  <2>3. prefix_entries[i] = [prefix_entries[i] EXCEPT !.rows = d]
    <3>1. prefix_entries[i] \in Entry
      BY <2>1 DEF CacheInv, Hits
    <3>2. PICK r \in CacheableRequests :
            prefix_entries[i] = [key |-> Key(r), rows |-> Prefix(r)]
      BY <3>1 DEF Entry
    <3> QED
      BY <2>2, <3>2
  <2>4. [prefix_entries EXCEPT ![i].rows = d] = prefix_entries
    BY <2>1, <2>3 DEF CacheInv, Hits
  <2> QED
    BY <1>3, <2>4 DEF Store, CacheInv
<1>4. CASE MaxEntries # 0 /\ Hits(k) = {}
  <2>1. Youngest \in Seq(Entry) /\ Len(Youngest) < MaxEntries
    BY <1>4, YoungestAreEntries
  <2>2. Store(k, d) = Append(Youngest, e)
    BY <1>4 DEF Store
  <2> DEFINE s == Youngest
  <2>3. s \in Seq(Entry) /\ Len(s) < MaxEntries
    BY <2>1
  <2> HIDE DEF e, s
  <2>4. Append(s, e) \in Seq(Entry) /\ Len(Append(s, e)) = Len(s) + 1 /\ Len(s) \in Nat
    BY <1>1, <2>3
  <2>5. Len(Append(s, e)) <= MaxEntries
    BY <2>3, <2>4, CacheAssumption
  <2> QED
    BY <2>2, <2>4, <2>5 DEF s
<1> QED
  BY <1>2, <1>3, <1>4

-----------------------------------------------------------------------------
(* The invariant.                                                          *)

(* A prefix is of rows with the request's voice.                           *)
LEMMA PrefixIsTyped ==
  ASSUME NEW r \in Requests, ~Refused(r)
  PROVE  Prefix(r) \in Seq(Row(Symbols \cup {r.voice}))
<1> DEFINE D == Symbols \cup {r.voice}
<1>1. Symbols \subseteq D /\ r.voice \in D
  OBVIOUS
<1> HIDE DEF D
<1>2. Prefix(r) \in Seq(Row(D))
  BY <1>1, PrefixIs
<1> QED
  BY <1>2 DEF D

(* It holds at the start, with an empty cache.                             *)
LEMMA InitPrompt == Init => PromptInv
<1> SUFFICES ASSUME Init PROVE PromptInv
  OBVIOUS
<1>1. <<>> \in Seq(Entry) /\ Len(<<>>) = 0
  OBVIOUS
<1>2. CacheInv
  BY <1>1, CacheAssumption DEF Init, CacheInv
<1>3. BuildInv
  BY DEF Init, BuildInv, Phases
<1> QED
  BY <1>2, <1>3 DEF PromptInv

(* Every step of the builder keeps it.                                     *)
LEMMA NextPrompt == PromptInv /\ [Next]_vars => PromptInv'
<1> SUFFICES ASSUME PromptInv, [Next]_vars  PROVE PromptInv'
  OBVIOUS
<1> USE DEF PromptInv
<1>1. ASSUME NEW r \in Requests, Begin(r)  PROVE PromptInv'
  <2>1. CacheInv'
    BY <1>1 DEF Begin, CacheInv
  <2>2. rows' \in Seq(Row(Symbols \cup {request'.voice})) /\ overlay' \in Seq(Symbols)
    BY <1>1 DEF Begin
  <2>3. /\ request' \in Requests /\ phase' \in Phases \ {"layout error"}
        /\ phase' \in {"prefix", "body"} => ~Refused(request')
        /\ phase' # "body"
    BY <1>1 DEF Begin, Phases
  <2> QED
    BY <2>1, <2>2, <2>3 DEF BuildInv
<1>2. CASE CopyPrefix
  <2>1. rows' = Prefix(request) /\ ~Refused(request) /\ request \in Requests
    BY <1>2, HitIsOwn DEF CopyPrefix, BuildInv
  <2>2. rows' \in Seq(Row(Symbols \cup {request.voice}))
    BY <2>1, PrefixIsTyped
  <2>3. CacheInv'
    BY <1>2 DEF CopyPrefix, CacheInv
  <2>4. phase' = "body" /\ UNCHANGED <<request, overlay>>
    BY <1>2 DEF CopyPrefix
  <2> QED
    BY <2>1, <2>2, <2>3, <2>4 DEF BuildInv, Phases
<1>3. CASE ComputePrefix
  <2>1. rows' = Prefix(request) /\ ~Refused(request) /\ request \in Requests
    BY <1>3 DEF ComputePrefix, BuildInv
  <2>2. rows' \in Seq(Row(Symbols \cup {request.voice}))
    BY <2>1, PrefixIsTyped
  <2>3. CacheInv'
    <3>1. CASE Cacheable(request)
      <4>1. prefix_entries' = Store(Key(request), Prefix(request))
        BY <1>3, <3>1 DEF ComputePrefix
      <4> QED
        BY <2>1, <3>1, <4>1, StoreIsEntry DEF CacheInv
    <3>2. CASE ~Cacheable(request)
      BY <1>3, <3>2 DEF ComputePrefix, CacheInv
    <3> QED
      BY <3>1, <3>2
  <2>4. phase' = "body" /\ UNCHANGED <<request, overlay>>
    BY <1>3 DEF ComputePrefix
  <2> QED
    BY <2>1, <2>2, <2>3, <2>4 DEF BuildInv, Phases
<1>4. CASE Finish
  <2>1. request \in Requests /\ ~Refused(request) /\ rows = Prefix(request)
    BY <1>4 DEF Finish, BuildInv
  <2>2. rows' = Prefix(request) \o Body(request) /\ overlay' = Trailing(request)
    BY <1>4, <2>1 DEF Finish, Body
  <2>3. phase' = "built"
    BY <1>4, <2>1, <2>2, BlocksFill DEF Finish
  <2>4. rows' \in Seq(Row(Symbols \cup {request.voice})) /\ overlay' \in Seq(Symbols)
    BY <2>1, <2>2, SideBySide, LeftOver
  <2>5. CacheInv' /\ UNCHANGED request
    BY <1>4 DEF Finish, CacheInv
  <2> QED
    BY <2>1, <2>3, <2>4, <2>5 DEF BuildInv, Phases
<1>5. CASE Throw
  <2>1. CacheInv' /\ phase' = "failed" /\ UNCHANGED <<request, rows, overlay>>
    BY <1>5 DEF Throw, CacheInv
  <2> QED
    BY <2>1 DEF BuildInv, Phases
<1>6. CASE UNCHANGED vars
  BY <1>6 DEF vars, CacheInv, BuildInv
<1> QED
  BY <1>1, <1>2, <1>3, <1>4, <1>5, <1>6 DEF Next

(* The invariant holds throughout.                                         *)
THEOREM PromptInvariance == Spec => []PromptInv
BY InitPrompt, NextPrompt, PTL DEF Spec

(* A prompt is of rows of a text token and a codec part, the only voice in *)
(* it is that of its request, what the cache keeps names none, and the     *)
(* cache never outgrows its size (prompt-builder.h, lines 344 to 365).     *)
THEOREM PromptTypeCorrect == Spec => []TypeOK
<1>1. PromptInv => TypeOK
  <2> SUFFICES ASSUME PromptInv  PROVE TypeOK
    OBVIOUS
  <2>1. ASSUME NEW i \in DOMAIN prefix_entries
        PROVE  prefix_entries[i].rows \in Seq(Row(Symbols))
    <3>1. PICK r \in CacheableRequests :
            prefix_entries[i] = [key |-> Key(r), rows |-> Prefix(r)]
      BY DEF PromptInv, CacheInv, Entry
    <3>2. r \in Requests /\ ~Refused(r) /\ r.voice = Nothing
      BY DEF CacheableRequests, Cacheable
    <3>3. Prefix(r) \in Seq(Row(Symbols))
      BY <3>2, PrefixIs
    <3> QED
      BY <3>1, <3>3
  <2> QED
    BY <2>1 DEF PromptInv, CacheInv, BuildInv, TypeOK
<1> QED
  BY <1>1, PromptInvariance, PTL

(* Whatever requests ran before, with whatever cache size, the prefix a    *)
(* request goes on with is its own (prompt-builder.h, lines 593 to 645).   *)
THEOREM Transparent == Spec => []PrefixIsFresh
<1>1. PromptInv => PrefixIsFresh
  BY DEF PromptInv, BuildInv, PrefixIsFresh
<1> QED
  BY <1>1, PromptInvariance, PTL

(* The output buffer is full and not overrun when the last block is in:    *)
(* the check of line 747 never fires, for any request.                     *)
THEOREM LayoutHolds == Spec => []LayoutAddsUp
<1>1. PromptInv => LayoutAddsUp
  BY DEF PromptInv, BuildInv, LayoutAddsUp
<1> QED
  BY <1>1, PromptInvariance, PTL

-----------------------------------------------------------------------------
(* The refinement.                                                         *)

(* A step of the builder is a step of the streams: the prefix is made in   *)
(* silence, the last block shows the prompt.                               *)
LEMMA StepRefines ==
  ASSUME PromptInv, PromptInv', [Next]_vars
  PROVE  [Streams!Next]_(Streams!vars)
<1> USE DEF Streams!Next, Streams!vars, PromptInv
<1>1. ASSUME NEW r \in Requests, Begin(r)  PROVE Streams!Begin
  <2>1. request' \in Requests /\ overlay' = <<>> /\ rows' = <<>>
    BY <1>1 DEF Begin
  <2>2. outcome # "building"
    BY <1>1 DEF Begin, outcome, BuildInv, Phases
  <2>3. outcome' = IF Refused(request') THEN "failed" ELSE "building"
    BY <1>1 DEF Begin, outcome
  <2>4. prompt' = <<>>
    BY <1>1 DEF Begin, prompt
  <2>5. Streams!Refused(request') = Refused(request')
    BY SameReading
  <2> QED
    BY <2>1, <2>2, <2>3, <2>4, <2>5 DEF Streams!Begin
<1>2. CASE CopyPrefix \/ ComputePrefix
  <2>1. phase = "prefix" /\ phase' = "body" /\ UNCHANGED <<request, overlay>>
    BY <1>2 DEF CopyPrefix, ComputePrefix
  <2>2. UNCHANGED <<outcome, prompt>>
    BY <2>1 DEF outcome, prompt
  <2> QED
    BY <2>1, <2>2
<1>3. CASE Finish
  <2>1. request \in Requests /\ ~Refused(request) /\ rows = Prefix(request)
    BY <1>3 DEF Finish, BuildInv
  <2>2. /\ rows' = Prefix(request) \o Body(request) /\ overlay' = Trailing(request)
        /\ UNCHANGED request /\ phase = "body"
    BY <1>3, <2>1 DEF Finish, Body
  <2>3. phase' = "built"
    BY <1>3, <2>1, <2>2, BlocksFill DEF Finish
  <2>4. outcome = "building" /\ outcome' = "built" /\ prompt' = rows'
    BY <2>2, <2>3 DEF outcome, prompt
  <2>5. rows' = Streams!Streams(request) /\ overlay' = Streams!Leftover(request)
    BY <2>1, <2>2, SideBySide, LeftOver
  <2> QED
    BY <2>2, <2>4, <2>5 DEF Streams!Build
<1>4. CASE Throw
  <2>1. phase \in {"prefix", "body"} /\ phase' = "failed" /\ UNCHANGED <<request, overlay>>
    BY <1>4 DEF Throw
  <2>2. outcome = "building" /\ outcome' = "failed" /\ UNCHANGED prompt
    BY <2>1 DEF outcome, prompt
  <2> QED
    BY <2>1, <2>2 DEF Streams!Fail
<1>5. CASE UNCHANGED vars
  BY <1>5 DEF vars, outcome, prompt
<1> QED
  BY <1>1, <1>2, <1>3, <1>4, <1>5 DEF Next

(* The builder with its blocks, offsets and cache implements the streams:  *)
(* every word of a request is in its prompt or in the overlay, once, in    *)
(* its place (prompt-builder.h, lines 367 to 778).                         *)
THEOREM Refinement == Spec => BuildsStreams
<1>1. Init => Streams!Init
  BY DEF Init, Streams!Init, outcome, prompt
<1>2. PromptInv /\ PromptInv' /\ [Next]_vars => [Streams!Next]_(Streams!vars)
  BY StepRefines
<1> QED
  BY <1>1, <1>2, PromptInvariance, PTL DEF Spec, BuildsStreams, Streams!Spec
=============================================================================
