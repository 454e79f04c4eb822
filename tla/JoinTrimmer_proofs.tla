--------------------------- MODULE JoinTrimmer_proofs ---------------------------
(***************************************************************************)
(* For every block size, every length kept, any number of pieces and       *)
(* samples, any loudness and any cut into pushes: what is heard of a piece *)
(* is a slice of it, with all its speech, and the joins are short.         *)
(*                                                                         *)
(* The argument is about one tape.  The samples pushed so far are the      *)
(* numbers up to fed; those of pend are the last of them, and what the     *)
(* trimmer holds back (lead before speech, held after it) ends where pend  *)
(* begins, and what the sink has ends where that begins.                   *)
(***************************************************************************)
EXTENDS JoinTrimmer, SequenceTheorems, FiniteSetTheorems, TLAPS

(* s is a sequence of consecutive numbers, the last of them n. *)
EndsAt(s, n) ==
  /\ s \in Seq(Int)
  /\ Len(s) <= n
  /\ \A i \in 1 .. Len(s) : s[i] = n - Len(s) + i

(* The empty sequence ends anywhere. *)
LEMMA EmptyEnds == ASSUME NEW n \in Nat PROVE EndsAt(<<>>, n)
BY DEF EndsAt

(* One run of numbers after the other. *)
LEMMA ConcatEnds ==
  ASSUME NEW s, NEW t, NEW n \in Nat, EndsAt(t, n), EndsAt(s, n - Len(t))
  PROVE  EndsAt(s \o t, n)
<1>1. s \in Seq(Int) /\ t \in Seq(Int) /\ Len(s) \in Nat /\ Len(t) \in Nat
  BY LenProperties DEF EndsAt
<1>2. /\ s \o t \in Seq(Int)
      /\ Len(s \o t) = Len(s) + Len(t)
      /\ \A i \in 1 .. Len(s) + Len(t) :
           (s \o t)[i] = IF i <= Len(s) THEN s[i] ELSE t[i - Len(s)]
  BY <1>1, ConcatProperties
<1>3. ASSUME NEW i \in 1 .. Len(s) + Len(t) PROVE (s \o t)[i] = n - (Len(s) + Len(t)) + i
  <2>1. CASE i <= Len(s)
    BY <1>1, <1>2, <2>1 DEF EndsAt
  <2>2. CASE i > Len(s)
    <3>1. i - Len(s) \in 1 .. Len(t)
      BY <1>1, <2>2
    <3> QED BY <1>1, <1>2, <2>2, <3>1 DEF EndsAt
  <2> QED BY <1>1, <2>1, <2>2
<1> QED BY <1>1, <1>2, <1>3 DEF EndsAt

(* The definition, for a sequence given by its length. *)
LEMMA EndsIf ==
  ASSUME NEW p \in Seq(Int), NEW l \in Nat, Len(p) = l, NEW m \in Int, l <= m,
         \A i \in 1 .. l : p[i] = m - l + i
  PROVE  EndsAt(p, m)
BY DEF EndsAt

(* What is in two sequences is in the one after the other. *)
LEMMA RangeOfConcat ==
  ASSUME NEW s \in Seq(Int), NEW t \in Seq(Int)
  PROVE  Range(s \o t) = Range(s) \cup Range(t)
<1>1. /\ Len(s) \in Nat /\ Len(t) \in Nat
      /\ DOMAIN s = 1 .. Len(s) /\ DOMAIN t = 1 .. Len(t) /\ DOMAIN (s \o t) = 1 .. Len(s) + Len(t)
      /\ \A i \in 1 .. Len(s) + Len(t) :
           (s \o t)[i] = IF i <= Len(s) THEN s[i] ELSE t[i - Len(s)]
  BY LenProperties, ConcatProperties
<1>2. ASSUME NEW x \in Range(s \o t) PROVE x \in Range(s) \cup Range(t)
  <2>1. PICK i \in 1 .. Len(s) + Len(t) : x = IF i <= Len(s) THEN s[i] ELSE t[i - Len(s)]
    BY <1>1, <1>2 DEF Range
  <2>2. i \in 1 .. Len(s) \/ (~(i <= Len(s)) /\ i - Len(s) \in 1 .. Len(t))
    BY <1>1
  <2> QED BY <1>1, <2>1, <2>2 DEF Range
<1>3. ASSUME NEW x \in Range(s) PROVE x \in Range(s \o t)
  <2>1. PICK i \in 1 .. Len(s) : x = s[i]
    BY <1>1, <1>3 DEF Range
  <2>2. i \in 1 .. Len(s) + Len(t) /\ i <= Len(s)
    BY <1>1
  <2>3. (s \o t)[i] = x
    BY <1>1, <2>1, <2>2
  <2> QED BY <1>1, <2>2, <2>3 DEF Range
<1>4. ASSUME NEW x \in Range(t) PROVE x \in Range(s \o t)
  <2>1. PICK i \in 1 .. Len(t) : x = t[i]
    BY <1>1, <1>4 DEF Range
  <2>2. /\ Len(s) + i \in 1 .. Len(s) + Len(t) /\ ~(Len(s) + i <= Len(s))
        /\ (Len(s) + i) - Len(s) = i
    BY <1>1
  <2>3. (s \o t)[Len(s) + i] = x
    BY <1>1, <2>1, <2>2
  <2> QED BY <1>1, <2>2, <2>3 DEF Range
<1> QED BY <1>2, <1>3, <1>4

(* A prefix ends where it is cut, the rest where the whole does. *)
LEMMA SubSeqEnds ==
  ASSUME NEW s, NEW n \in Nat, EndsAt(s, n), NEW k \in 0 .. Len(s)
  PROVE  /\ EndsAt(SubSeq(s, 1, k), n - Len(s) + k) /\ Len(SubSeq(s, 1, k)) = k
         /\ EndsAt(SubSeq(s, k + 1, Len(s)), n) /\ Len(SubSeq(s, k + 1, Len(s))) = Len(s) - k
<1>1. s \in Seq(Int) /\ Len(s) \in Nat /\ k \in Nat /\ k <= Len(s)
  BY LenProperties DEF EndsAt
<1>2. /\ SubSeq(s, 1, k) \in Seq(Int)
      /\ Len(SubSeq(s, 1, k)) = k
      /\ \A i \in 1 .. k : SubSeq(s, 1, k)[i] = s[i]
  BY <1>1, SubSeqProperties, LenProperties
<1>3. /\ SubSeq(s, k + 1, Len(s)) \in Seq(Int)
      /\ Len(SubSeq(s, k + 1, Len(s))) = Len(s) - k
      /\ \A i \in 1 .. Len(s) - k : SubSeq(s, k + 1, Len(s))[i] = s[k + i]
  <2>1. \A i \in k + 1 .. Len(s) : s[i] \in Int
    BY <1>1, LenProperties
  <2>2. /\ SubSeq(s, k + 1, Len(s)) \in Seq(Int)
        /\ Len(SubSeq(s, k + 1, Len(s))) = IF k + 1 <= Len(s) THEN Len(s) - (k + 1) + 1 ELSE 0
        /\ \A i \in 1 .. Len(s) - (k + 1) + 1 :
             SubSeq(s, k + 1, Len(s))[i] = s[(k + 1) + i - 1]
    BY <1>1, <2>1, SubSeqProperties
  <2>3. ASSUME NEW i \in 1 .. Len(s) - k PROVE SubSeq(s, k + 1, Len(s))[i] = s[k + i]
    <3>1. i \in 1 .. Len(s) - (k + 1) + 1 /\ (k + 1) + i - 1 = k + i
      BY <1>1
    <3> QED BY <2>2, <3>1, Zenon
  <2>4. Len(SubSeq(s, k + 1, Len(s))) = Len(s) - k
    BY <1>1, <2>2
  <2> QED BY <2>2, <2>3, <2>4
<1>4. EndsAt(SubSeq(s, 1, k), n - Len(s) + k)
  <2>1. \A i \in 1 .. k : SubSeq(s, 1, k)[i] = (n - Len(s) + k) - k + i
    BY <1>1, <1>2 DEF EndsAt
  <2>2. k \in Nat /\ n - Len(s) + k \in Int /\ k <= n - Len(s) + k
    BY <1>1 DEF EndsAt
  <2> QED BY <1>2, <2>1, <2>2, EndsIf, Zenon
<1>5. EndsAt(SubSeq(s, k + 1, Len(s)), n)
  <2>1. ASSUME NEW i \in 1 .. Len(s) - k
        PROVE SubSeq(s, k + 1, Len(s))[i] = n - (Len(s) - k) + i
    <3>1. k + i \in 1 .. Len(s) /\ n - Len(s) + (k + i) = n - (Len(s) - k) + i
      BY <1>1
    <3>2. s[k + i] = n - Len(s) + (k + i)
      BY <3>1 DEF EndsAt
    <3> QED BY <1>3, <3>1, <3>2
  <2>2. Len(s) - k \in Nat /\ Len(s) - k <= n
    BY <1>1 DEF EndsAt
  <2>3. n \in Int
    OBVIOUS
  <2> QED BY <1>3, <2>1, <2>2, <2>3, EndsIf, Zenon
<1> QED BY <1>2, <1>3, <1>4, <1>5

(* What ends at n lies in what was fed, and is a slice. *)
LEMMA EndsInFed ==
  ASSUME NEW s, NEW m \in Nat, NEW n \in 0 .. m, EndsAt(s, n)
  PROVE  s \in Seq(1 .. m) /\ \A i \in DOMAIN s : s[i] = s[1] + i - 1
<1>1. s \in Seq(Int) /\ Len(s) \in Nat /\ DOMAIN s = 1 .. Len(s)
  BY LenProperties DEF EndsAt
<1>2. ASSUME NEW i \in 1 .. Len(s) PROVE s[i] \in 1 .. m /\ s[i] = s[1] + i - 1
  BY <1>1 DEF EndsAt
<1>3. s = [i \in 1 .. Len(s) |-> s[i]]
  BY <1>1, LenProperties
<1> QED BY <1>1, <1>2, <1>3

(* The smaller of two lengths is one of them. *)
LEMMA SmallerOf ==
  ASSUME NEW a \in Nat, NEW b \in Nat
  PROVE  Min({a, b}) \in 0 .. a /\ Min({a, b}) <= b
<1> DEFINE least == IF a <= b THEN a ELSE b
<1>1. least \in {a, b} /\ \A y \in {a, b} : least <= y
  OBVIOUS
<1>2. Min({a, b}) \in {a, b} /\ \A y \in {a, b} : Min({a, b}) <= y
  BY <1>1 DEF Min
<1> QED BY <1>2
-----------------------------------------------------------------------------
(* A set of positions has no more members than the interval it lies in. *)
LEMMA CountIn ==
  ASSUME NEW a \in Nat, NEW b \in Nat, a <= b + 1, NEW P, P \subseteq a .. b
  PROVE  Cardinality(P) \in 0 .. b - a + 1
<1>1. IsFiniteSet(a .. b) /\ Cardinality(a .. b) = IF a > b THEN 0 ELSE b - a + 1
  BY FS_Interval
<1>2. IsFiniteSet(P) /\ Cardinality(P) <= Cardinality(a .. b)
  BY <1>1, FS_Subset
<1>3. Cardinality(P) \in Nat
  BY <1>2, FS_CardinalityType
<1> QED BY <1>1, <1>2, <1>3

(* No more samples are silent at the front than there are. *)
LEMMA FrontInside ==
  ASSUME NEW s \in Seq(Int)
  PROVE  SilenceBefore(s) \in 0 .. Len(s)
<1>1. Len(s) \in Nat /\ DOMAIN s = 1 .. Len(s)
  BY LenProperties
<1> DEFINE P == {i \in DOMAIN s : Silent(SubSeq(s, 1, i))}
<1>2. P \subseteq 1 .. Len(s)
  BY <1>1
<1>3. Cardinality(P) \in 0 .. Len(s) - 1 + 1
  <2>1. 1 \in Nat /\ Len(s) \in Nat /\ 1 <= Len(s) + 1
    BY <1>1
  <2> HIDE DEF P
  <2> QED BY <1>2, <2>1, CountIn
<1> QED BY <1>1, <1>3 DEF SilenceBefore

(* ... and fewer when a loud one follows. *)
LEMMA FrontBeforeSpeech ==
  ASSUME NEW s \in Seq(Int), s # <<>>, ~Silent(s)
  PROVE  SilenceBefore(s) \in 0 .. Len(s) - 1
<1>1. Len(s) \in Nat \ {0} /\ DOMAIN s = 1 .. Len(s)
  BY LenProperties, EmptySeq
<1>2. SubSeq(s, 1, Len(s)) = s
  BY SubSeqFull
<1> DEFINE P == {i \in DOMAIN s : Silent(SubSeq(s, 1, i))}
<1>3. Len(s) \notin P
  BY <1>2
<1>4. P \subseteq 1 .. Len(s) - 1
  <2>1. P \subseteq 1 .. Len(s)
    BY <1>1
  <2> HIDE DEF P
  <2> QED BY <1>1, <1>3, <2>1
<1>5. Cardinality(P) \in 0 .. (Len(s) - 1) - 1 + 1
  <2>1. 1 \in Nat /\ Len(s) - 1 \in Nat /\ 1 <= (Len(s) - 1) + 1
    BY <1>1
  <2> HIDE DEF P
  <2> QED BY <1>4, <2>1, CountIn
<1> QED BY <1>1, <1>5 DEF SilenceBefore

(* After a block with speech, less than the block is silent. *)
LEMMA BackAfterSpeech ==
  ASSUME NEW a \in Seq(Int), NEW b \in Seq(Int), ~Silent(b)
  PROVE  /\ ~Silent(a \o b)
         /\ \A q \in Int : SilenceAfter(q, a \o b) \in 0 .. Len(b) - 1
<1> DEFINE s == a \o b
<1>1. /\ Len(a) \in Nat /\ Len(b) \in Nat /\ s \in Seq(Int) /\ Len(s) = Len(a) + Len(b)
      /\ DOMAIN s = 1 .. Len(s) /\ DOMAIN b = 1 .. Len(b)
      /\ \A i \in 1 .. Len(a) + Len(b) : s[i] = IF i <= Len(a) THEN a[i] ELSE b[i - Len(a)]
  BY LenProperties, ConcatProperties
<1> HIDE DEF s
<1>2. PICK j \in 1 .. Len(b) : b[j] \in loud
  BY <1>1 DEF Silent, Range
<1>3. Len(a) + j \in 1 .. Len(s) /\ s[Len(a) + j] = b[j]
  <2>1. Len(a) + j \in 1 .. Len(a) + Len(b) /\ ~(Len(a) + j <= Len(a)) /\ (Len(a) + j) - Len(a) = j
    BY <1>1
  <2>2. s[Len(a) + j] = b[(Len(a) + j) - Len(a)]
    BY <1>1, <2>1
  <2> QED BY <1>1, <2>1, <2>2
<1>4. ~Silent(s)
  BY <1>1, <1>2, <1>3 DEF Silent, Range
<1> DEFINE P == {i \in DOMAIN s : Silent(SubSeq(s, i, Len(s)))}
<1>5. ASSUME NEW i \in P PROVE i \in Len(a) + 2 .. Len(s)
  <2>1. i \in 1 .. Len(s) /\ Silent(SubSeq(s, i, Len(s)))
    BY <1>1
  <2>2. SUFFICES ASSUME i <= Len(a) + 1 PROVE FALSE
    <3>1. i \in Int /\ i <= Len(s) /\ Len(a) \in Int /\ Len(s) \in Int
      BY <1>1, <2>1
    <3> QED BY <3>1
  <2> DEFINE k == Len(a) + j - i + 1
  <2>3. k \in 1 .. Len(s) - i + 1 /\ i + k - 1 = Len(a) + j
    <3>1. /\ i \in Nat /\ j \in Nat /\ Len(a) \in Nat /\ Len(b) \in Nat
          /\ 1 <= j /\ j <= Len(b) /\ 1 <= i /\ Len(s) = Len(a) + Len(b)
      BY <1>1, <2>1
    <3> HIDE DEF P
    <3> QED BY <2>2, <3>1
  <2>4. \A m \in i .. Len(s) : s[m] \in Int
    BY <1>1, <2>1, LenProperties
  <2>5. /\ SubSeq(s, i, Len(s)) \in Seq(Int)
        /\ Len(SubSeq(s, i, Len(s))) = Len(s) - i + 1
        /\ SubSeq(s, i, Len(s))[k] = s[i + k - 1]
    <3>1. i \in Int /\ Len(s) \in Int /\ i <= Len(s) /\ k \in 1 .. Len(s) - i + 1
      BY <1>1, <2>1, <2>3
    <3> HIDE DEF k, P
    <3>2. /\ SubSeq(s, i, Len(s)) \in Seq(Int)
          /\ Len(SubSeq(s, i, Len(s))) = IF i <= Len(s) THEN Len(s) - i + 1 ELSE 0
          /\ \A m \in 1 .. Len(s) - i + 1 : SubSeq(s, i, Len(s))[m] = s[i + m - 1]
      BY <3>1, <2>4, SubSeqProperties
    <3> QED BY <3>1, <3>2
  <2>6. k \in DOMAIN SubSeq(s, i, Len(s))
    BY <2>3, <2>5, LenProperties
  <2>7. SubSeq(s, i, Len(s))[k] \in loud
    BY <1>2, <1>3, <2>3, <2>5
  <2> QED BY <2>1, <2>6, <2>7 DEF Silent, Range
<1>6. Cardinality(P) \in 0 .. Len(b) - 1
  <2>1. P \subseteq Len(a) + 2 .. Len(s)
    <3> HIDE DEF P
    <3> QED BY <1>5
  <2>2. Len(a) + 2 \in Nat /\ Len(s) \in Nat /\ Len(a) + 2 <= Len(s) + 1
    BY <1>1, <1>2
  <2>3. Cardinality(P) \in 0 .. Len(s) - (Len(a) + 2) + 1
    <3> HIDE DEF P
    <3> QED BY <2>1, <2>2, CountIn
  <2> QED BY <1>1, <2>3
<1>7. \A q \in Int : SilenceAfter(q, s) \in 0 .. Len(b) - 1
  BY <1>4, <1>6 DEF SilenceAfter
<1> QED BY <1>4, <1>7 DEF s
-----------------------------------------------------------------------------
Running == phase \in {"synthesizing", "pushing", "ending", "cutting"}

(* The types, without the sequences. *)
Typed ==
  /\ pieces \in 2 .. MaxPieces
  /\ piece \in 0 .. pieces
  /\ phase \in Phases
  /\ status \in {"none", "OK", "CANCELLED", "FAILED"}
  /\ fed \in 0 .. MaxSamples
  /\ loud \subseteq 1 .. fed
  /\ leading \in BOOLEAN /\ hold_trail \in BOOLEAN /\ spoke \in BOOLEAN
  /\ quiet \in Int /\ quiet >= NoSpeechYet
  /\ join \in Nat

Run(s) == \E n \in 0 .. fed : EndsAt(s, n)

(* Each buffer is a run of samples, also once the sink has refused some. *)
Slices == Run(pend) /\ Run(lead) /\ Run(held) /\ Run(out) /\ Len(lead) <= LeadKeep

(* The tape: pend after what is held back after what the sink has. *)
Tape ==
  /\ EndsAt(pend, fed)
  /\ EndsAt(lead \o held, fed - Len(pend))
  /\ EndsAt(out, fed - Len(pend) - Len(lead \o held))
  /\ IF leading THEN out = <<>> /\ held = <<>> ELSE lead = <<>>

(* What of a block is left, and where. *)
Pending ==
  /\ phase \in {"synthesizing", "ending"} => Len(pend) < Block
  /\ phase \in {"cutting", "between"} => pend = <<>>

(* No loud sample was dropped: it was heard or is still to be looked at. *)
Speech == phase # "done" => loud \subseteq Range(out) \cup Range(pend)

(* A piece is silent to the listener until it speaks. *)
Spoken ==
  /\ leading => ~spoke
  /\ spoke => out # <<>>
  /\ ~leading /\ ~spoke => quiet = NoSpeechYet /\ held = <<>>
  /\ hold_trail <=> piece # pieces

(* The silence at the listener's end, before the next speech is joined.    *)
Trail == TrailKeep + Block - 1
Quiet ==
  /\ Running /\ leading => quiet <= Trail
  /\ Running /\ spoke /\ hold_trail => quiet <= Block - 1
  /\ phase = "between" /\ piece < pieces => quiet <= Trail
  /\ piece = 0 => phase = "between" /\ quiet = NoSpeechYet

IInv ==
  /\ Typed /\ Slices /\ Pending /\ Speech /\ Quiet /\ JoinIsShort
  /\ Running => Tape /\ Spoken
-----------------------------------------------------------------------------
(* Nothing is silent. *)
LEMMA NothingEnds == <<>> \in Seq(Int) /\ Len(<<>>) = 0 /\ Silent(<<>>)
BY EmptySeq DEF Silent, Range

(* The types of the constants. *)
LEMMA ConstantsAreNumbers ==
  /\ Block \in Nat \ {0} /\ LeadKeep \in Nat /\ TrailKeep \in Nat
  /\ Trail \in Nat /\ Trail = TrailKeep + Block - 1
BY TrimmerAssumption DEF Trail

(* At the start nothing is fed. *)
LEMMA InitInv == Init => IInv
<1> SUFFICES ASSUME Init PROVE IInv
  OBVIOUS
<1>1. Typed /\ JoinIsShort /\ ~Running
  <2>1. Typed
    <3>1. pieces \in Int /\ 0 \in 0 .. pieces /\ 0 \in 0 .. MaxSamples
      BY TrimmerAssumption DEF Init
    <3>2. NoSpeechYet \in Int /\ NoSpeechYet >= NoSpeechYet /\ 0 \in Nat
      BY DEF NoSpeechYet
    <3> QED BY <3>1, <3>2 DEF Init, Typed, Phases
  <2>2. JoinIsShort
    BY TrimmerAssumption DEF Init, JoinIsShort
  <2> QED BY <2>1, <2>2 DEF Init, Running
<1>2. Slices
  BY EmptyEnds, NothingEnds, ConstantsAreNumbers DEF Init, Slices, Run
<1>3. Pending /\ Quiet
  BY ConstantsAreNumbers DEF Init, Pending, Quiet, Running, NoSpeechYet
<1>4. Speech
  BY DEF Init, Speech
<1> QED BY <1>1, <1>2, <1>3, <1>4 DEF IInv

(* What the sink's taking s does to the silences. *)
LEMMA TakesKeeps ==
  ASSUME Typed, JoinIsShort, NEW s \in Seq(Int), Takes(s),
         out = <<>> /\ quiet # NoSpeechYet
           => quiet <= Trail /\ SilenceBefore(s) <= LeadKeep + Block - 1
  PROVE  quiet' \in Int /\ quiet' >= NoSpeechYet /\ join' \in Nat /\ JoinIsShort'
<1>1. Len(s) \in Nat /\ DOMAIN s = 1 .. Len(s)
  BY LenProperties
<1>2. quiet' \in Int /\ quiet' >= NoSpeechYet
  <2> DEFINE P == {i \in DOMAIN s : Silent(SubSeq(s, i, Len(s)))}
  <2>1. Cardinality(P) \in 0 .. Len(s) - 1 + 1
    <3>1. P \subseteq 1 .. Len(s) /\ 1 \in Nat /\ 1 <= Len(s) + 1
      BY <1>1
    <3> HIDE DEF P
    <3> QED BY <1>1, <3>1, CountIn
  <2>2. quiet' \in {Cardinality(P), quiet, quiet + Len(s)}
    BY DEF Takes, SilenceAfter
  <2> HIDE DEF P
  <2> QED BY <1>1, <2>1, <2>2 DEF Typed, NoSpeechYet
<1>3. join' \in Nat /\ JoinIsShort'
  <2>1. CASE out = <<>> /\ quiet # NoSpeechYet
    <3>1. join' = quiet + SilenceBefore(s)
      BY <2>1 DEF Takes
    <3>2. SilenceBefore(s) \in 0 .. Len(s) /\ quiet \in Nat
      BY <2>1, FrontInside DEF Typed, NoSpeechYet
    <3> QED BY <1>1, <2>1, <3>1, <3>2, ConstantsAreNumbers DEF JoinIsShort
  <2>2. CASE ~(out = <<>> /\ quiet # NoSpeechYet)
    <3>1. join' = join
      BY <2>2 DEF Takes
    <3> QED BY <3>1 DEF JoinIsShort, Typed
  <2> QED BY <2>1, <2>2
<1> QED BY <1>2, <1>3

(* The facts of a running piece, in one place. *)
LEMMA RunningFacts ==
  ASSUME IInv, Running
  PROVE  /\ fed \in Nat /\ Len(pend) \in Nat /\ Len(pend) <= fed
         /\ pend \in Seq(Int) /\ lead \in Seq(Int) /\ held \in Seq(Int) /\ out \in Seq(Int)
         /\ lead \o held \in Seq(Int) /\ Len(lead) \in Nat /\ Len(held) \in Nat
         /\ lead \o held = IF leading THEN lead ELSE held
         /\ Len(lead \o held) \in Nat /\ Len(lead \o held) <= fed - Len(pend)
         /\ out = <<>> /\ quiet # NoSpeechYet => leading
<1>1. fed \in Nat /\ pend \in Seq(Int) /\ lead \in Seq(Int) /\ held \in Seq(Int) /\ out \in Seq(Int)
  BY TrimmerAssumption DEF IInv, Typed, Slices, Run, EndsAt
<1>2. Len(pend) \in Nat /\ Len(lead) \in Nat /\ Len(held) \in Nat /\ lead \o held \in Seq(Int)
  BY <1>1, LenProperties, ConcatProperties
<1>3. lead \o held = IF leading THEN lead ELSE held
  BY <1>1, ConcatEmptySeq DEF IInv, Tape
<1>4. Len(pend) <= fed /\ Len(lead \o held) <= fed - Len(pend) /\ Len(lead \o held) \in Nat
  BY <1>2, LenProperties DEF IInv, Tape, EndsAt
<1>5. out = <<>> /\ quiet # NoSpeechYet => leading
  BY DEF IInv, Spoken, Typed
<1> QED BY <1>1, <1>2, <1>3, <1>4, <1>5

(* A refusal ends the synthesis: the slices and the joins are all that is  *)
(* left of the invariant.                                                  *)
LEMMA DoneKeeps ==
  ASSUME phase' = "done", piece' # 0, Typed', Slices', JoinIsShort'
  PROVE  IInv'
BY DEF IInv, Pending, Speech, Quiet, Running
-----------------------------------------------------------------------------
(* A new piece starts a new tape; the silence at the listener's end stays. *)
LEMMA BeginPieceKeeps == ASSUME IInv, BeginPiece PROVE IInv'
<1>1. Typed' /\ JoinIsShort' /\ Running'
  <2>1. Typed'
    <3>1. pieces \in Nat /\ piece \in 0 .. pieces /\ piece < pieces
      BY TrimmerAssumption DEF BeginPiece, IInv, Typed
    <3>2. piece + 1 \in 0 .. pieces /\ 0 \in 0 .. MaxSamples
      BY <3>1, TrimmerAssumption
    <3> QED BY <3>1, <3>2 DEF BeginPiece, IInv, Typed, Phases, Goto
  <2>2. JoinIsShort' /\ Running'
    BY TrimmerAssumption DEF BeginPiece, JoinIsShort, Running, Goto
  <2> QED BY <2>1, <2>2
<1>2. pend' = <<>> /\ lead' = <<>> /\ held' = <<>> /\ out' = <<>> /\ fed' = 0 /\ loud' = {}
  BY DEF BeginPiece
<1>3. EndsAt(<<>>, 0) /\ Len(<<>>) = 0 /\ <<>> \o <<>> = <<>>
  BY EmptyEnds, NothingEnds, ConcatEmptySeq
<1>4. Slices' /\ Tape'
  BY <1>2, <1>3, ConstantsAreNumbers DEF Slices, Run, Tape
<1>5. Pending' /\ Speech'
  BY <1>2, <1>3, ConstantsAreNumbers DEF BeginPiece, Pending, Speech, Goto
<1>6. Spoken' /\ Quiet'
  <2>1. /\ piece \in Nat /\ piece < pieces /\ piece' = piece + 1 /\ pieces' = pieces /\ quiet' = quiet
        /\ leading' = (piece # 0) /\ hold_trail' = (piece' # pieces) /\ spoke' = FALSE
        /\ phase = "between" /\ phase' = "synthesizing"
    BY TrimmerAssumption DEF BeginPiece, IInv, Typed, Goto
  <2>2. quiet <= Trail /\ (piece = 0 => quiet = NoSpeechYet)
    BY <2>1 DEF IInv, Quiet
  <2>3. Spoken'
    BY <1>2, <2>1, <2>2 DEF Spoken
  <2>4. Quiet'
    BY <2>1, <2>2 DEF Quiet, Trail
  <2> QED BY <2>3, <2>4
<1> QED BY <1>1, <1>4, <1>5, <1>6 DEF IInv

(* The end of the text changes nothing else. *)
LEMMA AllSpokenKeeps == ASSUME IInv, AllSpoken PROVE IInv'
<1>1. piece' # 0 /\ phase' = "done"
  BY TrimmerAssumption DEF IInv, Typed, AllSpoken, Return, text
<1>2. Typed' /\ Slices' /\ JoinIsShort'
  BY DEF IInv, Typed, Phases, Slices, Run, EndsAt, JoinIsShort, AllSpoken, Return,
         text, input, flags, output
<1> QED BY <1>1, <1>2, DoneKeeps

(* The steps that only move on. *)
LEMMA MovesKeep ==
  ASSUME IInv, SynthesisFails \/ SynthesisEnds \/ PushReturns
  PROVE  IInv'
<1>1. /\ UNCHANGED <<text, input, flags, pend, lead, held, output>> /\ Running /\ piece # 0
      /\ status' \in {"none", "OK", "CANCELLED", "FAILED"}
  BY DEF IInv, Typed, Quiet, SynthesisFails, SynthesisEnds, PushReturns, Return, Goto, Running
<1>2. Typed' /\ Slices' /\ JoinIsShort' /\ piece' # 0
  BY <1>1 DEF IInv, Typed, Phases, Slices, Run, EndsAt, JoinIsShort, text, input, flags, output,
         SynthesisFails, SynthesisEnds, PushReturns, Return, Goto
<1>3. Tape' /\ Spoken'
  BY <1>1 DEF IInv, Tape, EndsAt, Spoken, text, input, flags, output
<1>4. CASE SynthesisFails
  BY <1>2, <1>4, DoneKeeps DEF SynthesisFails, Return
<1>5. CASE SynthesisEnds
  BY <1>1, <1>2, <1>3, <1>5
     DEF IInv, Pending, Speech, Quiet, Running, SynthesisEnds, Goto, text, input, flags, output
<1>6. CASE PushReturns
  BY <1>1, <1>2, <1>3, <1>6
     DEF IInv, Pending, Speech, Quiet, Running, PushReturns, Goto, text, input, flags, output
<1> QED BY <1>4, <1>5, <1>6

(* A push adds numbers at the end of the tape, loud ones among them. *)
LEMMA PushKeeps == ASSUME IInv, Push PROVE IInv'
<1>1. PICK n \in 1 .. MaxPush :
        /\ fed + n <= MaxSamples /\ fed' = fed + n
        /\ \E l \in SUBSET (fed + 1 .. fed + n) : loud' = loud \union l
        /\ pend' = pend \o [i \in 1 .. n |-> fed + i]
  BY DEF Push
<1> DEFINE new == [i \in 1 .. n |-> fed + i]
<1>2. /\ phase = "synthesizing" /\ phase' = "pushing" /\ Running /\ Running' /\ piece # 0
      /\ UNCHANGED <<pieces, piece, status, leading, hold_trail, spoke, lead, held, out, quiet, join>>
  BY DEF Push, Goto, Running, text, flags, output, IInv, Quiet
<1>3. fed \in Nat /\ n \in Nat /\ n >= 1 /\ fed' \in 0 .. MaxSamples /\ Len(pend) \in Nat
  BY <1>1, <1>2, RunningFacts, TrimmerAssumption DEF IInv, Typed
<1>4. new \in Seq(Int) /\ Len(new) = n /\ \A i \in 1 .. n : new[i] = fed + i
  BY <1>3
<1>5. EndsAt(new, fed')
  <2> HIDE DEF new
  <2> QED BY <1>1, <1>3, <1>4 DEF EndsAt
<1>6. EndsAt(pend, fed) /\ pend \in Seq(Int)
  BY <1>2, RunningFacts DEF IInv, Tape
<1>7. EndsAt(pend', fed') /\ Len(pend') = Len(pend) + n
  <2>1. fed' - Len(new) = fed /\ fed' \in Nat
    BY <1>1, <1>3, <1>4
  <2>2. pend' = pend \o new
    BY <1>1
  <2> HIDE DEF new
  <2>3. EndsAt(pend, fed' - Len(new))
    BY <1>6, <2>1
  <2>4. EndsAt(pend \o new, fed')
    BY <1>5, <2>1, <2>3, ConcatEnds
  <2> QED BY <1>4, <1>6, <2>2, <2>4, ConcatProperties
<1>8. Range(pend') = Range(pend) \cup fed + 1 .. fed + n
  <2>1. Range(new) = fed + 1 .. fed + n
    <3>1. ASSUME NEW x \in fed + 1 .. fed + n PROVE x \in Range(new)
      <4>1. x - fed \in 1 .. n /\ fed + (x - fed) = x
        BY <1>3
      <4> QED BY <1>4, <4>1 DEF Range
    <3> QED BY <1>3, <3>1 DEF Range
  <2>2. pend' = pend \o new
    BY <1>1
  <2> HIDE DEF new
  <2> QED BY <1>4, <1>6, <2>1, <2>2, RangeOfConcat
<1> HIDE DEF new
<1>9. loud' \subseteq 1 .. fed' /\ loud' \subseteq loud \cup fed + 1 .. fed + n
  BY <1>1, <1>3 DEF IInv, Typed
<1>10. Typed' /\ JoinIsShort'
  BY <1>2, <1>3, <1>9 DEF IInv, Typed, JoinIsShort, Phases
<1>11. Slices'
  <2>1. 0 .. fed \subseteq 0 .. fed'
    BY <1>1, <1>3
  <2>2. Run(lead)' /\ Run(held)' /\ Run(out)' /\ Len(lead') <= LeadKeep
    BY <1>2, <2>1 DEF IInv, Slices, Run, EndsAt
  <2>3. Run(pend)'
    BY <1>3, <1>7 DEF Run, EndsAt
  <2> QED BY <2>2, <2>3 DEF Slices
<1>12. Tape'
  <2>1. fed' - Len(pend') = fed - Len(pend)
    BY <1>1, <1>3, <1>7
  <2>2. EndsAt(lead \o held, fed' - Len(pend')) /\ EndsAt(out, fed' - Len(pend') - Len(lead \o held))
    BY <1>2, <2>1 DEF IInv, Tape
  <2> QED BY <1>2, <1>7, <2>2 DEF IInv, Tape
<1>13. Pending' /\ Speech' /\ Spoken' /\ Quiet'
  <2>1. loud \subseteq Range(out) \cup Range(pend)
    BY <1>2 DEF IInv, Speech
  <2>2. Speech'
    BY <1>2, <1>8, <1>9, <2>1 DEF Speech
  <2> QED BY <1>2, <2>2 DEF IInv, Pending, Spoken, Quiet, Running
<1> QED BY <1>10, <1>11, <1>12, <1>13 DEF IInv
-----------------------------------------------------------------------------
(* The step takes the block b off the front of pend. *)
Cut(b, p) ==
  /\ p \in {"pushing", "cutting"}
  /\ b # <<>> /\ Len(b) <= Block
  /\ EndsAt(b, fed - Len(pend) + Len(b))
  /\ EndsAt(pend', fed) /\ Len(pend') = Len(pend) - Len(b)
  /\ Range(pend) = Range(b) \cup Range(pend')
  /\ p = "cutting" => pend' = <<>>
  /\ UNCHANGED <<pieces, piece, fed, loud, hold_trail>>

(* What holds of the block and of the tape around it. *)
LEMMA CutFacts ==
  ASSUME IInv, Running, NEW b, NEW p, Cut(b, p)
  PROVE  /\ b \in Seq(Int) /\ Len(b) \in Nat /\ Len(b) >= 1 /\ Len(b) <= Block
         /\ fed - Len(pend) \in Nat /\ fed - Len(pend') \in 0 .. fed
         /\ fed - Len(pend') = fed - Len(pend) + Len(b)
         /\ (lead \o held) \o b \in Seq(Int)
         /\ Len((lead \o held) \o b) = Len(lead \o held) + Len(b)
         /\ EndsAt((lead \o held) \o b, fed - Len(pend'))
         /\ EndsAt(out, fed - Len(pend') - Len((lead \o held) \o b))
         /\ loud \subseteq Range(out) \cup Range(b) \cup Range(pend')
         /\ piece # 0
<1> DEFINE st == lead \o held
<1>1. /\ fed \in Nat /\ Len(pend) \in Nat /\ Len(pend) <= fed /\ st \in Seq(Int) /\ Len(st) \in Nat
      /\ Len(pend') = Len(pend) - Len(b)
  BY RunningFacts DEF Cut
<1>2. b \in Seq(Int) /\ Len(b) \in Nat /\ Len(b) >= 1 /\ Len(b) <= Block
  BY LenProperties, EmptySeq DEF Cut, EndsAt
<1>3. pend' \in Seq(Int) /\ Len(pend') \in Nat
  BY LenProperties DEF Cut, EndsAt
<1>4. /\ fed - Len(pend) \in Nat /\ fed - Len(pend') \in 0 .. fed
      /\ fed - Len(pend') = fed - Len(pend) + Len(b) /\ fed - Len(pend') \in Nat
  BY <1>1, <1>2, <1>3
<1>5. EndsAt(b, fed - Len(pend'))
  BY <1>4 DEF Cut
<1>6. EndsAt(st, (fed - Len(pend')) - Len(b))
  <2>1. (fed - Len(pend')) - Len(b) = fed - Len(pend)
    BY <1>1, <1>2, <1>4
  <2> QED BY <2>1 DEF IInv, Tape
<1>7. st \o b \in Seq(Int) /\ Len(st \o b) = Len(st) + Len(b)
  BY <1>1, <1>2, ConcatProperties
<1>8. EndsAt(st \o b, fed - Len(pend'))
  <2> DEFINE n == fed - Len(pend')
  <2>1. n \in Nat /\ EndsAt(b, n) /\ EndsAt(st, n - Len(b))
    BY <1>4, <1>5, <1>6
  <2> HIDE DEF n, st
  <2>2. EndsAt(st \o b, n)
    BY <2>1, ConcatEnds
  <2> QED BY <2>2 DEF n
<1>9. EndsAt(out, fed - Len(pend') - Len(st \o b))
  <2>1. fed - Len(pend') - Len(st \o b) = fed - Len(pend) - Len(st)
    BY <1>1, <1>2, <1>4, <1>7
  <2> QED BY <2>1 DEF IInv, Tape
<1>10. loud \subseteq Range(out) \cup Range(b) \cup Range(pend') /\ piece # 0
  BY DEF IInv, Speech, Quiet, Running, Cut
<1> QED BY <1>2, <1>4, <1>7, <1>8, <1>9, <1>10

(* What a step that takes a block has to show. *)
LEMMA CutKeeps ==
  ASSUME IInv, Running, NEW b, NEW p, Cut(b, p), phase' = p, status' = status,
         leading' \in BOOLEAN, spoke' \in BOOLEAN,
         EndsAt(lead' \o held', fed - Len(pend')), Run(lead'), Run(held'), Run(out'),
         Len(lead') <= LeadKeep,
         EndsAt(out', fed - Len(pend') - Len(lead' \o held')),
         IF leading' THEN out' = <<>> /\ held' = <<>> ELSE lead' = <<>>,
         loud \subseteq Range(out') \cup Range(pend'),
         Spoken',
         quiet' \in Int, quiet' >= NoSpeechYet, join' \in Nat, JoinIsShort',
         leading' => quiet' <= Trail,
         spoke' /\ hold_trail => quiet' <= Block - 1
  PROVE  IInv'
<1>1. /\ UNCHANGED <<pieces, piece, fed, loud, hold_trail>> /\ Running'
      /\ p \in {"pushing", "cutting"} /\ piece # 0 /\ fed - Len(pend') \in 0 .. fed
  BY CutFacts DEF Cut, Running
<1>2. Typed'
  BY <1>1 DEF IInv, Typed, Phases
<1>3. Slices'
  <2>1. Run(pend')
    BY <1>1, CutFacts, TrimmerAssumption DEF Cut, Run, IInv, Typed
  <2> QED BY <1>1, <2>1 DEF Slices, Run, EndsAt
<1>4. Tape'
  BY <1>1 DEF Tape, Cut, EndsAt
<1>5. Pending' /\ Speech' /\ Quiet'
  BY <1>1 DEF Pending, Speech, Quiet, Running, Cut
<1> QED BY <1>1, <1>2, <1>3, <1>4, <1>5 DEF IInv

(* A slice of what was fed stays one. *)
LEMMA RunOf == ASSUME NEW s, NEW n \in 0 .. fed, EndsAt(s, n) PROVE Run(s)
BY DEF Run

(* Silence before speech: the end of it is kept. *)
LEMMA LeadInKeeps ==
  ASSUME IInv, Running, NEW b, NEW p, Cut(b, p), LeadIn(b, p)
  PROVE  IInv'
<1> DEFINE s == lead \o b
           n == fed - Len(pend')
           k == Len(s) - Min({Len(s), LeadKeep})
<1>1. /\ leading /\ Silent(b) /\ lead' = Recent(s) /\ phase' = p /\ status' = status
      /\ UNCHANGED <<leading, spoke, held, out, quiet, join>>
  BY DEF LeadIn, Goto, output
<1>2. held = <<>> /\ out = <<>> /\ lead \o held = lead
  BY <1>1, RunningFacts DEF IInv, Tape
<1>3. s \in Seq(Int) /\ Len(s) \in Nat /\ EndsAt(s, n) /\ n \in Nat /\ n \in 0 .. fed
  BY <1>2, CutFacts, RunningFacts
<1>4. Min({Len(s), LeadKeep}) \in 0 .. Len(s) /\ Min({Len(s), LeadKeep}) <= LeadKeep
  <2> HIDE DEF s
  <2> QED BY <1>3, SmallerOf, ConstantsAreNumbers
<1>5. lead' = SubSeq(s, k + 1, Len(s))
  BY <1>1 DEF Recent
<1>6. EndsAt(lead', n) /\ Len(lead') = Min({Len(s), LeadKeep})
  <2>1. k \in 0 .. Len(s) /\ Len(s) - k = Min({Len(s), LeadKeep})
    <3> HIDE DEF s
    <3> QED BY <1>3, <1>4
  <2> HIDE DEF s, n, k
  <2>2. EndsAt(SubSeq(s, k + 1, Len(s)), n) /\ Len(SubSeq(s, k + 1, Len(s))) = Len(s) - k
    BY <1>3, <2>1, SubSeqEnds
  <2> QED BY <1>5, <2>1, <2>2
<1>7. lead' \in Seq(Int) /\ Len(lead') \in Nat /\ Len(lead') <= LeadKeep /\ Len(lead') <= n
  BY <1>4, <1>6, ConstantsAreNumbers DEF EndsAt
<1>8. held' = <<>> /\ out' = <<>> /\ lead' \o held' = lead'
  BY <1>1, <1>2, <1>7, ConcatEmptySeq
<1>9. EndsAt(lead' \o held', n) /\ EndsAt(out', n - Len(lead' \o held'))
  <2>1. n - Len(lead') \in Nat
    <3> HIDE DEF n
    <3> QED BY <1>3, <1>7
  <2> HIDE DEF n
  <2> QED BY <1>6, <1>8, <2>1, EmptyEnds
<1>10. Run(lead') /\ Run(held') /\ Run(out')
  <2>1. fed \in Nat /\ 0 \in 0 .. fed
    BY RunningFacts
  <2> HIDE DEF n
  <2> QED BY <1>3, <1>6, <1>8, <2>1, EmptyEnds, RunOf
<1>11. loud \subseteq Range(out') \cup Range(pend')
  BY <1>1, CutFacts DEF Silent, IInv, Typed
<1>12. Spoken' /\ JoinIsShort' /\ quiet' \in Int /\ quiet' >= NoSpeechYet /\ join' \in Nat
  BY <1>1, <1>2 DEF IInv, Spoken, JoinIsShort, Typed, Cut
<1>13. quiet' <= Trail /\ ~spoke' /\ leading' /\ spoke' \in BOOLEAN /\ leading' \in BOOLEAN
  BY <1>1 DEF IInv, Quiet, Spoken, Typed
<1> QED BY <1>1, <1>7, <1>8, <1>9, <1>10, <1>11, <1>12, <1>13, CutKeeps

(* Silence after speech is held back. *)
LEMMA HoldKeeps ==
  ASSUME IInv, Running, NEW b, NEW p, Cut(b, p), Hold(b, p)
  PROVE  IInv'
<1> DEFINE n == fed - Len(pend')
<1>1. /\ ~leading /\ Silent(b) /\ hold_trail /\ spoke /\ held' = held \o b
      /\ phase' = p /\ status' = status
      /\ UNCHANGED <<leading, spoke, lead, out, quiet, join>>
  BY DEF Hold, Goto, output
<1>2. lead = <<>> /\ lead \o held = held /\ held' = (lead \o held) \o b
  BY <1>1, RunningFacts DEF IInv, Tape
<1>3. n \in 0 .. fed /\ EndsAt(held', n) /\ EndsAt(out, n - Len(held')) /\ held' \in Seq(Int)
  BY <1>2, CutFacts
<1>4. lead' \o held' = held' /\ lead' = <<>>
  BY <1>1, <1>2, <1>3, ConcatEmptySeq
<1>5. EndsAt(lead' \o held', n) /\ EndsAt(out', n - Len(lead' \o held'))
  BY <1>1, <1>3, <1>4
<1>6. Run(lead') /\ Run(held') /\ Run(out') /\ Len(lead') <= LeadKeep
  <2>1. Run(held')
    <3> HIDE DEF n
    <3> QED BY <1>3, RunOf
  <2> QED BY <1>1, <2>1 DEF IInv, Slices
<1>7. loud \subseteq Range(out') \cup Range(pend')
  BY <1>1, CutFacts DEF Silent, IInv, Typed
<1>8. Spoken' /\ JoinIsShort' /\ quiet' \in Int /\ quiet' >= NoSpeechYet /\ join' \in Nat
  BY <1>1 DEF IInv, Spoken, JoinIsShort, Typed, Cut
<1>9. ~leading' /\ quiet' <= Block - 1 /\ spoke' \in BOOLEAN /\ leading' \in BOOLEAN
  BY <1>1 DEF IInv, Quiet, Typed
<1> QED BY <1>1, <1>4, <1>5, <1>6, <1>7, <1>8, <1>9, CutKeeps

(* Speech, and silence that is neither at the start nor at the end, goes   *)
(* out after what was held back, unless the sink refuses one or the other. *)
LEMMA PassOnKeeps ==
  ASSUME IInv, Running, NEW b, NEW p, Cut(b, p), PassOn(b, p)
  PROVE  IInv'
<1> DEFINE st == lead \o held
           n == fed - Len(pend')
<1>1. /\ ~Silent(b) \/ (~leading /\ ~(hold_trail /\ spoke))
      /\ Emit(st, b, p) /\ leading' = FALSE /\ spoke' = (spoke \/ ~Silent(b))
      /\ lead' = <<>> /\ held' = <<>>
  BY DEF PassOn, Released
<1>2. /\ b \in Seq(Int) /\ Len(b) \in Nat /\ Len(b) >= 1 /\ Len(b) <= Block
      /\ st \in Seq(Int) /\ Len(st) \in Nat /\ st \o b \in Seq(Int) /\ Len(st \o b) = Len(st) + Len(b)
      /\ n \in 0 .. fed /\ fed \in Nat /\ n \in Nat /\ out \in Seq(Int) /\ n = fed - Len(pend) + Len(b)
      /\ EndsAt(st \o b, n) /\ EndsAt(out, n - Len(st \o b))
  BY CutFacts, RunningFacts
<1>3. EndsAt(st, n - Len(b)) /\ n - Len(b) \in 0 .. fed /\ EndsAt(out, (n - Len(b)) - Len(st))
  <2>1. /\ n - Len(b) = fed - Len(pend) /\ fed - Len(pend) \in Nat /\ Len(pend) \in Nat
        /\ fed - Len(pend) \in 0 .. fed
    BY <1>2, CutFacts, RunningFacts
  <2> QED BY <2>1 DEF IInv, Tape
<1>4. st = IF leading THEN lead ELSE held
  BY RunningFacts
<1>5. out = <<>> /\ quiet # NoSpeechYet => leading /\ quiet <= Trail /\ ~Silent(b) /\ Len(st) <= LeadKeep
  BY <1>1, <1>4, RunningFacts DEF IInv, Quiet, Slices
<1>6. Run(<<>>) /\ Len(<<>>) = 0 /\ <<>> \o <<>> = <<>> /\ EndsAt(<<>>, n)
  <2> HIDE DEF n
  <2> QED BY <1>2, EmptyEnds, NothingEnds, ConcatEmptySeq DEF Run
<1>7. /\ UNCHANGED <<pieces, piece, fed, loud, hold_trail>> /\ piece # 0
      /\ leading' \in BOOLEAN /\ spoke' \in BOOLEAN
  BY <1>1, CutFacts DEF Cut, IInv, Typed
<1>8. CASE Takes(st \o b) /\ Goto(p)
  <2> DEFINE s == st \o b
  <2>1. out' = out \o s /\ quiet' = SilenceAfter(quiet, s) /\ phase' = p /\ status' = status
    BY <1>8 DEF Takes, Goto
  <2>2. EndsAt(out', n) /\ Run(out')
    <3> HIDE DEF s, n
    <3>1. EndsAt(out', n)
      BY <1>2, <2>1, ConcatEnds DEF s
    <3> QED BY <1>2, <3>1, RunOf
  <2>3. EndsAt(lead' \o held', n) /\ EndsAt(out', n - Len(lead' \o held'))
    BY <1>1, <1>2, <1>6, <2>2
  <2>4. loud \subseteq Range(out') \cup Range(pend')
    <3>1. Range(out') = Range(out) \cup Range(s) /\ Range(s) = Range(st) \cup Range(b)
      <4>1. Range(s) = Range(st) \cup Range(b)
        BY <1>2, RangeOfConcat
      <4> HIDE DEF s
      <4>2. Range(out') = Range(out) \cup Range(s)
        BY <1>2, <2>1, RangeOfConcat DEF s
      <4> QED BY <4>1, <4>2
    <3> QED BY <3>1, CutFacts
  <2>5. quiet' \in Int /\ quiet' >= NoSpeechYet /\ join' \in Nat /\ JoinIsShort'
    <3>1. ASSUME out = <<>>, quiet # NoSpeechYet
          PROVE quiet <= Trail /\ SilenceBefore(s) <= LeadKeep + Block - 1
      <4>1. ~Silent(b) /\ Len(st) <= LeadKeep /\ quiet <= Trail
        BY <1>5, <3>1
      <4>2. ~Silent(s)
        <5> HIDE DEF st
        <5> QED BY <1>2, <4>1, BackAfterSpeech
      <4>3. SilenceBefore(s) \in 0 .. Len(s) - 1
        <5>1. s \in Seq(Int) /\ s # <<>>
          BY <1>2, NothingEnds
        <5> HIDE DEF s
        <5> QED BY <4>2, <5>1, FrontBeforeSpeech
      <4>4. Len(s) = Len(st) + Len(b)
        BY <1>2
      <4> HIDE DEF s, st
      <4> QED BY <1>2, <4>1, <4>3, <4>4, ConstantsAreNumbers
    <3>2. s \in Seq(Int) /\ Takes(s)
      BY <1>2, <1>8
    <3> HIDE DEF s
    <3> QED BY <3>1, <3>2, TakesKeeps DEF IInv
  <2>6. ~Silent(b) => quiet' <= Block - 1
    <3>1. ASSUME ~Silent(b) PROVE quiet' \in 0 .. Len(b) - 1
      <4>1. quiet \in Int
        BY DEF IInv, Typed
      <4> HIDE DEF st
      <4>2. SilenceAfter(quiet, st \o b) \in 0 .. Len(b) - 1
        BY <1>2, <3>1, <4>1, BackAfterSpeech
      <4> QED BY <2>1, <4>2
    <3> QED BY <1>2, <3>1, ConstantsAreNumbers
  <2>7. spoke' /\ hold_trail => quiet' <= Block - 1
    BY <1>1, <2>6
  <2>8. Spoken'
    <3>1. out' # <<>>
      <4>1. Len(out') = Len(out) + (Len(st) + Len(b)) /\ Len(out) \in Nat
        BY <1>2, <2>1, ConcatProperties, LenProperties
      <4> QED BY <1>2, <4>1, NothingEnds
    <3>2. ASSUME ~spoke' PROVE quiet' = NoSpeechYet
      <4>1. Silent(b) /\ ~leading /\ ~spoke
        BY <1>1, <3>2
      <4>2. quiet = NoSpeechYet /\ st = <<>>
        BY <1>4, <4>1 DEF IInv, Spoken
      <4>3. s = b
        BY <1>2, <4>2, ConcatEmptySeq
      <4> QED BY <2>1, <4>1, <4>2, <4>3 DEF SilenceAfter
    <3> QED BY <1>1, <1>7, <3>1, <3>2 DEF Spoken, IInv
  <2> QED BY <1>1, <1>6, <1>7, <2>1, <2>2, <2>3, <2>4, <2>5, <2>7, <2>8, CutKeeps, ConstantsAreNumbers
<1>9. ASSUME UNCHANGED output \/ Takes(st), Return("CANCELLED") PROVE IInv'
  <2>1. phase' = "done" /\ status' = "CANCELLED"
    BY <1>9 DEF Return
  <2>2. Run(out') /\ quiet' \in Int /\ quiet' >= NoSpeechYet /\ join' \in Nat /\ JoinIsShort'
    <3>1. CASE UNCHANGED output
      BY <3>1 DEF output, IInv, Typed, Slices, Run, JoinIsShort
    <3>2. CASE Takes(st)
      <4>1. Run(out')
        <5>1. out' = out \o st
          BY <3>2 DEF Takes
        <5> DEFINE m == n - Len(b)
        <5>2. m \in Nat /\ m \in 0 .. fed /\ EndsAt(st, m) /\ EndsAt(out, m - Len(st))
          BY <1>3, <1>2
        <5> HIDE DEF m, n, st
        <5>3. EndsAt(out', m)
          BY <5>1, <5>2, ConcatEnds
        <5> QED BY <5>2, <5>3, RunOf
      <4>2. ASSUME out = <<>>, quiet # NoSpeechYet
            PROVE quiet <= Trail /\ SilenceBefore(st) <= LeadKeep + Block - 1
        <5>1. Len(st) <= LeadKeep /\ quiet <= Trail
          BY <1>5, <4>2
        <5> HIDE DEF st
        <5>2. SilenceBefore(st) \in 0 .. Len(st)
          BY <1>2, FrontInside
        <5> QED BY <1>2, <5>1, <5>2, ConstantsAreNumbers
      <4> HIDE DEF st
      <4> QED BY <1>2, <3>2, <4>1, <4>2, TakesKeeps DEF IInv
    <3> QED BY <1>9, <3>1, <3>2
  <2>3. Typed'
    BY <1>7, <2>1, <2>2 DEF IInv, Typed, Phases
  <2>4. Slices'
    <3>1. Run(pend')
      BY <1>2 DEF Cut, Run
    <3> QED BY <1>1, <1>6, <1>7, <2>2, <3>1, ConstantsAreNumbers DEF Slices, Run, EndsAt
  <2> QED BY <1>7, <2>1, <2>2, <2>3, <2>4, DoneKeeps
<1>10. \/ Takes(st \o b) /\ Goto(p)
       \/ st # <<>> /\ UNCHANGED output /\ Return("CANCELLED")
       \/ b # <<>> /\ Takes(st) /\ Return("CANCELLED")
  BY <1>1 DEF Emit
<1> QED BY <1>8, <1>9, <1>10
-----------------------------------------------------------------------------
(* Whichever of the three cases takes the block. *)
LEMMA BlockKeeps ==
  ASSUME IInv, Running, NEW b, NEW p, Cut(b, p), TakeBlock(b, p)
  PROVE  IInv'
BY LeadInKeeps, HoldKeeps, PassOnKeeps DEF TakeBlock

(* A whole block off the front. *)
LEMMA NextBlockKeeps == ASSUME IInv, NextBlock PROVE IInv'
<1> DEFINE b == SubSeq(pend, 1, Block)
<1>1. /\ phase = "pushing" /\ Running /\ Len(pend) >= Block /\ TakeBlock(b, "pushing")
      /\ pend' = SubSeq(pend, Block + 1, Len(pend))
      /\ UNCHANGED <<pieces, piece, fed, loud, hold_trail>>
  BY DEF NextBlock, Running, TakeBlock, text, input
<1>2. /\ fed \in Nat /\ Len(pend) \in Nat /\ pend \in Seq(Int) /\ EndsAt(pend, fed)
      /\ Block \in 0 .. Len(pend)
  BY <1>1, RunningFacts, ConstantsAreNumbers DEF IInv, Tape
<1>3. /\ EndsAt(b, fed - Len(pend) + Block) /\ Len(b) = Block
      /\ EndsAt(pend', fed) /\ Len(pend') = Len(pend) - Block
  BY <1>1, <1>2, SubSeqEnds
<1>4. b \in Seq(Int) /\ pend' \in Seq(Int) /\ b # <<>>
  BY <1>3, NothingEnds, ConstantsAreNumbers DEF EndsAt
<1>5. Range(pend) = Range(b) \cup Range(pend')
  <2>1. /\ DOMAIN (b \o pend') = 1 .. Len(pend) /\ b \o pend' \in Seq(Int) /\ DOMAIN pend = 1 .. Len(pend)
        /\ Len(b \o pend') = Len(pend)
    <3>1. Len(b \o pend') = Len(b) + Len(pend') /\ b \o pend' \in Seq(Int)
      BY <1>4, ConcatProperties
    <3>2. Len(b) + Len(pend') = Len(pend)
      BY <1>2, <1>3, ConstantsAreNumbers
    <3> QED BY <1>2, <3>1, <3>2, LenProperties
  <2>2. EndsAt(b \o pend', fed)
    <3>1. fed - Len(pend') = fed - Len(pend) + Block
      BY <1>2, <1>3, ConstantsAreNumbers
    <3> HIDE DEF b
    <3> QED BY <1>2, <1>3, <3>1, ConcatEnds
  <2>3. \A i \in 1 .. Len(pend) : (b \o pend')[i] = pend[i]
    BY <1>2, <2>1, <2>2 DEF EndsAt
  <2>4. Range(b \o pend') = Range(pend)
    BY <2>1, <2>3 DEF Range
  <2> HIDE DEF b
  <2> QED BY <1>4, <2>4, RangeOfConcat
<1>6. Cut(b, "pushing")
  <2> HIDE DEF b
  <2> QED BY <1>1, <1>3, <1>4, <1>5, ConstantsAreNumbers DEF Cut
<1> HIDE DEF b
<1> QED BY <1>1, <1>6, BlockKeeps

(* The incomplete block at the end of a piece. *)
LEMMA LastBlockKeeps == ASSUME IInv, LastBlock PROVE IInv'
<1>1. phase = "ending" /\ Running /\ pend' = <<>> /\ Len(pend) < Block /\ piece # 0
  BY DEF LastBlock, Running, IInv, Pending, Quiet
<1>2. /\ fed \in Nat /\ Len(pend) \in Nat /\ pend \in Seq(Int) /\ EndsAt(pend, fed)
      /\ EndsAt(<<>>, fed) /\ Len(<<>>) = 0
  BY <1>1, RunningFacts, EmptyEnds, NothingEnds DEF IInv, Tape
<1>3. CASE pend = <<>>
  <2>1. /\ phase' = "cutting" /\ status' = status
        /\ UNCHANGED <<pieces, piece, fed, loud, leading, hold_trail, spoke, pend, lead, held, out, quiet, join>>
    BY <1>1, <1>3 DEF LastBlock, Rest, Goto, text, input, flags, output
  <2>2. Typed' /\ Slices' /\ JoinIsShort'
    BY <2>1 DEF IInv, Typed, Phases, Slices, Run, EndsAt, JoinIsShort
  <2>3. Tape' /\ Spoken' /\ Pending' /\ Speech' /\ Quiet'
    BY <1>1, <1>3, <2>1 DEF IInv, Tape, EndsAt, Spoken, Pending, Speech, Quiet, Running
  <2> QED BY <2>2, <2>3 DEF IInv
<1>4. CASE pend # <<>>
  <2>1. TakeBlock(pend, "cutting")
    BY <1>4 DEF LastBlock, Rest
  <2>2. UNCHANGED <<pieces, piece, fed, loud, hold_trail>>
    BY <2>1 DEF TakeBlock, text, input
  <2>3. Cut(pend, "cutting")
    <3>1. fed - Len(pend) + Len(pend) = fed /\ Len(pend) <= Block /\ Len(pend') = Len(pend) - Len(pend)
      BY <1>1, <1>2, ConstantsAreNumbers
    <3>2. Range(pend) = Range(pend) \cup Range(pend')
      BY <1>1 DEF Range
    <3>3. EndsAt(pend, fed - Len(pend) + Len(pend))
      BY <1>2, <3>1
    <3> QED BY <1>1, <1>2, <1>4, <2>2, <3>1, <3>2, <3>3 DEF Cut
  <2> QED BY <1>1, <2>1, <2>3, BlockKeeps
<1> QED BY <1>3, <1>4

(* The silence at the end of a piece, cut to trail_keep. *)
LEMMA CutTrailKeeps == ASSUME IInv, CutTrail PROVE IInv'
<1> DEFINE k == Min({Len(held), TrailKeep})
<1>1. /\ phase = "cutting" /\ Running /\ piece # 0 /\ pend = <<>> /\ held' = <<>>
      /\ UNCHANGED <<pieces, piece, fed, loud, leading, hold_trail, spoke, pend, lead>>
      /\ Emit(<<>>, Kept, "between")
  BY DEF CutTrail, Running, IInv, Pending, Quiet, text, input, flags
<1>2. /\ fed \in Nat /\ held \in Seq(Int) /\ Len(held) \in Nat /\ out \in Seq(Int)
      /\ Len(pend) = 0 /\ Len(<<>>) = 0 /\ <<>> \in Seq(Int)
  BY <1>1, RunningFacts, NothingEnds
<1>3. /\ held # <<>> => ~leading /\ EndsAt(held, fed) /\ EndsAt(out, fed - Len(held))
      /\ k \in 0 .. Len(held) /\ k <= TrailKeep
  <2>1. k \in 0 .. Len(held) /\ k <= TrailKeep
    BY <1>2, SmallerOf, ConstantsAreNumbers
  <2>2. ASSUME held # <<>> PROVE ~leading /\ EndsAt(held, fed) /\ EndsAt(out, fed - Len(held))
    <3>1. ~leading /\ lead \o held = held
      BY <1>1, <2>2, RunningFacts DEF IInv, Tape
    <3>2. fed - Len(pend) = fed
      BY <1>2
    <3> QED BY <1>1, <3>1, <3>2 DEF IInv, Tape
  <2> HIDE DEF k
  <2> QED BY <2>1, <2>2
<1>4. /\ Kept \in Seq(Int) /\ Len(Kept) \in Nat /\ Len(Kept) <= TrailKeep
      /\ held = <<>> => Kept = <<>>
      /\ Run(out \o Kept)
  <2>1. CASE held = <<>>
    <3>1. k = 0
      BY <1>2, <1>3, <2>1
    <3>2. Kept = SubSeq(held, 1, 0)
      BY <3>1 DEF Kept
    <3>3. Kept = <<>>
      BY <1>2, <3>2, SubSeqEmpty
    <3>4. out \o Kept = out
      BY <1>2, <3>3, ConcatEmptySeq
    <3> QED BY <1>2, <3>3, <3>4, ConstantsAreNumbers DEF IInv, Slices
  <2>2. CASE held # <<>>
    <3>1. /\ EndsAt(SubSeq(held, 1, k), fed - Len(held) + k) /\ Len(SubSeq(held, 1, k)) = k
      <4> HIDE DEF k
      <4> QED BY <1>2, <1>3, <2>2, SubSeqEnds
    <3>2. EndsAt(Kept, fed - Len(held) + k) /\ Len(Kept) = k
      BY <3>1 DEF Kept
    <3> DEFINE m == fed - Len(held) + k
    <3>3. m \in Nat /\ m \in 0 .. fed /\ m - k = fed - Len(held) /\ k \in Nat
      <4>1. Len(held) <= fed
        BY <1>3, <2>2 DEF EndsAt
      <4> HIDE DEF k
      <4> QED BY <1>2, <1>3, <4>1
    <3> HIDE DEF k
    <3>4. EndsAt(out, m - Len(Kept))
      BY <1>3, <2>2, <3>2, <3>3
    <3> HIDE DEF m
    <3>5. EndsAt(out \o Kept, m)
      BY <3>2, <3>3, <3>4, ConcatEnds DEF m
    <3>6. Kept \in Seq(Int)
      BY <3>2 DEF EndsAt
    <3> QED BY <1>3, <2>2, <3>2, <3>3, <3>5, <3>6, RunOf
  <2> QED BY <2>1, <2>2
<1> HIDE DEF k
<1>5. out = <<>> /\ quiet # NoSpeechYet => quiet <= Trail /\ Kept = <<>>
  BY <1>1, <1>4, RunningFacts DEF IInv, Quiet, Tape
<1>6. ASSUME Takes(Kept)
      PROVE  /\ Run(out') /\ Range(out) \subseteq Range(out')
             /\ quiet' \in Int /\ quiet' >= NoSpeechYet /\ join' \in Nat /\ JoinIsShort'
             /\ quiet' = SilenceAfter(quiet, Kept)
  <2>1. out' = out \o Kept /\ quiet' = SilenceAfter(quiet, Kept)
    BY <1>6 DEF Takes
  <2>2. ASSUME out = <<>>, quiet # NoSpeechYet
        PROVE quiet <= Trail /\ SilenceBefore(Kept) <= LeadKeep + Block - 1
    <3>1. SilenceBefore(Kept) \in 0 .. Len(Kept)
      BY <1>4, FrontInside
    <3> QED BY <1>2, <1>5, <2>2, <3>1, ConstantsAreNumbers
  <2>3. quiet' \in Int /\ quiet' >= NoSpeechYet /\ join' \in Nat /\ JoinIsShort'
    BY <1>4, <1>6, <2>2, TakesKeeps DEF IInv
  <2> QED BY <1>2, <1>4, <2>1, <2>3, RangeOfConcat
<1>7. Run(lead) /\ Run(<<>>) /\ Run(pend) /\ Len(lead) <= LeadKeep
  <2>1. 0 \in 0 .. fed
    BY <1>2
  <2> QED BY <1>1, <2>1, EmptyEnds, RunOf DEF IInv, Slices
<1>8. ASSUME Takes(Kept), Goto("between") PROVE IInv'
  <2>1. phase' = "between" /\ status' = status
    BY <1>8 DEF Goto
  <2>2. Typed' /\ Slices'
    BY <1>1, <1>6, <1>7, <1>8, <2>1 DEF IInv, Typed, Phases, Slices, Run, EndsAt
  <2>3. Pending' /\ Speech'
    BY <1>1, <1>6, <1>8, <2>1 DEF IInv, Pending, Speech
  <2>4. Quiet'
    <3>1. ASSUME piece < pieces PROVE quiet' <= Trail
      <4>1. /\ hold_trail /\ quiet \in Int /\ (leading => quiet <= Trail)
            /\ (spoke => quiet <= Block - 1)
            /\ (~leading /\ ~spoke => quiet = NoSpeechYet /\ held = <<>>)
            /\ (leading => held = <<>>)
        BY <1>1, <3>1, TrimmerAssumption DEF IInv, Typed, Spoken, Quiet, Tape
      <4>2. CASE Silent(Kept)
        <5>1. quiet' = IF quiet = NoSpeechYet THEN quiet ELSE quiet + Len(Kept)
          BY <1>6, <1>8, <4>2, NothingEnds DEF SilenceAfter
        <5>2. CASE held = <<>>
          <6>1. Len(Kept) = 0 /\ quiet' = quiet
            BY <1>2, <1>4, <4>1, <5>1, <5>2
          <6> QED BY <4>1, <6>1, ConstantsAreNumbers DEF NoSpeechYet, IInv, Typed
        <5>3. CASE held # <<>>
          BY <1>4, <4>1, <5>1, <5>3, ConstantsAreNumbers DEF NoSpeechYet, IInv, Typed
        <5> QED BY <5>2, <5>3
      <4>3. CASE ~Silent(Kept)
        <5>1. <<>> \o Kept = Kept /\ <<>> \in Seq(Int)
          BY <1>2, <1>4, ConcatEmptySeq
        <5>2. quiet' \in 0 .. Len(Kept) - 1
          BY <1>4, <1>6, <1>8, <4>1, <4>3, <5>1, BackAfterSpeech
        <5> QED BY <1>4, <5>2, ConstantsAreNumbers
      <4> QED BY <4>2, <4>3
    <3> QED BY <1>1, <2>1, <3>1 DEF Quiet, Running
  <2> QED BY <1>6, <1>8, <2>1, <2>2, <2>3, <2>4 DEF IInv, Running
<1>9. (Takes(<<>> \o Kept) /\ Goto("between")) \/ (Takes(<<>>) /\ Return("CANCELLED"))
  <2>1. PICK a : a = <<>> /\ Emit(a, Kept, "between")
    BY <1>1
  <2>2. \/ Takes(a \o Kept) /\ Goto("between")
        \/ a # <<>> /\ UNCHANGED output /\ Return("CANCELLED")
        \/ Kept # <<>> /\ Takes(a) /\ Return("CANCELLED")
    BY <2>1 DEF Emit
  <2> QED BY <2>1, <2>2
<1>10. <<>> \o Kept = Kept
  BY <1>4, ConcatEmptySeq
<1>11. ASSUME Takes(<<>>), Return("CANCELLED") PROVE IInv'
  <2>1. /\ Run(out') /\ quiet' \in Int /\ quiet' >= NoSpeechYet /\ join' \in Nat /\ JoinIsShort'
    <3>1. out' = out
      BY <1>2, <1>11, ConcatEmptySeq DEF Takes
    <3>2. SilenceBefore(<<>>) \in 0 .. 0
      BY <1>2, FrontInside
    <3>3. ASSUME out = <<>>, quiet # NoSpeechYet
          PROVE quiet <= Trail /\ SilenceBefore(<<>>) <= LeadKeep + Block - 1
      BY <1>5, <3>2, <3>3, ConstantsAreNumbers
    <3>4. quiet' \in Int /\ quiet' >= NoSpeechYet /\ join' \in Nat /\ JoinIsShort'
      BY <1>2, <1>11, <3>3, TakesKeeps DEF IInv
    <3> QED BY <3>1, <3>4 DEF IInv, Slices
  <2>2. Typed' /\ Slices' /\ phase' = "done"
    BY <1>1, <1>7, <1>11, <2>1 DEF IInv, Typed, Phases, Slices, Run, EndsAt, Return
  <2> QED BY <1>1, <2>1, <2>2, DoneKeeps
<1> QED BY <1>8, <1>9, <1>10, <1>11
-----------------------------------------------------------------------------
(* Every step keeps the invariant. *)
LEMMA StepInv == IInv /\ [Next]_vars => IInv'
<1> SUFFICES ASSUME IInv, [Next]_vars PROVE IInv'
  OBVIOUS
<1>1. CASE UNCHANGED vars
  <2>1. UNCHANGED <<pieces, piece, phase, status, fed, loud, leading, hold_trail, spoke, pend, lead,
                    held, out, quiet, join>>
    BY <1>1 DEF vars, text, input, flags, output
  <2>2. Typed' /\ Slices' /\ JoinIsShort' /\ Running' = Running
    BY <2>1 DEF IInv, Typed, Slices, Run, EndsAt, Running, JoinIsShort
  <2>3. Tape' = Tape /\ Spoken' = Spoken /\ Pending' = Pending /\ Speech' = Speech /\ Quiet' = Quiet
    BY <2>1 DEF Tape, EndsAt, Spoken, Pending, Speech, Quiet, Running
  <2> QED BY <2>2, <2>3 DEF IInv
<1>2. CASE Returned
  BY <1>1, <1>2 DEF Returned
<1> QED
  BY <1>1, <1>2, BeginPieceKeeps, AllSpokenKeeps, MovesKeep, PushKeeps, NextBlockKeeps,
     LastBlockKeeps, CutTrailKeeps DEF Next

(* The invariant implies the four properties. *)
LEMMA InvImplies == IInv => TypeOK /\ HearsASlice /\ HearsAllSpeech /\ JoinIsShort
<1> SUFFICES ASSUME IInv PROVE TypeOK /\ HearsASlice /\ HearsAllSpeech /\ JoinIsShort
  OBVIOUS
<1>1. fed \in Nat
  BY TrimmerAssumption DEF IInv, Typed
<1>2. ASSUME NEW s, Run(s)
      PROVE  s \in Seq(1 .. fed) /\ \A i \in DOMAIN s : s[i] = s[1] + i - 1
  BY <1>1, <1>2, EndsInFed DEF Run
<1>3. /\ pend \in Seq(1 .. fed) /\ held \in Seq(1 .. fed) /\ out \in Seq(1 .. fed)
      /\ lead \in Seq(1 .. fed) /\ Len(lead) <= LeadKeep
  BY <1>2 DEF IInv, Slices
<1>4. TypeOK
  BY <1>3 DEF IInv, Typed, TypeOK
<1>5. HearsASlice
  BY <1>2 DEF IInv, Slices, HearsASlice
<1>6. HearsAllSpeech
  <2>1. Range(<<>>) = {}
    BY DEF Range
  <2> QED BY <2>1 DEF IInv, Speech, Pending, HearsAllSpeech
<1> QED BY <1>4, <1>5, <1>6 DEF IInv

(* The invariant holds in every state. *)
LEMMA Invariance == Spec => []IInv
BY InitInv, StepInv, PTL DEF Spec

(* What join_trimmer buffers, and what its sink has, are samples of the    *)
(* piece; of the silence before a piece it never keeps more than lead_keep.*)
THEOREM TypeCorrect == Spec => []TypeOK
BY Invariance, InvImplies, PTL

(* join_trimmer drops silence at the ends of a piece only: what the client *)
(* hears of it is one slice, nothing inside it is dropped, repeated or     *)
(* moved, wherever the pipeline cuts it into pushes.                       *)
THEOREM SliceIsHeard == Spec => []HearsASlice
BY Invariance, InvImplies, PTL

(* Every loud sample of a piece is heard when the piece ends well. *)
THEOREM SpeechIsHeard == Spec => []HearsAllSpeech
BY Invariance, InvImplies, PTL

(* The silence at a join is at most trail_keep, lead_keep and what is      *)
(* silent of two blocks.                                                   *)
THEOREM JoinsAreShort == Spec => []JoinIsShort
BY Invariance, InvImplies, PTL
=============================================================================
