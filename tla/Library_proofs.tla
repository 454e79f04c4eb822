----------------------------- MODULE Library_proofs -----------------------------
(***************************************************************************)
(* The library behind qwen.h, for any number of contexts, threads and calls*)
(* and any size of the descriptor table: what loading and freeing a context*)
(* leaves behind (ContextLifecycle), and what a caller may conclude from   *)
(* the status, the message and the audio of its call (AbiStatus).          *)
(***************************************************************************)
EXTENDS ContextLifecycle, AbiStatus, FiniteSetTheorems, TLAPS
-----------------------------------------------------------------------------
(* A step of a load is over for every context that has passed it.          *)
Done(c) ==
  {s \in Steps : stage[c] = "ready" \/ (stage[c] \in Steps /\ Place(s) < Place(stage[c]))}

Loading(c) == stage[c] \in Steps
Busy(c) == stage[c] \notin {"none", "ready", "gone"}
Sharing == {c \in Contexts : bp[c]}

(* What a context must have once it has passed the step that acquires it.  *)
Mandatory == Acquiring \ (Soft \cup {"speaker"})

(* A context has what the steps it passed acquire, and nothing else; after *)
(* qt_free it has nothing.                                                 *)
HeldInv(c) ==
  /\ Loading(c) \/ stage[c] = "ready" =>
       Mandatory \cap Done(c) \subseteq held[c] /\ held[c] \subseteq Done(c)
  /\ stage[c] \in {"none", "freed", "gone"} => held[c] = {}
  /\ \A s \in Weights : <<c, s>> \in lost => stage[c] \in {"failed", "freed", "gone"}

(* It has the backend from backend_init to backend_release; one that never *)
(* got it is released while the count is 0.                                *)
BackendInv(c) ==
  /\ stage[c] \in {"none", "gone"} => ~bp[c]
  /\ Loading(c) \/ stage[c] = "ready" \/ held[c] # {} => bp[c]
  /\ stage[c] \in {"failed", "freed"} /\ ~bp[c] => refs = 0

OneAtATime == \A c, d \in Contexts : Busy(c) /\ Busy(d) => c = d

SharedInv ==
  /\ IsFiniteSet(Sharing)
  /\ refs = Cardinality(Sharing)
  /\ backend <=> refs > 0

(* What is allocated is what the fields point at: nothing else.            *)
HeapInv == \A c \in Contexts, s \in Acquiring : s \in held[c] <=> <<c, s>> \in heap

(* A file of a context is open under the number its field has.             *)
FilesInv ==
  \A c \in Contexts, g \in Files, n \in Descriptors :
    owner[n] = <<c, g>> => g \in held[c] /\ fd[c][g] = n

(* Live tables lie in different places.                                    *)
TablesInv ==
  \A c, d \in Contexts : \A s, r \in Tables :
    s \in held[c] /\ r \in held[d] =>
      /\ addr[c][s] \in Addresses
      /\ addr[c][s] = addr[d][r] => c = d /\ s = r

MirrorInv ==
  \A c \in Contexts : "mirrors" \in Done(c) => \A s \in Tables : mirror[addr[c][s]] = c

LifeInv ==
  /\ LifeTypeOK
  /\ \A c \in Contexts : HeldInv(c) /\ BackendInv(c)
  /\ OneAtATime /\ SharedInv /\ HeapInv /\ FilesInv /\ TablesInv /\ MirrorInv
-----------------------------------------------------------------------------
(* The order of the steps of a load. *)
LEMMA OrderIsInjective ==
  /\ DOMAIN Order = 1..24
  /\ \A i, j \in 1..24 : Order[i] = Order[j] => i = j
BY DEF Order

LEMMA PlaceIs ==
  /\ \A i \in 1..24 : Order[i] \in Steps /\ Place(Order[i]) = i
  /\ \A s \in Steps : Place(s) \in 1..24 /\ Order[Place(s)] = s
<1>1. ASSUME NEW i \in 1..24 PROVE Order[i] \in Steps /\ Place(Order[i]) = i
  BY OrderIsInjective DEF Steps, Place
<1>2. ASSUME NEW s \in Steps PROVE Place(s) \in 1..24 /\ Order[Place(s)] = s
  <2>1. PICK i \in 1..24 : s = Order[i]
    BY OrderIsInjective DEF Steps
  <2> QED BY <1>1, <2>1
<1> QED BY <1>1, <1>2

LEMMA StepsAre ==
  /\ Acquiring \subseteq Steps
  /\ Steps \cap {"none", "ready", "failed", "freed", "gone"} = {}
  /\ {"metadata", "mirrors", "prompt_cache", "tokenizer"} \subseteq Steps
  /\ Weights \subseteq Acquiring /\ Files \subseteq Acquiring /\ Soft \subseteq Acquiring
  /\ Tables \subseteq Mandatory /\ Files \subseteq Mandatory
  /\ Mandatory \subseteq Acquiring /\ Files \cap Weights = {}
BY DEF Steps, Order, Acquiring, Weights, Files, Soft, Tables, Mandatory

LEMMA PlacesAre ==
  /\ Place("talker_gguf") = 1 /\ Place("talker") = 3 /\ Place("predictor") = 4
  /\ Place("mirrors") = 5 /\ Place("tokenizer") = 24
<1>1. /\ Order[1] = "talker_gguf" /\ Order[3] = "talker" /\ Order[4] = "predictor"
      /\ Order[5] = "mirrors" /\ Order[24] = "tokenizer"
  BY DEF Order
<1> QED BY <1>1, PlaceIs

LEMMA AfterIs ==
  ASSUME NEW s \in Steps
  PROVE  \/ s = "tokenizer" /\ After(s) = "ready"
         \/ After(s) \in Steps /\ Place(After(s)) = Place(s) + 1
<1>1. CASE s = "tokenizer"
  BY <1>1 DEF After
<1>2. CASE s # "tokenizer"
  <2>1. Place(s) \in 1..24 /\ Place(s) # 24
    BY <1>2, PlaceIs, PlacesAre, StepsAre
  <2> QED BY <1>2, <2>1, PlaceIs DEF After
<1> QED BY <1>1, <1>2
-----------------------------------------------------------------------------
LEMMA FirstContext == LifeInit => LifeInv
<1> SUFFICES ASSUME LifeInit PROVE LifeInv
  OBVIOUS
<1>1. LifeTypeOK
  <2>1. stage \in [Contexts -> Steps \cup {"none", "ready", "failed", "freed", "gone"}]
    BY DEF LifeInit
  <2>2. held \in [Contexts -> SUBSET Acquiring] /\ bp \in [Contexts -> BOOLEAN]
    BY DEF LifeInit
  <2>3. heap = {} /\ lost = {} /\ refs \in Nat /\ backend \in BOOLEAN
    BY DEF LifeInit
  <2>4. fd \in [Contexts -> [Files -> -1 .. MaxDescriptor]]
    BY LifecycleAssumption DEF LifeInit
  <2>5. owner \in [Descriptors -> {Other, None} \cup (Contexts \X Files)]
    BY DEF LifeInit
  <2>6. /\ addr \in [Contexts -> [Tables -> Addresses \cup {None}]]
        /\ mirror \in [Addresses -> Contexts \cup {None}]
    BY DEF LifeInit
  <2> QED BY <2>1, <2>2, <2>3, <2>4, <2>5, <2>6 DEF LifeTypeOK
<1>2. Sharing = {}
  BY DEF LifeInit, Sharing
<1>3. SharedInv
  BY <1>2, FS_EmptySet DEF LifeInit, SharedInv
<1>4. ASSUME NEW c \in Contexts PROVE HeldInv(c) /\ BackendInv(c) /\ Done(c) = {}
  BY StepsAre DEF LifeInit, HeldInv, BackendInv, Loading, Done
<1>5. OneAtATime /\ HeapInv /\ TablesInv /\ MirrorInv
  BY <1>4 DEF LifeInit, OneAtATime, Busy, HeapInv, TablesInv, MirrorInv
<1>6. FilesInv
  BY LifecycleAssumption DEF LifeInit, FilesInv, Descriptors
<1> QED BY <1>1, <1>3, <1>4, <1>5, <1>6 DEF LifeInv

(* What the steps of one context do to the state of another: nothing.      *)
Elsewhere(d) ==
  /\ stage'[d] = stage[d] /\ held'[d] = held[d] /\ bp'[d] = bp[d]
  /\ addr'[d] = addr[d]
  /\ \A s : <<d, s>> \in lost' <=> <<d, s>> \in lost

LEMMA OtherContext ==
  ASSUME LifeInv, NEW d \in Contexts, Elsewhere(d),
         refs' = refs \/ stage[d] \notin {"failed", "freed"}
  PROVE  HeldInv(d)' /\ BackendInv(d)' /\ Done(d)' = Done(d)
BY DEF LifeInv, HeldInv, BackendInv, Elsewhere, Loading, Done

(* A step of a load goes on to the next.                                   *)
LEMMA LoadGoesOn ==
  ASSUME LifeTypeOK, NEW c \in Contexts, NEW s \in Steps, Goes(c, s)
  PROVE  /\ Done(c)' = Done(c) \cup {s} /\ s \notin Done(c)
         /\ stage'[c] = After(s)
         /\ Loading(c)' \/ stage'[c] = "ready"
         /\ \A d \in Contexts \ {c} : stage'[d] = stage[d]
         /\ stage' \in [Contexts -> Steps \cup {"none", "ready", "failed", "freed", "gone"}]
<1>1. stage[c] = s /\ stage'[c] = After(s) /\ \A d \in Contexts \ {c} : stage'[d] = stage[d]
  BY DEF LifeTypeOK, Goes
<1>2. CASE s = "tokenizer" /\ After(s) = "ready"
  <2>1. "ready" \notin Steps /\ stage[c] # "ready"
    BY <1>1, StepsAre
  <2>2. \A r \in Steps : r # s => Place(r) < Place(s)
    BY <1>2, PlaceIs, PlacesAre
  <2>3. Place(s) \in 1..24
    BY PlaceIs
  <2> QED BY <1>1, <1>2, <2>1, <2>2, <2>3 DEF Done, Loading, LifeTypeOK, Goes
<1>3. CASE After(s) \in Steps /\ Place(After(s)) = Place(s) + 1
  <2>1. "ready" \notin Steps /\ stage[c] # "ready" /\ After(s) # "ready"
    BY <1>1, <1>3, StepsAre
  <2>2. \A r \in Steps : Place(r) < Place(s) + 1 <=> (Place(r) < Place(s) \/ r = s)
    BY PlaceIs
  <2>3. Place(s) \in 1..24
    BY PlaceIs
  <2> QED BY <1>1, <1>3, <2>1, <2>2, <2>3 DEF Done, Loading, LifeTypeOK, Goes
<1> QED BY <1>2, <1>3, AfterIs
(* A step that goes on, with what it acquired: whoever has what, and who   *)
(* shares the backend.                                                     *)
LEMMA LoadKeeps ==
  ASSUME LifeInv, NEW c \in Contexts, NEW s \in Steps, Goes(c, s),
         UNCHANGED <<lost, bp, refs, backend>>,
         \/ UNCHANGED <<held, heap>> /\ s \notin Mandatory
         \/ Takes(c, s) /\ s \in Acquiring,
         \A d \in Contexts \ {c} : addr'[d] = addr[d]
  PROVE  /\ stage' \in [Contexts -> Steps \cup {"none", "ready", "failed", "freed", "gone"}]
         /\ held' \in [Contexts -> SUBSET Acquiring] /\ heap' \subseteq Contexts \X Acquiring
         /\ \A d \in Contexts : HeldInv(d)' /\ BackendInv(d)'
         /\ \A d \in Contexts \ {c} : held'[d] = held[d] /\ Done(d)' = Done(d)
         /\ held'[c] \in {held[c], held[c] \cup {s}}
         /\ OneAtATime' /\ SharedInv' /\ HeapInv'
<1>1. LifeTypeOK /\ HeldInv(c) /\ BackendInv(c)
  BY DEF LifeInv
<1>2. /\ Done(c)' = Done(c) \cup {s} /\ s \notin Done(c)
      /\ stage'[c] = After(s) /\ (Loading(c)' \/ stage'[c] = "ready")
      /\ \A d \in Contexts \ {c} : stage'[d] = stage[d]
      /\ stage' \in [Contexts -> Steps \cup {"none", "ready", "failed", "freed", "gone"}]
  BY <1>1, LoadGoesOn
<1>3. stage[c] = s /\ Loading(c) /\ s \notin {"none", "ready", "failed", "freed", "gone"}
  BY StepsAre DEF Goes, Loading
<1>4. /\ held' \in [Contexts -> SUBSET Acquiring] /\ heap' \subseteq Contexts \X Acquiring
      /\ \A d \in Contexts \ {c} : held'[d] = held[d]
      /\ held'[c] \in {held[c], held[c] \cup {s}}
      /\ s \in Mandatory => held'[c] = held[c] \cup {s}
  <2>1. CASE UNCHANGED <<held, heap>> /\ s \notin Mandatory
    BY <1>1, <2>1 DEF LifeTypeOK
  <2>2. CASE Takes(c, s) /\ s \in Acquiring
    <3>1. held' \in [Contexts -> SUBSET Acquiring] /\ held'[c] = held[c] \cup {s}
      BY <1>1, <2>2 DEF LifeTypeOK, Takes
    <3>2. heap' \subseteq Contexts \X Acquiring
      BY <1>1, <2>2 DEF LifeTypeOK, Takes
    <3>3. \A d \in Contexts \ {c} : held'[d] = held[d]
      BY <1>1, <2>2 DEF LifeTypeOK, Takes
    <3> QED BY <3>1, <3>2, <3>3
  <2> QED BY <2>1, <2>2
<1>5. HeldInv(c)'
  <2>1. stage'[c] \notin {"none", "failed", "freed", "gone"}
    BY <1>2, StepsAre DEF Loading
  <2>2. Mandatory \cap Done(c)' \subseteq held'[c] /\ held'[c] \subseteq Done(c)'
    BY <1>1, <1>2, <1>3, <1>4 DEF HeldInv
  <2>3. \A w \in Weights : <<c, w>> \notin lost'
    BY <1>1, <1>3 DEF HeldInv
  <2> QED BY <2>1, <2>2, <2>3 DEF HeldInv, Loading
<1>6. BackendInv(c)'
  <2>1. stage'[c] \notin {"none", "failed", "freed", "gone"}
    BY <1>2, StepsAre DEF Loading
  <2>2. bp'[c]
    BY <1>1, <1>3 DEF BackendInv
  <2> QED BY <2>1, <2>2 DEF BackendInv
<1>7. ASSUME NEW d \in Contexts \ {c}
      PROVE  HeldInv(d)' /\ BackendInv(d)' /\ Done(d)' = Done(d)
  <2>1. Elsewhere(d)
    BY <1>2, <1>4 DEF Elsewhere
  <2> QED BY <2>1, OtherContext
<1>8. OneAtATime'
  BY <1>2, <1>3 DEF LifeInv, OneAtATime, Busy
<1>9. SharedInv'
  <2>1. Sharing' = Sharing
    BY DEF Sharing
  <2> QED BY <2>1 DEF LifeInv, SharedInv
<1>10. HeapInv'
  <2>1. CASE UNCHANGED <<held, heap>>
    BY <2>1 DEF LifeInv, HeapInv
  <2>2. CASE Takes(c, s)
    <3>1. \A d \in Contexts : held'[d] = IF d = c THEN held[c] \cup {s} ELSE held[d]
      BY <1>1, <2>2 DEF LifeTypeOK, Takes
    <3>2. \A d \in Contexts, r \in Acquiring :
            <<d, r>> \in heap' <=> <<d, r>> \in heap \/ (d = c /\ r = s)
      BY <2>2 DEF Takes
    <3> QED BY <3>1, <3>2 DEF LifeInv, HeapInv
  <2> QED BY <2>1, <2>2
<1> QED BY <1>2, <1>4, <1>5, <1>6, <1>7, <1>8, <1>9, <1>10

LEMMA LoadFileInv ==
  ASSUME LifeInv, NEW c \in Contexts, NEW g \in Files, LoadFile(c, g)
  PROVE  LifeInv'
<1>1. g \in Steps /\ g \in Acquiring /\ g \notin Tables /\ g # "mirrors"
  BY StepsAre DEF Tables, Files
<1>2. /\ stage' \in [Contexts -> Steps \cup {"none", "ready", "failed", "freed", "gone"}]
      /\ held' \in [Contexts -> SUBSET Acquiring] /\ heap' \subseteq Contexts \X Acquiring
      /\ \A d \in Contexts : HeldInv(d)' /\ BackendInv(d)'
      /\ \A d \in Contexts \ {c} : held'[d] = held[d] /\ Done(d)' = Done(d)
      /\ held'[c] \in {held[c], held[c] \cup {g}}
      /\ OneAtATime' /\ SharedInv' /\ HeapInv'
  BY <1>1, LoadKeeps DEF LoadFile
<1>3. Done(c)' = Done(c) \cup {g} /\ g \notin Done(c) /\ g \notin held[c]
  BY <1>1, LoadGoesOn DEF LoadFile, LifeInv, HeldInv, Goes, Loading
<1>4. PICK n \in Lowest : /\ fd' = [fd EXCEPT ![c][g] = n]
                          /\ owner' = [owner EXCEPT ![n] = <<c, g>>]
  BY DEF LoadFile
<1>5. n \in Descriptors /\ owner[n] = None
  BY DEF Lowest, Unused
<1>6. LifeTypeOK'
  <2>1. fd' \in [Contexts -> [Files -> -1 .. MaxDescriptor]]
    BY <1>4, <1>5, LifecycleAssumption DEF LifeInv, LifeTypeOK, Descriptors
  <2>2. owner' \in [Descriptors -> {Other, None} \cup (Contexts \X Files)]
    BY <1>4, <1>5 DEF LifeInv, LifeTypeOK
  <2> QED BY <1>2, <2>1, <2>2 DEF LoadFile, LifeInv, LifeTypeOK
<1>7. FilesInv'
  <2> SUFFICES ASSUME NEW d \in Contexts, NEW h \in Files, NEW m \in Descriptors,
                      owner'[m] = <<d, h>>
               PROVE  h \in held'[d] /\ fd'[d][h] = m
    BY DEF FilesInv
  <2>1. CASE m = n
    BY <1>4, <1>5, <2>1 DEF LifeInv, LifeTypeOK, LoadFile, Takes
  <2>2. CASE m # n
    <3>1. owner[m] = <<d, h>> /\ h \in held[d] /\ fd[d][h] = m
      BY <1>4, <1>5, <2>2 DEF LifeInv, LifeTypeOK, FilesInv
    <3>2. d # c \/ h # g
      BY <1>3, <3>1
    <3> QED BY <1>2, <1>4, <3>1, <3>2 DEF LifeInv, LifeTypeOK
  <2> QED BY <2>1, <2>2
<1>8. TablesInv'
  BY <1>1, <1>2 DEF LifeInv, TablesInv, LoadFile
<1>9. MirrorInv'
  BY <1>1, <1>2, <1>3 DEF LifeInv, MirrorInv, LoadFile
<1> QED BY <1>2, <1>6, <1>7, <1>8, <1>9 DEF LifeInv

LEMMA LoadTableInv ==
  ASSUME LifeInv, NEW c \in Contexts, NEW s \in Tables, LoadTable(c, s)
  PROVE  LifeInv'
<1>1. s \in Steps /\ s \in Acquiring /\ s \notin Files /\ s # "mirrors"
  BY StepsAre DEF Tables, Files
<1>2. PICK a \in Addresses \ InUse : addr' = [addr EXCEPT ![c][s] = a]
  BY DEF LoadTable
<1>3. \A d \in Contexts \ {c} : addr'[d] = addr[d]
  BY <1>2 DEF LifeInv, LifeTypeOK
<1>4. /\ stage' \in [Contexts -> Steps \cup {"none", "ready", "failed", "freed", "gone"}]
      /\ held' \in [Contexts -> SUBSET Acquiring] /\ heap' \subseteq Contexts \X Acquiring
      /\ \A d \in Contexts : HeldInv(d)' /\ BackendInv(d)'
      /\ \A d \in Contexts \ {c} : held'[d] = held[d] /\ Done(d)' = Done(d)
      /\ held'[c] \in {held[c], held[c] \cup {s}}
      /\ OneAtATime' /\ SharedInv' /\ HeapInv'
  BY <1>1, <1>3, LoadKeeps DEF LoadTable
<1>5. "mirrors" \notin Done(c)'
  <2>1. Done(c)' = Done(c) \cup {s}
    BY <1>1, LoadGoesOn DEF LoadTable, LifeInv
  <2>2. stage[c] = s /\ Place(s) \in {3, 4} /\ Place("mirrors") = 5 /\ stage[c] # "ready"
    BY <1>1, StepsAre, PlacesAre DEF LoadTable, Goes, Tables
  <2>3. "mirrors" \notin Done(c)
    BY <2>2 DEF Done
  <2> QED BY <1>1, <2>1, <2>3
<1>6. LifeTypeOK'
  <2>1. addr' \in [Contexts -> [Tables -> Addresses \cup {None}]]
    BY <1>2 DEF LifeInv, LifeTypeOK
  <2> QED BY <1>4, <2>1 DEF LoadTable, LifeInv, LifeTypeOK
<1>7. FilesInv'
  BY <1>1, <1>4 DEF LifeInv, FilesInv, LoadTable
<1>8. TablesInv'
  <2>1. ASSUME NEW d \in Contexts, NEW r \in Tables, r \in held[d]
        PROVE  addr[d][r] \in InUse
    <3>1. <<d, r>> \in heap \cap (Contexts \X Tables)
      BY <2>1, StepsAre DEF LifeInv, HeapInv
    <3>2. <<d, r>>[1] = d /\ <<d, r>>[2] = r
      OBVIOUS
    <3> QED BY <3>1, <3>2 DEF InUse
  <2>2. s \notin held[c]
    BY <1>1, LoadGoesOn DEF LoadTable, LifeInv, HeldInv, Goes, Loading
  <2>3. \A d \in Contexts, r \in Tables :
          r \in held'[d] => IF d = c /\ r = s THEN addr'[d][r] = a
                            ELSE r \in held[d] /\ addr'[d][r] = addr[d][r]
    BY <1>2, <1>4 DEF LifeInv, LifeTypeOK
  <2> QED BY <2>1, <2>2, <2>3 DEF LifeInv, TablesInv
<1>9. MirrorInv'
  BY <1>3, <1>4, <1>5 DEF LifeInv, MirrorInv, LoadTable
<1> QED BY <1>4, <1>6, <1>7, <1>8, <1>9 DEF LifeInv

LEMMA LoadPartInv ==
  ASSUME LifeInv, NEW c \in Contexts, NEW s \in Acquiring, LoadPart(c, s)
  PROVE  LifeInv'
<1>1. s \in Steps /\ s \notin Files /\ s \notin Tables /\ s # "mirrors"
  BY StepsAre DEF LoadPart, Acquiring
<1>2. /\ stage' \in [Contexts -> Steps \cup {"none", "ready", "failed", "freed", "gone"}]
      /\ held' \in [Contexts -> SUBSET Acquiring] /\ heap' \subseteq Contexts \X Acquiring
      /\ \A d \in Contexts : HeldInv(d)' /\ BackendInv(d)'
      /\ \A d \in Contexts \ {c} : held'[d] = held[d] /\ Done(d)' = Done(d)
      /\ held'[c] \in {held[c], held[c] \cup {s}}
      /\ OneAtATime' /\ SharedInv' /\ HeapInv'
  BY <1>1, LoadKeeps DEF LoadPart
<1>3. Done(c)' = Done(c) \cup {s}
  BY <1>1, LoadGoesOn DEF LoadPart, LifeInv
<1>4. LifeTypeOK'
  BY <1>2 DEF LoadPart, LifeInv, LifeTypeOK
<1>5. FilesInv'
  BY <1>1, <1>2 DEF LifeInv, FilesInv, LoadPart
<1>6. TablesInv'
  BY <1>1, <1>2 DEF LifeInv, TablesInv, LoadPart
<1>7. MirrorInv'
  BY <1>1, <1>2, <1>3 DEF LifeInv, MirrorInv, LoadPart
<1> QED BY <1>2, <1>4, <1>5, <1>6, <1>7 DEF LifeInv

LEMMA PassStepInv ==
  ASSUME LifeInv, NEW c \in Contexts, NEW s \in Steps, PassStep(c, s)
  PROVE  LifeInv'
<1>1. s \notin Mandatory /\ s # "mirrors"
  BY DEF PassStep, Mandatory, Acquiring, Soft
<1>2. /\ stage' \in [Contexts -> Steps \cup {"none", "ready", "failed", "freed", "gone"}]
      /\ held' \in [Contexts -> SUBSET Acquiring] /\ heap' \subseteq Contexts \X Acquiring
      /\ \A d \in Contexts : HeldInv(d)' /\ BackendInv(d)'
      /\ \A d \in Contexts \ {c} : held'[d] = held[d] /\ Done(d)' = Done(d)
      /\ OneAtATime' /\ SharedInv' /\ HeapInv'
  BY <1>1, LoadKeeps DEF PassStep, memory
<1>3. Done(c)' = Done(c) \cup {s}
  BY LoadGoesOn DEF PassStep, LifeInv
<1>4. LifeTypeOK'
  BY <1>2 DEF PassStep, memory, LifeInv, LifeTypeOK
<1>5. FilesInv' /\ TablesInv'
  BY DEF LifeInv, FilesInv, TablesInv, PassStep, memory
<1>6. MirrorInv'
  BY <1>1, <1>2, <1>3 DEF LifeInv, MirrorInv, PassStep, memory
<1> QED BY <1>2, <1>4, <1>5, <1>6 DEF LifeInv

LEMMA RegisterMirrorsInv ==
  ASSUME LifeInv, NEW c \in Contexts, RegisterMirrors(c)
  PROVE  LifeInv'
<1>1. "mirrors" \in Steps /\ "mirrors" \notin Mandatory
  BY StepsAre DEF Mandatory, Acquiring
<1>2. /\ stage' \in [Contexts -> Steps \cup {"none", "ready", "failed", "freed", "gone"}]
      /\ held' \in [Contexts -> SUBSET Acquiring] /\ heap' \subseteq Contexts \X Acquiring
      /\ \A d \in Contexts : HeldInv(d)' /\ BackendInv(d)'
      /\ \A d \in Contexts \ {c} : held'[d] = held[d] /\ Done(d)' = Done(d)
      /\ OneAtATime' /\ SharedInv' /\ HeapInv'
  BY <1>1, LoadKeeps DEF RegisterMirrors, memory
<1>3. \A a \in Addresses :
        mirror'[a] = IF a \in {addr[c][s] : s \in Tables} THEN c ELSE mirror[a]
  BY DEF RegisterMirrors, Registered
<1>4. LifeTypeOK'
  <2>1. mirror' \in [Addresses -> Contexts \cup {None}]
    BY DEF RegisterMirrors, Registered, LifeInv, LifeTypeOK
  <2> QED BY <1>2, <2>1 DEF RegisterMirrors, memory, LifeInv, LifeTypeOK
<1>5. FilesInv' /\ TablesInv'
  BY DEF LifeInv, FilesInv, TablesInv, RegisterMirrors, memory
<1>6. MirrorInv'
  <2>1. \A d \in Contexts : "mirrors" \in Done(d) => \A s \in Tables : s \in held[d]
    <3>1. ASSUME NEW d \in Contexts, "mirrors" \in Done(d), NEW s \in Tables
          PROVE  s \in held[d]
      <4>1. stage[d] = "ready" \/ (Loading(d) /\ Place("mirrors") < Place(stage[d]))
        BY <3>1 DEF Done, Loading
      <4>2. Place(s) < Place("mirrors") /\ s \in Mandatory /\ s \in Steps
        BY StepsAre, PlacesAre DEF Tables
      <4>3. s \in Done(d)
        BY <4>1, <4>2, PlaceIs, PlacesAre DEF Done, Loading
      <4> QED BY <4>1, <4>2, <4>3 DEF LifeInv, HeldInv
    <3> QED BY <3>1
  <2>2. \A s \in Tables : s \in held[c]
    <3>1. ASSUME NEW s \in Tables PROVE s \in held[c]
      <4>1. stage[c] = "mirrors" /\ Loading(c)
        BY <1>1 DEF RegisterMirrors, Goes, Loading
      <4>2. Place(s) < Place("mirrors") /\ s \in Mandatory /\ s \in Steps
        BY StepsAre, PlacesAre DEF Tables
      <4>3. s \in Done(c)
        BY <4>1, <4>2 DEF Done, Loading
      <4> QED BY <4>1, <4>2, <4>3 DEF LifeInv, HeldInv
    <3> QED BY <3>1
  <2>3. ASSUME NEW d \in Contexts, "mirrors" \in Done(d)', NEW s \in Tables
        PROVE  mirror'[addr'[d][s]] = d
    <3>1. CASE d = c
      BY <1>3, <2>2, <3>1 DEF LifeInv, TablesInv, RegisterMirrors, memory
    <3>2. CASE d # c
      <4>1. "mirrors" \in Done(d) /\ mirror[addr[d][s]] = d /\ s \in held[d]
        BY <1>2, <2>1, <2>3, <3>2 DEF LifeInv, MirrorInv
      <4>2. addr[d][s] \in Addresses /\ addr[d][s] \notin {addr[c][r] : r \in Tables}
        BY <2>2, <3>2, <4>1 DEF LifeInv, TablesInv
      <4> QED BY <1>3, <4>1, <4>2 DEF RegisterMirrors, memory
    <3> QED BY <3>1, <3>2
  <2> QED BY <2>3 DEF MirrorInv
<1> QED BY <1>2, <1>4, <1>5, <1>6 DEF LifeInv
-----------------------------------------------------------------------------
(* What is given back is not allocated any more, and no field points at it;*)
(* numbers that are closed for a second time take nothing from a context   *)
(* that it still has.                                                      *)
LEMMA ReleaseKeeps ==
  ASSUME LifeInv, NEW c \in Contexts, NEW set \in SUBSET Acquiring,
         NEW number \in [Files -> -1 .. MaxDescriptor],
         \A g \in held[c] \cap Files : number[g] = fd[c][g],
         Release(c, set, number)
  PROVE  /\ held' \in [Contexts -> SUBSET Acquiring] /\ heap' \subseteq Contexts \X Acquiring
         /\ fd' \in [Contexts -> [Files -> -1 .. MaxDescriptor]]
         /\ owner' \in [Descriptors -> {Other, None} \cup (Contexts \X Files)]
         /\ addr' \in [Contexts -> [Tables -> Addresses \cup {None}]]
         /\ held'[c] = held[c] \ set
         /\ \A d \in Contexts \ {c} : held'[d] = held[d] /\ addr'[d] = addr[d]
         /\ HeapInv' /\ FilesInv' /\ TablesInv'
<1> DEFINE closing == {g \in set \cap Files : g = "talker_gguf" \/ g \in held[c]}
<1>1. /\ held' = [held EXCEPT ![c] = @ \ set]
      /\ heap' = heap \ {<<c, s>> : s \in set \cap held[c]}
      /\ owner' = [n \in Descriptors |->
                     IF \E g \in closing : number[g] = n THEN None ELSE owner[n]]
      /\ fd' = [fd EXCEPT ![c] = [g \in Files |-> IF g \in closing THEN 0 ELSE number[g]]]
      /\ addr' = [addr EXCEPT ![c] = [s \in Tables |-> IF s \in set THEN None ELSE @[s]]]
  BY DEF Release, Nulled
<1>2. LifeTypeOK
  BY DEF LifeInv
<1>3. closing \subseteq Files /\ \A g \in Files : g \in set /\ g \in held[c] => g \in closing
  OBVIOUS
<1> HIDE DEF closing
<1>4. held' \in [Contexts -> SUBSET Acquiring]
  BY <1>1, <1>2 DEF LifeTypeOK
<1>5. held'[c] = held[c] \ set /\ \A d \in Contexts \ {c} : held'[d] = held[d]
  BY <1>1, <1>2 DEF LifeTypeOK
<1>6. /\ heap' \subseteq Contexts \X Acquiring
      /\ \A d \in Contexts, s \in Acquiring :
           <<d, s>> \in heap' <=> <<d, s>> \in heap /\ ~(d = c /\ s \in set \cap held[c])
  BY <1>1, <1>2 DEF LifeTypeOK
<1>7. HeapInv'
  BY <1>5, <1>6 DEF LifeInv, HeapInv
<1>8. /\ fd' \in [Contexts -> [Files -> -1 .. MaxDescriptor]]
      /\ \A g \in Files : fd'[c][g] = IF g \in closing THEN 0 ELSE number[g]
      /\ \A d \in Contexts \ {c} : fd'[d] = fd[d]
  <2>1. [g \in Files |-> IF g \in closing THEN 0 ELSE number[g]]
          \in [Files -> -1 .. MaxDescriptor]
    BY LifecycleAssumption
  <2> QED BY <1>1, <1>2, <2>1 DEF LifeTypeOK
<1>9. /\ owner' \in [Descriptors -> {Other, None} \cup (Contexts \X Files)]
      /\ \A n \in Descriptors :
           owner'[n] = IF \E g \in closing : number[g] = n THEN None ELSE owner[n]
  BY <1>1, <1>2 DEF LifeTypeOK
<1>10. FilesInv'
  <2> SUFFICES ASSUME NEW d \in Contexts, NEW g \in Files, NEW n \in Descriptors,
                      owner'[n] = <<d, g>>
               PROVE  g \in held'[d] /\ fd'[d][g] = n
    BY DEF FilesInv
  <2>1. <<d, g>> # None
    BY LifecycleAssumption
  <2>2. owner[n] = <<d, g>> /\ ~(\E h \in closing : number[h] = n)
    BY <1>9, <2>1
  <2>3. g \in held[d] /\ fd[d][g] = n
    BY <2>2 DEF LifeInv, FilesInv
  <2>4. CASE d # c
    BY <1>5, <1>8, <2>3, <2>4
  <2>5. CASE d = c
    <3>1. number[g] = n /\ g \notin closing
      BY <2>2, <2>3, <2>5
    <3> QED BY <1>3, <1>5, <1>8, <2>3, <2>5, <3>1
  <2> QED BY <2>4, <2>5
<1>11. /\ addr' \in [Contexts -> [Tables -> Addresses \cup {None}]]
       /\ \A s \in Tables : s \notin set => addr'[c][s] = addr[c][s]
       /\ \A d \in Contexts \ {c} : addr'[d] = addr[d]
  <2>1. [s \in Tables |-> IF s \in set THEN None ELSE addr[c][s]]
          \in [Tables -> Addresses \cup {None}]
    BY <1>2 DEF LifeTypeOK
  <2>2. addr' = [addr EXCEPT ![c] = [s \in Tables |-> IF s \in set THEN None ELSE addr[c][s]]]
    BY <1>1, <1>2 DEF LifeTypeOK
  <2> QED BY <1>2, <2>1, <2>2 DEF LifeTypeOK
<1>12. TablesInv'
  <2>1. \A d \in Contexts, s \in Tables :
          s \in held'[d] => s \in held[d] /\ addr'[d][s] = addr[d][s]
    BY <1>5, <1>11
  <2> QED BY <2>1 DEF LifeInv, TablesInv
<1> QED BY <1>4, <1>5, <1>6, <1>7, <1>8, <1>9, <1>10, <1>11, <1>12

(* A context that fails or is freed. *)
LEMMA EndKeeps ==
  ASSUME LifeInv, NEW c \in Contexts, NEW v \in {"failed", "freed"},
         stage' = [stage EXCEPT ![c] = v],
         Busy(c) \/ Idle,
         bp[c] \/ refs = 0,
         UNCHANGED <<bp, refs, backend, mirror>>,
         held'[c] \subseteq held[c], v = "freed" => held'[c] = {},
         \A d \in Contexts \ {c} :
           /\ held'[d] = held[d] /\ addr'[d] = addr[d]
           /\ \A s : <<d, s>> \in lost' <=> <<d, s>> \in lost
  PROVE  /\ stage' \in [Contexts -> Steps \cup {"none", "ready", "failed", "freed", "gone"}]
         /\ \A d \in Contexts : HeldInv(d)' /\ BackendInv(d)'
         /\ OneAtATime' /\ SharedInv' /\ MirrorInv'
<1>1. LifeTypeOK /\ HeldInv(c) /\ BackendInv(c)
  BY DEF LifeInv
<1>2. /\ stage' \in [Contexts -> Steps \cup {"none", "ready", "failed", "freed", "gone"}]
      /\ stage'[c] = v /\ \A d \in Contexts \ {c} : stage'[d] = stage[d]
  BY <1>1 DEF LifeTypeOK
<1>3. v \notin Steps /\ v \notin {"none", "ready", "gone"}
  BY StepsAre
<1>4. HeldInv(c)' /\ Done(c)' = {}
  BY <1>2, <1>3 DEF HeldInv, Loading, Done
<1>5. BackendInv(c)'
  BY <1>1, <1>2, <1>3 DEF BackendInv, Loading
<1>6. ASSUME NEW d \in Contexts \ {c}
      PROVE  HeldInv(d)' /\ BackendInv(d)' /\ Done(d)' = Done(d)
  <2>1. Elsewhere(d)
    BY <1>2 DEF Elsewhere
  <2> QED BY <2>1, OtherContext
<1>7. OneAtATime'
  <2>1. ASSUME NEW d \in Contexts \ {c} PROVE ~Busy(d)'
    BY <1>2 DEF LifeInv, OneAtATime, Busy, Idle
  <2> QED BY <2>1 DEF OneAtATime
<1>8. SharedInv'
  <2>1. Sharing' = Sharing
    BY DEF Sharing
  <2> QED BY <2>1 DEF LifeInv, SharedInv
<1>9. MirrorInv'
  BY <1>4, <1>6 DEF LifeInv, MirrorInv
<1> QED BY <1>2, <1>4, <1>5, <1>6, <1>7, <1>8, <1>9

(* One arena at most is lost, of the context that fails. *)
LEMMA LosesOne ==
  ASSUME LifeInv, NEW c \in Contexts, NEW s \in Steps, stage[c] = s, Loses(c, s)
  PROVE  /\ lost' \subseteq Contexts \X Weights
         /\ \A p, q \in lost' : p[1] = q[1] => p = q
         /\ \A d \in Contexts \ {c} : \A r : <<d, r>> \in lost' <=> <<d, r>> \in lost
<1>1. PICK arena \in SUBSET ({s} \cap Weights) : lost' = lost \cup {<<c, w>> : w \in arena}
  BY DEF Loses
<1>2. \A w \in Weights : <<c, w>> \notin lost
  BY StepsAre DEF LifeInv, HeldInv
<1>3. lost \subseteq Contexts \X Weights
  BY DEF LifeInv, LifeTypeOK
<1>4. lost' \subseteq Contexts \X Weights
  BY <1>1, <1>3
<1>5. \A d \in Contexts \ {c} : \A r : <<d, r>> \in lost' <=> <<d, r>> \in lost
  BY <1>1
<1>6. \A p \in lost' : (p \in lost /\ p[1] # c) \/ p = <<c, s>>
  BY <1>1, <1>2, <1>3
<1>7. \A p, q \in lost' : p[1] = q[1] => p = q
  <2>1. \A p, q \in lost : p[1] = q[1] => p = q
    BY DEF LifeInv, LifeTypeOK
  <2>2. <<c, s>>[1] = c
    OBVIOUS
  <2> QED BY <1>6, <2>1, <2>2
<1> QED BY <1>4, <1>5, <1>7

LEMMA StepFailsInv ==
  ASSUME LifeInv, NEW c \in Contexts, NEW s \in Steps, StepFails(c, s)
  PROVE  LifeInv'
<1>1. /\ stage[c] = s /\ stage' = [stage EXCEPT ![c] = "failed"]
      /\ Release(c, Unwinds(s), fd[c]) /\ Loses(c, s)
      /\ UNCHANGED <<bp, refs, backend, mirror>>
  BY DEF StepFails, Fails
<1>2. /\ lost' \subseteq Contexts \X Weights
      /\ \A p, q \in lost' : p[1] = q[1] => p = q
      /\ \A d \in Contexts \ {c} : \A r : <<d, r>> \in lost' <=> <<d, r>> \in lost
  BY <1>1, LosesOne
<1>3. Unwinds(s) \in SUBSET Acquiring /\ fd[c] \in [Files -> -1 .. MaxDescriptor]
  BY DEF Unwinds, LifeInv, LifeTypeOK
<1>4. /\ held' \in [Contexts -> SUBSET Acquiring] /\ heap' \subseteq Contexts \X Acquiring
      /\ fd' \in [Contexts -> [Files -> -1 .. MaxDescriptor]]
      /\ owner' \in [Descriptors -> {Other, None} \cup (Contexts \X Files)]
      /\ addr' \in [Contexts -> [Tables -> Addresses \cup {None}]]
      /\ held'[c] \subseteq held[c]
      /\ \A d \in Contexts \ {c} : held'[d] = held[d] /\ addr'[d] = addr[d]
      /\ HeapInv' /\ FilesInv' /\ TablesInv'
  BY <1>1, <1>3, ReleaseKeeps
<1>5. Busy(c) /\ bp[c]
  BY <1>1, StepsAre DEF LifeInv, BackendInv, Busy, Loading
<1>6. /\ stage' \in [Contexts -> Steps \cup {"none", "ready", "failed", "freed", "gone"}]
      /\ \A d \in Contexts : HeldInv(d)' /\ BackendInv(d)'
      /\ OneAtATime' /\ SharedInv' /\ MirrorInv'
  BY <1>1, <1>2, <1>4, <1>5, EndKeeps
<1>7. LifeTypeOK'
  BY <1>1, <1>2, <1>4, <1>6 DEF LifeInv, LifeTypeOK
<1> QED BY <1>4, <1>6, <1>7 DEF LifeInv

LEMMA LoadThrowsInv ==
  ASSUME LifeInv, NEW c \in Contexts, NEW s \in Steps, LoadThrows(c, s)
  PROVE  LifeInv'
<1>1. /\ stage[c] = s /\ stage' = [stage EXCEPT ![c] = "failed"] /\ Loses(c, s)
      /\ UNCHANGED <<bp, refs, backend, mirror, held, heap, fd, owner, addr>>
  BY DEF LoadThrows, Fails, memory
<1>2. /\ lost' \subseteq Contexts \X Weights
      /\ \A p, q \in lost' : p[1] = q[1] => p = q
      /\ \A d \in Contexts \ {c} : \A r : <<d, r>> \in lost' <=> <<d, r>> \in lost
  BY <1>1, LosesOne
<1>3. Busy(c) /\ bp[c]
  BY <1>1, StepsAre DEF LifeInv, BackendInv, Busy, Loading
<1>4. /\ stage' \in [Contexts -> Steps \cup {"none", "ready", "failed", "freed", "gone"}]
      /\ \A d \in Contexts : HeldInv(d)' /\ BackendInv(d)'
      /\ OneAtATime' /\ SharedInv' /\ MirrorInv'
  BY <1>1, <1>2, <1>3, EndKeeps
<1>5. LifeTypeOK'
  BY <1>1, <1>2, <1>4 DEF LifeInv, LifeTypeOK
<1>6. HeapInv' /\ FilesInv' /\ TablesInv'
  BY <1>1 DEF LifeInv, HeapInv, FilesInv, TablesInv
<1> QED BY <1>4, <1>5, <1>6 DEF LifeInv

LEMMA FileFailsInv ==
  ASSUME LifeInv, NEW c \in Contexts, NEW g \in Files, FileFails(c, g)
  PROVE  LifeInv'
<1>1. /\ stage[c] = g /\ stage' = [stage EXCEPT ![c] = "failed"]
      /\ UNCHANGED <<lost, bp, refs, backend, mirror>>
  BY DEF FileFails, Fails
<1>2. PICK left \in {-1, 0} \cup Lowest : Release(c, Unwinds(g), [fd[c] EXCEPT ![g] = left])
  BY DEF FileFails
<1>3. /\ Unwinds(g) \in SUBSET Acquiring
      /\ [fd[c] EXCEPT ![g] = left] \in [Files -> -1 .. MaxDescriptor]
  <2>1. left \in -1 .. MaxDescriptor
    BY LifecycleAssumption DEF Lowest, Unused, Descriptors
  <2> QED BY <2>1 DEF Unwinds, LifeInv, LifeTypeOK
<1>4. g \notin held[c]
  <2>1. Place(g) \in Int
    BY StepsAre, PlaceIs
  <2> QED BY <1>1, <2>1, StepsAre DEF LifeInv, HeldInv, Loading, Done
<1>5. \A h \in held[c] \cap Files : [fd[c] EXCEPT ![g] = left][h] = fd[c][h]
  BY <1>4 DEF LifeInv, LifeTypeOK
<1>6. /\ held' \in [Contexts -> SUBSET Acquiring] /\ heap' \subseteq Contexts \X Acquiring
      /\ fd' \in [Contexts -> [Files -> -1 .. MaxDescriptor]]
      /\ owner' \in [Descriptors -> {Other, None} \cup (Contexts \X Files)]
      /\ addr' \in [Contexts -> [Tables -> Addresses \cup {None}]]
      /\ held'[c] \subseteq held[c]
      /\ \A d \in Contexts \ {c} : held'[d] = held[d] /\ addr'[d] = addr[d]
      /\ HeapInv' /\ FilesInv' /\ TablesInv'
  BY <1>2, <1>3, <1>5, ReleaseKeeps
<1>7. Busy(c) /\ bp[c]
  BY <1>1, StepsAre DEF LifeInv, BackendInv, Busy, Loading
<1>8. /\ stage' \in [Contexts -> Steps \cup {"none", "ready", "failed", "freed", "gone"}]
      /\ \A d \in Contexts : HeldInv(d)' /\ BackendInv(d)'
      /\ OneAtATime' /\ SharedInv' /\ MirrorInv'
  BY <1>1, <1>6, <1>7, EndKeeps
<1>9. LifeTypeOK'
  BY <1>1, <1>6, <1>8 DEF LifeInv, LifeTypeOK
<1> QED BY <1>6, <1>8, <1>9 DEF LifeInv

LEMMA FreePipelineInv ==
  ASSUME LifeInv, NEW c \in Contexts, FreePipeline(c)
  PROVE  LifeInv'
<1>1. /\ stage[c] = "failed" \/ (Idle /\ stage[c] = "ready")
      /\ stage' = [stage EXCEPT ![c] = "freed"]
      /\ Release(c, Acquiring, fd[c])
      /\ UNCHANGED <<lost, bp, refs, backend, mirror>>
  BY DEF FreePipeline, PipelineFrees
<1>2. Acquiring \in SUBSET Acquiring /\ fd[c] \in [Files -> -1 .. MaxDescriptor]
  BY DEF LifeInv, LifeTypeOK
<1>3. /\ held' \in [Contexts -> SUBSET Acquiring] /\ heap' \subseteq Contexts \X Acquiring
      /\ fd' \in [Contexts -> [Files -> -1 .. MaxDescriptor]]
      /\ owner' \in [Descriptors -> {Other, None} \cup (Contexts \X Files)]
      /\ addr' \in [Contexts -> [Tables -> Addresses \cup {None}]]
      /\ held'[c] = held[c] \ Acquiring
      /\ \A d \in Contexts \ {c} : held'[d] = held[d] /\ addr'[d] = addr[d]
      /\ HeapInv' /\ FilesInv' /\ TablesInv'
  BY <1>1, <1>2, ReleaseKeeps
<1>4. held'[c] = {}
  BY <1>3 DEF LifeInv, LifeTypeOK
<1>5. (Busy(c) \/ Idle) /\ (bp[c] \/ refs = 0)
  BY <1>1 DEF LifeInv, BackendInv, Busy
<1>6. /\ stage' \in [Contexts -> Steps \cup {"none", "ready", "failed", "freed", "gone"}]
      /\ \A d \in Contexts : HeldInv(d)' /\ BackendInv(d)'
      /\ OneAtATime' /\ SharedInv' /\ MirrorInv'
  BY <1>1, <1>3, <1>4, <1>5, EndKeeps
<1>7. LifeTypeOK'
  BY <1>1, <1>3, <1>6 DEF LifeInv, LifeTypeOK
<1> QED BY <1>3, <1>6, <1>7 DEF LifeInv

LEMMA NoBackendInv ==
  ASSUME LifeInv, NEW c \in Contexts, NoBackend(c)
  PROVE  LifeInv'
<1>1. /\ Idle /\ refs = 0 /\ stage' = [stage EXCEPT ![c] = "failed"]
      /\ UNCHANGED <<lost, bp, refs, backend, mirror, held, heap, fd, owner, addr>>
  BY DEF NoBackend, memory
<1>2. /\ stage' \in [Contexts -> Steps \cup {"none", "ready", "failed", "freed", "gone"}]
      /\ \A d \in Contexts : HeldInv(d)' /\ BackendInv(d)'
      /\ OneAtATime' /\ SharedInv' /\ MirrorInv'
  BY <1>1, EndKeeps
<1>3. LifeTypeOK'
  BY <1>1, <1>2 DEF LifeInv, LifeTypeOK
<1>4. HeapInv' /\ FilesInv' /\ TablesInv'
  BY <1>1 DEF LifeInv, HeapInv, FilesInv, TablesInv
<1> QED BY <1>2, <1>3, <1>4 DEF LifeInv
-----------------------------------------------------------------------------
LEMMA BackendInitInv ==
  ASSUME LifeInv, NEW c \in Contexts, BackendInit(c)
  PROVE  LifeInv'
<1>1. /\ Idle /\ stage[c] = "none" /\ stage' = [stage EXCEPT ![c] = "talker_gguf"]
      /\ bp' = [bp EXCEPT ![c] = TRUE] /\ backend' = TRUE
      /\ refs' = IF refs > 0 THEN refs + 1 ELSE 1
      /\ UNCHANGED <<lost, mirror, held, heap, fd, owner, addr>>
  BY DEF BackendInit, Shared, memory
<1>2. LifeTypeOK /\ HeldInv(c) /\ BackendInv(c) /\ SharedInv
  BY DEF LifeInv
<1>3. /\ "talker_gguf" \in Steps
      /\ "talker_gguf" \notin {"none", "ready", "failed", "freed", "gone"}
  BY StepsAre DEF Files
<1>4. LifeTypeOK'
  BY <1>1, <1>2, <1>3 DEF LifeTypeOK
<1>5. /\ stage'[c] = "talker_gguf" /\ bp'[c]
      /\ \A d \in Contexts \ {c} : stage'[d] = stage[d] /\ bp'[d] = bp[d]
  BY <1>1, <1>2 DEF LifeTypeOK
<1>6. Done(c)' = {}
  BY <1>3, <1>5, PlaceIs, PlacesAre DEF Done
<1>7. HeldInv(c)' /\ BackendInv(c)'
  BY <1>1, <1>2, <1>3, <1>5, <1>6 DEF HeldInv, BackendInv, Loading
<1>8. ASSUME NEW d \in Contexts \ {c}
      PROVE  HeldInv(d)' /\ BackendInv(d)' /\ Done(d)' = Done(d)
  <2>1. Elsewhere(d) /\ stage[d] \notin {"failed", "freed"}
    BY <1>1, <1>5 DEF Elsewhere, Idle
  <2> QED BY <2>1, OtherContext
<1>9. OneAtATime'
  <2>1. ASSUME NEW d \in Contexts \ {c} PROVE ~Busy(d)'
    BY <1>1, <1>5 DEF Busy, Idle
  <2> QED BY <2>1 DEF OneAtATime
<1>10. SharedInv'
  <2>1. c \notin Sharing /\ Sharing' = Sharing \cup {c}
    BY <1>1, <1>2, <1>5 DEF Sharing, BackendInv
  <2>2. IsFiniteSet(Sharing') /\ Cardinality(Sharing') = Cardinality(Sharing) + 1
    BY <1>2, <2>1, FS_AddElement DEF SharedInv
  <2> QED BY <1>1, <1>2, <2>2 DEF SharedInv, LifeTypeOK
<1>11. HeapInv' /\ FilesInv' /\ TablesInv'
  BY <1>1 DEF LifeInv, HeapInv, FilesInv, TablesInv
<1>12. MirrorInv'
  BY <1>1, <1>6, <1>8 DEF LifeInv, MirrorInv
<1> QED BY <1>4, <1>7, <1>8, <1>9, <1>10, <1>11, <1>12 DEF LifeInv

LEMMA BackendReleaseInv ==
  ASSUME LifeInv, NEW c \in Contexts, BackendRelease(c)
  PROVE  LifeInv'
<1>1. /\ stage[c] = "freed" /\ stage' = [stage EXCEPT ![c] = "gone"]
      /\ bp' = [bp EXCEPT ![c] = FALSE] /\ backend' = (backend /\ refs' # 0)
      /\ refs' = IF refs <= 0 THEN refs ELSE refs - 1
      /\ fd' = [fd EXCEPT ![c] = [g \in Files |-> 0]]
      /\ UNCHANGED <<lost, mirror, held, heap, owner, addr>>
  BY DEF BackendRelease, Released
<1>2. LifeTypeOK /\ HeldInv(c) /\ BackendInv(c) /\ SharedInv
  BY DEF LifeInv
<1>3. "gone" \notin Steps
  BY StepsAre
<1>4. held[c] = {}
  BY <1>1, <1>2 DEF HeldInv
<1>5. fd' \in [Contexts -> [Files -> -1 .. MaxDescriptor]]
      /\ \A d \in Contexts \ {c} : fd'[d] = fd[d]
  <2>1. [g \in Files |-> 0] \in [Files -> -1 .. MaxDescriptor]
    BY LifecycleAssumption
  <2> QED BY <1>1, <1>2, <2>1 DEF LifeTypeOK
<1>6. /\ refs' \in Nat /\ backend' \in BOOLEAN /\ bp' \in [Contexts -> BOOLEAN]
      /\ stage' \in [Contexts -> Steps \cup {"none", "ready", "failed", "freed", "gone"}]
  BY <1>1, <1>2 DEF LifeTypeOK
<1>7. LifeTypeOK'
  BY <1>1, <1>2, <1>5, <1>6 DEF LifeTypeOK
<1>8. /\ stage'[c] = "gone" /\ ~bp'[c]
      /\ \A d \in Contexts \ {c} : stage'[d] = stage[d] /\ bp'[d] = bp[d]
  BY <1>1, <1>2 DEF LifeTypeOK
<1>9. Done(c)' = {} /\ HeldInv(c)' /\ BackendInv(c)'
  BY <1>1, <1>3, <1>4, <1>8 DEF HeldInv, BackendInv, Loading, Done
<1>10. ASSUME NEW d \in Contexts \ {c}
       PROVE  HeldInv(d)' /\ BackendInv(d)' /\ Done(d)' = Done(d) /\ ~Busy(d)
  <2>1. ~Busy(d)
    BY <1>1 DEF LifeInv, OneAtATime, Busy
  <2>2. Elsewhere(d) /\ stage[d] \notin {"failed", "freed"}
    BY <1>1, <1>8, <2>1 DEF Elsewhere, Busy
  <2> QED BY <2>1, <2>2, OtherContext
<1>11. OneAtATime'
  <2>1. \A d \in Contexts : ~Busy(d)'
    BY <1>8, <1>10 DEF Busy
  <2> QED BY <2>1 DEF OneAtATime
<1>12. SharedInv'
  <2>1. Sharing' = Sharing \ {c}
    BY <1>8 DEF Sharing
  <2>2. /\ IsFiniteSet(Sharing')
        /\ Cardinality(Sharing') = IF bp[c] THEN Cardinality(Sharing) - 1
                                   ELSE Cardinality(Sharing)
    BY <1>2, <2>1, FS_RemoveElement DEF SharedInv, Sharing
  <2>3. CASE bp[c]
    <3>1. Cardinality(Sharing) # 0
      BY <1>2, <2>3, FS_EmptySet DEF SharedInv, Sharing
    <3>2. refs \in Nat /\ refs # 0 /\ backend
      BY <1>2, <3>1 DEF SharedInv, LifeTypeOK
    <3>3. refs' = refs - 1
      BY <1>1, <3>2
    <3>4. refs' # 0 <=> refs' > 0
      BY <3>2, <3>3
    <3>5. backend' <=> refs' > 0
      BY <1>1, <3>2, <3>4
    <3>6. refs' = Cardinality(Sharing')
      BY <1>2, <2>2, <2>3, <3>3 DEF SharedInv
    <3> QED BY <2>2, <3>5, <3>6 DEF SharedInv
  <2>4. CASE ~bp[c]
    <3>1. refs = 0 /\ refs' = 0 /\ ~(refs > 0) /\ ~(refs' > 0)
      BY <1>1, <1>2, <2>4 DEF BackendInv
    <3>2. ~backend /\ ~backend'
      BY <1>1, <1>2, <3>1 DEF SharedInv
    <3>3. refs' = Cardinality(Sharing')
      BY <1>2, <2>2, <2>4, <3>1 DEF SharedInv
    <3> QED BY <2>2, <3>1, <3>2, <3>3 DEF SharedInv
  <2> QED BY <2>3, <2>4
<1>13. HeapInv' /\ TablesInv'
  BY <1>1 DEF LifeInv, HeapInv, TablesInv
<1>14. FilesInv'
  BY <1>1, <1>4, <1>5 DEF LifeInv, FilesInv
<1>15. MirrorInv'
  BY <1>1, <1>9, <1>10 DEF LifeInv, MirrorInv
<1> QED BY <1>7, <1>9, <1>10, <1>11, <1>12, <1>13, <1>14, <1>15 DEF LifeInv

(* The rest of the process takes no number that is in use. *)
LEMMA OtherInv ==
  ASSUME LifeInv, OtherOpens \/ \E n \in Descriptors : OtherCloses(n)
  PROVE  LifeInv'
<1>1. UNCHANGED <<stage, held, heap, lost, fd, bp, refs, backend, addr, mirror>>
  BY DEF OtherOpens, OtherCloses
<1>2. PICK n \in Descriptors, o \in {Other, None} : owner' = [owner EXCEPT ![n] = o]
  BY DEF OtherOpens, OtherCloses, Lowest, Unused
<1>3. owner' \in [Descriptors -> {Other, None} \cup (Contexts \X Files)]
  BY <1>2 DEF LifeInv, LifeTypeOK
<1>4. LifeTypeOK'
  BY <1>1, <1>3 DEF LifeInv, LifeTypeOK
<1>5. FilesInv'
  <2>1. ASSUME NEW c \in Contexts, NEW g \in Files, NEW m \in Descriptors, owner'[m] = <<c, g>>
        PROVE  owner[m] = <<c, g>>
    <3>1. <<c, g>> # o
      BY LifecycleAssumption
    <3> QED BY <1>2, <2>1, <3>1 DEF LifeInv, LifeTypeOK
  <2> QED BY <1>1, <2>1 DEF LifeInv, FilesInv
<1>6. Sharing' = Sharing /\ \A c \in Contexts : Done(c)' = Done(c)
  BY <1>1 DEF Sharing, Done
<1>7. \A c \in Contexts : HeldInv(c)' /\ BackendInv(c)'
  BY <1>1, <1>6 DEF LifeInv, HeldInv, BackendInv, Loading
<1>8. OneAtATime' /\ SharedInv' /\ HeapInv' /\ TablesInv' /\ MirrorInv'
  BY <1>1, <1>6 DEF LifeInv, OneAtATime, Busy, SharedInv, HeapInv, TablesInv, MirrorInv
<1> QED BY <1>4, <1>5, <1>7, <1>8 DEF LifeInv

LEMMA ContextStep == LifeInv /\ [LifeNext]_lifeVars => LifeInv'
<1> SUFFICES ASSUME LifeInv, [LifeNext]_lifeVars PROVE LifeInv'
  OBVIOUS
<1>1. CASE UNCHANGED lifeVars
  <2>1. UNCHANGED <<stage, held, heap, lost, fd, owner, bp, refs, backend, addr, mirror>>
    BY <1>1 DEF lifeVars
  <2>2. Sharing' = Sharing /\ \A c \in Contexts : Done(c)' = Done(c)
    BY <2>1 DEF Sharing, Done
  <2>3. LifeTypeOK' /\ \A c \in Contexts : HeldInv(c)' /\ BackendInv(c)'
    BY <2>1, <2>2 DEF LifeInv, LifeTypeOK, HeldInv, BackendInv, Loading
  <2>4. OneAtATime' /\ SharedInv' /\ HeapInv' /\ FilesInv' /\ TablesInv' /\ MirrorInv'
    BY <2>1, <2>2 DEF LifeInv, OneAtATime, Busy, SharedInv, HeapInv, FilesInv, TablesInv,
                      MirrorInv
  <2> QED BY <2>3, <2>4 DEF LifeInv
<1>2. ASSUME NEW c \in Contexts,
             \/ BackendInit(c) \/ NoBackend(c)
             \/ RegisterMirrors(c) \/ FreePipeline(c) \/ BackendRelease(c)
      PROVE  LifeInv'
  BY <1>2, BackendInitInv, NoBackendInv, RegisterMirrorsInv, FreePipelineInv, BackendReleaseInv
<1>3. ASSUME NEW c \in Contexts, NEW g \in Files, LoadFile(c, g) \/ FileFails(c, g)
      PROVE  LifeInv'
  BY <1>3, LoadFileInv, FileFailsInv
<1>4. ASSUME NEW c \in Contexts, NEW s \in Tables, LoadTable(c, s)
      PROVE  LifeInv'
  BY <1>4, LoadTableInv
<1>5. ASSUME NEW c \in Contexts, NEW s \in Acquiring, LoadPart(c, s)
      PROVE  LifeInv'
  BY <1>5, LoadPartInv
<1>6. ASSUME NEW c \in Contexts, NEW s \in Steps,
             PassStep(c, s) \/ StepFails(c, s) \/ LoadThrows(c, s)
      PROVE  LifeInv'
  BY <1>6, PassStepInv, StepFailsInv, LoadThrowsInv
<1>7. ASSUME OtherOpens \/ \E n \in Descriptors : OtherCloses(n)
      PROVE  LifeInv'
  BY <1>7, OtherInv
<1> QED BY <1>1, <1>2, <1>3, <1>4, <1>5, <1>6, <1>7 DEF LifeNext

(* The invariant of the contexts holds throughout.                         *)
THEOREM ContextInvariance == LifeSpec => []LifeInv
<1>1. LifeInit => LifeInv
  BY FirstContext
<1>2. LifeInv /\ [LifeNext]_lifeVars => LifeInv'
  BY ContextStep
<1> QED BY <1>1, <1>2, PTL DEF LifeSpec

(* However many contexts are loaded, fail and are freed, the fields, the   *)
(* count and the descriptors keep their types, and a failed load loses one *)
(* weight arena at most.                                                   *)
THEOREM ContextTypeCorrect == LifeSpec => []LifeTypeOK
<1>1. LifeInv => LifeTypeOK
  BY DEF LifeInv
<1> QED BY <1>1, ContextInvariance, PTL

(* No field of a context points at freed memory, so the second cleanup of a*)
(* failed load frees nothing twice.                                        *)
THEOREM NothingIsFreedTwice == LifeSpec => []FieldsAreLive
<1>1. LifeInv => FieldsAreLive
  BY DEF LifeInv, HeapInv, FieldsAreLive, LifeTypeOK
<1> QED BY <1>1, ContextInvariance, PTL

(* After qt_free a context has neither memory nor an open file, at whatever*)
(* step it failed and whatever descriptors the process closed meanwhile.   *)
THEOREM NothingIsLeft == LifeSpec => []FreedIsGone
<1>1. LifeInv => FreedIsGone
  BY DEF LifeInv, HeldInv, HeapInv, FilesInv, FreedIsGone
<1> QED BY <1>1, ContextInvariance, PTL

(* The shared backend lives exactly as long as some context uses it.       *)
THEOREM BackendIsShared == LifeSpec => []BackendOutlives
<1>1. LifeInv => BackendOutlives
  BY DEF LifeInv, SharedInv, Sharing, BackendInv, Loading, BackendOutlives
<1> QED BY <1>1, ContextInvariance, PTL

(* A context in use reads its embedding rows from its own file, although   *)
(* the map of mirrors keeps the addresses of contexts long freed.          *)
THEOREM RowsAreOwn == LifeSpec => []MirrorIsOwn
<1>1. LifeInv => MirrorIsOwn
  <2> SUFFICES ASSUME LifeInv, NEW c \in Contexts, stage[c] = "ready", NEW s \in Tables
               PROVE  mirror[addr[c][s]] = c /\ "talker_gguf" \in held[c]
    BY DEF MirrorIsOwn
  <2>1. Done(c) = Steps
    BY DEF Done
  <2> QED BY <2>1, StepsAre DEF LifeInv, HeldInv, MirrorInv, Files
<1> QED BY <1>1, ContextInvariance, PTL
-----------------------------------------------------------------------------
(* During a synthesis the mark is of this call. *)
MarkInv(t) ==
  at[t] \in Synthesizing \union {"returning"} /\ g_alloc_failed[t] => exhausted[t]

(* The status is decided when the synthesis ends; until then there is none,*)
(* and the message of a status that calls for one is there already.        *)
Decided(t) == at[t] \in {"returning", "caller"}

StatusInv(t) ==
  /\ ~Decided(t) => rc[t] = "none"
  /\ calls[t] = 0 => rc[t] = "none"
  /\ rc[t] = "OOM" => exhausted[t]
  /\ rc[t] \in {"INVALID_PARAMS", "MODE_INVALID", "OOM"} => g_last_error[t] = This(t)

AudioInv(t) ==
  rc[t] = "OK" => out[t] \in (IF streaming[t] THEN {Empty} ELSE {Empty, calls[t]})

CountInv(t) == at[t] # "caller" => calls[t] > 0

CallIsRight(t) == CountInv(t) /\ MarkInv(t) /\ StatusInv(t) /\ AudioInv(t)

CallsInv ==
  /\ TypeOK
  /\ DiagnosticsStayOnTheirThread
  /\ \A t \in Threads : CallIsRight(t)

(* What the steps of a thread do not touch: the state of another.          *)
Same(u) ==
  /\ at'[u] = at[u] /\ calls'[u] = calls[u] /\ streaming'[u] = streaming[u]
  /\ out'[u] = out[u] /\ rc'[u] = rc[u] /\ exhausted'[u] = exhausted[u]
  /\ g_last_error'[u] = g_last_error[u] /\ g_alloc_failed'[u] = g_alloc_failed[u]
-----------------------------------------------------------------------------
LEMMA FirstCallsInv == Init => CallsInv
<1> SUFFICES ASSUME Init PROVE CallsInv
  OBVIOUS
<1>1. TypeOK
  BY AbiAssumption DEF Init, TypeOK, Places, Statuses, Synthesizing, Empty, NullOut
<1>2. DiagnosticsStayOnTheirThread
  BY DEF Init, DiagnosticsStayOnTheirThread, Slot
<1>3. ASSUME NEW t \in Threads PROVE CallIsRight(t)
  BY DEF Init, CallIsRight, CountInv, MarkInv, StatusInv, AudioInv, Decided,
         Synthesizing
<1> QED BY <1>1, <1>2, <1>3 DEF CallsInv

LEMMA SameInv ==
  ASSUME NEW u \in Threads, CallIsRight(u), Same(u)
  PROVE  CallIsRight(u)'
BY DEF CallIsRight, CountInv, MarkInv, StatusInv, AudioInv, Decided, This, Same

(* A step of t that keeps the types, writes only messages of its own, and  *)
(* leaves the call of t right, leaves every call right.                    *)
LEMMA ThreadStep ==
  ASSUME CallsInv, NEW t \in Threads, TypeOK',
         \A u \in Threads \ {t} : Same(u),
         g_last_error'[t] \in {g_last_error[t], This(t)'},
         CallIsRight(t)'
  PROVE  CallsInv'
<1>1. DiagnosticsStayOnTheirThread'
  BY DEF CallsInv, DiagnosticsStayOnTheirThread, Slot, Same, This
<1>2. ASSUME NEW u \in Threads PROVE CallIsRight(u)'
  BY <1>2, SameInv DEF CallsInv
<1> QED BY <1>1, <1>2 DEF CallsInv
-----------------------------------------------------------------------------
(* A call that runs has a message that can be told apart. *)
LEMMA OwnMessage ==
  ASSUME CallsInv, NEW t \in Threads, at[t] # "caller"
  PROVE  This(t) \in Threads \X (1..MaxCalls)
BY AbiAssumption DEF CallsInv, TypeOK, CallIsRight, CountInv, This
-----------------------------------------------------------------------------
LEMMA CallInv ==
  ASSUME CallsInv, NEW t \in Threads, Call(t)
  PROVE  CallsInv'
<1>1. TypeOK'
  BY AbiAssumption DEF CallsInv, CallIsRight, CountInv, TypeOK, Places, Statuses,
         Synthesizing, This, Call, GoesTo, call, slots, Slot, Empty, NullOut
<1>2. \A u \in Threads \ {t} : Same(u)
  BY DEF CallsInv, TypeOK, Same, Call, GoesTo, call, slots, Slot, Empty, NullOut
<1>3. g_last_error'[t] \in {g_last_error[t], This(t)'}
  BY DEF CallsInv, TypeOK, This, Call, GoesTo, call, slots, Slot, Empty, NullOut
<1>4. CallIsRight(t)'
  BY DEF CallsInv, TypeOK, CallIsRight, CountInv, MarkInv, StatusInv, AudioInv, Decided,
         This, Synthesizing, Call, GoesTo, call, slots, Slot, Empty, NullOut
<1> QED BY <1>1, <1>2, <1>3, <1>4, ThreadStep

LEMMA LoadFailsInv ==
  ASSUME CallsInv, NEW t \in Threads, LoadFails(t)
  PROVE  CallsInv'
<1>1. TypeOK'
  BY AbiAssumption DEF CallsInv, CallIsRight, CountInv, TypeOK, Places, Statuses,
         Synthesizing, This, LoadFails, Returns, GoesTo, call, slots, Slot
<1>2. \A u \in Threads \ {t} : Same(u)
  BY DEF CallsInv, TypeOK, Same, LoadFails, Returns, GoesTo, call, slots, Slot
<1>3. g_last_error'[t] \in {g_last_error[t], This(t)'}
  BY DEF CallsInv, TypeOK, This, LoadFails, Returns, GoesTo, call, slots, Slot
<1>4. CallIsRight(t)'
  BY DEF CallsInv, TypeOK, CallIsRight, CountInv, MarkInv, StatusInv, AudioInv, Decided,
         This, Synthesizing, LoadFails, Returns, GoesTo, call, slots, Slot
<1> QED BY <1>1, <1>2, <1>3, <1>4, ThreadStep

LEMMA RefuseInv ==
  ASSUME CallsInv, NEW t \in Threads, Refuse(t)
  PROVE  CallsInv'
<1>1. TypeOK'
  BY AbiAssumption DEF CallsInv, CallIsRight, CountInv, TypeOK, Places, Statuses,
         Synthesizing, This, Refuse, Returns, qt_set_error, qt_audio_free, GoesTo, call,
         slots, Slot, Empty, NullOut
<1>2. \A u \in Threads \ {t} : Same(u)
  BY DEF CallsInv, TypeOK, Same, Refuse, Returns, qt_set_error, qt_audio_free, GoesTo,
         call, slots, Slot, Empty, NullOut
<1>3. g_last_error'[t] \in {g_last_error[t], This(t)'}
  BY DEF CallsInv, TypeOK, This, Refuse, Returns, qt_set_error, qt_audio_free, GoesTo,
         call, slots, Slot, Empty, NullOut
<1>4. CallIsRight(t)'
  BY DEF CallsInv, TypeOK, CallIsRight, CountInv, MarkInv, StatusInv, AudioInv, Decided,
         This, Synthesizing, Refuse, Returns, qt_set_error, qt_audio_free, GoesTo, call,
         slots, Slot, Empty, NullOut
<1> QED BY <1>1, <1>2, <1>3, <1>4, ThreadStep

LEMMA StartInv ==
  ASSUME CallsInv, NEW t \in Threads, Start(t)
  PROVE  CallsInv'
<1>1. TypeOK'
  BY AbiAssumption DEF CallsInv, CallIsRight, CountInv, TypeOK, Places, Statuses,
         Synthesizing, This, Start, Accepted, Cleared, GoesTo, call, slots, Slot
<1>2. \A u \in Threads \ {t} : Same(u)
  BY DEF CallsInv, TypeOK, Same, Start, Accepted, Cleared, GoesTo, call, slots, Slot
<1>3. g_last_error'[t] \in {g_last_error[t], This(t)'}
  BY DEF CallsInv, TypeOK, This, Start, Accepted, Cleared, GoesTo, call, slots, Slot
<1>4. CallIsRight(t)'
  BY DEF CallsInv, TypeOK, CallIsRight, CountInv, MarkInv, StatusInv, AudioInv, Decided,
         This, Synthesizing, Start, Accepted, Cleared, GoesTo, call, slots, Slot
<1> QED BY <1>1, <1>2, <1>3, <1>4, ThreadStep

LEMMA BuildInv ==
  ASSUME CallsInv, NEW t \in Threads, Build(t)
  PROVE  CallsInv'
<1>1. TypeOK'
  BY AbiAssumption DEF CallsInv, CallIsRight, CountInv, TypeOK, Places, Statuses,
         Synthesizing, This, Build, Ends, qt_set_error, GoesTo, call, slots, Slot
<1>2. \A u \in Threads \ {t} : Same(u)
  BY DEF CallsInv, TypeOK, Same, Build, Ends, qt_set_error, GoesTo, call, slots, Slot
<1>3. g_last_error'[t] \in {g_last_error[t], This(t)'}
  BY DEF CallsInv, TypeOK, This, Build, Ends, qt_set_error, GoesTo, call, slots, Slot
<1>4. CallIsRight(t)'
  BY DEF CallsInv, TypeOK, CallIsRight, CountInv, MarkInv, StatusInv, AudioInv, Decided,
         This, Synthesizing, Build, Ends, qt_set_error, GoesTo, call, slots, Slot
<1> QED BY <1>1, <1>2, <1>3, <1>4, ThreadStep

LEMMA GenerateInv ==
  ASSUME CallsInv, NEW t \in Threads, Generate(t)
  PROVE  CallsInv'
<1>1. TypeOK'
  <2>1. This(t) \in Threads \X (1..MaxCalls)
    BY OwnMessage DEF Generate, Synthesizing
  <2>2. at' \in [Threads -> Places] /\ rc' \in [Threads -> Statuses]
    BY DEF CallsInv, TypeOK, Places, Statuses, Generate, Ends, MayExhaust,
           qt_note_alloc_failure, qt_set_error, GoesTo, call, slots, Slot
  <2>3. /\ g_last_error' \in [Threads -> (Threads \X (1..MaxCalls)) \union {NoCall}]
        /\ g_alloc_failed' \in [Threads -> BOOLEAN]
        /\ exhausted' \in [Threads -> BOOLEAN]
    <3>1. UNCHANGED g_last_error \/ qt_set_error(t)
      BY DEF Generate, slots
    <3>2. \/ UNCHANGED <<g_alloc_failed, exhausted>> \/ qt_note_alloc_failure(t)
          \/ UNCHANGED g_alloc_failed /\ exhausted' = [exhausted EXCEPT ![t] = TRUE]
      BY DEF Generate, MayExhaust, slots
    <3>3. g_last_error' \in [Threads -> (Threads \X (1..MaxCalls)) \union {NoCall}]
      BY <2>1, <3>1 DEF CallsInv, TypeOK, qt_set_error, Slot
    <3>4. /\ g_alloc_failed' \in [Threads -> BOOLEAN]
          /\ exhausted' \in [Threads -> BOOLEAN]
      BY <3>2 DEF CallsInv, TypeOK, qt_note_alloc_failure, Slot
    <3> QED BY <3>3, <3>4
  <2>4. /\ calls' \in [Threads -> 0..MaxCalls]
        /\ streaming' \in [Threads -> BOOLEAN]
        /\ out' \in [Threads -> {NullOut, Empty} \union 1..MaxCalls]
    BY <2>1 DEF CallsInv, TypeOK, This, Generate, Ends, MayExhaust,
           qt_note_alloc_failure, qt_set_error, GoesTo, call, slots, Slot, Empty,
           NullOut
  <2>5. \A u \in Threads :
          at'[u] \in Synthesizing /\ ~streaming'[u] => out'[u] # NullOut
    BY DEF CallsInv, TypeOK, Synthesizing, Generate, Ends, MayExhaust,
           qt_note_alloc_failure, qt_set_error, GoesTo, call, slots, Slot, Empty,
           NullOut
  <2> QED BY <2>2, <2>3, <2>4, <2>5 DEF TypeOK
<1>2. \A u \in Threads \ {t} : Same(u)
  BY DEF CallsInv, TypeOK, Same, Generate, Ends, MayExhaust, qt_note_alloc_failure,
         qt_set_error, GoesTo, call, slots, Slot
<1>3. g_last_error'[t] \in {g_last_error[t], This(t)'}
  BY DEF CallsInv, TypeOK, This, Generate, Ends, MayExhaust, qt_note_alloc_failure,
         qt_set_error, GoesTo, call, slots, Slot
<1>4. CallIsRight(t)'
  BY DEF CallsInv, TypeOK, CallIsRight, CountInv, MarkInv, StatusInv, AudioInv, Decided,
         This, Synthesizing, Generate, Ends, MayExhaust, qt_note_alloc_failure,
         qt_set_error, GoesTo, call, slots, Slot
<1> QED BY <1>1, <1>2, <1>3, <1>4, ThreadStep

LEMMA EndStreamInv ==
  ASSUME CallsInv, NEW t \in Threads, EndStream(t)
  PROVE  CallsInv'
<1>1. TypeOK'
  <2>1. This(t) \in Threads \X (1..MaxCalls)
    BY OwnMessage DEF EndStream, Synthesizing
  <2>2. at' \in [Threads -> Places] /\ rc' \in [Threads -> Statuses]
    BY DEF CallsInv, TypeOK, Places, Statuses, EndStream, Ends, MayExhaust,
           qt_note_alloc_failure, qt_set_error, NoAudio, GoesTo, call, slots, Slot,
           Empty, NullOut
  <2>3. /\ g_last_error' \in [Threads -> (Threads \X (1..MaxCalls)) \union {NoCall}]
        /\ g_alloc_failed' \in [Threads -> BOOLEAN]
        /\ exhausted' \in [Threads -> BOOLEAN]
    <3>1. UNCHANGED g_last_error \/ qt_set_error(t)
      BY DEF EndStream, slots
    <3>2. \/ UNCHANGED <<g_alloc_failed, exhausted>> \/ qt_note_alloc_failure(t)
          \/ UNCHANGED g_alloc_failed /\ exhausted' = [exhausted EXCEPT ![t] = TRUE]
      BY DEF EndStream, MayExhaust, slots
    <3>3. g_last_error' \in [Threads -> (Threads \X (1..MaxCalls)) \union {NoCall}]
      BY <2>1, <3>1 DEF CallsInv, TypeOK, qt_set_error, Slot
    <3>4. /\ g_alloc_failed' \in [Threads -> BOOLEAN]
          /\ exhausted' \in [Threads -> BOOLEAN]
      BY <3>2 DEF CallsInv, TypeOK, qt_note_alloc_failure, Slot
    <3> QED BY <3>3, <3>4
  <2>4. /\ calls' \in [Threads -> 0..MaxCalls]
        /\ streaming' \in [Threads -> BOOLEAN]
        /\ out' \in [Threads -> {NullOut, Empty} \union 1..MaxCalls]
    BY <2>1 DEF CallsInv, TypeOK, This, EndStream, Ends, MayExhaust,
           qt_note_alloc_failure, qt_set_error, NoAudio, GoesTo, call, slots, Slot,
           Empty, NullOut
  <2>5. \A u \in Threads :
          at'[u] \in Synthesizing /\ ~streaming'[u] => out'[u] # NullOut
    BY DEF CallsInv, TypeOK, Synthesizing, EndStream, Ends, MayExhaust,
           qt_note_alloc_failure, qt_set_error, NoAudio, GoesTo, call, slots, Slot,
           Empty, NullOut
  <2> QED BY <2>2, <2>3, <2>4, <2>5 DEF TypeOK
<1>2. \A u \in Threads \ {t} : Same(u)
  BY DEF CallsInv, TypeOK, Same, EndStream, Ends, MayExhaust, qt_note_alloc_failure,
         qt_set_error, NoAudio, GoesTo, call, slots, Slot, Empty, NullOut
<1>3. g_last_error'[t] \in {g_last_error[t], This(t)'}
  BY DEF CallsInv, TypeOK, This, EndStream, Ends, MayExhaust, qt_note_alloc_failure,
         qt_set_error, NoAudio, GoesTo, call, slots, Slot, Empty, NullOut
<1>4. CallIsRight(t)'
  BY DEF CallsInv, TypeOK, CallIsRight, CountInv, MarkInv, StatusInv, AudioInv, Decided,
         This, Synthesizing, EndStream, Ends, MayExhaust, qt_note_alloc_failure,
         qt_set_error, NoAudio, GoesTo, call, slots, Slot, Empty, NullOut
<1> QED BY <1>1, <1>2, <1>3, <1>4, ThreadStep

LEMMA FillAudioInv ==
  ASSUME CallsInv, NEW t \in Threads, FillAudio(t)
  PROVE  CallsInv'
<1>1. TypeOK'
  <2>1. This(t) \in Threads \X (1..MaxCalls)
    BY OwnMessage DEF FillAudio, Synthesizing
  <2>2. at' \in [Threads -> Places] /\ rc' \in [Threads -> Statuses]
    BY DEF CallsInv, TypeOK, Places, Statuses, FillAudio, Ends, MayExhaust,
           qt_note_alloc_failure, qt_set_error, NoAudio, GoesTo, call, slots, Slot,
           Empty, NullOut
  <2>3. /\ g_last_error' \in [Threads -> (Threads \X (1..MaxCalls)) \union {NoCall}]
        /\ g_alloc_failed' \in [Threads -> BOOLEAN]
        /\ exhausted' \in [Threads -> BOOLEAN]
    <3>1. UNCHANGED g_last_error \/ qt_set_error(t)
      BY DEF FillAudio, slots
    <3>2. \/ UNCHANGED <<g_alloc_failed, exhausted>> \/ qt_note_alloc_failure(t)
          \/ UNCHANGED g_alloc_failed /\ exhausted' = [exhausted EXCEPT ![t] = TRUE]
      BY DEF FillAudio, MayExhaust, slots
    <3>3. g_last_error' \in [Threads -> (Threads \X (1..MaxCalls)) \union {NoCall}]
      BY <2>1, <3>1 DEF CallsInv, TypeOK, qt_set_error, Slot
    <3>4. /\ g_alloc_failed' \in [Threads -> BOOLEAN]
          /\ exhausted' \in [Threads -> BOOLEAN]
      BY <3>2 DEF CallsInv, TypeOK, qt_note_alloc_failure, Slot
    <3> QED BY <3>3, <3>4
  <2>4. /\ calls' \in [Threads -> 0..MaxCalls]
        /\ streaming' \in [Threads -> BOOLEAN]
        /\ out' \in [Threads -> {NullOut, Empty} \union 1..MaxCalls]
    BY <2>1 DEF CallsInv, TypeOK, This, FillAudio, Ends, MayExhaust,
           qt_note_alloc_failure, qt_set_error, NoAudio, GoesTo, call, slots, Slot,
           Empty, NullOut
  <2>5. \A u \in Threads :
          at'[u] \in Synthesizing /\ ~streaming'[u] => out'[u] # NullOut
    BY DEF CallsInv, TypeOK, Synthesizing, FillAudio, Ends, MayExhaust,
           qt_note_alloc_failure, qt_set_error, NoAudio, GoesTo, call, slots, Slot,
           Empty, NullOut
  <2> QED BY <2>2, <2>3, <2>4, <2>5 DEF TypeOK
<1>2. \A u \in Threads \ {t} : Same(u)
  BY DEF CallsInv, TypeOK, Same, FillAudio, Ends, MayExhaust, qt_note_alloc_failure,
         qt_set_error, NoAudio, GoesTo, call, slots, Slot, Empty, NullOut
<1>3. g_last_error'[t] \in {g_last_error[t], This(t)'}
  BY DEF CallsInv, TypeOK, This, FillAudio, Ends, MayExhaust, qt_note_alloc_failure,
         qt_set_error, NoAudio, GoesTo, call, slots, Slot, Empty, NullOut
<1>4. CallIsRight(t)'
  BY DEF CallsInv, TypeOK, CallIsRight, CountInv, MarkInv, StatusInv, AudioInv, Decided,
         This, Synthesizing, FillAudio, Ends, MayExhaust, qt_note_alloc_failure,
         qt_set_error, NoAudio, GoesTo, call, slots, Slot, Empty, NullOut
<1> QED BY <1>1, <1>2, <1>3, <1>4, ThreadStep

LEMMA ThrowInv ==
  ASSUME CallsInv, NEW t \in Threads, Throw(t)
  PROVE  CallsInv'
<1>1. TypeOK'
  <2>1. This(t) \in Threads \X (1..MaxCalls)
    BY OwnMessage DEF Throw, Synthesizing
  <2>2. at' \in [Threads -> Places] /\ rc' \in [Threads -> Statuses]
    BY DEF CallsInv, TypeOK, Places, Statuses, Throw, Returns, MayExhaust,
           qt_note_alloc_failure, qt_set_error, qt_audio_free, GoesTo, call, slots,
           Slot, Empty, NullOut
  <2>3. /\ g_last_error' \in [Threads -> (Threads \X (1..MaxCalls)) \union {NoCall}]
        /\ g_alloc_failed' \in [Threads -> BOOLEAN]
        /\ exhausted' \in [Threads -> BOOLEAN]
    BY <2>1 DEF CallsInv, TypeOK, Throw, Returns, MayExhaust, qt_note_alloc_failure,
           qt_set_error, qt_audio_free, GoesTo, call, slots, Slot, Empty, NullOut
  <2>4. /\ calls' \in [Threads -> 0..MaxCalls]
        /\ streaming' \in [Threads -> BOOLEAN]
        /\ out' \in [Threads -> {NullOut, Empty} \union 1..MaxCalls]
    BY <2>1 DEF CallsInv, TypeOK, This, Throw, Returns, MayExhaust,
           qt_note_alloc_failure, qt_set_error, qt_audio_free, GoesTo, call, slots,
           Slot, Empty, NullOut
  <2>5. \A u \in Threads :
          at'[u] \in Synthesizing /\ ~streaming'[u] => out'[u] # NullOut
    BY DEF CallsInv, TypeOK, Synthesizing, Throw, Returns, MayExhaust,
           qt_note_alloc_failure, qt_set_error, qt_audio_free, GoesTo, call, slots,
           Slot, Empty, NullOut
  <2> QED BY <2>2, <2>3, <2>4, <2>5 DEF TypeOK
<1>2. \A u \in Threads \ {t} : Same(u)
  BY DEF CallsInv, TypeOK, Same, Throw, Returns, MayExhaust, qt_note_alloc_failure,
         qt_set_error, qt_audio_free, GoesTo, call, slots, Slot, Empty, NullOut
<1>3. g_last_error'[t] \in {g_last_error[t], This(t)'}
  BY DEF CallsInv, TypeOK, This, Throw, Returns, MayExhaust, qt_note_alloc_failure,
         qt_set_error, qt_audio_free, GoesTo, call, slots, Slot, Empty, NullOut
<1>4. CallIsRight(t)'
  BY DEF CallsInv, TypeOK, CallIsRight, CountInv, MarkInv, StatusInv, AudioInv, Decided,
         This, Synthesizing, Throw, Returns, MayExhaust, qt_note_alloc_failure,
         qt_set_error, qt_audio_free, GoesTo, call, slots, Slot, Empty, NullOut
<1> QED BY <1>1, <1>2, <1>3, <1>4, ThreadStep

LEMMA ReturnInv ==
  ASSUME CallsInv, NEW t \in Threads, Return(t)
  PROVE  CallsInv'
<1>1. TypeOK'
  <2>1. This(t) \in Threads \X (1..MaxCalls)
    BY OwnMessage DEF Return, Synthesizing
  <2>2. at' \in [Threads -> Places] /\ rc' \in [Threads -> Statuses]
    BY DEF CallsInv, TypeOK, Places, Statuses, Return, Returns, Explained, qt_set_error,
           GoesTo, call, slots, Slot
  <2>3. /\ g_last_error' \in [Threads -> (Threads \X (1..MaxCalls)) \union {NoCall}]
        /\ g_alloc_failed' \in [Threads -> BOOLEAN]
        /\ exhausted' \in [Threads -> BOOLEAN]
    BY <2>1 DEF CallsInv, TypeOK, Return, Returns, Explained, qt_set_error, GoesTo,
           call, slots, Slot
  <2>4. /\ calls' \in [Threads -> 0..MaxCalls]
        /\ streaming' \in [Threads -> BOOLEAN]
        /\ out' \in [Threads -> {NullOut, Empty} \union 1..MaxCalls]
    BY <2>1 DEF CallsInv, TypeOK, This, Return, Returns, Explained, qt_set_error,
           GoesTo, call, slots, Slot, Empty, NullOut
  <2>5. \A u \in Threads :
          at'[u] \in Synthesizing /\ ~streaming'[u] => out'[u] # NullOut
    BY DEF CallsInv, TypeOK, Synthesizing, Return, Returns, Explained, qt_set_error,
           GoesTo, call, slots, Slot, Empty, NullOut
  <2> QED BY <2>2, <2>3, <2>4, <2>5 DEF TypeOK
<1>2. \A u \in Threads \ {t} : Same(u)
  BY DEF CallsInv, TypeOK, Same, Return, Returns, Explained, qt_set_error, GoesTo, call,
         slots, Slot
<1>3. g_last_error'[t] \in {g_last_error[t], This(t)'}
  BY DEF CallsInv, TypeOK, This, Return, Returns, Explained, qt_set_error, GoesTo, call,
         slots, Slot
<1>4. CallIsRight(t)'
  BY DEF CallsInv, TypeOK, CallIsRight, CountInv, MarkInv, StatusInv, AudioInv, Decided,
         This, Synthesizing, Return, Returns, Explained, qt_set_error, GoesTo, call,
         slots, Slot
<1> QED BY <1>1, <1>2, <1>3, <1>4, ThreadStep
-----------------------------------------------------------------------------
LEMMA CallsStep == CallsInv /\ [Next]_vars => CallsInv'
<1> SUFFICES ASSUME CallsInv, [Next]_vars PROVE CallsInv'
  OBVIOUS
<1>1. CASE UNCHANGED vars
  BY <1>1 DEF CallsInv, TypeOK, DiagnosticsStayOnTheirThread, CallIsRight, CountInv,
         MarkInv, StatusInv, AudioInv, Decided, This, Slot, vars, call, slots
<1>2. ASSUME NEW t \in Threads, Proceed(t)
      PROVE  CallsInv'
  BY <1>2, CallInv, LoadFailsInv, RefuseInv, StartInv, BuildInv, GenerateInv,
         EndStreamInv, FillAudioInv, ThrowInv, ReturnInv DEF Proceed
<1> QED BY <1>1, <1>2 DEF Next, Crashed, AllCallsMade

(* The invariant of the calls holds throughout.                            *)
THEOREM CallsInvariance == Spec => []CallsInv
<1>1. Init => CallsInv
  BY FirstCallsInv
<1>2. CallsInv /\ [Next]_vars => CallsInv'
  BY CallsStep
<1> QED BY <1>1, <1>2, PTL DEF Spec

(* The facade's state stays within its types for any number of threads and *)
(* of calls; no buffered synthesis starts without an out to fill.          *)
THEOREM CallsTypeCorrect == Spec => []TypeOK
<1>1. CallsInv => TypeOK
  BY DEF CallsInv
<1> QED BY <1>1, CallsInvariance, PTL

(* A 503 is the answer to a call that itself ran out of memory, whatever   *)
(* earlier calls and other threads left behind.                            *)
THEOREM RetryIsHonest == Spec => []RetryOnlyWhenExhausted
<1>1. CallsInv => RetryOnlyWhenExhausted
  BY DEF CallsInv, CallIsRight, StatusInv, RetryOnlyWhenExhausted, TypeOK, Statuses,
         tts_status_to_http
<1> QED BY <1>1, CallsInvariance, PTL

(* The message a thread reads is of one of its own calls. *)
THEOREM DiagnosticsAreLocal == Spec => []DiagnosticsStayOnTheirThread
<1>1. CallsInv => DiagnosticsStayOnTheirThread
  BY DEF CallsInv
<1> QED BY <1>1, CallsInvariance, PTL

(* The message that goes with a 400 or a 503 is of the call it answers. *)
THEOREM ActionableErrorsAreExplained == Spec => []ActionableErrorIsExplained
<1>1. CallsInv => ActionableErrorIsExplained
  BY DEF CallsInv, CallIsRight, StatusInv, ActionableErrorIsExplained, TypeOK, Statuses,
         tts_status_to_http, Slot
<1> QED BY <1>1, CallsInvariance, PTL

(* What a successful call leaves in out is its own audio, or nothing. *)
THEOREM SuccessIsFresh == Spec => []SuccessIsNotStale
<1>1. CallsInv => SuccessIsNotStale
  BY DEF CallsInv, CallIsRight, AudioInv, SuccessIsNotStale
<1> QED BY <1>1, CallsInvariance, PTL
=============================================================================
