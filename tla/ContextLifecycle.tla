---------------------------- MODULE ContextLifecycle ----------------------------
(***************************************************************************)
(* qt_init and qt_free: a context is loaded step by step, any step may fail*)
(* or throw, and what was acquired is given back, first by hand in the     *)
(* branch that fails and then once more by qt_free (src/src/qwen.cpp,      *)
(* pipeline-tts.cpp, pipeline-codec.cpp).  Around the contexts the process *)
(* shares a reference counted backend (backend.h), a map of host mirrors   *)
(* keyed by the address of a tensor (code-predictor-forward.h) and its     *)
(* table of file descriptors, in which the rest of the process opens and   *)
(* closes files too.  Contexts are loaded and freed one at a time.         *)
(***************************************************************************)
EXTENDS Integers, Sequences, FiniteSets

CONSTANTS
  Contexts,      \* the calls of qt_init
  MaxDescriptor, \* the table has descriptors 0 .. MaxDescriptor
  MaxOther,      \* how many of them the rest of the process uses, at most
  Addresses,     \* where the arena of an embedding table may lie
  Other,         \* the rest of the process
  None

Descriptors == 0 .. MaxDescriptor
Files == {"talker_gguf", "codec_gguf"}

ASSUME LifecycleAssumption ==
  /\ MaxDescriptor \in Nat /\ MaxOther \in Nat
  /\ None \notin Contexts \cup Addresses
  /\ (Contexts \X Files) \cap {None, Other} = {}

(* The steps of pipeline_tts_load, those of pipeline_codec_load in their   *)
(* place; "metadata", "mirrors" and the last acquire nothing to give back. *)
Order == <<"talker_gguf", "metadata", "talker", "predictor", "mirrors", "speaker",
  "codec_gguf", "qdec", "transformer", "upsample", "dac", "pre_conv", "seanet",
  "enc_transformer", "enc_downsample", "qenc", "codec_sched", "sched", "prompt_cache",
  "talker_kv", "predictor_kv", "cp_exec", "tx_exec", "tokenizer">>

Steps == {Order[i] : i \in DOMAIN Order}
Place(s) == CHOOSE i \in DOMAIN Order : Order[i] = s
After(s) == IF s = "tokenizer" THEN "ready" ELSE Order[Place(s) + 1]
Before(s) == {Order[i] : i \in 1 .. Place(s) - 1}

Tables == {"talker", "predictor"}
Weights == Tables \cup {"speaker", "qdec", "transformer", "upsample", "dac", "pre_conv",
                        "seanet", "enc_transformer", "enc_downsample", "qenc"}
Acquiring == Steps \ {"metadata", "mirrors", "prompt_cache", "tokenizer"}
Soft == {"codec_sched", "cp_exec", "tx_exec"}   \* a failure goes on without

VARIABLES
  stage,    \* the step a context is at, or what became of it
  held,     \* the fields of the context that are not NULL
  heap,     \* what is allocated: pairs of a context and a step
  lost,     \* weight arenas whose WeightCtx died before a field had them
  fd,       \* GGUFModel.fd of the two files of a context
  owner,    \* who opened each descriptor, or None
  bp,       \* the context has a reference to the backend
  refs,     \* g_backend_refs
  backend,  \* the backend exists
  addr,     \* where the embedding tables of a context lie
  mirror    \* embed_host_mirrors: the context whose mapping a table has

lifeVars == <<stage, held, heap, lost, fd, owner, bp, refs, backend, addr, mirror>>

memory == <<held, heap, fd, owner, addr>>

(* Calls of qt_init and qt_free do not overlap. *)
Idle == \A c \in Contexts : stage[c] \in {"none", "ready", "gone"}

(* open() takes the lowest free number. *)
Unused == {n \in Descriptors : owner[n] = None}
Lowest == {n \in Unused : \A m \in Unused : n <= m}

(* The tables of live weights; an arena never lies on another. *)
InUse == {addr[p[1]][p[2]] : p \in heap \cap (Contexts \X Tables)}

(* The *_free functions: what a field points at is freed, the field NULLed.*)
NulledBug(c, set) == [held EXCEPT ![c] = @ \ (set \ {"pre_conv"})]
Nulled(c, set) == [held EXCEPT ![c] = @ \ set]

(* Frees the fields of set.  gf_close leaves descriptor 0 behind (it zeroes*)
(* the struct) and closes whatever number it finds, for the talker file    *)
(* always, for the codec file only while its header is there.              *)
Release(c, set, number) ==
  LET closing == {g \in set \cap Files : g = "talker_gguf" \/ g \in held[c]} IN
  /\ held' = Nulled(c, set)
  /\ heap' = heap \ {<<c, s>> : s \in set \cap held[c]}
  /\ owner' = [n \in Descriptors |->
                 IF \E g \in closing : number[g] = n THEN None ELSE owner[n]]
  /\ fd' = [fd EXCEPT ![c] = [g \in Files |-> IF g \in closing THEN 0 ELSE number[g]]]
  /\ addr' = [addr EXCEPT ![c] = [s \in Tables |-> IF s \in set THEN None ELSE @[s]]]
-----------------------------------------------------------------------------
(* qt_context is value-initialised: its descriptors are 0, that is stdin. *)
LifeInit ==
  /\ stage = [c \in Contexts |-> "none"]
  /\ held = [c \in Contexts |-> {}]
  /\ heap = {}
  /\ lost = {}
  /\ fd = [c \in Contexts |-> [g \in Files |-> 0]]
  /\ owner = [n \in Descriptors |-> IF n = 0 THEN Other ELSE None]
  /\ bp = [c \in Contexts |-> FALSE]
  /\ refs = 0
  /\ backend = FALSE
  /\ addr = [c \in Contexts |-> [s \in Tables |-> None]]
  /\ mirror = [a \in Addresses |-> None]

(* backend_init: the first caller makes the backend, the others share it. *)
SharedBug == refs
Shared == refs + 1

BackendInit(c) ==
  /\ Idle /\ stage[c] = "none"
  /\ refs' = IF refs > 0 THEN Shared ELSE 1
  /\ backend' = TRUE
  /\ bp' = [bp EXCEPT ![c] = TRUE]
  /\ stage' = [stage EXCEPT ![c] = "talker_gguf"]
  /\ UNCHANGED <<lost, mirror, memory>>

NoBackend(c) ==
  /\ Idle /\ stage[c] = "none" /\ refs = 0
  /\ stage' = [stage EXCEPT ![c] = "failed"]
  /\ UNCHANGED <<lost, bp, refs, backend, mirror, memory>>

Goes(c, s) == stage[c] = s /\ stage' = [stage EXCEPT ![c] = After(s)]
Fails(c, s) == stage[c] = s /\ stage' = [stage EXCEPT ![c] = "failed"]

Takes(c, s) ==
  /\ held' = [held EXCEPT ![c] = @ \cup {s}]
  /\ heap' = heap \cup {<<c, s>>}

(* gf_load. *)
LoadFile(c, g) ==
  /\ Goes(c, g) /\ Takes(c, g)
  /\ \E n \in Lowest : /\ fd' = [fd EXCEPT ![c][g] = n]
                      /\ owner' = [owner EXCEPT ![n] = <<c, g>>]
  /\ UNCHANGED <<lost, addr, bp, refs, backend, mirror>>

LoadTable(c, s) ==
  /\ Goes(c, s) /\ Takes(c, s)
  /\ \E a \in Addresses \ InUse : addr' = [addr EXCEPT ![c][s] = a]
  /\ UNCHANGED <<lost, fd, owner, bp, refs, backend, mirror>>

(* embed_register_host_mirror of the tables of c. *)
RegisteredBug(c) ==
  [a \in Addresses |-> IF a \in {addr[c][s] : s \in Tables} /\ mirror[a] = None
                       THEN c ELSE mirror[a]]
Registered(c) ==
  [a \in Addresses |-> IF a \in {addr[c][s] : s \in Tables} THEN c ELSE mirror[a]]

RegisterMirrors(c) ==
  /\ Goes(c, "mirrors")
  /\ mirror' = Registered(c)
  /\ UNCHANGED <<lost, bp, refs, backend, memory>>

LoadPart(c, s) ==
  /\ s \notin Files \cup Tables
  /\ Goes(c, s) /\ Takes(c, s)
  /\ UNCHANGED <<lost, fd, owner, addr, bp, refs, backend, mirror>>

(* A step with nothing to acquire, or an optional one: only a model of type*)
(* base has a speaker encoder.                                             *)
PassStep(c, s) ==
  /\ Goes(c, s)
  /\ s \in {"metadata", "prompt_cache", "tokenizer", "speaker"} \cup Soft
  /\ UNCHANGED <<lost, bp, refs, backend, mirror, memory>>

(* The branch of a step that returns false gives back what the steps before*)
(* it acquired.  Weights fail when their arena is laid out: it is lost.    *)
Unwinds(s) == Before(s) \cap Acquiring
Loses(c, s) == \E arena \in SUBSET ({s} \cap Weights) : lost' = lost \cup {<<c, w>> : w \in arena}

StepFails(c, s) ==
  /\ s \notin Files \cup Soft \cup {"mirrors", "tokenizer"}
  /\ Fails(c, s)
  /\ Release(c, Unwinds(s), fd[c])
  /\ Loses(c, s)
  /\ UNCHANGED <<bp, refs, backend, mirror>>

(* gf_load cannot open the file, cannot map it (it is closed and its number*)
(* stays), or cannot use it (gf_close).                                    *)
FileFails(c, g) ==
  /\ Fails(c, g)
  /\ \E left \in {-1, 0} \cup Lowest :
       Release(c, Unwinds(g), [fd[c] EXCEPT ![g] = left])
  /\ UNCHANGED <<lost, bp, refs, backend, mirror>>

(* A missing tensor or key throws: no branch runs.  load_bpe_from_gguf     *)
(* returns false and qt_init throws for it.                                *)
LoadThrows(c, s) ==
  /\ s \in Weights \cup {"metadata", "prompt_cache", "tokenizer"}
  /\ Fails(c, s)
  /\ Loses(c, s)
  /\ UNCHANGED <<bp, refs, backend, mirror, memory>>

(* qt_free, of a context in use or of one that failed: pipeline_tts_free,  *)
(* then backend_release and delete.                                        *)
PipelineFreesBug == Acquiring \ {"codec_sched"}
PipelineFrees == Acquiring

FreePipeline(c) ==
  /\ stage[c] = "failed" \/ (Idle /\ stage[c] = "ready")
  /\ stage' = [stage EXCEPT ![c] = "freed"]
  /\ Release(c, PipelineFrees, fd[c])
  /\ UNCHANGED <<lost, bp, refs, backend, mirror>>

ReleasedBug == refs - 1
Released == IF refs <= 0 THEN refs ELSE refs - 1

BackendRelease(c) ==
  /\ stage[c] = "freed"
  /\ stage' = [stage EXCEPT ![c] = "gone"]
  /\ refs' = Released
  /\ backend' = (backend /\ refs' # 0)
  /\ bp' = [bp EXCEPT ![c] = FALSE]
  /\ fd' = [fd EXCEPT ![c] = [g \in Files |-> 0]]
  /\ UNCHANGED <<held, heap, lost, owner, addr, mirror>>

(* The rest of the process opens and closes files. *)
OtherOpens ==
  /\ Cardinality({n \in Descriptors : owner[n] = Other}) < MaxOther
  /\ \E n \in Lowest : owner' = [owner EXCEPT ![n] = Other]
  /\ UNCHANGED <<stage, held, heap, lost, fd, bp, refs, backend, addr, mirror>>

OtherCloses(n) ==
  /\ owner[n] = Other
  /\ owner' = [owner EXCEPT ![n] = None]
  /\ UNCHANGED <<stage, held, heap, lost, fd, bp, refs, backend, addr, mirror>>

LifeNext ==
  \/ \E c \in Contexts :
       \/ BackendInit(c) \/ NoBackend(c)
       \/ \E g \in Files : LoadFile(c, g) \/ FileFails(c, g)
       \/ \E s \in Tables : LoadTable(c, s)
       \/ RegisterMirrors(c)
       \/ \E s \in Acquiring : LoadPart(c, s)
       \/ \E s \in Steps : PassStep(c, s) \/ StepFails(c, s) \/ LoadThrows(c, s)
       \/ FreePipeline(c) \/ BackendRelease(c)
  \/ OtherOpens
  \/ \E n \in Descriptors : OtherCloses(n)

LifeSpec == LifeInit /\ [][LifeNext]_lifeVars
-----------------------------------------------------------------------------
(* The state has its types; at most one arena is lost with a context.      *)
LifeTypeOK ==
  /\ stage \in [Contexts -> Steps \cup {"none", "ready", "failed", "freed", "gone"}]
  /\ held \in [Contexts -> SUBSET Acquiring]
  /\ heap \subseteq Contexts \X Acquiring
  /\ lost \subseteq Contexts \X Weights
  /\ \A p, q \in lost : p[1] = q[1] => p = q
  /\ fd \in [Contexts -> [Files -> -1 .. MaxDescriptor]]
  /\ owner \in [Descriptors -> {Other, None} \cup (Contexts \X Files)]
  /\ bp \in [Contexts -> BOOLEAN]
  /\ refs \in Nat
  /\ backend \in BOOLEAN
  /\ addr \in [Contexts -> [Tables -> Addresses \cup {None}]]
  /\ mirror \in [Addresses -> Contexts \cup {None}]

(* qwen.cpp line 284 calls qt_free idempotent on partial state: every field*)
(* that is not NULL points at something not yet freed, or the second free  *)
(* of a failed load would free it twice.                                   *)
FieldsAreLive == \A c \in Contexts : \A s \in held[c] : <<c, s>> \in heap

(* Whatever step failed or threw, nothing of a context is left after       *)
(* qt_free but the arena that step lost: no weights, no cache, no file.    *)
FreedIsGone ==
  \A c \in Contexts : stage[c] = "gone" =>
    /\ \A s \in Acquiring : <<c, s>> \notin heap
    /\ \A g \in Files : \A n \in Descriptors : owner[n] # <<c, g>>

(* backend.h lines 74 to 150: the count is the number of contexts with the *)
(* backend, and the backend exists for as long as anything is allocated on *)
(* it, in whatever order contexts are created, fail and are freed.         *)
BackendOutlives ==
  /\ refs = Cardinality({c \in Contexts : bp[c]})
  /\ backend <=> refs > 0
  /\ \A c \in Contexts : (held[c] # {} \/ stage[c] \in Steps \cup {"ready"}) => bp[c]

(* code-predictor-forward.h lines 299 to 314: the map is never cleared, yet*)
(* a context that synthesizes reads its rows from its own file, also when  *)
(* its tables lie where those of a freed context lay.                      *)
MirrorIsOwn ==
  \A c \in Contexts : stage[c] = "ready" =>
    \A s \in Tables : mirror[addr[c][s]] = c /\ "talker_gguf" \in held[c]

(* qwen.cpp lines 281 to 285 promise a cleanup that is idempotent on       *)
(* partial state: loading and freeing closes no file of the rest of the    *)
(* process.                                                                *)
OthersKeepTheirFiles ==
  [][\A n \in Descriptors : owner[n] = Other /\ owner'[n] # Other => stage' = stage]_lifeVars
=============================================================================
