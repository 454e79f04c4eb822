# A TLA+ verification of qwen-tts-cpp-server

This directory models the server of this repository in TLA+, model-checks the
models with TLC and proves theorems about them with TLAPS. Paths below are
those of the repository; line numbers are those of the commit this was written
against. `PROJECT.json` maps every definition to the lines it stands for.

## The system

A C++ library turns text into 24 kHz audio: a prompt goes through a *talker*
transformer, which generates one audio frame (80 ms) per step; for each frame a
*code predictor* samples the acoustic codebooks; a *codec* turns codes into
samples. An HTTP server streams the samples, a Python wrapper and a web UI sit
in front of it.

| component | state it keeps | operations | interacts with |
|---|---|---|---|
| HTTP server (`src/tts-server.h`) | `g_synth_mutex`, `g_svr`, per-request sink | GET handlers, POST speech as wav or pcm, signal, run | httplib's pool and sockets; calls `be.synthesize` under the mutex; the sink's result flows back as cancellation |
| server tool (`tools/tts-server.cpp`) | `join_trimmer`, the piece loop | split a text, synthesize pieces, trim joins, warm up, free | between the HTTP sink and `qt_synthesize` |
| C ABI (`src/qwen.cpp`, `qt-error.h`) | thread-local last error and allocation mark | init, free, synthesize, validate | wraps the pipeline, maps exceptions to statuses |
| generation loop (`src/pipeline-tts.cpp`) | step, write position, Philox counter, all codes | load, free, synthesize | polls `cancel`, calls talker, predictor, codec |
| KV cache, talker (`kv-cache.h`, `talker-exec.h`, `talker-forward.h`) | cache rows, `cur_len`, a prebuilt graph of `W` rows | reset, prefill, decode (two paths) | one cache shared by both paths and by all syntheses |
| code predictor (`code-predictor-*.h`) | its own cache, prebuilt graphs | one frame | takes the Philox base from the loop |
| codec framing (`codec-chunked-decode.h`) | codes so far, emit cursor, next chunk size | init, push_frame, flush; one-shot decode | calls the codec, then `on_chunk` |
| prompt builder (`prompt-builder.h`) | prefix cache of 16 entries | build, find, store | called by every synthesis, under the server's mutex |
| codec pipeline (`pipeline-codec.cpp`) | weights, scheduler | load, decode, encode, free | loaded by `pipeline_tts_load` |
| backend, weights, GGUF (`backend.h`, `weight-ctx.h`, `gguf-weights.h`) | shared backend and its reference count, arenas, buffers, mapped files and their descriptors | init, load, release | acquired in order by `pipeline_tts_load`, given back by hand on failure and by `qt_free` |
| sampling, Philox | none | draw, filter | pure |
| text and audio codecs (BPE, UTF-8, WAV, resampling, RVQ files) | none | encode, decode | pure |
| graph builders (DAC, SEANet, quantizers, speaker encoder) | none | build tensor graphs | numeric |
| diagnostics, command-line tools | none | sequential | the ABI |
| start scripts (`start-*.sh`) | `server.pid` | start, stop, restart | signal and launch the wrapper, free the ports |
| Python wrapper (`server.py`) | child process | start, wait for health, stop, relay | the HTTP API |
| web UI (`webui/`) | reducer, one controller, one player, byte carry | run, stop, stream, play | the HTTP API, through a proxy |
| conversion, packaging, tests | none | offline | - |

What makes each correct, and where it is hard:

- **HTTP server.** One context, many connection threads: at most one synthesis,
  no synthesis after `qt_free`. A stream nobody reads must give the GPU back; a
  client that stops reading blocks a worker *and* the mutex until the write
  timeout; SIGTERM must drain and end. Every accepted connection must end.
- **Piece loop and join trimmer.** Silence is held back across pushes of
  arbitrary sizes; only silence at joins may go, speech must come through whole
  and in order, and a join must have a bounded silence.
- **Generation loop and caches.** Two code paths write one cache and hand over in
  the middle of an utterance; a cache is rewound but not cleared between
  syntheses; a cancel may come at any time; two samplers share one counter.
- **Codec framing.** Every frame is heard once, in order, with the left context
  the parameters promise, whatever the chunk sizes; a refused block, a failed
  decode and a success are told apart; the loops end for every parameter.
- **ABI.** The status and the error text belong to *this* call.
- **Prompt cache.** A hit returns the prefix that would have been built, whatever
  filled or evicted it; a prompt is as long as the buffer sized for it.
- **Loading.** A failure at any of two dozen points releases what was acquired,
  once, and leaves the shared backend to the other contexts.
- **Wrapper and scripts.** A wrapper relays to its own child, not to one that an
  earlier wrapper left on the port.
- **Web UI.** A stopped run is silent however late its answers come; the player
  plays every sample of the stream, in order, and reports the end at most once.

## Modules

| module | what it is |
|---|---|
| `FrameDelivery` | abstract: what a synthesis promises its listener |
| `ChunkedDecode` | codec framing under the generation loop; implements `FrameDelivery` |
| `ChunkedDecode_proofs` | its inductive invariant, theorems and refinement proof |
| `TalkerLoop` | generation loop over the shared KV cache and the Philox counter |
| `TalkerLoop_proofs` | its inductive invariant and theorems |
| `SpeechServer` | connections, workers, mutex, clients, streams of one piece or several, shutdown |
| `SpeechServer_proofs` | types, mutual exclusion, the order of shutdown, abandoned streams |
| `JoinTrimmer` | piece loop and join trimmer |
| `JoinTrimmer_proofs` | its inductive invariant and theorems |
| `AbiStatus` | statuses, messages, allocation mark and `out` across the calls of several threads |
| `Library_proofs` | the inductive invariants and theorems of `AbiStatus` and of `ContextLifecycle` below |
| `PromptRequest` | what a request says, and what of it is refused: constants and operators the next two share |
| `PromptStreams` | abstract: a prompt is two streams side by side |
| `PromptBuilder` | prompt builder and prefix cache; implements `PromptStreams` |
| `PromptBuilder_proofs` | the streams row by row, the inductive invariant, types, transparency of the cache, the layout, the refinement |
| `ContextLifecycle` | `qt_init` and `qt_free`, step by step, with the backend, the mirrors and the descriptors |
| `PcmPlayer` | the web UI's player: a record, and its methods as functions of it |
| `WebUi` | the page: runs, buttons, answers, and a `PcmPlayer` for each run |
| `WebUi_proofs` | one run per reset, silence of stopped runs, what is heard of an answer and when, the report of its end |
| `Launcher` | scripts, wrappers and their children on one port |
| `Launcher_proofs` | types, and who serves whom |
| `MC...` | values of the constants for TLC |

An operator named `...Bug` is a deliberate error, a variant of the operator
defined after it. No specification uses one: put in the place of the right
operator, it makes one of the properties fail, which shows that the property
depends on that piece of the code.

### ChunkedDecode and FrameDelivery

The variables are the fields of `codec_chunked_decoder_stream` and the place
where `pipeline_tts_synthesize` stands (`at`). A frame is its number; a block
of audio lists the frames it plays and, for each, how many frames came before
the slice it was decoded in, which is its left context. `PushFrame` is a loop
step that produced a frame; `EmitChunk` is one turn of `push_frame`'s loop with
its three outcomes (decode fails, callback refuses, callback accepts); `Flush`
is the streaming tail; `DecodeChunk`/`ReturnAudio` are the buffered path.
`Delivery!Spec`, with `produced <- T_so_far` and `heard` the numbers of the
frames the listener has, is the abstract promise: in order, once, all on
success. `ListenerIsFed` is what the growth of the blocks is for: at any moment
after the first block at most four frames have been produced for each one sent, so
that a talker that needs at most a quarter of the time its audio plays is never
late with the next block (the decode itself left aside). The code's comment asks
for "well under 1/3" (`codec-chunked-decode.h:142`); a third would not do: after
blocks of 1, 2 and 8 frames the next takes 32, ready when 43 frames are produced,
while 11 have been sent.

The model gives `init` also values the pipeline would not pass today (zero and
negative sizes), since `init` and `codec_chunked_decode` clamp them themselves.

### TalkerLoop

A cache row is tagged `<<synthesis, position>>` by whoever wrote it, so that a
stale, missing or evicted row shows. `ExecDecode` is the prebuilt graph, which
writes row `n_past % W` and shows the rows its mask shows; `LegacyDecode` writes
at the cache's own head. Every graph may fail before or after its rows were
written. `drawn` lists the Philox subsequences of a synthesis. What becomes of a
frame is `ChunkedDecode`'s subject; here `Push` succeeds, is cancelled or fails.

### SpeechServer

One record of variables per connection: what its worker does (`stage`), what its
client does (`client`), the request's format, how many blocks were made, whether
the trimmer keeps some of their audio back, whether the sink took any, the status.
A thread inside `lock_guard` is in stage `locking`, and the mutex may go
to any of them, as `std::mutex` allows. `Push` is one block, synthesized with the
mutex held and given to `on_chunk`: for a text in one piece that is the sink
(`Write`); for one that is `split` it is the join trimmer, which may take the block
without a call of the sink (`KeepBack`) and give up what it keeps when the piece
ends (`EndPiece`). A sink that fails cancels; a stalled client makes the sink fail
after the write timeout, or accept if the client reads again. A stream is written
with the mutex held, so a slow client keeps the others waiting; a wav response is
written after the mutex was released. `wasted` and `lateWrites` are history: the
blocks made, and the writes of audio, for a streaming client that was gone. Which
silence is kept back is `JoinTrimmer`'s subject, here it may be any; what one push
makes the trimmer write in several calls is one step; and wav requests are not
split, since their sink is a buffer that refuses nothing. `leaving` is the time between a client's
close and the reset its kernel sends back, when a write still succeeds.
`FinishStream` is `sink.done()`, which terminates the stream whatever the status
was. Shutdown follows httplib: the socket is closed, queued connections are
still served, a stream whose provider has not started is cut, workers are
joined, `main` frees the context. When a worker closes a connection the
variables of it return to fixed values.

### JoinTrimmer

A sample is its position in the piece and whether it is loud; a block is silent
when it has no loud sample, which stands for the RMS threshold. `Push` takes a
piece's next samples in any amount; `NextBlock` is one turn of the loop over
whole blocks, with the three cases of `block` (`LeadIn`, `Hold`, `PassOn`);
`LastBlock` and `CutTrail` are `end_piece`. Each `emit` may be refused by the
sink. The fades are left out: they scale samples inside the silence.

### AbiStatus

`qt_synthesize` and the failures of `qt_init`, called by several threads one call
after the other. The pipeline is the ways in which it may end: at which point,
with which status, with or without a message (`qt_set_error`), with or without a
failed graph allocation (`qt_note_alloc_failure`), or by an exception. The two
`thread_local` variables are functions of a slot; `Slot(t) = t` is what
`thread_local` means. A message is abstracted to the call that wrote it, the
samples in `out` to the call that made them. `exhausted` is history: an
allocation of the current call failed. `Return` is the end of the try block of
`qt_synthesize`, apart from the step in which the pipeline failed, so that
another thread may act between them. A write through a NULL `out` ends the
process. `tts_status_to_http` is the server's table.

Not in it: the piece loop of the server, which returns at the first failing
piece, and `qt_extract_voice_ref`, which writes messages but touches neither the
mark nor `qt_audio`.

### PromptRequest, PromptStreams, PromptBuilder

`PromptRequest` reads a request as `prompt_builder_build` does: language and
speaker are looked up, a dialect may replace the language, the codec prefill is
`CodecLeft`. Tokens and embeddings are opaque (`Tokens`, next to the special tokens
`Marks`); a row is the pair whose embeddings the code adds. The slot for the voice
is no token, as -2 is none in the code. The prefix cache is a sequence of `[key, rows]`, oldest first.
`Begin` is the part up to the tokens with its refusals; `CopyPrefix` and
`ComputePrefix` are a hit and a miss (with `Store`, which evicts); `Finish` is the
rest and the length check; `Throw` is a projection that fails. `PromptStreams`
knows no cache, no blocks and no buffer: it says which text stands beside which
codec token, and that no request depends on an earlier one.

### ContextLifecycle

A context is at a step of `Order`, the sequence of `pipeline_tts_load` with
`pipeline_codec_load` in its place. A step acquires (`LoadFile`, `LoadTable`,
`LoadPart`), passes, fails (`StepFails`, `FileFails`: the branch that unwinds by
hand) or throws (`LoadThrows`: no branch runs, `qt_init`'s catch calls
`qt_free`). `held` are the fields that are not NULL, `heap` what is allocated: a
double free shows as a field whose memory is gone, a leak as memory without a
field. `fd` are the two `GGUFModel.fd`, `owner` the descriptor table of the
process, in which the rest of the process opens and closes files too. Addresses
of embedding tables are reused, so that the static map of host mirrors can go
stale. Calls of `qt_init` and `qt_free` do not overlap: `backend_init` has no
lock, and `tts-server` makes one context; two threads that create contexts at
once race there (`backend.h:79`), which this module does not explore. Its
specification is `LifeSpec`, with names of its own, so that one module can hold
the proofs of this one and of `AbiStatus`: the library's two faces.

### PcmPlayer, WebUi

An action is one task of the browser's event loop with its microtasks. A player
is a record, `push`, `start`, `markEnded`, `stop` functions of it and of the
clock `now`, which counts samples. `Chunk` is one turn of `streamTtsPcm`'s loop
and the callback it makes; `Throws` is the catch of `run()`, which resets the page
when *its* controller was aborted, whichever run the page shows by then; the LLM's
request has no such signal, so a run stopped in that phase learns of it late, as
in the code. Bytes are numbered, a sample is the pair it is made of. `pushed` and
`given` are history: how many samples the player got, and got before its last stop.
`HearsTheStream` says block by block what is heard: each starts with the byte after
the last one of the block `Before` it, what waits `Follows` the last block, and all
of it ends with the last whole sample received. `NeverIntoThePast` relates the
blocks to the clock: a step that gives the context blocks gives them a start that
has not passed, and leaves a gap only after a block that is over.

Pause, resume and the "stable" playback are left out, and of the stop button of
the audio controls only the player's part is there. Seen while reading and not
part of any run: that button (`App.tsx:360`) stops the player and not the run, so
the next chunk starts to play again; `push` resumes a context the user paused
(`pcmPlayer.ts:72`); after an underrun at the end of the stream `onended` may never
come (`pcmPlayer.ts:117`); a failed run dispatches `fail` twice.

### Launcher

A wrapper and its child share a number, the order of start. `ScriptStart`,
`ScriptKillsPorts`, `ScriptLaunches` are `start`: signal the pid file's wrapper,
free the ports, launch. A wrapper in `starting` polls the port, where *anyone's*
answer will do (`HealthAnswers`); its last failure raises and leaves the child
alone. uvicorn looks at SIGTERM only after the startup. `Terminate` is SIGTERM to
`tts-server`: a child that loads dies, one that serves closes its socket and
drains. `lost` is history: the wrappers that gave up a living child, because the
startup timed out or was interrupted, or because the child took longer than 5 s.
Left out is a wrapper that finds its own `$PORT` taken after its startup: it shuts
down as one that is told to stop, and no wrapper is started by it.

## Runs

| run | module, cfg | shows |
|---|---|---|
| chunked_decode | `MCChunkedDecode`, `ChunkedDecode.cfg` | types, `ContextKept`, `ListenerIsFed`, `DeliversFrames` (refinement), `Terminates` |
| talker_loop | `MCTalkerLoop`, `TalkerLoop.cfg` | types, `AttendsWholeSequence`, `SubsequencesInOrder`, `CancelWithinOneFrame` |
| speech_server | `MCSpeechServer`, `SpeechServer.cfg` | types, `OneSynthesisAtATime`, `ContextFreedLast`, `AbandonedStreamStops`, and the liveness properties `EveryConnectionEnds`, `DrainCompletes` |
| stream_failure | same, `StreamFailure.cfg` | violated: a failed stream may leave part of the audio in a complete 200 |
| join_trimmer | `MCJoinTrimmer`, `JoinTrimmer.cfg` | types, `HearsASlice`, `HearsAllSpeech`, `JoinIsShort` |
| abi_status | `MCAbiStatus`, `AbiStatus.cfg` | types, `RetryOnlyWhenExhausted`, `DiagnosticsStayOnTheirThread`, `ActionableErrorIsExplained`, `SuccessIsNotStale` |
| null_out | same, `NullOut.cfg` | violated: a stream without an `out` ends in a write to NULL |
| prompt_builder | `MCPromptBuilder`, `PromptBuilder.cfg` | types, `PrefixIsFresh`, `LayoutAddsUp`, `BuildsStreams` (refinement) |
| context_lifecycle | `MCContextLifecycle`, `ContextLifecycle.cfg` | types (`LifeTypeOK`), `FieldsAreLive`, `FreedIsGone`, `BackendOutlives`, `MirrorIsOwn` |
| fd_close | same, `FdClose.cfg` | violated: the cleanup of a failed load closes descriptor 0, or a number that is someone else's by now |
| web_ui | `MCWebUi`, `WebUi.cfg` | types, `HearsTheStream`, `EndReportedOnce`, `OneRunPerReset`, `StopSilences`, `NeverIntoThePast` |
| launcher | `MCLauncher`, `Launcher.cfg` | `ServedByItsOwn` |

The three violated runs each check one sentence of the repository's comments,
quoted under "findings" of `PROJECT.json`, against what the code does.

### Bounds, and why they are enough

- *ChunkedDecode*: up to 12 frames. Chunk sizes 0, 1, 3, 8, first chunks 0, 1, 2
  and 9, contexts -1, 0, 2, 5: the clamps, a first chunk larger than the chunk,
  growth by two, by four and capped, blocks with none, some and all of their
  context, and tails of every length occur within 12 frames.
- *TalkerLoop*: a cache of 5 rows and a window of 3, prompts of 1 to 6, two
  syntheses. The window is left, the cache overflows, prompts exceed each, and
  the second synthesis runs over rows of the first. Three codebooks suffice to
  tell c0's draw from the first and from the last draw of the predictor.
- *SpeechServer*: two connections over pools of one and of two threads, so that
  one waits for a worker or for the mutex while the other streams, stalls or
  drains; two requests per connection exercise what keep-alive carries over; two
  blocks tell "at once" from "within a block", and let a trimmer keep one back
  before a write fails. No symmetry, since the run checks
  liveness. The theorems hold for any number of connections.
- *JoinTrimmer*: blocks of two samples, pieces of up to seven, pushes of up to
  three, two or three pieces (first, middle, last): incomplete blocks at pushes
  and at the end of a piece, silence longer than what is kept, pieces without
  speech.
- *AbiStatus*: two threads, so that a message or a mark can be another's; three
  calls each, so that one exhausts the device, one ends before the mark is
  cleared, and one follows both.
- *PromptBuilder*: requests that differ in one thing each (instruction, role,
  language, dialect, speaker, voice, reference text and codes, both longer), a
  cache of two entries, so that a third one evicts.
- *ContextLifecycle*: two contexts share the backend, in every order; four
  addresses for their two tables each; five descriptors, of which the rest of the
  process takes one, so that the table can be full. Contexts and addresses are
  symmetric, and the run has no liveness property.
- *WebUi*: three runs (a stopped one, one that it resets, one started after
  that), answers of up to 9 bytes in chunks of 3, which end in the middle of a
  sample every other time, blocks of two samples, a start after two, leads of one
  and a clock that may run ahead of the network (underrun) up to 5.
- *Launcher*: three starts (an abandoned child, a wrapper it confuses, one
  more), two health checks (one that fails, one that gives up).

`CHECK_DEADLOCK FALSE` stands where the system may stop: a freed context, a page
on which nothing happens any more.

### Fairness

`ChunkedDecode` assumes weak fairness of the steps that do not fail: it is
sequential code, which takes its next step, and it must not need a failure to
get out of a loop. `SpeechServer` assumes weak fairness of every worker's own
steps, of taking a job from the queue, and of the end of the drain: threads that
can run do run, timeouts fire, a synthesis ends (it is bounded by
`max_new_tokens`). Nothing is assumed of clients: a stalled one may stall forever,
and only the write timeout and the keep-alive timeout (120 s and 5 s, both set or
defaulted by the code) get its worker back. The mutex gets no strong fairness,
since `std::mutex` promises none: `EveryConnectionEnds` holds because a finite
number of requests competes. The comment at `tts-server.h:71` calls the mutex
FIFO; `std::mutex` is not, and against endless newcomers a request could be
overtaken forever.

## Proofs

Each proof module has an inductive invariant, the three facts
`Init => IInv`, `IInv /\ [Next]_vars => IInv'`, `IInv => property`, and the
theorems that follow. They hold for every value of the constants that satisfies
the module's named `ASSUME`, which TLC evaluates for the values of the runs.

- **ChunkedDecode**: the invariant adds to the types that the audio emitted so
  far is the audio of the frames up to the cursor (`emit_start_frame`), each
  tagged with its context; that while streaming and back in the loop fewer frames
  wait than the next chunk; how `next_chunk` relates to the cursor (equal to
  the first chunk before the first emit, at most three times the cursor after);
  and `ListenerIsFed` itself. Without the first part the context of a frame says
  nothing about later steps; without the next two `ListenerIsFed` is not
  inductive: what waits is less than the next chunk, and x4 of a chunk is covered
  only by the emits before it. Once the synthesis has returned the cursor may stand
  before the audio (a block that was refused), so the bound is carried over to the
  audio by steps of its own (`QuietFed`, `CaughtUpFed`). Refinement: initial states map to initial
  states, every step to a step of `FrameDelivery` or to a stutter.
- **TalkerLoop**: rows `0..n_tx_frames-1` carry the tags of the current synthesis
  at the head of a step, the cache's head and the loop's own count agree whenever
  the next step could use the legacy path, and the draws so far are as many as
  the counter. Agreement of the two counters is what makes the hand-over from one
  path to the other safe.
- **SpeechServer**: the invariant relates each connection's stage to the queue of
  jobs (every queued entry is in stage `queued`, and no connection is there
  twice), the mutex to the synthesizing connection, `starting` and `freed` to the
  absence of both, and what is written to a client that is gone to the stage: no
  write before the one that ends the synthesis, and for a text in one piece no
  block made before it either. A split text needs the two counts apart, since its
  blocks need not be written. The job queue matters: a worker
  that took a connection already being served would leave the mutex held by
  nobody. `Typed` is the part of the types this argument needs, `Counted` the
  rest; together they are `TypeOK`.
- **JoinTrimmer**: the invariant is one tape. What was pushed are the numbers up to
  `fed`; `pend` is the end of them, `lead \o held` ends where `pend` begins, and
  `out` ends where that begins (`Tape`), so nothing inside a piece can be missing.
  A loud sample is in `out` or in `pend`, never in what is held back (`Speech`).
  For the joins, the silence at the listener's end is bounded by where the trimmer
  is: less than a block after speech, `trail_keep` more after the cut, and no
  more than that while a piece stays silent (`Quiet`); that is why silent pieces
  do not add up. A refusal of the sink breaks the tape, and only the slices and
  the bound survive it. Lemmas on runs of numbers (`ConcatEnds`, `SubSeqEnds`) and
  on counting silence (`FrontBeforeSpeech`, `BackAfterSpeech`) carry it.
- **AbiStatus**: during a synthesis a set mark is of the current call (so clearing
  it at the start is enough), a status that sends the client away (400, 503) was
  decided together with its message, and an `OK` together with what `out` holds.
  The mark needs its own part: by the time the status is decided, nothing else
  relates it to the call.
- **ContextLifecycle**: what is allocated is what the fields point at, in both
  directions (`HeapInv`): nothing is freed twice because no field outlives its
  memory, nothing is left because no memory outlives its field. A file that is
  open is one its context holds, under the number its field has (`FilesInv`), so
  freeing the context closes it, whatever else that close may hit. At most one
  context is in a load or in its cleanup (`OneAtATime`), and it holds every
  mandatory part it has passed (`HeldInv`), which makes the fields that the branch
  of a step unwinds the ones that are there. The count is the contexts with the
  backend; a context that failed before it got one is released while the count is
  0 (`BackendInv`, `SharedInv`). Tables in use lie in different places (`TablesInv`),
  and past the step `mirrors` the map names the context at both of its places
  (`MirrorInv`): what a freed context left there is overwritten before it is read.
- **PromptBuilder**: every entry of the cache is the prefix of *some* cacheable
  request, under that request's key (`CacheInv`); two cacheable requests with one
  key have one prefix (`KeyIsEnough`), so a hit is what would be computed. A
  request in work was not refused (`BuildInv`), which is why its names are in the
  tables and its codec prefill is of tokens. The rest is arithmetic of positions:
  `TextIs` and `CodecIs` say what each of the two streams has at each row, in three
  stretches (before, beside and after the codec prefill), `PrefixIs` and `BodyIs`
  the same of the builder's blocks, and `SideBySide` and `LeftOver` put them
  together, for in-context and standard prompts. From them follow the types, the
  layout check and the refinement of `PromptStreams`: `Begin`, `Finish` and `Throw`
  map to its three actions, the two ways to a prefix to a stutter.
- **WebUi**: while the page generates, the run whose controller it has is alive
  (`StopHasATarget`), and the runs alive are at most the late resets so far, plus
  one while it generates (`RunsArePaidFor`, by cardinalities). For silence: a
  stopped run is aborted, and an aborted run waits for the LLM or is over, so no
  chunk of it reaches its player. For what is heard, the bytes of a run are one
  tape: the page has handed on as many whole samples as the bytes received make,
  and `carry` is the odd byte, if there is one (`BytesInv`); in a player, the blocks
  are stretches of the tape that follow each other, `pending` the stretch after
  them, and `nextTime` is not before the end of the last block, so the next one
  cannot overlap it (`PlayerInv`). Until the answer is over `nextTime` is that end
  (`NextFollows`), so `scheduleBlock` leaves no gap unless it finds it in the past
  (`GivesInTime`); afterwards it may be later, but nothing more is given. For the report (`Ends`): only a stream that is done
  is marked ended, nothing waits then, and a player that has reported has no block
  that still sounds and is not started, so no second report can come.
- **Launcher**: a wrapper that nobody has told to stop is the one in the pid file,
  so the script signals it before it launches another; who listens is who serves,
  so the second kill frees the port; and as long as no child was abandoned, only
  the child of a wrapper that still waits for it may come to the port.

Every invariant, every action property and both refinements that the runs check are
proved. Only model-checked: `Terminates`, `EveryConnectionEnds` and `DrainCompletes`,
since liveness under fairness is outside the prover's reach, and the three runs
that end in a violation.

## Not modelled, and why

- *Network graphs, sampling, the Philox cipher*: floating-point and integer
  arithmetic without control flow. `TalkerLoop` models what they draw and when.
- *Vendored code* (ggml with its GPU backends, httplib, the JSON parser): by far
  the most lines of the repository, and not this program's own logic. Of httplib,
  `SpeechServer` models what the server relies on.
- *Text and audio codecs, `split_text`*: pure functions of strings and samples;
  what they compute for every input needs induction over data. `split_text` with
  a target of 0 (`--split-chars 1`) never shortens the sentence: noted as a hazard.
- *`qt_extract_voice_ref`, the encoder half of the codec*: sequential, no state
  kept; its failures are those `AbiStatus` has.
- *The relays of the wrapper, the UI's proxy, settings, waveform*: no state across
  requests. The proxy does not
  end its upstream request when the browser leaves (`proxy-lib.mjs:44`).
- *Diagnostics, command-line tools, conversion, packaging, tests*: logging, option
  parsing and offline work.
- *Composition* of `TalkerLoop` with `ChunkedDecode`, or of either with
  `SpeechServer`: they meet in one call each (`push_frame`, the sink), whose
  outcomes each side already takes in full generality, a success, a refusal and a
  failure at any time.

Differences between a comment and the code seen while reading, which no run is
about: `codec-chunked-decode.h:100` says the chunk grows "x4 after each emit",
while line 143 doubles it after the first emit, as the comment above that line
explains; `pipeline-tts.h:169` says that on any failure a diagnostic was routed
through `qt_log` / `qt_set_error`, and several failures only log, so that the
message a caller reads after them may be an older one (`AbiStatus` models which).

Known and bounded rather than refuted: a weight arena is lost with a load
that throws in the middle of it (`lost` in `ContextLifecycle`), and a page may have
two runs alive after a late reset, of which the first can no longer be stopped
(`OneRunPerReset` counts them).
