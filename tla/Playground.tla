------------------------------- MODULE Playground -------------------------------
(***************************************************************************)
(* playground/cynic-engine.js over playground/wasm.zig: loading the engine *)
(* and calling it through buffers in its memory and one result frame.  A   *)
(* call is synchronous; loads overlap with it and with each other.  Texts  *)
(* are reduced to the call they answer and their length.                   *)
(***************************************************************************)
EXTENDS Integers, FiniteSets

CONSTANTS
    Loads,        \* calls of loadEngine
    MaxCalls      \* calls of the engine, at most

VARIABLES
    load,         \* how far each loadEngine has come
    wasm,         \* the instance loaded last, named by its load, or 0
    engine,       \* per instance: bundle, result_frame and guest buffers
    calling,      \* the step of callEngine, "no" outside of it
    made,         \* calls made, the last of them in progress
    answer        \* what the last call has returned or thrown

playVars == <<load, wasm, engine, calling, made, answer>>

\* Bundles as the interface grew: without the span, without the stats, and whole.
Bundles == 1..3
NoFrame == [len |-> 0]
NoSpan == [startByte |-> 0, endByte |-> 0]
Nothing == [threw |-> "nothing"]
Threw(why) == [threw |-> why]

PlayInit ==
    /\ load = [l \in Loads |-> "none"]
    /\ wasm = 0
    /\ engine = [l \in Loads |-> [bundle |-> 3, frame |-> NoFrame, buffers |-> {}]]
    /\ calling = "no"
    /\ made = 0
    /\ answer = Nothing
-----------------------------------------------------------------------------
(* loadEngine and instantiateWasm.  Promises settle between calls.         *)

LoadEngine(l) ==
    /\ load[l] = "none" /\ calling = "no"
    /\ \E way \in {"streaming", "buffered"} : load' = [load EXCEPT ![l] = way]
    /\ UNCHANGED <<wasm, engine, calling, made, answer>>

\* Any failure of streaming falls back to the buffered fetch.
StreamingFails(l) ==
    /\ load[l] = "streaming" /\ calling = "no"
    /\ load' = [load EXCEPT ![l] = "buffered"]
    /\ UNCHANGED <<wasm, engine, calling, made, answer>>

Instantiated(l) ==
    /\ load[l] \in {"streaming", "buffered"} /\ calling = "no"
    /\ load' = [load EXCEPT ![l] = "loaded"]
    /\ wasm' = l
    /\ \E b \in Bundles : engine' = [engine EXCEPT ![l].bundle = b]
    /\ UNCHANGED <<calling, made, answer>>

LoadFails(l) ==
    /\ load[l] = "buffered" /\ calling = "no"
    /\ load' = [load EXCEPT ![l] = "failed"]
    /\ UNCHANGED <<wasm, engine, calling, made, answer>>
-----------------------------------------------------------------------------
(* callEngine.                                                             *)

Begins(why) == calling = "no" /\ made < MaxCalls /\ made' = made + 1 /\ answer' = why

CallUnloaded ==
    /\ Begins(Threw("not loaded")) /\ wasm = 0
    /\ UNCHANGED <<load, wasm, engine, calling>>

AllocFails ==
    /\ Begins(Threw("cynic_alloc returned null")) /\ wasm # 0
    /\ UNCHANGED <<load, wasm, engine, calling>>

Alloc ==
    /\ Begins(Nothing) /\ wasm # 0
    /\ engine' = [engine EXCEPT ![wasm].buffers = @ \cup {made'}]
    /\ calling' = "run"
    /\ UNCHANGED <<load, wasm>>

\* What buildFrame writes: the call's texts, and the parts its bundle knows of.
\* The length counts every part as the reader does.
FrameOf(n, b, texts, span, stats) ==
    [call |-> n, texts |-> texts, span |-> span, stats |-> stats,
     len |-> 13 + texts + (IF b >= 2 THEN 8 ELSE 0) + (IF b = 3 THEN 4 + stats ELSE 0)]

\* Fault: on a failed allocation the last frame is still there.
KeepsFrame(e) == e.frame
\* buildFrame frees the last frame before it allocates the new one.
FrameOnFailure(e) == NoFrame

EngineRuns ==
    /\ calling = "run"
    /\ \/ \E texts \in {0, 2}, span \in {NoSpan, [startByte |-> 1, endByte |-> 2]},
             stats \in {0, 3} :
            engine' = [engine EXCEPT ![wasm].frame =
                         FrameOf(made, engine[wasm].bundle, texts, span, stats)]
       \/ engine' = [engine EXCEPT ![wasm].frame = FrameOnFailure(engine[wasm])]
    /\ calling' = "read"
    /\ UNCHANGED <<load, wasm, made, answer>>

\* A trap reaches the finally before any frame is read.
EngineTraps ==
    /\ calling = "run"
    /\ calling' = "free"
    /\ answer' = Threw("trap")
    /\ UNCHANGED <<load, wasm, engine, made>>

\* The three texts are taken by their lengths; a tail is there only if it fits.
SpanFits(f, off) == off + 8 <= f.len
Decoded(f) ==
    LET off == 13 + f.texts
        hasSpan == SpanFits(f, off)
        rest == IF hasSpan THEN off + 8 ELSE off
        hasStats == rest + 4 <= f.len /\ rest + 4 + f.stats <= f.len
    IN  [threw |-> "nothing", call |-> f.call, texts |-> f.texts,
         errorSpan |-> IF hasSpan /\ f.span.endByte > f.span.startByte
                       THEN f.span ELSE NoSpan,
         stats |-> IF hasStats THEN f.stats ELSE 0]

ReadFrame ==
    /\ calling = "read"
    /\ answer' = IF engine[wasm].frame = NoFrame
                 THEN [threw |-> "nothing", call |-> made, status |-> -1]
                 ELSE Decoded(engine[wasm].frame)
    /\ calling' = "free"
    /\ UNCHANGED <<load, wasm, engine, made>>

\* Fault: only an answered call frees its buffer.
FreesAnswered == IF answer.threw = "nothing" THEN {made} ELSE {}
Freed == {made}

Finally ==
    /\ calling = "free"
    /\ engine' = [engine EXCEPT ![wasm].buffers = @ \ Freed]
    /\ calling' = "no"
    /\ UNCHANGED <<load, wasm, made, answer>>

PlayNext ==
    \/ \E l \in Loads :
         \/ LoadEngine(l)
         \/ StreamingFails(l)
         \/ Instantiated(l)
         \/ LoadFails(l)
    \/ CallUnloaded
    \/ AllocFails
    \/ Alloc
    \/ EngineRuns
    \/ EngineTraps
    \/ ReadFrame
    \/ Finally

PlaySpec == PlayInit /\ [][PlayNext]_playVars
-----------------------------------------------------------------------------
(* Correctness.                                                            *)

\* However calls end and engines are reloaded, a call that returns answers with
\* its own frame, decoded as its bundle wrote it, and leaves no buffer behind in
\* any engine.  The frame of an engine without a result has no stats, which the
\* module's header promises of every frame.
AnswersOwnCall ==
    calling = "no" =>
        /\ \A l \in Loads : engine[l].buffers = {}
        /\ (made > 0 /\ answer.threw = "nothing") =>
             /\ answer.call = made
             /\ "status" \in DOMAIN answer \/
                LET e == engine[wasm]
                IN  e.frame.len > 0 /\ e.frame.call = made =>
                      /\ answer.texts = e.frame.texts
                      /\ answer.errorSpan =
                           (IF e.bundle >= 2 THEN e.frame.span ELSE NoSpan)
                      /\ answer.stats = (IF e.bundle = 3 THEN e.frame.stats ELSE 0)
=============================================================================
