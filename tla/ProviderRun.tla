---------------------------- MODULE ProviderRun -----------------------------
(* One run of the provider runtime (provider-runtime/src/runner.rs with its    *)
(* framers): the optional token count, the request, and the body read chunk by *)
(* chunk, framed, decoded and sent on a bounded channel, while the user may    *)
(* cancel, the consumer may stop reading or go away, and the timers run out.   *)
(*                                                                             *)
(* A body is a sequence of bytes: "n" the newline, "r" the carriage return,    *)
(* "B" the byte-order mark, ":" "d" "e" the starts of a comment, data and      *)
(* event line, "!" a byte that is not UTF-8, and the bytes of the data: "end"  *)
(* closes a terminal frame, "?" is in a frame the decoder refuses.             *)
EXTENDS Integers, Sequences, SequencesExt

CONSTANTS Responses,        \* the bodies a provider may answer, [protocol, bytes]
          MaxFrame,         \* max_stream_frame_bytes
          ChannelSize       \* the capacity of the event channel

VARIABLE run
runVars == <<run>>

-----------------------------------------------------------------------------
(* Framing.                                                                    *)

NewFramer == [buffer |-> <<>>, event |-> <<>>, data |-> <<>>, held |-> 0, first |-> TRUE, frames |-> <<>>, ok |-> TRUE]

Chomp(line) == IF line # <<>> /\ Last(line) = "r" THEN Front(line) ELSE line
JoinLines(ls) == FoldLeft(LAMBDA s, l : IF s = <<>> THEN l ELSE s \o <<"n">> \o l, <<>>, ls)
Broken(f) == [f EXCEPT !.ok = FALSE]

HeldBytes(held, line) == held + Len(line) + 1

\* One line of an SSE body.
SseLine(f, raw) ==
    LET chomped == Chomp(raw)
        line == IF f.first /\ chomped # <<>> /\ chomped[1] = "B" THEN Tail(chomped) ELSE chomped
        g == [f EXCEPT !.first = FALSE, !.buffer = <<>>]
        held == HeldBytes(g.held, line)
        value == Tail(line)
    IN  IF line = <<>>
        THEN [g EXCEPT !.event = <<>>, !.data = <<>>, !.held = 0,
                       !.frames = IF g.data = <<>> THEN @ ELSE Append(@, JoinLines(g.data))]
        ELSE IF line[1] = ":" THEN g
        ELSE IF held > MaxFrame \/ (\E i \in DOMAIN line : line[i] = "!") THEN Broken(g)
        ELSE [g EXCEPT !.held = held,
                       !.event = IF line[1] = "e" THEN value ELSE @,
                       !.data = IF line[1] = "d" THEN Append(@, value) ELSE @]

\* One line of an NDJSON body.
NdjsonLine(f, raw) ==
    LET line == Chomp(raw)
        g == [f EXCEPT !.buffer = <<>>]
    IN  IF line = <<>> THEN g
        ELSE IF \E i \in DOMAIN line : line[i] = "!" THEN Broken(g)
        ELSE [g EXCEPT !.frames = Append(@, line)]

\* Mutant: what is left of a chunk replaces what was kept of the one before.
PushByteFresh(p, f, byte, last) ==
    IF ~f.ok THEN f
    ELSE IF byte = "n" THEN (IF p = "sse" THEN SseLine(f, f.buffer) ELSE NdjsonLine(f, f.buffer))
    ELSE IF Len(f.buffer) + 1 > MaxFrame THEN Broken(f)
    ELSE [f EXCEPT !.buffer = IF last THEN <<byte>> ELSE Append(@, byte)]
\* A chunk: whole lines are processed, the rest is kept.
PushByte(p, f, byte, last) ==
    IF ~f.ok THEN f
    ELSE IF byte = "n" THEN (IF p = "sse" THEN SseLine(f, f.buffer) ELSE NdjsonLine(f, f.buffer))
    ELSE IF Len(f.buffer) + 1 > MaxFrame THEN Broken(f)
    ELSE [f EXCEPT !.buffer = Append(@, byte)]
Push(p, f, chunk) ==
    FoldLeft(LAMBDA g, i : PushByte(p, g, chunk[i], i = Len(chunk)), [f EXCEPT !.frames = <<>>],
             [i \in 1..Len(chunk) |-> i])

\* The end of the body: an SSE event must be closed, an NDJSON line need not be.
Finish(p, f) ==
    IF p = "sse" THEN IF f.buffer = <<>> /\ f.event = <<>> /\ f.data = <<>> THEN [f EXCEPT !.frames = <<>>] ELSE Broken(f)
    ELSE LET line == Chomp(f.buffer) IN
         IF line = <<>> THEN [f EXCEPT !.frames = <<>>] ELSE NdjsonLine([f EXCEPT !.frames = <<>>], line)

-----------------------------------------------------------------------------
(* The run.                                                                    *)

Decodes(frame) == frame # <<>> /\ \A i \in DOMAIN frame : frame[i] # "?"
Ends(frame) == Last(frame) = "end"
SaidIn(frame) == IF Ends(frame) THEN Front(frame) ELSE frame

RunInit ==
    run \in [phase: {"idle"}, prompt: BOOLEAN, response: Responses, read: {0}, framer: {NewFramer},
             frames: {<<>>}, sending: {<<>>}, final: {FALSE}, eof: {FALSE}, channel: {<<>>}, received: {<<>>}, sent: {<<>>},
             reading: {TRUE}, cancelled: {FALSE}, outcome: {"none"}]

Ended(outcome) == run' = [run EXCEPT !.phase = "done", !.outcome = outcome, !.frames = <<>>, !.sending = <<>>]
At(phase) == run.phase = phase

\* The calls: refused when already cancelled, a prompt counted first.
StartRun ==
    /\ At("idle")
    /\ IF run.cancelled THEN Ended("cancelled")
       ELSE run' = [run EXCEPT !.phase = IF run.prompt THEN "count" ELSE "request"]
CountReturns == At("count") /\ (Ended("failed") \/ run' = [run EXCEPT !.phase = "request"])
\* Resolving, connecting and the response head, each under a timer of its own.
HeadReturns == At("request") /\ (Ended("failed") \/ run' = [run EXCEPT !.phase = "body"] \/ run' = [run EXCEPT !.phase = "error body"])
\* An HTTP error: its body is read to the end, or to the limit, and dropped.
ErrorBody == At("error body") /\ Ended("failed")

\* A cancellation is seen wherever the run waits.
SeeCancel ==
    /\ run.cancelled
    /\ run.phase \in {"count", "request", "error body", "body", "send"}
    /\ Ended("cancelled")

\* Chunks of any length, then the end of the body; or the transport fails.
ReadChunk ==
    /\ At("body") /\ run.frames = <<>> /\ ~run.eof
    /\ \E n \in (run.read + 1)..Len(run.response.bytes) :
         LET f == Push(run.response.protocol, run.framer, SubSeq(run.response.bytes, run.read + 1, n)) IN
         IF ~f.ok THEN Ended("failed")
         ELSE run' = [run EXCEPT !.read = n, !.framer = f, !.frames = f.frames]
ReadEnd ==
    /\ At("body") /\ run.frames = <<>> /\ ~run.eof /\ run.read = Len(run.response.bytes)
    /\ LET f == Finish(run.response.protocol, run.framer) IN
       IF ~f.ok THEN Ended("failed")
       ELSE run' = [run EXCEPT !.eof = TRUE, !.frames = f.frames]
ReadFails == At("body") /\ run.frames = <<>> /\ ~run.eof /\ Ended("failed")

\* The decoder's own end: no terminal frame came.
NoTerminal == At("body") /\ run.frames = <<>> /\ run.eof /\ Ended("failed")

\* Each frame of a chunk in turn; a terminal one ends the run.
DecodeNext ==
    /\ At("body") /\ run.frames # <<>>
    /\ LET frame == Head(run.frames) IN
       IF ~Decodes(frame) THEN Ended("failed")
       ELSE IF SaidIn(frame) = <<>> THEN Ended("completed")
       ELSE run' = [run EXCEPT !.phase = "send", !.frames = Tail(@), !.sending = SaidIn(frame), !.final = Ends(frame)]

SendEvent ==
    /\ At("send")
    /\ IF ~run.reading THEN Ended("failed")
       ELSE /\ Len(run.channel) < ChannelSize
            /\ run' = [run EXCEPT !.phase = IF run.final THEN "done" ELSE "body",
                                  !.outcome = IF run.final THEN "completed" ELSE @,
                                  !.frames = IF run.final THEN <<>> ELSE @,
                                  !.channel = Append(@, run.sending), !.sent = Append(@, run.sending), !.sending = <<>>]

\* The deadline of the whole stream.
Deadline == run.phase \in {"error body", "body", "send"} /\ Ended("failed")

\* The consumer and the user.
Receive == /\ run.channel # <<>> /\ run.reading
           /\ run' = [run EXCEPT !.channel = Tail(@), !.received = Append(@, Head(run.channel))]
CloseConsumer == run.reading /\ run.phase # "done" /\ run' = [run EXCEPT !.reading = FALSE]
CancelRun == ~run.cancelled /\ run.phase # "done" /\ run' = [run EXCEPT !.cancelled = TRUE]

RuntimeStep == \/ StartRun \/ CountReturns \/ HeadReturns \/ ErrorBody \/ ReadChunk \/ ReadEnd \/ ReadFails
               \/ NoTerminal \/ DecodeNext \/ SendEvent
RunNext == RuntimeStep \/ SeeCancel \/ Deadline \/ Receive \/ CloseConsumer \/ CancelRun

RunSpec == RunInit /\ [][RunNext]_runVars

-----------------------------------------------------------------------------
(* Properties.                                                                 *)

\* The frames of a body that comes in one piece, up to its terminal one.
Whole(response) ==
    LET f == Push(response.protocol, NewFramer, response.bytes)
        g == Finish(response.protocol, f)
        all == IF f.ok THEN f.frames \o (IF g.ok THEN g.frames ELSE <<>>) ELSE <<>>
        stop == {i \in DOMAIN all : Ends(all[i])}
        read == IF stop = {} THEN all ELSE SubSeq(all, 1, CHOOSE i \in stop : \A j \in stop : i <= j)
    IN  SelectSeq([i \in DOMAIN read |-> SaidIn(read[i])], LAMBDA t : t # <<>>)
FramesWhole(response) == Push(response.protocol, NewFramer, response.bytes).ok

\* Where the chunks were cut does not show: what was sent is a prefix of what the
\* body in one piece gives, and all of it when the run completes; the consumer gets
\* it in that order.
ChunkingInvisible ==
    /\ FramesWhole(run.response) => IsPrefix(run.sent, Whole(run.response))
    /\ (FramesWhole(run.response) /\ run.outcome = "completed") => run.sent = Whole(run.response)
    /\ run.received \o run.channel = run.sent

\* The runtime holds no more of an answer than the frame limit allows: the line
\* being read and the event being put together are each within it.
HeldIsBounded ==
    /\ Len(run.framer.buffer) <= MaxFrame
    /\ FoldLeft(LAMBDA n, l : n + Len(l) + 2, Len(run.framer.event), run.framer.data) <= MaxFrame

\* Every run ends, whatever the provider, the consumer and the user do or leave
\* undone: a consumer that stops reading cannot hold it past the deadline.
RunEnds == (run.phase # "idle") ~> (run.phase = "done")

\* How the network cut the body does not show in what is sent on, no more of it is
\* held than the frame limit allows, and the run ends.
RunKeepsPromise ==
    /\ [](ChunkingInvisible /\ HeldIsBounded)
    /\ RunEnds

=============================================================================
