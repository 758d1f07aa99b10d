---------------------------- MODULE OpenAIStream ----------------------------
(***************************************************************************)
(* The streams of an openai provider (provider/openai) in front of the     *)
(* goroutines of Stream, and the streams of a mock beside them.  A reader  *)
(* parses the body of the upstream line by line and passes chunks on       *)
(* through one channel and its error through another; an adapter selects   *)
(* on both and turns them into the events and the error of the provider.   *)
(* The upstream is external: it may send any number of chunks, one of them *)
(* without choices, and end with [DONE], without it, or with an error.     *)
(***************************************************************************)
EXTENDS Stream

CONSTANT ChunksCap    \* capacity of the channel of the reader: 8 in the code

ASSUME OpenAIAssumption == ChunksCap \in Nat \ {0}

VARIABLES
    reader,   \* the goroutine of Client.ChatCompletionStream
    line,     \* the chunk it has read and is about to pass on
    fetched,  \* the content chunks it has passed on
    odd,      \* it has passed on a chunk without choices (history)
    inputs,   \* the channels the adapter still selects on
    carried   \* the event the adapter is about to send

streamVars == vars
upVars == <<reader, line, fetched, odd, inputs, carried>>
allVars == <<vars, reader, line, fetched, odd, inputs, carried>>

\* Of the variables of Stream, a reader changes the channels only.
readerFrame == <<callVars, provVars, fwdVars, wrapVars, sse, wire>>

UpInit ==
    /\ Init
    /\ reader = "reading"
    /\ line = Done
    /\ fetched = 0
    /\ odd = FALSE
    /\ inputs = {"chunks", "faults"}
    /\ carried = Done

Connected == rpc = "streaming" /\ kind = "openai"

-----------------------------------------------------------------------------
(* The reader of ChatCompletionStream *)

Reads == Connected /\ reader = "reading"

\* A chunk with choices is read, which the reader then has to pass on.
ReaderReadsChunk ==
    /\ Reads
    /\ fetched < Chunks
    /\ line' = fetched + 1
    /\ reader' = "passing"
    /\ UNCHANGED <<streamVars, fetched, odd, inputs, carried>>

\* A chunk with neither choices nor usage, which the adapter cannot tell from
\* the one that stands for [DONE].  One of them is enough.
ReaderReadsOdd ==
    /\ Reads
    /\ ~odd
    /\ odd' = TRUE
    /\ line' = Done
    /\ reader' = "passing"
    /\ UNCHANGED <<streamVars, fetched, inputs, carried>>

\* [DONE]: a chunk without choices takes its place.
ReaderReadsDone ==
    /\ Reads
    /\ line' = Done
    /\ reader' = "passingDone"
    /\ UNCHANGED <<streamVars, fetched, odd, inputs, carried>>

\* The reader waits for room in its channel, without its context, and returns
\* after [DONE].
ReaderPasses ==
    /\ reader \in {"passing", "passingDone"}
    /\ Len(buf["chunks"]) < ChunksCap
    /\ Put("chunks", line)
    /\ fetched' = IF line = Done THEN fetched ELSE line
    /\ reader' = IF reader = "passing" THEN "reading" ELSE "closing"
    /\ UNCHANGED <<readerFrame, closed, line, odd, inputs, carried>>

\* The body ends without [DONE], which is no error for the scanner.
ReaderAtEnd ==
    /\ Reads
    /\ reader' = "closing"
    /\ UNCHANGED <<streamVars, line, fetched, odd, inputs, carried>>

\* The request cannot be made, its status is an error, a chunk cannot be
\* parsed, or the body cannot be read, as when the context ends.
ReaderFails(why) ==
    /\ Reads
    /\ why = "context" => ctxDone
    /\ Put("faults", why)
    /\ reader' = "closing"
    /\ UNCHANGED <<readerFrame, closed, line, fetched, odd, inputs, carried>>

\* The deferred closes: first the channel of errors, then the one of chunks.
ReaderClosesFaults ==
    /\ reader = "closing"
    /\ closed' = closed \cup {"faults"}
    /\ reader' = "leaving"
    /\ UNCHANGED <<readerFrame, buf, line, fetched, odd, inputs, carried>>

ReaderClosesChunks ==
    /\ reader = "leaving"
    /\ closed' = closed \cup {"chunks"}
    /\ reader' = "ended"
    /\ UNCHANGED <<readerFrame, buf, line, fetched, odd, inputs, carried>>

-----------------------------------------------------------------------------
(* The adapter of Provider.ChatStream *)

AdapterTakes ==
    /\ src = "select"
    /\ "chunks" \in inputs /\ Ready("chunks")
    /\ carried' = Head(buf["chunks"])
    /\ Take("chunks")
    /\ src' = "passing"
    /\ UNCHANGED <<callVars, kind, next, fwdVars, wrapVars, sse, wire, closed,
                   reader, line, fetched, odd, inputs>>

\* The goroutine returns at the end signal.
BugAdapterPasses ==
    /\ src = "passing"
    /\ Len(buf["events"]) < EventsCap
    /\ Put("events", carried)
    /\ next' = IF carried = Done THEN next ELSE next + 1
    /\ src' = IF carried = Done THEN "closing" ELSE "select"
    /\ UNCHANGED <<callVars, kind, fwdVars, wrapVars, sse, wire, closed, upVars>>

\* The end signal becomes a done event, another chunk a content event; the
\* loop goes on after both.
AdapterPasses ==
    /\ src = "passing"
    /\ Len(buf["events"]) < EventsCap
    /\ Put("events", carried)
    /\ next' = IF carried = Done THEN next ELSE next + 1
    /\ src' = "select"
    /\ UNCHANGED <<callVars, kind, fwdVars, wrapVars, sse, wire, closed, upVars>>

\* The adapter returns on an error, whatever the channel of chunks still holds.
AdapterHearsError ==
    /\ src = "select"
    /\ "faults" \in inputs /\ Ready("faults")
    /\ buf' = [buf EXCEPT !["faults"] = Tail(@), !["errs"] = Append(@, Head(buf["faults"]))]
    /\ src' = "closing"
    /\ UNCHANGED <<callVars, kind, next, fwdVars, wrapVars, sse, wire, closed, upVars>>

\* A closed channel is set to nil, which takes it out of the select.
AdapterDrops(c) ==
    /\ src = "select"
    /\ c \in inputs /\ Ended(c)
    /\ inputs' = inputs \ {c}
    /\ UNCHANGED <<streamVars, reader, line, fetched, odd, carried>>

\* The loop ends as soon as the channel of errors is closed.
BugAdapterEnds ==
    /\ src = "select"
    /\ "faults" \notin inputs
    /\ src' = "closing"
    /\ UNCHANGED <<callVars, kind, next, fwdVars, wrapVars, sse, wire, chanVars, upVars>>

\* The loop runs until both channels are nil.
AdapterEnds ==
    /\ src = "select"
    /\ inputs = {}
    /\ src' = "closing"
    /\ UNCHANGED <<callVars, kind, next, fwdVars, wrapVars, sse, wire, chanVars, upVars>>

-----------------------------------------------------------------------------
Reader ==
    \/ ReaderReadsChunk \/ ReaderReadsOdd \/ ReaderReadsDone \/ ReaderAtEnd
    \/ ReaderPasses
    \/ \E why \in {"upstream", "context"} : ReaderFails(why)
    \/ ReaderClosesFaults \/ ReaderClosesChunks

Adapter ==
    \/ AdapterTakes \/ AdapterPasses \/ AdapterHearsError
    \/ \E c \in {"chunks", "faults"} : AdapterDrops(c)
    \/ AdapterEnds

UpOver == Over /\ (Connected => reader = "ended")

StreamStep ==
    \/ \E why \in Causes : AttemptFails(why)
    \/ ShortCircuit \/ Expire
    \/ \E k \in Kinds : Connect(k)
    \/ Source \/ Forwarder \/ Wrapper \/ Writer

UpNext ==
    \/ StreamStep /\ UNCHANGED upVars
    \/ Reader \/ Adapter
    \/ UpOver /\ UNCHANGED allVars

UpSpec == UpInit /\ [][UpNext]_allVars

\* A goroutine that can run does run.  The body of the upstream ends at the
\* latest with the timeout of the client, which is never zero.
FairUpSpec ==
    /\ UpSpec
    /\ WF_allVars(Reader) /\ WF_allVars(Adapter)
    /\ WF_allVars(Source /\ UNCHANGED upVars)
    /\ WF_allVars(Forwarder /\ UNCHANGED upVars)
    /\ WF_allVars(Wrapper /\ UNCHANGED upVars)
    /\ WF_allVars(Writer /\ UNCHANGED upVars)

-----------------------------------------------------------------------------
(* Properties *)

ReaderOK ==
    /\ reader \in {"reading", "passing", "passingDone", "closing", "leaving", "ended"}
    /\ line \in Nat
    /\ fetched \in 0..Chunks
    /\ inputs \subseteq {"chunks", "faults"}
    /\ carried \in Nat

UpTypeOK == TypeOK /\ ReaderOK /\ odd \in BOOLEAN

\* What the provider, or the plugin in its place, had to say.
Answer == CASE short -> 1 [] kind = "openai" -> fetched [] OTHER -> Chunks

\* [DONE] tells the client that it has everything: it comes once, after every
\* content event the upstream sent, and never for a stream that failed.  Only
\* a chunk without choices in mid-stream makes the gateway send it too early.
DoneMeansComplete ==
    Done \in Items(wire) /\ ~odd =>
        /\ wire = [i \in 1..(Answer + 1) |-> IF i <= Answer THEN i ELSE Done]
        /\ heard.err = "none"

\* The adapter may lose chunks behind an error, and only then: an answer the
\* post hooks take for a success is all that was read, and the reader is gone
\* before they run (Client.ChatCompletionStream, Provider.ChatStream).
LostOnlyBehindError ==
    kind = "openai" =>
        /\ next - 1 <= fetched
        /\ src = "ended" /\ reader = "ended" /\ heard.err = "none"
           /\ buf["wrapped"] = <<>> /\ buf["errs"] = <<>> => next - 1 = fetched
        /\ \A i \in 1..Len(hooked) : hooked[i].err = "none" =>
              hooked[i].deltas = fetched /\ reader = "ended"

\* No goroutine of a stream is left behind, the reader of the upstream and its
\* connection included, and the client gets its end.
StreamEnds == rpc = "streaming" ~> UpOver

=============================================================================
