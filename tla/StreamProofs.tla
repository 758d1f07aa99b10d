---------------------------- MODULE StreamProofs ----------------------------
(* Theorems about OpenAIStream and the Stream it extends, for chains, answers *)
(* and channels of any size, with mock and openai providers.                  *)
EXTENDS OpenAIStream, TLAPS

-----------------------------------------------------------------------------
(* The inductive invariant *)

Sent == {"upstream", "context"}

\* ChannelsOK, with the channels by their names.
BufOK ==
    /\ buf \in [Channels -> Seq(Nat) \cup Seq(Sent)]
    /\ buf["events"] \in Seq(Nat) /\ buf["output"] \in Seq(Nat) /\ buf["chunks"] \in Seq(Nat)
    /\ buf["errs"] \in Seq(Sent) /\ buf["wrapped"] \in Seq(Sent) /\ buf["faults"] \in Seq(Sent)

Typed == FlagsOK /\ PlacesOK /\ DataOK /\ BufOK /\ ReaderOK /\ odd \in BOOLEAN

Producing == {"sending", "select", "passing"}

\* Before there is a stream everything is as it was at the beginning.
Fresh ==
    /\ src = "off" /\ kind = "none" /\ next = 1 /\ ~short
    /\ fwd = "off" /\ ~ctxDone /\ ~expired
    /\ wrp = "off" /\ held = Done /\ open = {"events", "wrapped"} /\ hooked = <<>>
    /\ heard = [deltas |-> 0, err |-> "none", done |-> FALSE]
    /\ sse = "off" /\ wire = <<>>
    /\ buf = [c \in Channels |-> <<>>] /\ closed = {}

UpFresh ==
    /\ reader = "reading" /\ line = Done /\ fetched = 0 /\ ~odd
    /\ inputs = {"chunks", "faults"} /\ carried = Done
    /\ buf["chunks"] = <<>> /\ buf["faults"] = <<>>

\* Which goroutines there are, and where they can be.
Roles ==
    /\ rpc # "streaming" => Fresh
    /\ rpc = "streaming" /\ short =>
          /\ kind = "none" /\ src = "off" /\ fwd = "off"
          /\ wrp \in {"shortHooks", "shortDelta", "shortDone", "closing", "ended"}
    /\ rpc = "streaming" /\ ~short =>
          /\ kind \in {"mock", "openai"} /\ fwd # "off"
          /\ wrp \in {"select", "copying", "done", "closing", "ended"}
    /\ kind = "mock" => src \in {"sending", "closing", "leaving", "ended"}
    /\ kind = "openai" => src \in {"select", "passing", "closing", "leaving", "ended"}
    /\ kind # "openai" => UpFresh

\* A channel is closed when its writer has got there.
ClosedBy ==
    /\ "errs" \in closed <=> src \in {"leaving", "ended"}
    /\ "events" \in closed <=> src = "ended"
    /\ "wrapped" \in closed <=> fwd = "ended"
    /\ "output" \in closed <=> wrp = "ended"
    /\ "faults" \in closed <=> reader \in {"leaving", "ended"}
    /\ "chunks" \in closed <=> reader = "ended"

\* A select leaves a channel out when it is closed and empty, which it stays.
LeftOut ==
    /\ "events" \notin open => Ended("events")
    /\ "wrapped" \notin open => Ended("wrapped")
    /\ "chunks" \notin inputs => Ended("chunks")
    /\ "faults" \notin inputs => Ended("faults")
    /\ wrp \in {"done", "closing", "ended"} /\ ~short => open = {}

\* The hooks get what the wrapper has heard, and it hears nothing afterwards.
HookedOnce ==
    hooked = IF wrp \in {"off", "select", "copying", "shortHooks"} THEN <<>> ELSE <<heard>>

Closings == ClosedBy /\ LeftOut /\ HookedOnce

\* There is an error on the way.
Failed == buf["errs"] # <<>> \/ buf["wrapped"] # <<>> \/ heard.err # "none"
Unfailed == ~Failed /\ buf["faults"] = <<>>

\* It is one at most, and its channels are empty before it comes and after.
ErrorPlaces ==
    /\ Len(buf["errs"]) <= 1 /\ Len(buf["faults"]) <= 1
    /\ reader \in {"reading", "passing", "passingDone"} => buf["faults"] = <<>>
    /\ src \in Producing \cup {"off"} => buf["errs"] = <<>>
    /\ fwd \in {"off", "reading"} => buf["wrapped"] = <<>> /\ heard.err = "none"
    /\ fwd \notin {"off", "reading"} => buf["errs"] = <<>> /\ src \notin Producing

\* A provider stops for an error or at the end of what it has.
Explained ==
    /\ src \in {"closing", "leaving", "ended"} =>
          /\ kind = "mock" => Failed \/ next > Total
          /\ kind = "openai" => reader \in {"closing", "leaving", "ended"}
          /\ kind = "openai" /\ ~Failed => inputs = {}
    /\ kind = "mock" /\ next > Total => Unfailed

\* The forwarder cancels last, so an error of the context is not its doing.
Timely ==
    /\ ctxDone /\ ~expired => fwd \in {"closing", "ended"}
    /\ "context" \in Items(buf["faults"]) \cup Items(buf["errs"]) \cup Items(buf["wrapped"])
                     \cup {heard.err} => expired

OneError == ErrorPlaces /\ Explained /\ Timely

\* The content events that the provider, the wrapper and the adapter have
\* passed on.
Given == IF next > Chunks THEN Chunks ELSE next - 1
Copied == IF wrp = "copying" /\ held # Done THEN heard.deltas - 1 ELSE heard.deltas
Drawn == IF src = "passing" /\ carried # Done THEN next ELSE next - 1

\* From channel to channel the content stays in order and whole.
WireOrder ==
    \E w, c \in 0..Total :
        /\ Carries(wire, 0, w) /\ Carries(buf["output"], w, c)
        /\ IF short THEN wrp \in {"shortHooks", "shortDelta"} => c = 0 ELSE c = Copied

EventsOrder ==
    /\ wrp = "copying" /\ held # Done => held = heard.deltas
    /\ ~short => Carries(buf["events"], heard.deltas, Given)

ChunksOrder ==
    /\ kind = "openai" => Carries(buf["chunks"], Drawn, fetched)
    /\ src = "passing" /\ carried # Done => carried = next
    /\ reader = "passing" => line = Done \/ (line = fetched + 1 /\ fetched < Chunks)
    /\ reader = "passingDone" => line = Done

Order == WireOrder /\ EventsOrder /\ ChunksOrder

\* s is the content from a + 1 to b, and then d times Done.
Exactly(s, a, b, d) ==
    /\ a <= b
    /\ Len(s) = b - a + d
    /\ \A i \in 1..Len(s) : s[i] = IF i <= b - a THEN a + i ELSE Done

\* A reader that has returned passes nothing on.
Returned == reader \in {"closing", "leaving", "ended"}

\* The provider has given all it has and no error, and the channels before the
\* events are empty.
AllGiven ==
    /\ Unfailed /\ src # "passing" /\ buf["chunks"] = <<>>
    /\ kind = "mock" => next > Total
    /\ kind = "openai" => Returned

\* A Done is the last there is in its channel, and nothing is left before it.
ChunksEnd ==
    /\ reader = "passing" => line # Done
    /\ src = "passing" /\ carried = Done => Unfailed /\ buf["chunks"] = <<>> /\ Returned
    /\ \E d \in 0..1 : /\ kind = "openai" => Exactly(buf["chunks"], Drawn, fetched, d)
                       /\ d = 1 => Unfailed /\ Returned

EventsEnd ==
    /\ heard.done => AllGiven /\ buf["events"] = <<>> /\ ~short
    /\ wrp = "copying" => (held = Done <=> heard.done)
    /\ \E d \in 0..1 : /\ ~short => Exactly(buf["events"], heard.deltas, Given, d)
                       /\ d = 1 => AllGiven

\* Where the wrapper is when it has sent Done, after the whole answer.
DoneSent(c) ==
    /\ wrp \in {"select", "closing", "ended"}
    /\ wrp = "select" => heard.done
    /\ c = Answer /\ heard.err = "none"

WireEnd ==
    /\ wrp = "done" => heard.err = "none"
    /\ \E w, c \in 0..Total, d, e \in 0..1 :
          /\ Exactly(wire, 0, w, d) /\ Exactly(buf["output"], w, c, e)
          /\ ~short => c = Copied
          /\ wrp \in {"shortHooks", "shortDelta"} => c = 0
          /\ wrp = "shortDone" => c = 1
          /\ d = 1 => buf["output"] = <<>>
          /\ d = 1 \/ e = 1 => DoneSent(c)

\* A chunk without choices in mid-stream is taken for the end, so Completion
\* holds of the streams without one.
Completion == ChunksEnd /\ EventsEnd /\ WireEnd

OrderInv == Typed /\ Roles /\ Closings /\ OneError /\ Order

StreamInv == OrderInv /\ (~odd => Completion)

-----------------------------------------------------------------------------
(* Channels as sequences *)

\* Nothing is in an empty channel, and what comes in and goes out of one at its
\* two ends moves its bounds.
LEMMA CarriesNothing ==
    /\ \A a \in Nat : Carries(<<>>, a, a)
    /\ \A a, b \in Nat : Carries(<<>>, a, b) => a = b
BY DEF Carries

LEMMA CarriesAppend ==
    ASSUME NEW s \in Seq(Nat), NEW a \in Nat, NEW b \in Nat, Carries(s, a, b)
    PROVE  /\ Carries(Append(s, Done), a, b)
           /\ Carries(Append(s, b + 1), a, b + 1)
<1> USE DEF Carries, Done
<1>1. /\ Len(Append(s, Done)) = Len(s) + 1 /\ Append(s, Done)[Len(s) + 1] = Done
      /\ \A i \in 1..Len(s) : Append(s, Done)[i] = s[i]
  OBVIOUS
<1>2. /\ Len(Append(s, b + 1)) = Len(s) + 1 /\ Append(s, b + 1)[Len(s) + 1] = b + 1
      /\ \A i \in 1..Len(s) : Append(s, b + 1)[i] = s[i]
  OBVIOUS
<1>3. Carries(Append(s, Done), a, b)
  BY <1>1
<1>4. Carries(Append(s, b + 1), a, b + 1)
  <2>1. \A i \in 1..Len(s) : s[i] \in Nat
    OBVIOUS
  <2> QED
    BY <1>2, <2>1
<1> QED
  BY <1>3, <1>4

LEMMA CarriesTail ==
    ASSUME NEW s \in Seq(Nat), s # <<>>, NEW a \in Nat, NEW b \in Nat, Carries(s, a, b)
    PROVE  /\ Head(s) = Done => Carries(Tail(s), a, b)
           /\ Head(s) # Done => Head(s) = a + 1 /\ Carries(Tail(s), a + 1, b)
<1> USE DEF Carries, Done
<1>1. /\ Len(s) \in Nat \ {0} /\ Head(s) = s[1] /\ Len(Tail(s)) = Len(s) - 1
      /\ \A i \in 1..Len(Tail(s)) : Tail(s)[i] = s[i + 1]
      /\ \A i \in 1..Len(s) : s[i] \in Nat
  OBVIOUS
<1>2. CASE Head(s) = Done
  <2>1. ASSUME NEW n \in (a + 1)..b PROVE \E i \in 1..Len(Tail(s)) : Tail(s)[i] = n
    <3>1. PICK i \in 1..Len(s) : s[i] = n
      OBVIOUS
    <3>2. i - 1 \in 1..Len(Tail(s)) /\ Tail(s)[i - 1] = n
      BY <1>1, <1>2, <3>1
    <3> QED
      BY <3>2
  <2> QED
    BY <1>1, <1>2, <2>1
<1>3. CASE Head(s) # Done
  <2>1. s[1] \in (a + 1)..b
    BY <1>1, <1>3
  <2>2. PICK k \in 1..Len(s) : s[k] = a + 1
    <3>1. a + 1 \in (a + 1)..b
      BY <2>1
    <3> QED
      BY <3>1
  <2>3. k = 1
    BY <1>1, <1>3, <2>1, <2>2
  <2>4. ASSUME NEW n \in (a + 2)..b PROVE \E i \in 1..Len(Tail(s)) : Tail(s)[i] = n
    <3>1. PICK i \in 1..Len(s) : s[i] = n
      OBVIOUS
    <3>2. i - 1 \in 1..Len(Tail(s)) /\ Tail(s)[i - 1] = n
      BY <1>1, <2>2, <2>3, <3>1
    <3> QED
      BY <3>2
  <2>5. \A i \in 1..Len(Tail(s)) : Tail(s)[i] # Done => Tail(s)[i] \in (a + 2)..b
    BY <1>1, <1>3, <2>2, <2>3
  <2> QED
    BY <1>1, <1>3, <2>1, <2>2, <2>3, <2>4, <2>5
<1> QED
  BY <1>2, <1>3

LEMMA ExactlyNothing ==
    /\ \A a \in Nat : Exactly(<<>>, a, a, 0)
    /\ \A a, b \in Nat, d \in 0..1 : Exactly(<<>>, a, b, d) => a = b /\ d = 0
BY DEF Exactly

LEMMA ExactlyAppend ==
    ASSUME NEW s \in Seq(Nat), NEW a \in Nat, NEW b \in Nat, Exactly(s, a, b, 0)
    PROVE  /\ Exactly(Append(s, Done), a, b, 1)
           /\ Exactly(Append(s, b + 1), a, b + 1, 0)
<1> USE DEF Exactly, Done
<1>1. /\ Len(Append(s, Done)) = Len(s) + 1 /\ Append(s, Done)[Len(s) + 1] = Done
      /\ \A i \in 1..Len(s) : Append(s, Done)[i] = s[i]
  OBVIOUS
<1>2. /\ Len(Append(s, b + 1)) = Len(s) + 1 /\ Append(s, b + 1)[Len(s) + 1] = b + 1
      /\ \A i \in 1..Len(s) : Append(s, b + 1)[i] = s[i]
  OBVIOUS
<1>3. Exactly(Append(s, Done), a, b, 1)
  BY <1>1
<1>4. Exactly(Append(s, b + 1), a, b + 1, 0)
  BY <1>2
<1> QED
  BY <1>3, <1>4

LEMMA ExactlyTail ==
    ASSUME NEW s \in Seq(Nat), s # <<>>, NEW a \in Nat, NEW b \in Nat, NEW d \in 0..1,
           Exactly(s, a, b, d)
    PROVE  /\ Head(s) = Done => a = b /\ d = 1 /\ Tail(s) = <<>>
           /\ Head(s) # Done => Head(s) = a + 1 /\ Exactly(Tail(s), a + 1, b, d)
<1>1. /\ Len(s) \in Nat \ {0} /\ Head(s) = s[1] /\ Len(Tail(s)) = Len(s) - 1
      /\ \A i \in 1..Len(Tail(s)) : Tail(s)[i] = s[i + 1]
      /\ Tail(s) \in Seq(Nat)
  OBVIOUS
<1>2. CASE a = b
  <2>1. d = 1 /\ Len(s) = 1 /\ s[1] = Done
    BY <1>1, <1>2 DEF Exactly
  <2>2. \A t \in Seq(Nat) : Len(t) = 0 => t = <<>>
    OBVIOUS
  <2>3. Tail(s) = <<>>
    <3>1. Len(Tail(s)) = 0
      BY <1>1, <2>1
    <3> QED
      BY <1>1, <2>2, <3>1, Zenon
  <2> QED
    BY <1>1, <1>2, <2>1, <2>3
<1>3. CASE a # b
  <2>1. s[1] = a + 1 /\ a + 1 <= b
    BY <1>1, <1>3 DEF Exactly
  <2>2. Exactly(Tail(s), a + 1, b, d)
    BY <1>1, <2>1 DEF Exactly
  <2> QED
    BY <1>1, <2>1, <2>2 DEF Done
<1> QED
  BY <1>2, <1>3

-----------------------------------------------------------------------------
(* The steps *)

\* A step of the request goroutine or of the timer.
Call ==
    \/ \E why \in Causes : AttemptFails(why)
    \/ ShortCircuit \/ Expire
    \/ \E k \in Kinds : Connect(k)

LEMMA Steps ==
    ASSUME [UpNext]_allVars
    PROVE  \/ UNCHANGED upVars /\ (Call \/ Source \/ Forwarder \/ Wrapper \/ Writer)
           \/ Reader \/ Adapter
           \/ UNCHANGED <<vars, upVars>>
BY DEF UpNext, StreamStep, Call, allVars, upVars

\* What each goroutine leaves alone.
LEMMA SourceFrame ==
    Source => UNCHANGED <<rpc, pos, cause, told, short, kind, fwd, ctxDone, expired,
                          wrp, heard, held, open, hooked, sse, wire>>
BY DEF Source, SourceSends, SourceFails, SourceClosesErrs, SourceClosesEvents,
   callVars, provVars, fwdVars, wrapVars, chanVars

LEMMA ForwarderFrame ==
    Forwarder => UNCHANGED <<rpc, pos, cause, told, short, src, kind, next, expired,
                             wrp, heard, held, open, hooked, sse, wire>>
BY DEF Forwarder, Forward, ForwardEnds, ForwarderCancels, ForwarderCloses,
   callVars, provVars, fwdVars, wrapVars, chanVars

LEMMA WrapperFrame ==
    Wrapper => UNCHANGED <<rpc, pos, cause, told, short, src, kind, next, fwd, ctxDone,
                           expired, sse, wire>>
BY DEF Wrapper, WrapperTakes, WrapperCopies, WrapperHearsError,
   WrapperDrops, WrapperRunsHooks, EndStream, ShortRunsHooks, WrapperSendsDone, WrapperCloses,
   ShortSendsDelta, ShortSendsDone,
   callVars, provVars, fwdVars, wrapVars, chanVars

LEMMA WriterFrame ==
    Writer => UNCHANGED <<rpc, pos, cause, told, short, src, kind, next, fwd, ctxDone, expired,
                          wrp, heard, held, open, hooked, closed>>
BY DEF Writer, SseWrites, SseEnds, callVars, provVars, fwdVars, wrapVars, chanVars

LEMMA ReaderFrame ==
    Reader => UNCHANGED <<rpc, pos, cause, told, short, src, kind, next, fwd, ctxDone, expired,
                          wrp, heard, held, open, hooked, sse, wire, inputs, carried>>
BY DEF Reader, ReaderReadsChunk, ReaderReadsOdd, ReaderReadsDone,
   ReaderAtEnd, ReaderPasses, ReaderFails, ReaderClosesFaults, ReaderClosesChunks,
   callVars, provVars, fwdVars, wrapVars, streamVars, vars, readerFrame

LEMMA AdapterFrame ==
    Adapter => UNCHANGED <<rpc, pos, cause, told, short, kind, fwd, ctxDone, expired,
                           wrp, heard, held, open, hooked, sse, wire, closed,
                           reader, line, fetched, odd>>
BY DEF Adapter, AdapterTakes, AdapterPasses, AdapterHearsError, AdapterDrops, AdapterEnds,
   callVars, fwdVars, wrapVars, chanVars, upVars, streamVars, vars

-----------------------------------------------------------------------------
(* Type correctness *)

LEMMA TypedMeans == Typed <=> UpTypeOK
<1>1. BufOK <=> ChannelsOK
  BY DEF BufOK, ChannelsOK, Channels, Sent
<1> QED
  BY <1>1 DEF Typed, UpTypeOK, TypeOK

\* What is received from a channel has its type, and leaves the rest.
LEMMA FirstOf ==
    ASSUME BufOK
    PROVE  /\ Ready("events") => Head(buf["events"]) \in Nat /\ Tail(buf["events"]) \in Seq(Nat)
           /\ Ready("output") => Head(buf["output"]) \in Nat /\ Tail(buf["output"]) \in Seq(Nat)
           /\ Ready("chunks") => Head(buf["chunks"]) \in Nat /\ Tail(buf["chunks"]) \in Seq(Nat)
           /\ Ready("errs") => Head(buf["errs"]) \in Sent /\ Tail(buf["errs"]) \in Seq(Sent)
           /\ Ready("wrapped") => Head(buf["wrapped"]) \in Sent /\ Tail(buf["wrapped"]) \in Seq(Sent)
           /\ Ready("faults") => Head(buf["faults"]) \in Sent /\ Tail(buf["faults"]) \in Seq(Sent)
<1>1. \A S : \A s \in Seq(S) : s # <<>> => Head(s) \in S /\ Tail(s) \in Seq(S)
  OBVIOUS
<1> QED
  BY <1>1 DEF BufOK, Ready

LEMMA TypeInit == UpInit => Typed
<1> SUFFICES ASSUME UpInit PROVE Typed
  OBVIOUS
<1>1. FlagsOK /\ odd \in BOOLEAN
  BY DEF UpInit, Init, FlagsOK
<1>2. PlacesOK
  BY DEF UpInit, Init, PlacesOK
<1>3. DataOK
  BY StreamAssumption DEF StreamAssumption, UpInit, Init, DataOK, Done, Total
<1>4. BufOK
  BY DEF UpInit, Init, BufOK, Channels, Sent
<1>5. ReaderOK
  BY StreamAssumption DEF StreamAssumption, UpInit, ReaderOK, Done
<1> QED
  BY <1>1, <1>2, <1>3, <1>4, <1>5 DEF Typed

LEMMA FlagsNext ==
    ASSUME FlagsOK, odd \in BOOLEAN, [UpNext]_allVars
    PROVE  FlagsOK' /\ odd' \in BOOLEAN
<1> USE DEF FlagsOK, callVars, provVars, fwdVars, wrapVars, chanVars, upVars, streamVars,
        vars, readerFrame
<1>1. ASSUME NEW why \in Causes, AttemptFails(why) PROVE FlagsOK'
  BY <1>1 DEF AttemptFails
<1>2. ASSUME ShortCircuit \/ Expire PROVE FlagsOK'
  BY <1>2 DEF ShortCircuit, Expire
<1>3. ASSUME NEW k \in Kinds, Connect(k) PROVE FlagsOK'
  BY <1>3 DEF Connect
<1>4. ASSUME Source \/ Writer PROVE FlagsOK'
  BY <1>4, SourceFrame, WriterFrame
<1>5. ASSUME Wrapper \/ Adapter PROVE FlagsOK'
  BY <1>5, WrapperFrame, AdapterFrame
<1>6. ASSUME Forwarder PROVE FlagsOK'
  BY <1>6 DEF Forwarder, Forward, ForwardEnds, ForwarderCancels, ForwarderCloses
<1>7. ASSUME Reader PROVE FlagsOK'
  BY <1>7, ReaderFrame
<1>8. FlagsOK'
  BY <1>1, <1>2, <1>3, <1>4, <1>5, <1>6, <1>7, Steps DEF Call
<1>9. odd' \in {odd, TRUE}
  <2>1. ASSUME Reader PROVE odd' \in {odd, TRUE}
    BY <2>1 DEF Reader, ReaderReadsChunk, ReaderReadsOdd, ReaderReadsDone, ReaderAtEnd,
       ReaderPasses, ReaderFails, ReaderClosesFaults, ReaderClosesChunks
  <2> QED
    BY <2>1, Steps, AdapterFrame
<1> QED
  BY <1>8, <1>9

LEMMA PlacesNext ==
    ASSUME PlacesOK, [UpNext]_allVars
    PROVE  PlacesOK'
<1> USE DEF callVars, provVars, fwdVars, wrapVars, chanVars
<1>1. ASSUME NEW why \in Causes, AttemptFails(why) PROVE PlacesOK'
  BY <1>1 DEF AttemptFails, Causes, PlacesOK
<1>2. CASE ShortCircuit
  BY <1>2 DEF ShortCircuit, PlacesOK
<1>3. CASE Expire
  BY <1>3 DEF Expire, PlacesOK
<1>4. ASSUME NEW k \in Kinds, Connect(k) PROVE PlacesOK'
  BY <1>4 DEF Connect, PlacesOK
<1>5. CASE Source
  <2>1. /\ src' \in {src, "closing", "leaving", "ended"}
        /\ closed' \subseteq closed \cup {"errs", "events"}
    BY <1>5 DEF Source, SourceSends, SourceFails, SourceClosesErrs, SourceClosesEvents
  <2>2. src' \in {src, "closing", "leaving", "ended"} /\ closed' \subseteq Channels
    BY <2>1 DEF PlacesOK, Channels
  <2> QED
    BY <1>5, <2>2, SourceFrame DEF PlacesOK
<1>6. CASE Forwarder
  <2>1. /\ fwd' \in {"cancelling", "closing", "ended"}
        /\ closed' \subseteq closed \cup {"wrapped"}
    BY <1>6 DEF Forwarder, Forward, ForwardEnds, ForwarderCancels, ForwarderCloses
  <2>2. fwd' \in {"cancelling", "closing", "ended"} /\ closed' \subseteq Channels
    BY <2>1 DEF PlacesOK, Channels
  <2> QED
    BY <1>6, <2>2, ForwarderFrame DEF PlacesOK
<1>7. CASE Wrapper
  <2>1. /\ wrp' \in {wrp, "select", "copying", "done", "closing", "ended", "shortDelta",
                     "shortDone"}
        /\ closed' \subseteq closed \cup {"output"}
        /\ open' \subseteq open
    BY <1>7 DEF Wrapper, WrapperTakes, WrapperCopies, WrapperHearsError, WrapperDrops,
       WrapperRunsHooks, EndStream, ShortRunsHooks, WrapperSendsDone, WrapperCloses,
       ShortSendsDelta, ShortSendsDone
  <2>2. closed' \subseteq Channels /\ open' \subseteq {"events", "wrapped"}
    BY <2>1 DEF PlacesOK, Channels
  <2>3. wrp' \in {"off", "select", "copying", "done", "closing", "ended",
                  "shortHooks", "shortDelta", "shortDone"}
    BY <2>1 DEF PlacesOK
  <2> QED
    BY <1>7, <2>2, <2>3, WrapperFrame DEF PlacesOK
<1>8. CASE Writer
  <2>1. sse' \in {sse, "ended"}
    BY <1>8 DEF Writer, SseWrites, SseEnds
  <2> QED
    BY <1>8, <2>1, WriterFrame DEF PlacesOK
<1>9. CASE Reader
  <2>1. closed' \subseteq closed \cup {"faults", "chunks"}
    BY <1>9 DEF Reader, ReaderReadsChunk, ReaderReadsOdd, ReaderReadsDone, ReaderAtEnd,
       ReaderPasses, ReaderFails, ReaderClosesFaults, ReaderClosesChunks, streamVars, vars
  <2>2. closed' \subseteq Channels
    BY <2>1 DEF PlacesOK, Channels
  <2> QED
    BY <1>9, <2>2, ReaderFrame DEF PlacesOK
<1>10. CASE Adapter
  <2>1. src' \in {"select", "passing", "closing"}
    BY <1>10 DEF Adapter, AdapterTakes, AdapterPasses, AdapterHearsError, AdapterDrops,
       AdapterEnds, streamVars, vars
  <2> QED
    BY <1>10, <2>1, AdapterFrame DEF PlacesOK
<1>11. CASE UNCHANGED <<vars, upVars>>
  BY <1>11 DEF PlacesOK, vars
<1> QED
  BY <1>1, <1>2, <1>3, <1>4, <1>5, <1>6, <1>7, <1>8, <1>9, <1>10, <1>11, Steps DEF Call

\* A send appends to one channel and a receive takes its first; the others keep
\* what they hold.
LEMMA PutEvents ==
    ASSUME BufOK, NEW v \in Nat, Put("events", v)
    PROVE  /\ BufOK' /\ buf'["events"] = Append(buf["events"], v)
           /\ buf'["output"] = buf["output"] /\ buf'["chunks"] = buf["chunks"]
           /\ buf'["errs"] = buf["errs"] /\ buf'["wrapped"] = buf["wrapped"]
           /\ buf'["faults"] = buf["faults"]
BY DEF BufOK, Put, Channels

LEMMA PutOutput ==
    ASSUME BufOK, NEW v \in Nat, Put("output", v)
    PROVE  /\ BufOK' /\ buf'["output"] = Append(buf["output"], v)
           /\ buf'["events"] = buf["events"] /\ buf'["chunks"] = buf["chunks"]
           /\ buf'["errs"] = buf["errs"] /\ buf'["wrapped"] = buf["wrapped"]
           /\ buf'["faults"] = buf["faults"]
BY DEF BufOK, Put, Channels

LEMMA PutChunks ==
    ASSUME BufOK, NEW v \in Nat, Put("chunks", v)
    PROVE  /\ BufOK' /\ buf'["chunks"] = Append(buf["chunks"], v)
           /\ buf'["events"] = buf["events"] /\ buf'["output"] = buf["output"]
           /\ buf'["errs"] = buf["errs"] /\ buf'["wrapped"] = buf["wrapped"]
           /\ buf'["faults"] = buf["faults"]
BY DEF BufOK, Put, Channels

LEMMA PutErrs ==
    ASSUME BufOK, NEW v \in Sent, Put("errs", v)
    PROVE  /\ BufOK' /\ buf'["errs"] = Append(buf["errs"], v)
           /\ buf'["events"] = buf["events"] /\ buf'["output"] = buf["output"]
           /\ buf'["chunks"] = buf["chunks"] /\ buf'["wrapped"] = buf["wrapped"]
           /\ buf'["faults"] = buf["faults"]
BY DEF BufOK, Put, Channels

LEMMA PutFaults ==
    ASSUME BufOK, NEW v \in Sent, Put("faults", v)
    PROVE  /\ BufOK' /\ buf'["faults"] = Append(buf["faults"], v)
           /\ buf'["events"] = buf["events"] /\ buf'["output"] = buf["output"]
           /\ buf'["chunks"] = buf["chunks"] /\ buf'["errs"] = buf["errs"]
           /\ buf'["wrapped"] = buf["wrapped"]
BY DEF BufOK, Put, Channels

LEMMA TakeEvents ==
    ASSUME BufOK, Ready("events"), Take("events")
    PROVE  /\ BufOK' /\ buf'["events"] = Tail(buf["events"])
           /\ buf'["output"] = buf["output"] /\ buf'["chunks"] = buf["chunks"]
           /\ buf'["errs"] = buf["errs"] /\ buf'["wrapped"] = buf["wrapped"]
           /\ buf'["faults"] = buf["faults"]
<1>1. Tail(buf["events"]) \in Seq(Nat)
  BY FirstOf
<1> QED
  BY <1>1 DEF BufOK, Take, Channels

LEMMA TakeOutput ==
    ASSUME BufOK, Ready("output"), Take("output")
    PROVE  /\ BufOK' /\ buf'["output"] = Tail(buf["output"])
           /\ buf'["events"] = buf["events"] /\ buf'["chunks"] = buf["chunks"]
           /\ buf'["errs"] = buf["errs"] /\ buf'["wrapped"] = buf["wrapped"]
           /\ buf'["faults"] = buf["faults"]
<1>1. Tail(buf["output"]) \in Seq(Nat)
  BY FirstOf
<1> QED
  BY <1>1 DEF BufOK, Take, Channels

LEMMA TakeChunks ==
    ASSUME BufOK, Ready("chunks"), Take("chunks")
    PROVE  /\ BufOK' /\ buf'["chunks"] = Tail(buf["chunks"])
           /\ buf'["events"] = buf["events"] /\ buf'["output"] = buf["output"]
           /\ buf'["errs"] = buf["errs"] /\ buf'["wrapped"] = buf["wrapped"]
           /\ buf'["faults"] = buf["faults"]
<1>1. Tail(buf["chunks"]) \in Seq(Nat)
  BY FirstOf
<1> QED
  BY <1>1 DEF BufOK, Take, Channels

LEMMA TakeWrapped ==
    ASSUME BufOK, Ready("wrapped"), Take("wrapped")
    PROVE  /\ BufOK' /\ buf'["wrapped"] = Tail(buf["wrapped"])
           /\ buf'["events"] = buf["events"] /\ buf'["output"] = buf["output"]
           /\ buf'["chunks"] = buf["chunks"] /\ buf'["errs"] = buf["errs"]
           /\ buf'["faults"] = buf["faults"]
<1>1. Tail(buf["wrapped"]) \in Seq(Sent)
  BY FirstOf
<1> QED
  BY <1>1 DEF BufOK, Take, Channels

LEMMA ForwardMoves ==
    ASSUME BufOK, Forward
    PROVE  /\ BufOK' /\ buf'["errs"] = Tail(buf["errs"])
           /\ buf'["wrapped"] = Append(buf["wrapped"], Head(buf["errs"]))
           /\ buf'["events"] = buf["events"] /\ buf'["output"] = buf["output"]
           /\ buf'["chunks"] = buf["chunks"] /\ buf'["faults"] = buf["faults"]
<1>1. Ready("errs")
  BY DEF Forward
<1>2. Tail(buf["errs"]) \in Seq(Sent) /\ Head(buf["errs"]) \in Sent
  BY <1>1, FirstOf
<1>3. Append(buf["wrapped"], Head(buf["errs"])) \in Seq(Sent)
  BY <1>2 DEF BufOK
<1> QED
  BY <1>2, <1>3 DEF BufOK, Forward, Channels

LEMMA AdapterHearsErrorMoves ==
    ASSUME BufOK, AdapterHearsError
    PROVE  /\ BufOK' /\ buf'["faults"] = Tail(buf["faults"])
           /\ buf'["errs"] = Append(buf["errs"], Head(buf["faults"]))
           /\ buf'["events"] = buf["events"] /\ buf'["output"] = buf["output"]
           /\ buf'["chunks"] = buf["chunks"] /\ buf'["wrapped"] = buf["wrapped"]
<1>1. Ready("faults")
  BY DEF AdapterHearsError
<1>2. Tail(buf["faults"]) \in Seq(Sent) /\ Head(buf["faults"]) \in Sent
  BY <1>1, FirstOf
<1>3. Append(buf["errs"], Head(buf["faults"])) \in Seq(Sent)
  BY <1>2 DEF BufOK
<1> QED
  BY <1>2, <1>3 DEF BufOK, AdapterHearsError, Channels

\* Which goroutine runs tells the kind of the stream.
LEMMA WhoRuns ==
    ASSUME PlacesOK, Roles
    PROVE  /\ src \in {"select", "passing"} => kind = "openai"
           /\ src = "sending" => kind = "mock"
           /\ src # "off" => rpc = "streaming" /\ ~short
           /\ src # "off" => kind \in {"mock", "openai"}
           /\ fwd # "off" => rpc = "streaming" /\ ~short
           /\ wrp \in {"select", "copying", "done"} => rpc = "streaming" /\ ~short
           /\ wrp \in {"shortHooks", "shortDelta", "shortDone"} => rpc = "streaming" /\ short
           /\ wrp # "off" => rpc = "streaming"
           /\ kind # "none" <=> rpc = "streaming" /\ ~short
           /\ reader # "reading" => kind = "openai"
BY DEF Roles, Fresh, UpFresh

LEMMA ChannelsNext ==
    ASSUME DataOK, BufOK, ReaderOK, [UpNext]_allVars
    PROVE  BufOK'
<1> USE DEF callVars, provVars, fwdVars, wrapVars, chanVars, streamVars, vars, upVars
<1>0. ASSUME UNCHANGED buf PROVE BufOK'
  BY <1>0 DEF BufOK
<1>1. CASE Call
  BY <1>0, <1>1 DEF Call, AttemptFails, ShortCircuit, Expire, Connect
<1>2. CASE Source
  <2>1. CASE SourceSends
    <3>1. Event(next) \in Nat
      BY StreamAssumption DEF StreamAssumption, DataOK, Event, Total, Done
    <3> QED
      BY <2>1, <3>1, PutEvents DEF SourceSends
  <2>2. ASSUME NEW why \in Sent, SourceFails(why) PROVE BufOK'
    BY <2>2, PutErrs DEF SourceFails
  <2>3. CASE SourceClosesErrs \/ SourceClosesEvents
    BY <1>0, <2>3 DEF SourceClosesErrs, SourceClosesEvents
  <2> QED
    BY <1>2, <2>1, <2>2, <2>3 DEF Source, Sent
<1>3. CASE Forwarder
  BY <1>0, <1>3, ForwardMoves DEF Forwarder, ForwardEnds, ForwarderCancels, ForwarderCloses
<1>4. CASE Wrapper
  <2>1. CASE WrapperTakes
    BY <2>1, TakeEvents DEF WrapperTakes
  <2>2. CASE WrapperCopies
    BY <2>2, PutOutput DEF WrapperCopies, DataOK
  <2>3. CASE WrapperHearsError
    BY <2>3, TakeWrapped DEF WrapperHearsError
  <2>4. ASSUME NEW c \in {"events", "wrapped"}, WrapperDrops(c) PROVE BufOK'
    BY <1>0, <2>4 DEF WrapperDrops
  <2>5. ASSUME NEW ok \in BOOLEAN, WrapperRunsHooks(ok) \/ ShortRunsHooks(ok) PROVE BufOK'
    BY <1>0, <2>5 DEF WrapperRunsHooks, EndStream, ShortRunsHooks
  <2>6. CASE WrapperSendsDone \/ ShortSendsDone
    BY <2>6, PutOutput DEF WrapperSendsDone, ShortSendsDone, Done
  <2>7. CASE ShortSendsDelta
    BY <2>7, PutOutput DEF ShortSendsDelta
  <2>8. CASE WrapperCloses
    BY <1>0, <2>8 DEF WrapperCloses
  <2> QED
    BY <1>4, <2>1, <2>2, <2>3, <2>4, <2>5, <2>6, <2>7, <2>8 DEF Wrapper
<1>5. CASE Writer
  BY <1>0, <1>5, TakeOutput DEF Writer, SseWrites, SseEnds
<1>6. CASE Reader
  <2>1. CASE ReaderPasses
    BY <2>1, PutChunks DEF ReaderPasses, ReaderOK
  <2>2. ASSUME NEW why \in Sent, ReaderFails(why) PROVE BufOK'
    BY <2>2, PutFaults DEF ReaderFails
  <2>3. CASE ReaderReadsChunk \/ ReaderReadsOdd \/ ReaderReadsDone \/ ReaderAtEnd
             \/ ReaderClosesFaults \/ ReaderClosesChunks
    BY <1>0, <2>3 DEF ReaderReadsChunk, ReaderReadsOdd, ReaderReadsDone, ReaderAtEnd,
       ReaderClosesFaults, ReaderClosesChunks
  <2> QED
    BY <1>6, <2>1, <2>2, <2>3 DEF Reader, Sent
<1>7. CASE Adapter
  <2>1. CASE AdapterTakes
    BY <2>1, TakeChunks DEF AdapterTakes
  <2>2. CASE AdapterPasses
    BY <2>2, PutEvents DEF AdapterPasses, ReaderOK
  <2>3. ASSUME NEW c \in {"chunks", "faults"}, AdapterDrops(c) PROVE BufOK'
    BY <1>0, <2>3 DEF AdapterDrops
  <2>4. CASE AdapterEnds
    BY <1>0, <2>4 DEF AdapterEnds
  <2> QED
    BY <1>7, <2>1, <2>2, <2>3, <2>4, AdapterHearsErrorMoves DEF Adapter
<1> QED
  BY <1>0, <1>1, <1>2, <1>3, <1>4, <1>5, <1>6, <1>7, Steps

LEMMA DataNext ==
    ASSUME Typed, Roles, ChunksOrder, [UpNext]_allVars
    PROVE  DataOK'
<1> USE DEF callVars, provVars, fwdVars, wrapVars, chanVars, streamVars, vars, upVars
<1> USE StreamAssumption DEF StreamAssumption, Total, Done
<1>1. pos' \in 1..Attempts
  <2>1. ASSUME NEW why \in Causes, AttemptFails(why) PROVE pos' \in 1..Attempts
    BY <2>1 DEF AttemptFails, Typed, DataOK
  <2>2. CASE UNCHANGED pos
    BY <2>2 DEF Typed, DataOK
  <2>3. ASSUME ShortCircuit \/ Expire \/ \E k \in Kinds : Connect(k) PROVE UNCHANGED pos
    BY <2>3 DEF ShortCircuit, Expire, Connect
  <2> QED
    BY <2>1, <2>2, <2>3, Steps, SourceFrame, ForwarderFrame, WrapperFrame, WriterFrame,
       ReaderFrame, AdapterFrame DEF Call
<1>2. next' \in 1..(Total + 1)
  <2>1. CASE SourceSends
    BY <2>1 DEF SourceSends, Typed, DataOK
  <2>2. CASE AdapterPasses
    <3>1. carried # Done => next <= Chunks
      BY <2>2, WhoRuns DEF AdapterPasses, Typed, ChunksOrder, Drawn, Carries, ReaderOK
    <3> QED
      BY <2>2, <3>1 DEF AdapterPasses, Typed, DataOK
  <2>3. CASE UNCHANGED next
    BY <2>3 DEF Typed, DataOK
  <2>4. CASE Call
    BY <2>3, <2>4 DEF Call, AttemptFails, ShortCircuit, Expire, Connect
  <2>5. CASE Source
    BY <2>1, <2>3, <2>5 DEF Source, SourceFails, SourceClosesErrs, SourceClosesEvents
  <2>6. CASE Adapter
    BY <2>2, <2>3, <2>6 DEF Adapter, AdapterTakes, AdapterHearsError, AdapterDrops, AdapterEnds
  <2> QED
    BY <2>3, <2>4, <2>5, <2>6, Steps, ForwarderFrame, WrapperFrame, WriterFrame, ReaderFrame
<1>3. /\ held' \in Nat
      /\ heard' \in [deltas : Nat, err : {"none", "upstream", "context"}, done : BOOLEAN]
  <2> DEFINE Heard == [deltas : Nat, err : {"none", "upstream", "context"}, done : BOOLEAN]
  <2>1. held \in Nat /\ heard \in Heard /\ BufOK
    BY DEF Typed, DataOK
  <2>2. CASE WrapperTakes
    <3>1. held' \in Nat
      BY <2>1, <2>2, FirstOf DEF WrapperTakes
    <3>2. CASE held' = Done
      BY <2>1, <2>2, <3>1, <3>2 DEF WrapperTakes
    <3>3. CASE held' # Done
      BY <2>1, <2>2, <3>1, <3>3 DEF WrapperTakes
    <3> QED
      BY <3>2, <3>3
  <2>3. CASE WrapperHearsError
    <3>1. Head(buf["wrapped"]) \in Sent
      BY <2>1, <2>3, FirstOf DEF WrapperHearsError
    <3> QED
      BY <2>1, <2>3, <3>1 DEF WrapperHearsError, Sent
  <2>4. ASSUME NEW ok \in BOOLEAN, ShortRunsHooks(ok) PROVE held' \in Nat /\ heard' \in Heard
    BY <2>1, <2>4 DEF ShortRunsHooks
  <2>5. CASE UNCHANGED <<held, heard>>
    BY <2>1, <2>5
  <2>6. CASE Call
    BY <2>5, <2>6 DEF Call, AttemptFails, ShortCircuit, Expire, Connect
  <2>7. ASSUME WrapperCopies \/ WrapperSendsDone \/ WrapperCloses
               \/ ShortSendsDelta \/ ShortSendsDone
        PROVE  UNCHANGED <<held, heard>>
    BY <2>7 DEF WrapperCopies, WrapperSendsDone, WrapperCloses, ShortSendsDelta, ShortSendsDone
  <2>8. ASSUME \/ \E c \in {"events", "wrapped"} : WrapperDrops(c)
               \/ \E ok \in BOOLEAN : WrapperRunsHooks(ok)
        PROVE  UNCHANGED <<held, heard>>
    BY <2>8 DEF WrapperDrops, WrapperRunsHooks, EndStream
  <2>9. CASE Wrapper
    BY <2>2, <2>3, <2>4, <2>5, <2>7, <2>8, <2>9 DEF Wrapper
  <2> QED
    BY <2>5, <2>6, <2>9, Steps, SourceFrame, ForwarderFrame, WriterFrame, ReaderFrame,
       AdapterFrame
<1>4. wire' \in Seq(Nat)
  <2>1. wire \in Seq(Nat) /\ BufOK
    BY DEF Typed, DataOK
  <2>2. CASE SseWrites
    <3>1. Head(buf["output"]) \in Nat
      BY <2>1, <2>2, FirstOf DEF SseWrites
    <3> QED
      BY <2>1, <2>2, <3>1 DEF SseWrites
  <2>3. CASE Call
    BY <2>1, <2>3 DEF Call, AttemptFails, ShortCircuit, Expire, Connect
  <2>4. CASE SseEnds
    BY <2>1, <2>4 DEF SseEnds
  <2> QED
    BY <2>1, <2>2, <2>3, <2>4, Steps, SourceFrame, ForwarderFrame, WrapperFrame, ReaderFrame,
       AdapterFrame DEF Writer
<1> QED
  BY <1>1, <1>2, <1>3, <1>4 DEF DataOK

LEMMA ReaderNext ==
    ASSUME Typed, ChunksOrder, [UpNext]_allVars
    PROVE  ReaderOK'
<1> USE DEF callVars, provVars, fwdVars, wrapVars, chanVars, streamVars, vars, upVars, Typed
<1>1. CASE Reader
  <2>1. reader' \in {"reading", "passing", "passingDone", "closing", "leaving", "ended"}
    BY <1>1 DEF Reader, ReaderReadsChunk, ReaderReadsOdd, ReaderReadsDone, ReaderAtEnd,
       ReaderPasses, ReaderFails, ReaderClosesFaults, ReaderClosesChunks
  <2>2. line' \in Nat
    BY <1>1 DEF Reader, ReaderReadsChunk, ReaderReadsOdd, ReaderReadsDone, ReaderAtEnd,
       ReaderPasses, ReaderFails, ReaderClosesFaults, ReaderClosesChunks, ReaderOK, Done
  <2>3. CASE ReaderPasses
    BY <2>1, <2>2, <2>3, ReaderFrame, StreamAssumption, <1>1
       DEF ReaderPasses, ReaderOK, ChunksOrder, StreamAssumption, Done
  <2>4. CASE UNCHANGED fetched
    BY <1>1, <2>1, <2>2, <2>4, ReaderFrame DEF ReaderOK
  <2>5. ASSUME ReaderReadsChunk \/ ReaderReadsOdd \/ ReaderReadsDone \/ ReaderAtEnd
               \/ (\E why \in {"upstream", "context"} : ReaderFails(why))
               \/ ReaderClosesFaults \/ ReaderClosesChunks
        PROVE  UNCHANGED fetched
    BY <2>5 DEF ReaderReadsChunk, ReaderReadsOdd, ReaderReadsDone, ReaderAtEnd, ReaderFails,
       ReaderClosesFaults, ReaderClosesChunks
  <2> QED
    BY <1>1, <2>3, <2>4, <2>5 DEF Reader
<1>2. CASE Adapter
  <2>1. inputs' \subseteq inputs
    BY <1>2 DEF Adapter, AdapterTakes, AdapterPasses, AdapterHearsError, AdapterDrops,
       AdapterEnds
  <2>2. carried' \in Nat
    <3>1. CASE AdapterTakes
      BY <3>1, FirstOf DEF AdapterTakes
    <3>2. ASSUME ~AdapterTakes PROVE UNCHANGED carried
      BY <1>2, <3>2 DEF Adapter, AdapterPasses, AdapterHearsError, AdapterDrops, AdapterEnds
    <3> QED
      BY <3>1, <3>2 DEF ReaderOK
  <2> QED
    BY <1>2, <2>1, <2>2, AdapterFrame DEF ReaderOK
<1>3. CASE UNCHANGED upVars
  BY <1>3 DEF ReaderOK
<1> QED
  BY <1>1, <1>2, <1>3, Steps

LEMMA TypeNext ==
    ASSUME Typed, Roles, ChunksOrder, [UpNext]_allVars
    PROVE  Typed'
BY FlagsNext, PlacesNext, DataNext, ChannelsNext, ReaderNext DEF Typed

-----------------------------------------------------------------------------
(* Roles and closings *)

\* Only a stream that is there moves on.
LEMMA WhoMoves ==
    ASSUME PlacesOK, Roles
    PROVE  /\ Source => kind \in {"mock", "openai"} /\ src # "off"
           /\ Forwarder => rpc = "streaming" /\ ~short
           /\ Wrapper => rpc = "streaming"
           /\ Writer => rpc = "streaming"
           /\ Reader => kind = "openai"
           /\ Adapter => kind = "openai"
<1>1. Source => src # "off"
  BY DEF Source, SourceSends, SourceFails, SourceClosesErrs, SourceClosesEvents
<1>2. Forwarder => fwd # "off"
  BY DEF Forwarder, Forward, ForwardEnds, ForwarderCancels, ForwarderCloses
<1>3. Wrapper => wrp # "off"
  BY DEF Wrapper, WrapperTakes, WrapperCopies, WrapperHearsError, WrapperDrops,
     WrapperRunsHooks, EndStream, ShortRunsHooks, WrapperSendsDone, WrapperCloses,
     ShortSendsDelta, ShortSendsDone
<1>4. Writer => rpc = "streaming"
  BY DEF Writer, SseWrites, SseEnds, Roles, Fresh
<1>5. Reader => kind = "openai"
  BY WhoRuns DEF Reader, ReaderReadsChunk, ReaderReadsOdd, ReaderReadsDone, ReaderAtEnd,
     ReaderPasses, ReaderFails, ReaderClosesFaults, ReaderClosesChunks, Reads, Connected
<1>6. Adapter => src \in {"select", "passing"}
  BY DEF Adapter, AdapterTakes, AdapterPasses, AdapterHearsError, AdapterDrops, AdapterEnds
<1> QED
  BY <1>1, <1>2, <1>3, <1>4, <1>5, <1>6, WhoRuns

\* A step keeps the places that Roles gives the goroutines.
LEMMA RolesNext ==
    ASSUME Typed, Roles, [UpNext]_allVars
    PROVE  Roles'
<1> USE DEF callVars, provVars, fwdVars, wrapVars, chanVars
<1>1. CASE Call /\ UNCHANGED upVars
  <2>1. ASSUME NEW why \in Causes, AttemptFails(why) PROVE Roles'
    BY <1>1, <2>1 DEF AttemptFails, Roles, Fresh, UpFresh, upVars
  <2>2. CASE ShortCircuit
    BY <1>1, <2>2 DEF ShortCircuit, Roles, Fresh, UpFresh, upVars
  <2>3. CASE Expire
    BY <1>1, <2>3 DEF Expire, Roles, Fresh, UpFresh, upVars
  <2>4. ASSUME NEW k \in Kinds, Connect(k) PROVE Roles'
    <3>1. k \in {"mock", "openai"}
      BY StreamAssumption DEF StreamAssumption
    <3> QED
      BY <1>1, <2>4, <3>1 DEF Connect, Roles, Fresh, UpFresh, upVars
  <2> QED
    BY <1>1, <2>1, <2>2, <2>3, <2>4 DEF Call
<1>2. CASE Source /\ UNCHANGED upVars
  <2>1. src \in {"sending", "closing", "leaving"} /\ src' \in {src, "closing", "leaving", "ended"}
    BY <1>2 DEF Source, SourceSends, SourceFails, SourceClosesErrs, SourceClosesEvents
  <2>2. /\ UNCHANGED <<buf["chunks"], buf["faults"]>>
    BY <1>2, PutEvents, PutErrs, StreamAssumption DEF Source, SourceSends, SourceFails,
       SourceClosesErrs, SourceClosesEvents, Typed, Event, Total, Done, DataOK,
       StreamAssumption, Sent
  <2>3. rpc = "streaming" /\ ~short /\ kind \in {"mock", "openai"}
    BY <2>1, WhoRuns DEF Typed
  <2> QED
    BY <1>2, <2>1, <2>2, <2>3, SourceFrame DEF Roles, UpFresh, upVars
<1>3. CASE Forwarder /\ UNCHANGED upVars
  <2>1. fwd' # "off"
    BY <1>3 DEF Forwarder, Forward, ForwardEnds, ForwarderCancels, ForwarderCloses
  <2>2. UNCHANGED <<buf["chunks"], buf["faults"]>>
    BY <1>3, ForwardMoves DEF Forwarder, ForwardEnds, ForwarderCancels, ForwarderCloses, Typed
  <2>3. rpc = "streaming" /\ ~short
    BY <1>3, WhoMoves DEF Typed
  <2> QED
    BY <1>3, <2>1, <2>2, <2>3, ForwarderFrame DEF Roles, UpFresh, upVars
<1>4. CASE Wrapper /\ UNCHANGED upVars
  <2>1. /\ wrp \in {"select", "copying", "done"} =>
              wrp' \in {"select", "copying", "done", "closing", "ended"}
        /\ wrp \in {"shortHooks", "shortDelta", "shortDone"} =>
              wrp' \in {"shortHooks", "shortDelta", "shortDone", "closing", "ended"}
        /\ wrp \in {"closing", "ended"} => wrp' \in {"closing", "ended"}
    BY <1>4 DEF Wrapper, WrapperTakes, WrapperCopies, WrapperHearsError, WrapperDrops,
       WrapperRunsHooks, EndStream, ShortRunsHooks, WrapperSendsDone, WrapperCloses,
       ShortSendsDelta, ShortSendsDone
  <2>2. UNCHANGED <<buf["chunks"], buf["faults"]>>
    BY <1>4, TakeEvents, TakeWrapped, PutOutput DEF Wrapper, WrapperTakes, WrapperCopies,
       WrapperHearsError, WrapperDrops,
       WrapperRunsHooks, EndStream, ShortRunsHooks, WrapperSendsDone, WrapperCloses,
       ShortSendsDelta, ShortSendsDone, Typed, DataOK, Done
  <2>3. rpc = "streaming"
    BY <1>4, WhoMoves DEF Typed
  <2> QED
    BY <1>4, <2>1, <2>2, <2>3, WrapperFrame DEF Roles, UpFresh, upVars
<1>5. CASE Writer /\ UNCHANGED upVars
  <2>1. UNCHANGED <<buf["chunks"], buf["faults"]>>
    BY <1>5, TakeOutput DEF Writer, SseWrites, SseEnds, Typed
  <2>2. rpc = "streaming"
    BY <1>5, WhoMoves DEF Typed
  <2> QED
    BY <1>5, <2>1, <2>2, WriterFrame DEF Roles, UpFresh, upVars
<1>6. CASE Reader
  <2>1. kind = "openai" /\ rpc = "streaming" /\ ~short
    BY <1>6, WhoMoves, WhoRuns DEF Typed
  <2> QED
    BY <1>6, <2>1, ReaderFrame DEF Roles
<1>7. CASE Adapter
  <2>1. kind = "openai" /\ rpc = "streaming" /\ ~short
    BY <1>7, WhoMoves, WhoRuns DEF Typed
  <2>2. src' \in {"select", "passing", "closing"}
    BY <1>7 DEF Adapter, AdapterTakes, AdapterPasses, AdapterHearsError, AdapterDrops,
       AdapterEnds, streamVars, vars
  <2> QED
    BY <1>7, <2>1, <2>2, AdapterFrame DEF Roles
<1>8. CASE UNCHANGED <<vars, upVars>>
  BY <1>8 DEF vars, upVars, Roles, Fresh, UpFresh
<1> QED
  BY <1>1, <1>2, <1>3, <1>4, <1>5, <1>6, <1>7, <1>8, Steps

LEMMA ClosedByNext ==
    ASSUME PlacesOK, Roles, ClosedBy, [UpNext]_allVars
    PROVE  ClosedBy'
<1> USE DEF callVars, provVars, fwdVars, wrapVars, chanVars
<1>1. CASE Call /\ UNCHANGED upVars
  <2>1. ASSUME NEW why \in Causes, AttemptFails(why) PROVE ClosedBy'
    BY <1>1, <2>1 DEF AttemptFails, ClosedBy, upVars
  <2>2. CASE ShortCircuit
    BY <1>1, <2>2 DEF ShortCircuit, ClosedBy, upVars, Roles, Fresh
  <2>3. CASE Expire
    BY <1>1, <2>3 DEF Expire, ClosedBy, upVars
  <2>4. ASSUME NEW k \in Kinds, Connect(k) PROVE ClosedBy'
    BY <1>1, <2>4 DEF Connect, Roles, Fresh, ClosedBy, upVars
  <2> QED
    BY <1>1, <2>1, <2>2, <2>3, <2>4 DEF Call
<1>2. CASE Source /\ UNCHANGED upVars
  <2>1. CASE SourceSends
    BY <1>2, <2>1 DEF SourceSends, ClosedBy, upVars
  <2>2. ASSUME NEW why \in Sent, SourceFails(why) PROVE ClosedBy'
    BY <1>2, <2>2 DEF SourceFails, ClosedBy, upVars
  <2>3. CASE SourceClosesErrs
    BY <1>2, <2>3 DEF SourceClosesErrs, ClosedBy, upVars
  <2>4. CASE SourceClosesEvents
    BY <1>2, <2>4 DEF SourceClosesEvents, ClosedBy, upVars
  <2> QED
    BY <1>2, <2>1, <2>2, <2>3, <2>4 DEF Source, Sent
<1>3. CASE Forwarder /\ UNCHANGED upVars
  <2>1. CASE Forward \/ ForwardEnds \/ ForwarderCancels
    BY <1>3, <2>1 DEF Forward, ForwardEnds, ForwarderCancels, ClosedBy, upVars
  <2>2. CASE ForwarderCloses
    BY <1>3, <2>2 DEF ForwarderCloses, ClosedBy, upVars
  <2> QED
    BY <1>3, <2>1, <2>2 DEF Forwarder
<1>4. CASE Wrapper /\ UNCHANGED upVars
  <2>1. CASE WrapperCloses
    BY <1>4, <2>1 DEF WrapperCloses, ClosedBy, upVars
  <2>2. CASE ~WrapperCloses
    <3>1. UNCHANGED closed /\ wrp # "ended" /\ wrp' # "ended"
      BY <1>4, <2>2 DEF Wrapper, WrapperTakes, WrapperCopies, WrapperHearsError, WrapperDrops,
         WrapperRunsHooks, EndStream, ShortRunsHooks, WrapperSendsDone,
         ShortSendsDelta, ShortSendsDone
    <3> QED
      BY <1>4, <3>1, WrapperFrame DEF ClosedBy, upVars
  <2> QED
    BY <2>1, <2>2
<1>5. CASE Writer /\ UNCHANGED upVars
  BY <1>5, WriterFrame DEF ClosedBy, upVars
<1>6. CASE Reader
  <2>1. CASE ReaderClosesFaults
    BY <1>6, <2>1, ReaderFrame DEF ReaderClosesFaults, ClosedBy
  <2>2. CASE ReaderClosesChunks
    BY <1>6, <2>2, ReaderFrame DEF ReaderClosesChunks, ClosedBy
  <2>3. CASE ~(ReaderClosesFaults \/ ReaderClosesChunks)
    <3>1. /\ UNCHANGED closed
          /\ reader \notin {"leaving", "ended"} /\ reader' \notin {"leaving", "ended"}
      BY <1>6, <2>3 DEF Reader, ReaderReadsChunk, ReaderReadsOdd, ReaderReadsDone, ReaderAtEnd,
         ReaderPasses, ReaderFails, Reads, streamVars, vars
    <3> QED
      BY <1>6, <3>1, ReaderFrame DEF ClosedBy
  <2> QED
    BY <2>1, <2>2, <2>3
<1>7. CASE Adapter
  <2>1. /\ src \notin {"leaving", "ended"} /\ src' \notin {"leaving", "ended"}
    BY <1>7 DEF Adapter, AdapterTakes, AdapterPasses, AdapterHearsError, AdapterDrops,
       AdapterEnds, streamVars, vars
  <2> QED
    BY <1>7, <2>1, AdapterFrame DEF ClosedBy
<1>8. CASE UNCHANGED <<vars, upVars>>
  BY <1>8 DEF vars, upVars, ClosedBy
<1> QED
  BY <1>1, <1>2, <1>3, <1>4, <1>5, <1>6, <1>7, <1>8, Steps

\* A channel that is closed and empty remains so.
LEMMA EndedStays ==
    ASSUME Typed, Roles, ClosedBy, [UpNext]_allVars
    PROVE  /\ Ended("events") => Ended("events")'
           /\ Ended("wrapped") => Ended("wrapped")'
           /\ Ended("chunks") => Ended("chunks")'
           /\ Ended("faults") => Ended("faults")'
<1> USE DEF callVars, provVars, fwdVars, wrapVars, chanVars, Typed
<1> DEFINE Stays == /\ Ended("events") => Ended("events")'
                    /\ Ended("wrapped") => Ended("wrapped")'
                    /\ Ended("chunks") => Ended("chunks")'
                    /\ Ended("faults") => Ended("faults")'
<1>0. ASSUME UNCHANGED buf, closed \subseteq closed' PROVE Stays
  BY <1>0 DEF Ended
<1>1. CASE Call
  BY <1>0, <1>1 DEF Call, AttemptFails, ShortCircuit, Expire, Connect
<1>2. CASE Source
  <2>1. CASE SourceSends
    <3>1. Event(next) \in Nat
      BY StreamAssumption DEF StreamAssumption, DataOK, Event, Total, Done
    <3> QED
      BY <2>1, <3>1, PutEvents DEF SourceSends, ClosedBy, Ended
  <2>2. ASSUME NEW why \in Sent, SourceFails(why) PROVE Stays
    BY <2>2, PutErrs DEF SourceFails, Ended
  <2>3. CASE SourceClosesErrs \/ SourceClosesEvents
    BY <1>0, <2>3 DEF SourceClosesErrs, SourceClosesEvents
  <2> QED
    BY <1>2, <2>1, <2>2, <2>3 DEF Source, Sent
<1>3. CASE Forwarder
  <2>1. CASE Forward
    BY <2>1, ForwardMoves DEF Forward, ClosedBy, Ended
  <2> QED
    BY <1>0, <1>3, <2>1 DEF Forwarder, ForwardEnds, ForwarderCancels, ForwarderCloses
<1>4. CASE Wrapper
  <2>1. CASE WrapperTakes
    BY <2>1, TakeEvents DEF WrapperTakes, Ended, Ready
  <2>2. CASE WrapperHearsError
    BY <2>2, TakeWrapped DEF WrapperHearsError, Ended, Ready
  <2>3. CASE WrapperCopies
    BY <2>3, PutOutput DEF WrapperCopies, DataOK, Ended
  <2>4. CASE WrapperSendsDone \/ ShortSendsDone \/ ShortSendsDelta
    BY <2>4, PutOutput DEF WrapperSendsDone, ShortSendsDone, ShortSendsDelta, Done, Ended
  <2>5. ASSUME \/ \E c \in {"events", "wrapped"} : WrapperDrops(c)
               \/ \E ok \in BOOLEAN : WrapperRunsHooks(ok) \/ ShortRunsHooks(ok)
               \/ WrapperCloses
        PROVE  Stays
    BY <1>0, <2>5 DEF WrapperDrops, WrapperRunsHooks, EndStream, ShortRunsHooks, WrapperCloses
  <2> QED
    BY <1>4, <2>1, <2>2, <2>3, <2>4, <2>5 DEF Wrapper
<1>5. CASE Writer
  <2>1. CASE SseWrites
    BY <2>1, TakeOutput DEF SseWrites, Ended
  <2> QED
    BY <1>0, <1>5, <2>1 DEF Writer, SseEnds
<1>6. CASE Reader
  <2>1. CASE ReaderPasses
    BY <2>1, PutChunks DEF ReaderPasses, ReaderOK, ClosedBy, Ended
  <2>2. ASSUME NEW why \in Sent, ReaderFails(why) PROVE Stays
    BY <2>2, PutFaults DEF ReaderFails, Reads, ClosedBy, Ended
  <2>3. CASE ReaderReadsChunk \/ ReaderReadsOdd \/ ReaderReadsDone \/ ReaderAtEnd
             \/ ReaderClosesFaults \/ ReaderClosesChunks
    BY <1>0, <2>3 DEF ReaderReadsChunk, ReaderReadsOdd, ReaderReadsDone, ReaderAtEnd,
       ReaderClosesFaults, ReaderClosesChunks, streamVars, vars
  <2> QED
    BY <1>6, <2>1, <2>2, <2>3 DEF Reader, Sent
<1>7. CASE Adapter
  <2>1. CASE AdapterTakes
    BY <2>1, TakeChunks DEF AdapterTakes, Ended, Ready
  <2>2. CASE AdapterPasses
    BY <2>2, PutEvents DEF AdapterPasses, ReaderOK, ClosedBy, Ended
  <2>3. CASE AdapterHearsError
    BY <2>3, AdapterHearsErrorMoves DEF AdapterHearsError, Ended, Ready
  <2>4. ASSUME (\E c \in {"chunks", "faults"} : AdapterDrops(c)) \/ AdapterEnds PROVE Stays
    BY <1>0, <2>4 DEF AdapterDrops, AdapterEnds, streamVars, vars
  <2> QED
    BY <1>7, <2>1, <2>2, <2>3, <2>4 DEF Adapter
<1>8. CASE UNCHANGED <<vars, upVars>>
  BY <1>0, <1>8 DEF vars
<1> QED
  BY <1>1, <1>2, <1>3, <1>4, <1>5, <1>6, <1>7, <1>8, Steps

LEMMA LeftOutNext ==
    ASSUME Typed, Roles, ClosedBy, LeftOut, [UpNext]_allVars
    PROVE  LeftOut'
<1> USE DEF callVars, provVars, fwdVars, wrapVars, chanVars, Typed
<1>1. CASE UNCHANGED <<open, inputs, wrp, short>>
  BY <1>1, EndedStays DEF LeftOut
<1>2. CASE Call /\ UNCHANGED upVars
  <2>1. CASE Expire \/ \E why \in Causes : AttemptFails(why)
    BY <1>1, <1>2, <2>1 DEF Expire, AttemptFails, upVars
  <2>2. CASE ShortCircuit
    BY <1>2, <2>2, EndedStays DEF ShortCircuit, LeftOut, upVars
  <2>3. ASSUME NEW k \in Kinds, Connect(k) PROVE LeftOut'
    BY <1>2, <2>3, EndedStays DEF Connect, LeftOut, upVars
  <2> QED
    BY <1>2, <2>1, <2>2, <2>3 DEF Call
<1>3. CASE Wrapper /\ UNCHANGED upVars
  <2>1. ASSUME NEW c \in {"events", "wrapped"}, WrapperDrops(c) PROVE LeftOut'
    <3>1. Ended(c)' /\ wrp' = "select" /\ open' = open \ {c} /\ UNCHANGED inputs
      BY <1>3, <2>1 DEF WrapperDrops, Ended, upVars
    <3> QED
      BY <3>1, EndedStays DEF LeftOut
  <2>2. CASE UNCHANGED <<open, inputs, short>> /\ (wrp' \in {"done", "closing", "ended"} /\ ~short =>
                     open = {} \/ wrp \in {"done", "closing"})
    BY <2>2, EndedStays DEF LeftOut
  <2>3. CASE WrapperTakes \/ WrapperCopies \/ WrapperHearsError \/ WrapperSendsDone
             \/ WrapperCloses
    <3>1. /\ UNCHANGED <<open, inputs, short>>
          /\ wrp' \in {"done", "closing", "ended"} => wrp \in {"done", "closing"}
      BY <1>3, <2>3 DEF WrapperTakes, WrapperCopies, WrapperHearsError, WrapperSendsDone,
         WrapperCloses, upVars
    <3> QED
      BY <2>2, <3>1
  <2>4. ASSUME NEW ok \in BOOLEAN, WrapperRunsHooks(ok) PROVE LeftOut'
    <3>1. UNCHANGED <<open, inputs, short>> /\ open = {}
      BY <1>3, <2>4 DEF WrapperRunsHooks, EndStream, upVars
    <3> QED
      BY <2>2, <3>1
  <2>5. CASE ShortSendsDelta \/ ShortSendsDone \/ \E ok \in BOOLEAN : ShortRunsHooks(ok)
    <3>1. UNCHANGED <<open, inputs, short>> /\ short
      BY <1>3, <2>5, WhoRuns DEF ShortSendsDelta, ShortSendsDone, ShortRunsHooks, upVars
    <3> QED
      BY <2>2, <3>1
  <2> QED
    BY <1>3, <2>1, <2>3, <2>4, <2>5 DEF Wrapper
<1>4. CASE Adapter
  <2>1. ASSUME NEW c \in {"chunks", "faults"}, AdapterDrops(c) PROVE LeftOut'
    <3>1. Ended(c)' /\ inputs' = inputs \ {c} /\ UNCHANGED <<open, wrp, short>>
      BY <2>1 DEF AdapterDrops, Ended, streamVars, vars
    <3> QED
      BY <3>1, EndedStays DEF LeftOut
  <2>2. ASSUME AdapterTakes \/ AdapterPasses \/ AdapterHearsError \/ AdapterEnds
        PROVE  UNCHANGED inputs
    BY <2>2 DEF AdapterTakes, AdapterPasses, AdapterHearsError, AdapterEnds, upVars
  <2> QED
    BY <1>1, <1>4, <2>1, <2>2, AdapterFrame DEF Adapter
<1>5. CASE (Source \/ Forwarder \/ Writer) /\ UNCHANGED upVars
  BY <1>1, <1>5, SourceFrame, ForwarderFrame, WriterFrame DEF upVars
<1>6. CASE Reader
  BY <1>1, <1>6, ReaderFrame
<1>7. CASE UNCHANGED <<vars, upVars>>
  BY <1>1, <1>7 DEF vars, upVars
<1> QED
  BY <1>2, <1>3, <1>4, <1>5, <1>6, <1>7, Steps

LEMMA HookedOnceNext ==
    ASSUME Typed, Roles, HookedOnce, [UpNext]_allVars
    PROVE  HookedOnce'
<1> USE DEF callVars, provVars, fwdVars, wrapVars, chanVars
<1>1. CASE UNCHANGED <<wrp, heard, hooked>>
  BY <1>1 DEF HookedOnce
<1>2. CASE Call
  <2>1. CASE Expire \/ \E why \in Causes : AttemptFails(why)
    BY <1>1, <2>1 DEF Expire, AttemptFails
  <2>2. CASE ShortCircuit \/ \E k \in Kinds : Connect(k)
    BY <2>2 DEF ShortCircuit, Connect, Roles, Fresh, HookedOnce
  <2> QED
    BY <1>2, <2>1, <2>2 DEF Call
<1>3. CASE Wrapper
  <2>1. CASE WrapperTakes \/ WrapperCopies \/ WrapperHearsError
    BY <2>1 DEF WrapperTakes, WrapperCopies, WrapperHearsError, HookedOnce
  <2>2. CASE WrapperSendsDone \/ WrapperCloses \/ ShortSendsDelta \/ ShortSendsDone
    BY <2>2 DEF WrapperSendsDone, WrapperCloses, ShortSendsDelta, ShortSendsDone, HookedOnce
  <2>3. ASSUME NEW ok \in BOOLEAN, WrapperRunsHooks(ok) PROVE HookedOnce'
    <3>1. hooked = <<>> /\ hooked' = <<heard>> /\ heard' = heard /\ wrp' \in {"done", "closing"}
      BY <2>3 DEF WrapperRunsHooks, EndStream, HookedOnce
    <3> QED
      BY <3>1 DEF HookedOnce
  <2>4. ASSUME NEW ok \in BOOLEAN, ShortRunsHooks(ok) PROVE HookedOnce'
    <3>1. hooked = <<>> /\ hooked' = <<heard'>> /\ wrp' \in {"shortDelta", "closing"}
      BY <2>4 DEF ShortRunsHooks, HookedOnce
    <3> QED
      BY <3>1 DEF HookedOnce
  <2>5. CASE \E c \in {"events", "wrapped"} : WrapperDrops(c)
    BY <1>1, <2>5 DEF WrapperDrops
  <2> QED
    BY <1>3, <2>1, <2>2, <2>3, <2>4, <2>5 DEF Wrapper
<1> QED
  BY <1>1, <1>2, <1>3, Steps, SourceFrame, ForwarderFrame, WriterFrame, ReaderFrame,
     AdapterFrame DEF vars

-----------------------------------------------------------------------------
(* Errors *)

LEMMA ItemsMove ==
    ASSUME NEW s \in Seq(Sent)
    PROVE  /\ \A v \in Sent : Items(Append(s, v)) = Items(s) \cup {v}
           /\ s # <<>> => Items(Tail(s)) \subseteq Items(s) /\ Head(s) \in Items(s)
<1>1. ASSUME NEW v \in Sent PROVE Items(Append(s, v)) = Items(s) \cup {v}
  <2>1. /\ Len(Append(s, v)) = Len(s) + 1 /\ Append(s, v)[Len(s) + 1] = v
        /\ \A i \in 1..Len(s) : Append(s, v)[i] = s[i]
    OBVIOUS
  <2> QED
    BY <2>1 DEF Items
<1>2. ASSUME s # <<>> PROVE Items(Tail(s)) \subseteq Items(s) /\ Head(s) \in Items(s)
  <2>1. /\ Len(s) \in Nat \ {0} /\ Head(s) = s[1] /\ Len(Tail(s)) = Len(s) - 1
        /\ \A i \in 1..Len(Tail(s)) : Tail(s)[i] = s[i + 1]
    BY <1>2
  <2> QED
    BY <2>1 DEF Items
<1> QED
  BY <1>1, <1>2

\* An error channel holds one error, and is empty when that is received.
LEMMA OnlyOne ==
    ASSUME NEW s \in Seq(Sent), Len(s) <= 1, s # <<>>
    PROVE  Tail(s) = <<>>
<1>1. \A t \in Seq(Sent) : Len(t) = 0 => t = <<>>
  OBVIOUS
<1>2. Len(s) \in Nat \ {0} /\ Tail(s) \in Seq(Sent) /\ Len(Tail(s)) = Len(s) - 1
  OBVIOUS
<1>3. Len(Tail(s)) = 0
  BY <1>2
<1> QED
  BY <1>1, <1>2, <1>3, Zenon

LEMMA FirstOne ==
    ASSUME NEW v \in Sent
    PROVE  Len(Append(<<>>, v)) = 1
OBVIOUS

LEMMA ErrorPlacesNext ==
    ASSUME Typed, Roles, ClosedBy, ErrorPlaces, [UpNext]_allVars
    PROVE  ErrorPlaces'
<1> USE DEF callVars, provVars, fwdVars, wrapVars, chanVars, Typed, Producing
<1>1. CASE Call /\ UNCHANGED upVars
  <2>1. ASSUME NEW why \in Causes, AttemptFails(why) PROVE ErrorPlaces'
    BY <1>1, <2>1 DEF AttemptFails, ErrorPlaces, upVars
  <2>2. CASE ShortCircuit
    BY <1>1, <2>2 DEF ShortCircuit, ErrorPlaces, upVars
  <2>3. CASE Expire
    BY <1>1, <2>3 DEF Expire, ErrorPlaces, upVars
  <2>4. ASSUME NEW k \in Kinds, Connect(k) PROVE ErrorPlaces'
    BY <1>1, <2>4 DEF Connect, Roles, Fresh, ErrorPlaces, upVars, Channels
  <2> QED
    BY <1>1, <2>1, <2>2, <2>3, <2>4 DEF Call
<1>2. CASE Source /\ UNCHANGED upVars
  <2>1. CASE SourceSends
    <3>1. Event(next) \in Nat
      BY StreamAssumption DEF StreamAssumption, DataOK, Event, Total, Done
    <3> QED
      BY <1>2, <2>1, <3>1, PutEvents DEF SourceSends, ErrorPlaces, upVars
  <2>2. ASSUME NEW why \in Sent, SourceFails(why) PROVE ErrorPlaces'
    <3>1. buf["errs"] = <<>> /\ Len(buf'["errs"]) = 1 /\ fwd \in {"off", "reading"}
      BY <2>2, PutErrs, FirstOne DEF SourceFails, ErrorPlaces
    <3> QED
      BY <1>2, <2>2, <3>1, PutErrs DEF SourceFails, ErrorPlaces, upVars
  <2>3. CASE SourceClosesErrs
    BY <1>2, <2>3 DEF SourceClosesErrs, ErrorPlaces, upVars
  <2>4. CASE SourceClosesEvents
    BY <1>2, <2>4 DEF SourceClosesEvents, ErrorPlaces, upVars
  <2> QED
    BY <1>2, <2>1, <2>2, <2>3, <2>4 DEF Source, Sent
<1>3. CASE Forwarder /\ UNCHANGED upVars
  <2>1. CASE Forward
    <3>1. buf'["errs"] = <<>> /\ src \notin Producing
      BY <2>1, ForwardMoves, OnlyOne DEF Forward, ErrorPlaces, Ready, BufOK
    <3> QED
      BY <1>3, <2>1, <3>1, ForwardMoves DEF Forward, ErrorPlaces, upVars
  <2>2. CASE ForwardEnds
    BY <1>3, <2>2 DEF ForwardEnds, ClosedBy, Ended, ErrorPlaces, upVars
  <2>3. CASE ForwarderCancels \/ ForwarderCloses
    BY <1>3, <2>3 DEF ForwarderCancels, ForwarderCloses, ErrorPlaces, upVars
  <2> QED
    BY <1>3, <2>1, <2>2, <2>3 DEF Forwarder
<1>4. CASE Wrapper /\ UNCHANGED upVars
  <2>1. /\ UNCHANGED <<buf["errs"], buf["faults"]>>
        /\ WrapperHearsError \/ (heard'.err = heard.err /\ UNCHANGED buf["wrapped"])
    <3>1. CASE WrapperTakes
      <4>1. heard'.err = heard.err
        BY <3>1 DEF WrapperTakes, DataOK
      <4> QED
        BY <3>1, <4>1, TakeEvents DEF WrapperTakes
    <3>2. CASE WrapperHearsError
      BY <3>2, TakeWrapped DEF WrapperHearsError
    <3>3. CASE WrapperCopies
      BY <3>3, PutOutput DEF WrapperCopies, DataOK
    <3>4. CASE WrapperSendsDone \/ ShortSendsDone \/ ShortSendsDelta
      BY <3>4, PutOutput DEF WrapperSendsDone, ShortSendsDone, ShortSendsDelta, Done
    <3>5. CASE WrapperCloses \/ \E c \in {"events", "wrapped"} : WrapperDrops(c)
      BY <3>5 DEF WrapperCloses, WrapperDrops
    <3>6. ASSUME NEW ok \in BOOLEAN, WrapperRunsHooks(ok) \/ ShortRunsHooks(ok)
          PROVE  heard'.err = heard.err /\ UNCHANGED buf
      BY <3>6 DEF WrapperRunsHooks, EndStream, ShortRunsHooks, DataOK
    <3> QED
      BY <1>4, <3>1, <3>2, <3>3, <3>4, <3>5, <3>6 DEF Wrapper
  <2>2. ASSUME WrapperHearsError PROVE fwd \notin {"off", "reading"}
    BY <2>2 DEF WrapperHearsError, Ready, ErrorPlaces
  <2> QED
    BY <1>4, <2>1, <2>2, WrapperFrame DEF ErrorPlaces, upVars
<1>5. CASE Writer /\ UNCHANGED upVars
  <2>1. UNCHANGED <<buf["errs"], buf["faults"], buf["wrapped"]>>
    BY <1>5, TakeOutput DEF Writer, SseWrites, SseEnds
  <2> QED
    BY <1>5, <2>1, WriterFrame DEF ErrorPlaces, upVars
<1>6. CASE Reader
  <2>1. CASE ReaderPasses
    BY <1>6, <2>1, PutChunks, ReaderFrame DEF ReaderPasses, ReaderOK, ErrorPlaces
  <2>2. ASSUME NEW why \in Sent, ReaderFails(why) PROVE ErrorPlaces'
    <3>1. buf["faults"] = <<>> /\ Len(buf'["faults"]) = 1 /\ reader' = "closing"
      BY <2>2, PutFaults, FirstOne DEF ReaderFails, Reads, ErrorPlaces
    <3> QED
      BY <1>6, <2>2, <3>1, PutFaults, ReaderFrame DEF ReaderFails, ErrorPlaces
  <2>3. CASE ReaderReadsChunk \/ ReaderReadsOdd \/ ReaderReadsDone \/ ReaderAtEnd
             \/ ReaderClosesFaults \/ ReaderClosesChunks
    <3>1. /\ UNCHANGED buf
          /\ \/ reader \in {"reading", "passing", "passingDone"}
             \/ reader' \notin {"reading", "passing", "passingDone"}
      BY <2>3 DEF ReaderReadsChunk, ReaderReadsOdd, ReaderReadsDone, ReaderAtEnd,
         ReaderClosesFaults, ReaderClosesChunks, Reads, streamVars, vars
    <3> QED
      BY <1>6, <3>1, ReaderFrame DEF ErrorPlaces
  <2> QED
    BY <1>6, <2>1, <2>2, <2>3 DEF Reader, Sent
<1>7. CASE Adapter
  <2>1. CASE AdapterTakes
    BY <1>7, <2>1, TakeChunks, AdapterFrame DEF AdapterTakes, ErrorPlaces
  <2>2. CASE AdapterPasses
    BY <1>7, <2>2, PutEvents, AdapterFrame DEF AdapterPasses, ReaderOK, ErrorPlaces
  <2>3. CASE AdapterHearsError
    <3>1. /\ buf["errs"] = <<>> /\ Len(buf'["errs"]) = 1 /\ fwd \in {"off", "reading"}
          /\ buf'["faults"] = <<>> /\ src' = "closing"
      <4>1. Ready("faults") /\ src = "select"
        BY <2>3 DEF AdapterHearsError
      <4>2. Head(buf["faults"]) \in Sent
        BY <4>1, FirstOf
      <4>3. Tail(buf["faults"]) = <<>>
        BY <4>1, OnlyOne DEF Ready, BufOK, ErrorPlaces
      <4> QED
        BY <2>3, <4>1, <4>2, <4>3, AdapterHearsErrorMoves, FirstOne DEF AdapterHearsError, ErrorPlaces
    <3> QED
      BY <1>7, <3>1, AdapterHearsErrorMoves, AdapterFrame, <2>3 DEF ErrorPlaces
  <2>4. CASE AdapterEnds \/ \E c \in {"chunks", "faults"} : AdapterDrops(c)
    <3>1. UNCHANGED buf /\ (src' = src \/ src' = "closing") /\ src = "select"
      BY <2>4 DEF AdapterEnds, AdapterDrops, streamVars, vars
    <3> QED
      BY <1>7, <3>1, AdapterFrame DEF ErrorPlaces
  <2> QED
    BY <1>7, <2>1, <2>2, <2>3, <2>4 DEF Adapter
<1>8. CASE UNCHANGED <<vars, upVars>>
  BY <1>8 DEF vars, upVars, ErrorPlaces
<1> QED
  BY <1>1, <1>2, <1>3, <1>4, <1>5, <1>6, <1>7, <1>8, Steps

\* The steps that make an error or pass it on; the others leave it where it is.
LEMMA ErrorsKept ==
    ASSUME Typed, [UpNext]_allVars
    PROVE  \/ \E why \in Sent : SourceFails(why) \/ ReaderFails(why)
           \/ Forward \/ WrapperHearsError \/ AdapterHearsError
           \/ UNCHANGED <<buf["errs"], buf["wrapped"], buf["faults"], heard.err>>
<1> USE DEF callVars, provVars, fwdVars, wrapVars, chanVars, Typed
<1> DEFINE Kept == UNCHANGED <<buf["errs"], buf["wrapped"], buf["faults"], heard.err>>
<1>1. ASSUME UNCHANGED <<buf, heard>> PROVE Kept
  BY <1>1
<1>2. CASE Call
  BY <1>1, <1>2 DEF Call, AttemptFails, ShortCircuit, Expire, Connect
<1>3. CASE SourceSends
  <2>1. Event(next) \in Nat
    BY StreamAssumption DEF StreamAssumption, DataOK, Event, Total, Done
  <2> QED
    BY <1>3, <2>1, PutEvents DEF SourceSends
<1>4. CASE SourceClosesErrs \/ SourceClosesEvents
  BY <1>1, <1>4 DEF SourceClosesErrs, SourceClosesEvents
<1>5. CASE ForwardEnds \/ ForwarderCancels \/ ForwarderCloses
  BY <1>1, <1>5 DEF ForwardEnds, ForwarderCancels, ForwarderCloses
<1>6. CASE WrapperTakes
  <2>1. heard'.err = heard.err
    BY <1>6 DEF WrapperTakes, DataOK
  <2> QED
    BY <1>6, <2>1, TakeEvents DEF WrapperTakes
<1>7. CASE WrapperCopies
  BY <1>7, PutOutput DEF WrapperCopies, DataOK
<1>8. CASE WrapperSendsDone \/ ShortSendsDone \/ ShortSendsDelta
  BY <1>8, PutOutput DEF WrapperSendsDone, ShortSendsDone, ShortSendsDelta, Done
<1>9. ASSUME \/ WrapperCloses
             \/ \E c \in {"events", "wrapped"} : WrapperDrops(c)
             \/ \E ok \in BOOLEAN : WrapperRunsHooks(ok)
      PROVE  Kept
  BY <1>1, <1>9 DEF WrapperCloses, WrapperDrops, WrapperRunsHooks, EndStream
<1>10. CASE \E ok \in BOOLEAN : ShortRunsHooks(ok)
  BY <1>10 DEF ShortRunsHooks, DataOK
<1>11. CASE Writer
  BY <1>1, <1>11, TakeOutput DEF Writer, SseWrites, SseEnds
<1>12. CASE ReaderPasses
  BY <1>12, PutChunks DEF ReaderPasses, ReaderOK, readerFrame
<1>13. CASE ReaderReadsChunk \/ ReaderReadsOdd \/ ReaderReadsDone \/ ReaderAtEnd
  BY <1>1, <1>13 DEF ReaderReadsChunk, ReaderReadsOdd, ReaderReadsDone, ReaderAtEnd,
     streamVars, vars
<1>14. CASE ReaderClosesFaults \/ ReaderClosesChunks
  BY <1>1, <1>14 DEF ReaderClosesFaults, ReaderClosesChunks, readerFrame
<1>15. CASE AdapterTakes
  BY <1>15, TakeChunks DEF AdapterTakes
<1>16. CASE AdapterPasses
  BY <1>16, PutEvents DEF AdapterPasses, ReaderOK
<1>17. CASE AdapterEnds \/ \E c \in {"chunks", "faults"} : AdapterDrops(c)
  BY <1>1, <1>17 DEF AdapterEnds, AdapterDrops, streamVars, vars
<1>18. CASE UNCHANGED <<vars, upVars>>
  BY <1>1, <1>18 DEF vars
<1>19. CASE Source
  BY <1>3, <1>4, <1>19 DEF Source, Sent
<1>20. CASE Forwarder
  BY <1>5, <1>20 DEF Forwarder
<1>21. CASE Wrapper
  BY <1>6, <1>7, <1>8, <1>9, <1>10, <1>21, Zenon DEF Wrapper
<1>22. CASE Reader
  BY <1>12, <1>13, <1>14, <1>22 DEF Reader, Sent
<1>23. CASE Adapter
  BY <1>15, <1>16, <1>17, <1>23 DEF Adapter
<1> QED
  BY <1>2, <1>11, <1>18, <1>19, <1>20, <1>21, <1>22, <1>23, Steps, Zenon

\* An error is not forgotten.
LEMMA FailedStays ==
    ASSUME Typed, [UpNext]_allVars
    PROVE  Failed => Failed'
<1> USE DEF Typed, Failed
<1>1. ASSUME NEW why \in Sent, SourceFails(why), Failed PROVE Failed'
  <2>1. heard' = heard
    BY <1>1 DEF SourceFails, wrapVars
  <2>2. buf'["errs"] # <<>>
    BY <1>1, PutErrs DEF SourceFails, BufOK
  <2> QED
    BY <2>1, <2>2
<1>2. ASSUME NEW why \in Sent, ReaderFails(why), Failed PROVE Failed'
  BY <1>2, PutFaults DEF ReaderFails, readerFrame, wrapVars
<1>3. ASSUME Forward PROVE Failed'
  <2>1. Head(buf["errs"]) \in Sent
    BY <1>3, FirstOf DEF Forward
  <2>2. buf'["wrapped"] # <<>>
    BY <1>3, <2>1, ForwardMoves DEF BufOK
  <2> QED
    BY <2>2
<1>4. ASSUME WrapperHearsError PROVE Failed'
  <2>1. Head(buf["wrapped"]) \in Sent
    BY <1>4, FirstOf DEF WrapperHearsError
  <2>2. heard'.err \in Sent
    BY <1>4, <2>1 DEF WrapperHearsError, DataOK
  <2> QED
    BY <2>2 DEF Sent
<1>5. ASSUME AdapterHearsError PROVE Failed'
  <2>1. Head(buf["faults"]) \in Sent
    BY <1>5, FirstOf DEF AdapterHearsError
  <2>2. buf'["errs"] # <<>>
    BY <1>5, <2>1, AdapterHearsErrorMoves DEF BufOK
  <2> QED
    BY <2>2
<1> QED
  BY <1>1, <1>2, <1>3, <1>4, <1>5, ErrorsKept

LEMMA ExplainedNext ==
    ASSUME Typed, Roles, ClosedBy, LeftOut, ErrorPlaces, Explained, [UpNext]_allVars
    PROVE  Explained'
<1> USE DEF callVars, provVars, fwdVars, wrapVars, chanVars, Typed
<1> DEFINE Stopped == src \in {"closing", "leaving", "ended"}
           Behind == reader \in {"closing", "leaving", "ended"}
\* The three facts an error or the end of the answer can disturb.
<1>1. Stopped' => /\ kind' = "mock" => Failed' \/ next' > Total
                  /\ kind' = "openai" => Behind'
                  /\ kind' = "openai" /\ ~Failed' => inputs' = {}
  <2>1. CASE Stopped /\ src' # "off" /\ kind' = kind /\ next' = next
    <3>1. Behind => Behind'
      <4>1. CASE Reader
        BY <4>1 DEF Reader, ReaderReadsChunk, ReaderReadsOdd, ReaderReadsDone, ReaderAtEnd,
           ReaderPasses, ReaderFails, ReaderClosesFaults, ReaderClosesChunks, Reads
      <4> QED
        BY <4>1, Steps, AdapterFrame DEF upVars
    <3>2. inputs = {} => inputs' = {}
      <4>1. CASE Adapter
        BY <4>1 DEF Adapter, AdapterTakes, AdapterPasses, AdapterHearsError, AdapterDrops,
           AdapterEnds, upVars
      <4> QED
        BY <4>1, Steps, ReaderFrame DEF upVars
    <3> QED
      BY <2>1, <3>1, <3>2, FailedStays DEF Explained
  <2>2. CASE Call /\ ~Stopped
    BY <2>2 DEF Call, AttemptFails, ShortCircuit, Expire, Connect
  <2>3. CASE Source /\ ~Stopped
    <3>1. src = "sending" /\ kind = "mock" /\ kind' = "mock"
      BY <2>3, WhoRuns, SourceFrame DEF Source, SourceSends, SourceFails, SourceClosesErrs,
         SourceClosesEvents
    <3>2. ASSUME NEW why \in Sent, SourceFails(why) PROVE Failed'
      BY <3>2, PutErrs DEF SourceFails, BufOK, Failed
    <3>3. ASSUME SourceClosesErrs PROVE next' > Total
      BY <2>3, <3>3 DEF SourceClosesErrs
    <3>4. ~SourceClosesEvents
      BY <3>1 DEF SourceClosesEvents
    <3>5. SourceSends => ~Stopped'
      BY <2>3 DEF SourceSends
    <3> QED
      BY <2>3, <3>1, <3>2, <3>3, <3>4, <3>5 DEF Source, Sent
  <2>4. CASE Adapter /\ ~Stopped
    <3>1. kind = "openai" /\ kind' = "openai" /\ UNCHANGED reader
      BY <2>4, WhoMoves, AdapterFrame
    <3>2. CASE AdapterHearsError
      <4>1. Behind
        BY <3>2 DEF AdapterHearsError, Ready, ErrorPlaces, ReaderOK
      <4>2. Failed'
        <5>1. Head(buf["faults"]) \in Sent
          BY <3>2, FirstOf DEF AdapterHearsError
        <5> QED
          BY <3>2, <5>1, AdapterHearsErrorMoves DEF BufOK, Failed
      <4> QED
        BY <3>1, <4>1, <4>2
    <3>3. CASE AdapterEnds
      <4>1. inputs' = {} /\ Behind
        BY <3>3 DEF AdapterEnds, LeftOut, Ended, ClosedBy, upVars
      <4> QED
        BY <3>1, <4>1
    <3>4. ASSUME ~AdapterHearsError, ~AdapterEnds PROVE ~Stopped'
      BY <2>4, <3>4 DEF Adapter, AdapterTakes, AdapterPasses, AdapterDrops, streamVars, vars
    <3> QED
      BY <3>2, <3>3, <3>4
  <2>5. CASE UNCHANGED <<src, kind, next>>
    BY <2>1, <2>5
  <2>6. CASE Call /\ Stopped
    <3>1. rpc = "streaming"
      BY <2>6, WhoRuns
    <3> QED
      BY <2>5, <2>6, <3>1 DEF Call, AttemptFails, ShortCircuit, Expire, Connect
  <2>7. CASE Source /\ Stopped
    <3>1. next' = next /\ src' # "off"
      BY <2>7 DEF Source, SourceSends, SourceFails, SourceClosesErrs, SourceClosesEvents
    <3> QED
      BY <2>1, <2>7, <3>1, SourceFrame
  <2>8. CASE Adapter /\ Stopped
    BY <2>8 DEF Adapter, AdapterTakes, AdapterPasses, AdapterHearsError, AdapterDrops,
       AdapterEnds
  <2> QED
    BY <2>2, <2>3, <2>4, <2>5, <2>6, <2>7, <2>8, Steps, ForwarderFrame, WrapperFrame,
       WriterFrame, ReaderFrame DEF vars
\* At the end of the answer of a mock there is no error, and none comes.
<1>2. kind' = "mock" /\ next' > Total => Unfailed'
  <2>1. CASE Call
    <3>1. CASE UNCHANGED <<kind, next, buf, heard>>
      BY <3>1 DEF Explained, Unfailed, Failed
    <3>2. ASSUME NEW k \in Kinds, Connect(k) PROVE next' <= Total
      BY <3>2, StreamAssumption DEF Connect, Roles, Fresh, StreamAssumption, Total
    <3> QED
      BY <2>1, <3>1, <3>2, StreamAssumption DEF Call, AttemptFails, ShortCircuit, Expire,
         Total, StreamAssumption, DataOK, Connect
  <2>2. ASSUME NEW why \in Sent, SourceFails(why) PROVE next' <= Total
    BY <2>2, StreamAssumption DEF SourceFails, Total, StreamAssumption, DataOK
  <2>3. ASSUME kind = "mock"
        PROVE  ~AdapterHearsError /\ \A why \in Sent : ~ReaderFails(why)
    BY <2>3, WhoRuns DEF AdapterHearsError, ReaderFails, Reads, Connected
  <2>4. ASSUME kind = "mock", next > Total PROVE ~Forward /\ ~WrapperHearsError
    BY <2>4 DEF Explained, Unfailed, Failed, Forward, WrapperHearsError, Ready
  <2>5. ASSUME UNCHANGED <<kind, next>>, kind = "mock", next > Total PROVE Unfailed'
    <3>1. ASSUME NEW why \in Sent, SourceFails(why) PROVE FALSE
      BY <2>2, <2>5, <3>1, StreamAssumption DEF Total, StreamAssumption, DataOK
    <3>2. UNCHANGED <<buf["errs"], buf["wrapped"], buf["faults"], heard.err>>
      BY <2>3, <2>4, <2>5, <3>1, ErrorsKept
    <3> QED
      BY <2>5, <3>2 DEF Explained, Unfailed, Failed
  <2>6. CASE SourceSends
    <3>1. kind = "mock" /\ Unfailed
      BY <2>6, WhoRuns DEF SourceSends, ErrorPlaces, Producing, Roles, UpFresh, Unfailed, Failed
    <3>2. Event(next) \in Nat
      BY StreamAssumption DEF StreamAssumption, DataOK, Event, Total, Done
    <3> QED
      BY <2>6, <3>1, <3>2, PutEvents DEF SourceSends, Unfailed, Failed
  <2>7. CASE Source /\ ~SourceSends
    BY <2>5, <2>7 DEF Source, SourceFails, SourceClosesErrs, SourceClosesEvents
  <2>8. CASE Adapter
    BY <2>8, WhoMoves, AdapterFrame
  <2> QED
    BY <2>1, <2>5, <2>6, <2>7, <2>8, Steps, ForwarderFrame, WrapperFrame, WriterFrame,
       ReaderFrame DEF vars
<1> QED
  BY <1>1, <1>2 DEF Explained

LEMMA TimelyNext ==
    ASSUME Typed, Roles, ErrorPlaces, Explained, Timely, [UpNext]_allVars
    PROVE  Timely'
<1> USE DEF callVars, provVars, fwdVars, wrapVars, chanVars, Typed
<1> DEFINE Out == Items(buf["faults"]) \cup Items(buf["errs"]) \cup Items(buf["wrapped"])
                     \cup {heard.err}
<1>1. ctxDone' /\ ~expired' => fwd' \in {"closing", "ended"}
  <2>1. CASE Call
    <3>1. rpc # "streaming" => ~ctxDone
      BY DEF Roles, Fresh
    <3> QED
      BY <2>1, <3>1 DEF Call, AttemptFails, ShortCircuit, Expire, Connect, Timely
  <2>2. CASE Forwarder
    BY <2>2 DEF Forwarder, Forward, ForwardEnds, ForwarderCancels, ForwarderCloses, Timely
  <2>3. CASE UNCHANGED <<ctxDone, expired, fwd>>
    BY <2>3 DEF Timely
  <2> QED
    BY <2>1, <2>2, <2>3, Steps, SourceFrame, WrapperFrame, WriterFrame, ReaderFrame,
       AdapterFrame DEF vars
<1>2. expired => expired'
  BY Steps, SourceFrame, ForwarderFrame, WrapperFrame, WriterFrame, ReaderFrame, AdapterFrame
     DEF vars, Call, AttemptFails, ShortCircuit, Expire, Connect
<1>3. ctxDone /\ ~expired /\ kind = "openai" => reader # "reading"
  <2> SUFFICES ASSUME ctxDone, ~expired, kind = "openai" PROVE reader # "reading"
    OBVIOUS
  <2>1. src \notin {"select", "passing"}
    BY DEF Timely, ErrorPlaces, Producing
  <2>2. src \in {"closing", "leaving", "ended"}
    BY <2>1 DEF Roles
  <2> QED
    BY <2>2 DEF Explained
<1>4. "context" \in Out' => "context" \in Out \/ expired'
  <2> DEFINE Known == "context" \in Out' => "context" \in Out \/ expired'
  <2>1. ASSUME NEW why \in Sent, SourceFails(why) PROVE Known
    <3>1. /\ Items(buf'["errs"]) = Items(buf["errs"]) \cup {why}
          /\ UNCHANGED <<buf["wrapped"], buf["faults"], heard, expired>>
      BY <2>1, PutErrs, ItemsMove DEF SourceFails, BufOK
    <3>2. why = "context" => expired
      BY <2>1 DEF SourceFails, Timely, ErrorPlaces, Producing
    <3> QED
      BY <3>1, <3>2
  <2>2. ASSUME NEW why \in Sent, ReaderFails(why) PROVE Known
    <3>1. /\ Items(buf'["faults"]) = Items(buf["faults"]) \cup {why}
          /\ UNCHANGED <<buf["wrapped"], buf["errs"], heard, expired>>
      BY <2>2, PutFaults, ItemsMove DEF ReaderFails, BufOK, readerFrame
    <3>2. why = "context" => expired
      BY <2>2, <1>3 DEF ReaderFails, Reads, Connected
    <3> QED
      BY <3>1, <3>2
  <2>3. ASSUME Forward PROVE Known
    <3>1. buf["errs"] # <<>> /\ Head(buf["errs"]) \in Sent /\ UNCHANGED heard
      BY <2>3, FirstOf DEF Forward, Ready
    <3>2. /\ Items(buf'["errs"]) \subseteq Items(buf["errs"])
          /\ Items(buf'["wrapped"]) = Items(buf["wrapped"]) \cup {Head(buf["errs"])}
          /\ Head(buf["errs"]) \in Items(buf["errs"])
      BY <2>3, <3>1, ForwardMoves, ItemsMove DEF BufOK
    <3>3. buf'["faults"] = buf["faults"]
      BY <2>3, ForwardMoves
    <3> QED
      BY <3>1, <3>2, <3>3
  <2>4. ASSUME WrapperHearsError PROVE Known
    <3>1. buf["wrapped"] # <<>> /\ Head(buf["wrapped"]) \in Sent
      BY <2>4, FirstOf DEF WrapperHearsError, Ready
    <3>2. heard'.err = Head(buf["wrapped"])
      BY <2>4 DEF WrapperHearsError, DataOK
    <3>3. /\ Items(buf'["wrapped"]) \subseteq Items(buf["wrapped"])
          /\ Head(buf["wrapped"]) \in Items(buf["wrapped"])
      BY <2>4, <3>1, TakeWrapped, ItemsMove DEF BufOK, WrapperHearsError
    <3>4. buf'["faults"] = buf["faults"] /\ buf'["errs"] = buf["errs"]
      BY <2>4, TakeWrapped DEF WrapperHearsError
    <3> QED
      BY <3>1, <3>2, <3>3, <3>4
  <2>5. ASSUME AdapterHearsError PROVE Known
    <3>1. buf["faults"] # <<>> /\ Head(buf["faults"]) \in Sent /\ UNCHANGED heard
      BY <2>5, FirstOf DEF AdapterHearsError, Ready
    <3>2. /\ Items(buf'["faults"]) \subseteq Items(buf["faults"])
          /\ Head(buf["faults"]) \in Items(buf["faults"])
      BY <2>5, <3>1, AdapterHearsErrorMoves, ItemsMove DEF BufOK
    <3>3. Items(buf'["errs"]) = Items(buf["errs"]) \cup {Head(buf["faults"])}
      <4>1. buf'["errs"] = Append(buf["errs"], Head(buf["faults"])) /\ buf["errs"] \in Seq(Sent)
        BY <2>5, AdapterHearsErrorMoves DEF BufOK
      <4> QED
        BY <3>1, <4>1, ItemsMove
    <3>4. buf'["wrapped"] = buf["wrapped"]
      BY <2>5, AdapterHearsErrorMoves
    <3> QED
      BY <3>1, <3>2, <3>3, <3>4
  <2>6. ASSUME UNCHANGED <<buf["errs"], buf["wrapped"], buf["faults"], heard.err>>
        PROVE  Known
    BY <2>6
  <2> QED
    BY <2>1, <2>2, <2>3, <2>4, <2>5, <2>6, ErrorsKept
<1> QED
  BY <1>1, <1>2, <1>4 DEF Timely

-----------------------------------------------------------------------------
(* Order *)

\* Between the goroutines, what one step does not touch.
LEMMA EventsKept ==
    ASSUME Typed, [UpNext]_allVars
    PROVE  \/ SourceSends \/ AdapterPasses \/ WrapperTakes
           \/ UNCHANGED buf["events"] /\ (UNCHANGED next \/ Call)
<1> USE DEF callVars, provVars, fwdVars, wrapVars, chanVars, Typed
<1>1. CASE Call
  BY <1>1 DEF Call, AttemptFails, ShortCircuit, Expire, Connect
<1>2. CASE Source
  <2>1. ASSUME NEW why \in Sent, SourceFails(why)
        PROVE  UNCHANGED buf["events"] /\ UNCHANGED next
    BY <2>1, PutErrs DEF SourceFails
  <2> QED
    BY <1>2, <2>1 DEF Source, SourceClosesErrs, SourceClosesEvents, Sent
<1>3. CASE Forwarder
  BY <1>3, ForwardMoves, ForwarderFrame DEF Forwarder, ForwardEnds, ForwarderCancels,
     ForwarderCloses
<1>4. CASE Wrapper
  <2>1. CASE WrapperHearsError
    BY <2>1, TakeWrapped DEF WrapperHearsError
  <2>2. CASE WrapperCopies
    BY <2>2, PutOutput DEF WrapperCopies, DataOK
  <2>3. CASE WrapperSendsDone \/ ShortSendsDone \/ ShortSendsDelta
    BY <2>3, PutOutput DEF WrapperSendsDone, ShortSendsDone, ShortSendsDelta, Done
  <2>4. ASSUME \/ WrapperCloses \/ \E c \in {"events", "wrapped"} : WrapperDrops(c)
               \/ \E ok \in BOOLEAN : WrapperRunsHooks(ok) \/ ShortRunsHooks(ok)
        PROVE  UNCHANGED buf["events"] /\ UNCHANGED next
    BY <2>4 DEF WrapperCloses, WrapperDrops, WrapperRunsHooks, EndStream, ShortRunsHooks
  <2> QED
    BY <1>4, <2>1, <2>2, <2>3, <2>4 DEF Wrapper
<1>5. CASE Writer
  BY <1>5, TakeOutput, WriterFrame DEF Writer, SseWrites, SseEnds
<1>6. CASE Reader
  <2>1. CASE ReaderPasses
    BY <2>1, PutChunks DEF ReaderPasses, ReaderOK, readerFrame
  <2>2. ASSUME NEW why \in Sent, ReaderFails(why)
        PROVE  UNCHANGED buf["events"] /\ UNCHANGED next
    BY <2>2, PutFaults DEF ReaderFails, readerFrame
  <2>3. CASE ReaderReadsChunk \/ ReaderReadsOdd \/ ReaderReadsDone \/ ReaderAtEnd
             \/ ReaderClosesFaults \/ ReaderClosesChunks
    BY <2>3 DEF ReaderReadsChunk, ReaderReadsOdd, ReaderReadsDone, ReaderAtEnd,
       ReaderClosesFaults, ReaderClosesChunks, streamVars, vars, readerFrame
  <2> QED
    BY <1>6, <2>1, <2>2, <2>3 DEF Reader, Sent
<1>7. CASE Adapter
  <2>1. CASE AdapterTakes
    BY <2>1, TakeChunks DEF AdapterTakes
  <2>2. CASE AdapterHearsError
    BY <2>2, AdapterHearsErrorMoves DEF AdapterHearsError
  <2>3. CASE AdapterEnds \/ \E c \in {"chunks", "faults"} : AdapterDrops(c)
    BY <2>3 DEF AdapterEnds, AdapterDrops, streamVars, vars
  <2> QED
    BY <1>7, <2>1, <2>2, <2>3 DEF Adapter
<1>8. CASE UNCHANGED <<vars, upVars>>
  BY <1>8 DEF vars
<1> QED
  BY <1>1, <1>2, <1>3, <1>4, <1>5, <1>6, <1>7, <1>8, Steps

LEMMA EventsOrderNext ==
    ASSUME Typed, Roles, EventsOrder, ChunksOrder, [UpNext]_allVars
    PROVE  EventsOrder'
<1> USE StreamAssumption DEF callVars, provVars, fwdVars, wrapVars, chanVars, Typed,
        StreamAssumption
<1>1. held \in Nat /\ heard.deltas \in Nat /\ next \in 1..(Total + 1) /\ Total = Chunks + 1
  BY DEF DataOK, Total
<1>2. CASE UNCHANGED <<wrp, held, heard, short, next>> /\ UNCHANGED buf["events"]
  BY <1>2 DEF EventsOrder, Given
<1>3. CASE Call
  <2>1. CASE Expire \/ \E why \in Causes : AttemptFails(why)
    BY <1>2, <2>1 DEF Expire, AttemptFails
  <2>2. CASE ShortCircuit
    BY <2>2 DEF ShortCircuit, EventsOrder
  <2>3. ASSUME NEW k \in Kinds, Connect(k) PROVE EventsOrder'
    BY <1>1, <2>3, CarriesNothing DEF Connect, Roles, Fresh, EventsOrder, Given, Channels
  <2> QED
    BY <1>3, <2>1, <2>2, <2>3 DEF Call
<1>4. CASE SourceSends
  <2>1. ~short /\ Event(next) \in Nat
    BY <1>1, <1>4, WhoRuns DEF SourceSends, Event, Done
  <2>2. Carries(Append(buf["events"], Event(next)), heard.deltas, Given')
    <3>1. CASE next <= Chunks
      <4>1. Event(next) = Given + 1 /\ Given' = Given + 1 /\ Given \in Nat
        BY <1>1, <1>4, <3>1 DEF SourceSends, Event, Given
      <4> QED
        BY <1>1, <2>1, <4>1, CarriesAppend DEF EventsOrder, BufOK
    <3>2. CASE next > Chunks
      <4>1. Event(next) = Done /\ Given' = Given /\ Given \in Nat
        BY <1>1, <1>4, <3>2 DEF SourceSends, Event, Given
      <4> QED
        BY <1>1, <2>1, <4>1, CarriesAppend DEF EventsOrder, BufOK
    <3> QED
      BY <1>1, <3>1, <3>2
  <2> QED
    BY <1>4, <2>1, <2>2, PutEvents DEF SourceSends, EventsOrder
<1>5. CASE AdapterPasses
  <2>1. ~short /\ carried \in Nat
    BY <1>5, WhoRuns DEF AdapterPasses, ReaderOK
  <2>2. Carries(Append(buf["events"], carried), heard.deltas, Given')
    <3>1. CASE carried # Done
      <4>1. next <= Chunks /\ carried = next
        BY <1>1, <1>5, <3>1, WhoRuns
           DEF AdapterPasses, ChunksOrder, Drawn, Carries, ReaderOK
      <4>2. carried = Given + 1 /\ Given' = Given + 1 /\ Given \in Nat
        BY <1>1, <1>5, <3>1, <4>1 DEF AdapterPasses, Given
      <4> QED
        BY <1>1, <2>1, <4>2, CarriesAppend DEF EventsOrder, BufOK
    <3>2. CASE carried = Done
      <4>1. Given' = Given /\ Given \in Nat
        BY <1>1, <1>5, <3>2 DEF AdapterPasses, Given
      <4> QED
        BY <1>1, <2>1, <3>2, <4>1, CarriesAppend DEF EventsOrder, BufOK
    <3> QED
      BY <3>1, <3>2
  <2> QED
    BY <1>5, <2>1, <2>2, PutEvents DEF AdapterPasses, EventsOrder
<1>6. CASE WrapperTakes
  <2>1. /\ ~short /\ Ready("events") /\ UNCHANGED <<next, short>>
        /\ held' = Head(buf["events"]) /\ held' \in Nat
        /\ buf'["events"] = Tail(buf["events"])
    BY <1>6, WhoRuns, FirstOf, TakeEvents DEF WrapperTakes
  <2>2. Given \in Nat /\ Given' = Given
    BY <1>1, <2>1 DEF Given
  <2>3. CASE held' = Done
    <3>1. heard'.deltas = heard.deltas
      BY <1>6, <2>3 DEF WrapperTakes, DataOK
    <3> QED
      BY <1>1, <2>1, <2>2, <2>3, <3>1, CarriesTail DEF EventsOrder, BufOK, Ready
  <2>4. CASE held' # Done
    <3>1. heard'.deltas = heard.deltas + 1
      BY <1>6, <2>4 DEF WrapperTakes, DataOK
    <3> QED
      BY <1>1, <2>1, <2>2, <2>4, <3>1, CarriesTail DEF EventsOrder, BufOK, Ready
  <2> QED
    BY <2>3, <2>4
<1>7. CASE Wrapper /\ ~WrapperTakes
  <2>1. /\ UNCHANGED <<next, short>> /\ UNCHANGED buf["events"]
        /\ heard'.deltas = heard.deltas \/ short
        /\ wrp' # "copying"
    <3>1. ~SourceSends /\ ~AdapterPasses
      BY <1>7, <1>1, WrapperFrame, StreamAssumption DEF SourceSends, AdapterPasses
    <3>2. UNCHANGED buf["events"]
      BY <1>7, <3>1, EventsKept
    <3>3. wrp' # "copying" /\ (heard'.deltas = heard.deltas \/ short)
      <4>1. CASE WrapperHearsError
        BY <4>1 DEF WrapperHearsError, DataOK
      <4>2. ASSUME NEW ok \in BOOLEAN, ShortRunsHooks(ok) PROVE short /\ wrp' # "copying"
        BY <4>2, WhoRuns DEF ShortRunsHooks
      <4> QED
        BY <1>7, <4>1, <4>2 DEF Wrapper, WrapperCopies, WrapperDrops, WrapperRunsHooks,
           EndStream, WrapperSendsDone, WrapperCloses, ShortSendsDelta, ShortSendsDone
    <3> QED
      BY <1>7, <3>2, <3>3, WrapperFrame
  <2> QED
    BY <2>1 DEF EventsOrder, Given
<1>8. CASE ~(Call \/ SourceSends \/ AdapterPasses \/ Wrapper)
  BY <1>2, <1>8, EventsKept, Steps, SourceFrame, ForwarderFrame, WriterFrame, ReaderFrame,
     AdapterFrame DEF vars, Wrapper
<1> QED
  BY <1>3, <1>4, <1>5, <1>6, <1>7, <1>8

LEMMA ChunksOrderNext ==
    ASSUME Typed, Roles, ChunksOrder, [UpNext]_allVars
    PROVE  ChunksOrder'
<1> USE StreamAssumption DEF callVars, provVars, fwdVars, wrapVars, chanVars, Typed,
        StreamAssumption
<1>1. /\ carried \in Nat /\ next \in 1..(Total + 1) /\ Total = Chunks + 1
      /\ line \in Nat /\ fetched \in 0..Chunks
  BY DEF DataOK, Total, ReaderOK
<1>2. CASE UNCHANGED <<kind, src, next, upVars>> /\ UNCHANGED buf["chunks"]
  BY <1>2 DEF ChunksOrder, Drawn, upVars
<1>3. CASE Call /\ UNCHANGED upVars
  <2>1. CASE Expire \/ ShortCircuit \/ \E why \in Causes : AttemptFails(why)
    BY <1>2, <1>3, <2>1 DEF Expire, AttemptFails, ShortCircuit
  <2>2. ASSUME NEW k \in Kinds, Connect(k) PROVE ChunksOrder'
    <3>1. /\ src' \in {"sending", "select"} /\ next' = 1 /\ buf'["chunks"] = <<>>
          /\ fetched' = 0 /\ UNCHANGED <<line, reader>> /\ reader = "reading"
      BY <1>3, <2>2 DEF Connect, Roles, Fresh, UpFresh, upVars, Channels
    <3> QED
      BY <3>1, CarriesNothing DEF ChunksOrder, Drawn
  <2> QED
    BY <1>3, <2>1, <2>2 DEF Call
<1>4. CASE Source /\ UNCHANGED upVars
  <2>1. UNCHANGED buf["chunks"]
    <3>1. CASE SourceSends
      <4>1. Event(next) \in Nat
        BY <1>1 DEF Event, Done
      <4> QED
        BY <3>1, <4>1, PutEvents DEF SourceSends
    <3>2. ASSUME NEW why \in Sent, SourceFails(why) PROVE UNCHANGED buf["chunks"]
      BY <3>2, PutErrs DEF SourceFails
    <3> QED
      BY <1>4, <3>1, <3>2 DEF Source, SourceClosesErrs, SourceClosesEvents, Sent
  <2>2. src # "passing" /\ src' # "passing" /\ (UNCHANGED next \/ kind = "mock")
    BY <1>4, WhoRuns DEF Source, SourceSends, SourceFails, SourceClosesErrs, SourceClosesEvents
  <2> QED
    BY <1>4, <2>1, <2>2, SourceFrame DEF ChunksOrder, Drawn, upVars
<1>5. CASE Forwarder /\ UNCHANGED upVars
  <2>1. UNCHANGED buf["chunks"]
    BY <1>5, ForwardMoves DEF Forwarder, ForwardEnds, ForwarderCancels, ForwarderCloses
  <2> QED
    BY <1>2, <1>5, <2>1, ForwarderFrame
<1>6. CASE Wrapper /\ UNCHANGED upVars
  <2>1. UNCHANGED buf["chunks"]
    BY <1>6, TakeEvents, TakeWrapped, PutOutput DEF Wrapper, WrapperTakes, WrapperCopies,
       WrapperHearsError, WrapperDrops, WrapperRunsHooks, EndStream, ShortRunsHooks,
       WrapperSendsDone, WrapperCloses, ShortSendsDelta, ShortSendsDone, DataOK, Done
  <2> QED
    BY <1>2, <1>6, <2>1, WrapperFrame
<1>7. CASE Writer /\ UNCHANGED upVars
  <2>1. UNCHANGED buf["chunks"]
    BY <1>7, TakeOutput DEF Writer, SseWrites, SseEnds
  <2> QED
    BY <1>2, <1>7, <2>1, WriterFrame
<1>8. CASE Reader
  <2>1. CASE ReaderPasses
    <3>1. /\ buf'["chunks"] = Append(buf["chunks"], line) /\ UNCHANGED <<line, carried>>
          /\ fetched' = IF line = Done THEN fetched ELSE line
          /\ reader' \notin {"passing", "passingDone"}
          /\ line = Done \/ line = fetched + 1
      BY <1>1, <2>1, PutChunks DEF ReaderPasses, ChunksOrder
    <3>2. kind = "openai" /\ Drawn \in Nat /\ UNCHANGED <<kind, src, next>> /\ Drawn' = Drawn
      BY <1>1, <1>8, <3>1, WhoMoves, ReaderFrame DEF Drawn
    <3>3. Carries(Append(buf["chunks"], line), Drawn, fetched')
      BY <1>1, <3>1, <3>2, CarriesAppend DEF ChunksOrder, BufOK
    <3> QED
      BY <3>1, <3>2, <3>3 DEF ChunksOrder
  <2>2. CASE ~ReaderPasses
    <3>1. UNCHANGED buf["chunks"]
      <4>1. ASSUME NEW why \in Sent, ReaderFails(why) PROVE UNCHANGED buf["chunks"]
        BY <4>1, PutFaults DEF ReaderFails
      <4> QED
        BY <1>8, <2>2, <4>1 DEF Reader, ReaderReadsChunk, ReaderReadsOdd, ReaderReadsDone,
           ReaderAtEnd, ReaderClosesFaults, ReaderClosesChunks, streamVars, vars, Sent
    <3>2. /\ UNCHANGED fetched
          /\ reader' = "passing" => line' = Done \/ (line' = fetched + 1 /\ fetched < Chunks)
          /\ reader' = "passingDone" => line' = Done
      BY <1>8, <2>2 DEF Reader, ReaderReadsChunk, ReaderReadsOdd, ReaderReadsDone,
         ReaderAtEnd, ReaderFails, ReaderClosesFaults, ReaderClosesChunks
    <3>3. UNCHANGED <<kind, src, next, carried>>
      BY <1>8, ReaderFrame
    <3> QED
      BY <3>1, <3>2, <3>3 DEF ChunksOrder, Drawn
  <2> QED
    BY <2>1, <2>2
<1>9. CASE Adapter
  <2>1. kind = "openai" /\ UNCHANGED <<kind, reader, line, fetched>>
    BY <1>9, WhoMoves, AdapterFrame
  <2>2. CASE AdapterTakes
    <3>1. /\ Ready("chunks") /\ carried' = Head(buf["chunks"]) /\ carried' \in Nat
          /\ buf'["chunks"] = Tail(buf["chunks"]) /\ src' = "passing" /\ Drawn = next - 1
          /\ UNCHANGED next
      BY <2>2, FirstOf, TakeChunks DEF AdapterTakes, Drawn
    <3>2. CASE carried' = Done
      <4>1. Drawn' = Drawn /\ Drawn \in Nat
        BY <1>1, <3>1, <3>2 DEF Drawn
      <4>2. Carries(Tail(buf["chunks"]), Drawn, fetched)
        BY <1>1, <2>1, <3>1, <3>2, <4>1, CarriesTail DEF ChunksOrder, BufOK, Ready
      <4> QED
        BY <2>1, <3>1, <3>2, <4>1, <4>2 DEF ChunksOrder
    <3>3. CASE carried' # Done
      <4>1. Drawn' = Drawn + 1 /\ Drawn \in Nat
        BY <1>1, <3>1, <3>3 DEF Drawn
      <4>2. Head(buf["chunks"]) = Drawn + 1 /\ Carries(Tail(buf["chunks"]), Drawn + 1, fetched)
        BY <1>1, <2>1, <3>1, <3>3, <4>1, CarriesTail DEF ChunksOrder, BufOK, Ready
      <4> QED
        BY <1>1, <2>1, <3>1, <3>3, <4>1, <4>2 DEF ChunksOrder, Drawn
    <3> QED
      BY <3>2, <3>3
  <2>3. CASE AdapterPasses
    <3>1. UNCHANGED buf["chunks"]
      BY <2>3, PutEvents DEF AdapterPasses, ReaderOK
    <3>2. Drawn' = Drawn /\ src' # "passing"
      BY <1>1, <2>3 DEF AdapterPasses, Drawn
    <3> QED
      BY <2>1, <3>1, <3>2 DEF ChunksOrder
  <2>4. CASE ~AdapterTakes /\ ~AdapterPasses
    <3>1. UNCHANGED buf["chunks"]
      BY <1>9, <2>4, AdapterHearsErrorMoves DEF Adapter, AdapterDrops, AdapterEnds, streamVars,
         vars
    <3>2. UNCHANGED next /\ src # "passing" /\ src' # "passing"
      BY <1>9, <2>4 DEF Adapter, AdapterHearsError, AdapterDrops, AdapterEnds, streamVars, vars
    <3> QED
      BY <2>1, <3>1, <3>2 DEF ChunksOrder, Drawn
  <2> QED
    BY <2>2, <2>3, <2>4
<1>10. CASE UNCHANGED <<vars, upVars>>
  BY <1>2, <1>10 DEF vars
<1> QED
  BY <1>3, <1>4, <1>5, <1>6, <1>7, <1>8, <1>9, <1>10, Steps

\* What the client was sent and what the output holds.
LEMMA WireKept ==
    ASSUME Typed, [UpNext]_allVars
    PROVE  \/ SseWrites \/ WrapperCopies \/ WrapperSendsDone \/ ShortSendsDelta
           \/ ShortSendsDone
           \/ UNCHANGED <<wire, buf["output"]>>
<1> USE DEF callVars, provVars, fwdVars, wrapVars, chanVars, Typed
<1>1. CASE Call
  BY <1>1 DEF Call, AttemptFails, ShortCircuit, Expire, Connect
<1>2. CASE Source
  <2>1. CASE SourceSends
    <3>1. Event(next) \in Nat
      BY StreamAssumption DEF StreamAssumption, DataOK, Event, Total, Done
    <3> QED
      BY <2>1, <3>1, PutEvents DEF SourceSends
  <2>2. ASSUME NEW why \in Sent, SourceFails(why)
        PROVE  UNCHANGED <<wire, buf["output"]>>
    BY <2>2, PutErrs DEF SourceFails
  <2> QED
    BY <1>2, <2>1, <2>2 DEF Source, SourceClosesErrs, SourceClosesEvents, Sent
<1>3. CASE Forwarder
  BY <1>3, ForwardMoves, ForwarderFrame DEF Forwarder, ForwardEnds, ForwarderCancels,
     ForwarderCloses
<1>4. CASE Wrapper
  <2>1. CASE WrapperHearsError
    BY <2>1, TakeWrapped DEF WrapperHearsError
  <2>2. CASE WrapperTakes
    BY <2>2, TakeEvents DEF WrapperTakes
  <2>3. ASSUME \/ WrapperCloses \/ \E c \in {"events", "wrapped"} : WrapperDrops(c)
               \/ \E ok \in BOOLEAN : WrapperRunsHooks(ok) \/ ShortRunsHooks(ok)
        PROVE  UNCHANGED <<wire, buf["output"]>>
    BY <2>3 DEF WrapperCloses, WrapperDrops, WrapperRunsHooks, EndStream, ShortRunsHooks
  <2> QED
    BY <1>4, <2>1, <2>2, <2>3 DEF Wrapper
<1>5. CASE Writer
  BY <1>5 DEF Writer, SseEnds
<1>6. CASE Reader
  <2>1. CASE ReaderPasses
    BY <2>1, PutChunks DEF ReaderPasses, ReaderOK, readerFrame
  <2>2. ASSUME NEW why \in Sent, ReaderFails(why)
        PROVE  UNCHANGED <<wire, buf["output"]>>
    BY <2>2, PutFaults DEF ReaderFails, readerFrame
  <2>3. CASE ReaderReadsChunk \/ ReaderReadsOdd \/ ReaderReadsDone \/ ReaderAtEnd
             \/ ReaderClosesFaults \/ ReaderClosesChunks
    BY <2>3 DEF ReaderReadsChunk, ReaderReadsOdd, ReaderReadsDone, ReaderAtEnd,
       ReaderClosesFaults, ReaderClosesChunks, streamVars, vars, readerFrame
  <2> QED
    BY <1>6, <2>1, <2>2, <2>3 DEF Reader, Sent
<1>7. CASE Adapter
  <2>1. CASE AdapterTakes
    BY <2>1, TakeChunks DEF AdapterTakes
  <2>2. CASE AdapterHearsError
    BY <2>2, AdapterHearsErrorMoves DEF AdapterHearsError
  <2>3. CASE AdapterPasses
    BY <2>3, PutEvents DEF AdapterPasses, ReaderOK
  <2>4. CASE AdapterEnds \/ \E c \in {"chunks", "faults"} : AdapterDrops(c)
    BY <2>4 DEF AdapterEnds, AdapterDrops, streamVars, vars
  <2> QED
    BY <1>7, <2>1, <2>2, <2>3, <2>4 DEF Adapter
<1>8. CASE UNCHANGED <<vars, upVars>>
  BY <1>8 DEF vars
<1> QED
  BY <1>1, <1>2, <1>3, <1>4, <1>5, <1>6, <1>7, <1>8, Steps

LEMMA WireOrderNext ==
    ASSUME Typed, Roles, WireOrder, EventsOrder, [UpNext]_allVars
    PROVE  WireOrder'
<1> USE StreamAssumption DEF callVars, provVars, fwdVars, wrapVars, chanVars, Typed,
        StreamAssumption
<1>1. PICK w \in 0..Total, c \in 0..Total :
          /\ Carries(wire, 0, w) /\ Carries(buf["output"], w, c)
          /\ IF short THEN wrp \in {"shortHooks", "shortDelta"} => c = 0 ELSE c = Copied
  BY DEF WireOrder
<1>2. /\ held \in Nat /\ heard.deltas \in Nat /\ Total = Chunks + 1 /\ Chunks \in Nat
      /\ wire \in Seq(Nat) /\ buf["output"] \in Seq(Nat) /\ w \in Nat /\ c \in Nat
  BY DEF DataOK, Total, BufOK
<1>3. CASE UNCHANGED <<wire, buf["output"], short, wrp, held, heard>>
  BY <1>1, <1>3 DEF WireOrder, Copied
<1>4. CASE Call
  <2>1. CASE Expire \/ \E why \in Causes : AttemptFails(why)
    BY <1>3, <2>1 DEF Expire, AttemptFails
  <2>2. ASSUME ShortCircuit \/ \E k \in Kinds : Connect(k) PROVE WireOrder'
    <3>1. /\ wire' = <<>> /\ buf'["output"] = <<>> /\ heard'.deltas = 0
          /\ wrp' \in {"select", "shortHooks"}
      BY <2>2 DEF ShortCircuit, Connect, Roles, Fresh, Channels
    <3>2. Carries(<<>>, 0, 0)
      BY CarriesNothing
    <3>3. 0 \in 0..Total /\ Copied' = 0
      BY <1>2, <3>1 DEF Copied
    <3> QED
      BY <3>1, <3>2, <3>3 DEF WireOrder
  <2> QED
    BY <1>4, <2>1, <2>2 DEF Call
<1>5. CASE SseWrites
  <2>1. /\ Ready("output") /\ wire' = Append(wire, Head(buf["output"]))
        /\ buf'["output"] = Tail(buf["output"]) /\ UNCHANGED <<short, wrp, held, heard>>
    BY <1>5, TakeOutput DEF SseWrites
  <2>2. CASE Head(buf["output"]) = Done
    <3>1. Carries(wire', 0, w)
      BY <1>1, <1>2, <2>1, <2>2, CarriesAppend
    <3>2. Carries(buf'["output"], w, c)
      <4>1. Carries(Tail(buf["output"]), w, c)
        BY <1>1, <1>2, <2>1, <2>2, CarriesTail DEF Ready
      <4> QED
        BY <2>1, <4>1
    <3> QED
      BY <1>1, <2>1, <3>1, <3>2 DEF WireOrder, Copied
  <2>3. CASE Head(buf["output"]) # Done
    <3>1. Head(buf["output"]) = w + 1 /\ Carries(buf'["output"], w + 1, c)
      <4>1. Head(buf["output"]) = w + 1 /\ Carries(Tail(buf["output"]), w + 1, c)
        BY <1>1, <1>2, <2>1, <2>3, CarriesTail DEF Ready
      <4> QED
        BY <2>1, <4>1
    <3>2. Carries(wire', 0, w + 1)
      BY <1>1, <1>2, <2>1, <3>1, CarriesAppend
    <3>3. w + 1 \in 0..Total
      BY <1>2, <3>1 DEF Carries
    <3> QED
      BY <1>1, <2>1, <3>1, <3>2, <3>3 DEF WireOrder, Copied
  <2> QED
    BY <2>2, <2>3
<1>6. CASE WrapperCopies
  <2>1. /\ wrp = "copying" /\ wrp' = "select" /\ UNCHANGED <<wire, short, held, heard>>
        /\ buf'["output"] = Append(buf["output"], held) /\ ~short
    BY <1>2, <1>6, WhoRuns, PutOutput DEF WrapperCopies
  <2>2. CASE held = Done
    <3>1. Carries(buf'["output"], w, c) /\ Copied' = Copied
      BY <1>1, <1>2, <2>1, <2>2, CarriesAppend DEF Copied
    <3> QED
      BY <1>1, <2>1, <3>1 DEF WireOrder
  <2>3. CASE held # Done
    <3>1. held = heard.deltas /\ heard.deltas <= Chunks
      <4>1. Given <= Chunks /\ Given \in Nat
        BY <1>2 DEF Given, DataOK
      <4> QED
        BY <1>2, <2>1, <2>3, <4>1 DEF EventsOrder, Carries
    <3>2. Copied' = c + 1 /\ held = c + 1 /\ c + 1 \in 0..Total
      BY <1>1, <1>2, <2>1, <2>3, <3>1 DEF Copied
    <3>3. Carries(buf'["output"], w, c + 1)
      BY <1>1, <1>2, <2>1, <3>2, CarriesAppend
    <3> QED
      BY <1>1, <2>1, <3>2, <3>3 DEF WireOrder
  <2> QED
    BY <2>2, <2>3
<1>7. CASE WrapperSendsDone \/ ShortSendsDone
  <2>1. /\ wrp \in {"done", "shortDone"} /\ wrp' = "closing"
        /\ UNCHANGED <<wire, short, held, heard>>
        /\ buf'["output"] = Append(buf["output"], Done)
    BY <1>7, PutOutput DEF WrapperSendsDone, ShortSendsDone, Done
  <2>2. Carries(buf'["output"], w, c) /\ Copied' = Copied
    BY <1>1, <1>2, <2>1, CarriesAppend DEF Copied
  <2> QED
    BY <1>1, <2>1, <2>2 DEF WireOrder
<1>8. CASE ShortSendsDelta
  <2>1. /\ short /\ c = 0 /\ wrp' = "shortDone" /\ UNCHANGED <<wire, short>>
        /\ buf'["output"] = Append(buf["output"], 1)
    BY <1>1, <1>8, WhoRuns, PutOutput DEF ShortSendsDelta
  <2>2. Carries(buf'["output"], w, 1) /\ 1 \in 0..Total
    BY <1>1, <1>2, <2>1, CarriesAppend
  <2> QED
    BY <1>1, <2>1, <2>2 DEF WireOrder
<1>9. CASE WrapperTakes
  <2>1. /\ UNCHANGED <<wire, short, buf["output"]>> /\ wrp = "select" /\ wrp' = "copying"
        /\ held' \in Nat /\ ~short
    BY <1>9, WhoRuns, FirstOf, TakeEvents DEF WrapperTakes
  <2>2. CASE held' = Done
    <3>1. heard'.deltas = heard.deltas
      BY <1>9, <2>2 DEF WrapperTakes, DataOK
    <3> QED
      BY <1>1, <1>2, <2>1, <2>2, <3>1 DEF WireOrder, Copied
  <2>3. CASE held' # Done
    <3>1. heard'.deltas = heard.deltas + 1
      BY <1>9, <2>3 DEF WrapperTakes, DataOK
    <3> QED
      BY <1>1, <1>2, <2>1, <2>3, <3>1 DEF WireOrder, Copied
  <2> QED
    BY <2>2, <2>3
<1>10. ASSUME NEW ok \in BOOLEAN, ShortRunsHooks(ok) PROVE WireOrder'
  <2>1. /\ UNCHANGED <<wire, short, buf>> /\ wrp = "shortHooks" /\ short
    BY <1>10, WhoRuns DEF ShortRunsHooks
  <2> QED
    BY <1>1, <2>1 DEF WireOrder
<1>11. CASE Wrapper
  <2>1. ASSUME \/ WrapperHearsError \/ WrapperCloses
               \/ \E k \in {"events", "wrapped"} : WrapperDrops(k)
               \/ \E ok \in BOOLEAN : WrapperRunsHooks(ok)
        PROVE  WireOrder'
    <3>1. /\ wrp \notin {"copying", "shortHooks", "shortDelta"}
          /\ wrp' \notin {"copying", "shortHooks", "shortDelta"}
          /\ UNCHANGED <<wire, short>> /\ heard'.deltas = heard.deltas
      BY <2>1 DEF WrapperHearsError, WrapperCloses, WrapperDrops, WrapperRunsHooks, EndStream,
         DataOK
    <3>2. UNCHANGED buf["output"]
      BY <2>1, TakeWrapped DEF WrapperHearsError, WrapperCloses, WrapperDrops,
         WrapperRunsHooks, EndStream
    <3> QED
      BY <1>1, <3>1, <3>2 DEF WireOrder, Copied
  <2> QED
    BY <1>6, <1>7, <1>8, <1>9, <1>10, <1>11, <2>1 DEF Wrapper
<1>12. CASE SseEnds
  BY <1>3, <1>12 DEF SseEnds
<1> QED
  BY <1>3, <1>4, <1>5, <1>6, <1>7, <1>8, <1>11, <1>12, WireKept, Steps, SourceFrame,
     ForwarderFrame, ReaderFrame, AdapterFrame DEF Writer, vars

-----------------------------------------------------------------------------
(* The invariant without Completion, and what follows from it *)

LEMMA OrderInit == UpInit => OrderInv
<1> SUFFICES ASSUME UpInit PROVE OrderInv
  OBVIOUS
<1>1. Typed
  BY TypeInit
<1>2. Roles
  BY DEF UpInit, Init, Roles, Fresh, UpFresh, Channels
<1>3. Closings
  BY DEF UpInit, Init, Closings, ClosedBy, LeftOut, HookedOnce
<1>4. OneError
  <2>1. /\ buf["errs"] = <<>> /\ buf["faults"] = <<>> /\ buf["wrapped"] = <<>>
        /\ heard.err = "none" /\ Items(<<>>) = {}
    BY DEF UpInit, Init, Channels, Items
  <2>2. next = 1 /\ 1 <= Total
    BY StreamAssumption DEF StreamAssumption, UpInit, Init, Total
  <2> QED
    BY <2>1, <2>2, StreamAssumption DEF UpInit, Init, OneError, ErrorPlaces, Explained, Timely,
       Total, Producing, StreamAssumption
<1>5. Order
  <2>1. /\ wire = <<>> /\ buf["output"] = <<>> /\ buf["events"] = <<>> /\ buf["chunks"] = <<>>
        /\ heard.deltas = 0 /\ Copied = 0 /\ Given = 0 /\ Drawn = 0 /\ fetched = 0
    BY StreamAssumption
       DEF StreamAssumption, UpInit, Init, Channels, Copied, Given, Drawn
  <2>2. Carries(<<>>, 0, 0)
    BY CarriesNothing
  <2>3. 0 \in 0..Total
    BY StreamAssumption DEF StreamAssumption, Total
  <2>4. WireOrder
    BY <2>1, <2>2, <2>3 DEF WireOrder, UpInit, Init
  <2>5. EventsOrder
    BY <2>1, <2>2 DEF EventsOrder, UpInit, Init
  <2>6. ChunksOrder
    BY <2>1, <2>2 DEF ChunksOrder, UpInit, Init
  <2> QED
    BY <2>4, <2>5, <2>6 DEF Order
<1> QED
  BY <1>1, <1>2, <1>3, <1>4, <1>5 DEF OrderInv

LEMMA OrderNext ==
    ASSUME OrderInv, [UpNext]_allVars
    PROVE  OrderInv'
<1> USE DEF OrderInv, Closings, OneError, Order
<1>0. PlacesOK
  BY DEF Typed
<1>1. Typed' /\ Roles'
  BY TypeNext, RolesNext
<1>2. Closings'
  BY <1>0, ClosedByNext, LeftOutNext, HookedOnceNext
<1>3. OneError'
  BY ErrorPlacesNext, ExplainedNext, TimelyNext
<1>4. Order'
  BY WireOrderNext, EventsOrderNext, ChunksOrderNext
<1> QED
  BY <1>1, <1>2, <1>3, <1>4

LEMMA OrderAlways == UpSpec => []OrderInv
<1>1. OrderInv /\ [UpNext]_allVars => OrderInv'
  BY OrderNext
<1> QED
  BY OrderInit, <1>1, PTL DEF UpSpec

\* What the hooks were given was all there was.
LEMMA HookedMeans ==
    ASSUME OrderInv, hooked # <<>>, ~short
    PROVE  /\ hooked = <<heard>> /\ src = "ended"
           /\ buf["events"] = <<>> /\ buf["errs"] = <<>> /\ buf["wrapped"] = <<>>
           /\ heard.deltas = Given
<1> USE DEF OrderInv, Closings, OneError, Order
<1>1. hooked = <<heard>> /\ wrp \in {"done", "closing", "ended"} /\ open = {}
  <2>1. hooked = <<heard>> /\ wrp \notin {"off", "select", "copying", "shortHooks"}
    BY DEF HookedOnce
  <2>2. rpc = "streaming"
    BY <2>1, WhoRuns DEF Typed
  <2>3. wrp \in {"done", "closing", "ended"}
    BY <2>1, <2>2 DEF Roles
  <2> QED
    BY <2>1, <2>3 DEF LeftOut
<1>2. /\ src = "ended" /\ fwd = "ended"
      /\ buf["events"] = <<>> /\ buf["wrapped"] = <<>>
  BY <1>1 DEF LeftOut, Ended, ClosedBy
<1>3. buf["errs"] = <<>>
  BY <1>2 DEF ErrorPlaces
<1>4. heard.deltas = Given
  <2>1. heard.deltas \in Nat /\ Given \in Nat
    BY StreamAssumption DEF StreamAssumption, Given, Typed, DataOK, Total
  <2> QED
    BY <1>2, <2>1, CarriesNothing DEF EventsOrder
<1> QED
  BY <1>1, <1>2, <1>3, <1>4

\* A provider of the kind openai that ends without an error has drawn all the
\* reader passed on.
LEMMA NothingLost ==
    ASSUME OrderInv, kind = "openai"
    PROVE  /\ next - 1 <= fetched
           /\ src = "ended" /\ ~Failed => next - 1 = fetched /\ reader = "ended"
<1> USE DEF OrderInv, Closings, OneError, Order
<1>1. next \in Nat \ {0} /\ fetched \in Nat /\ Drawn \in Nat
  BY StreamAssumption DEF StreamAssumption, Drawn, Typed, DataOK, ReaderOK, Total
<1>2. Drawn <= fetched /\ next - 1 <= Drawn
  BY <1>1 DEF ChunksOrder, Drawn, Carries
<1>3. ASSUME src = "ended", ~Failed PROVE next - 1 = fetched /\ reader = "ended"
  <2>1. inputs = {}
    BY <1>3 DEF Explained
  <2>2. buf["chunks"] = <<>> /\ reader = "ended"
    BY <2>1 DEF LeftOut, Ended, ClosedBy
  <2>3. Drawn = fetched
    BY <1>1, <2>2, CarriesNothing DEF ChunksOrder
  <2> QED
    BY <1>1, <1>3, <2>2, <2>3 DEF Drawn
<1> QED
  BY <1>1, <1>2, <1>3

LEMMA OrderMeans ==
    ASSUME OrderInv
    PROVE  ClientReadsPrefix /\ HooksSeeWholeStream /\ CancelComesLast /\ LostOnlyBehindError
<1>1. ClientReadsPrefix
  BY DEF OrderInv, Order, WireOrder, ClientReadsPrefix
<1>2. next \in Nat \ {0} /\ Chunks \in Nat
  BY StreamAssumption DEF StreamAssumption, OrderInv, Typed, DataOK, Total
<1>3. HooksSeeWholeStream
  <2>1. Len(hooked) <= 1 /\ (wrp \in {"done", "closing", "ended"} => Len(hooked) = 1)
    BY DEF OrderInv, Closings, HookedOnce
  <2>2. ASSUME NEW i \in 1..Len(hooked), ~short
        PROVE  /\ src = "ended" /\ buf["events"] = <<>> /\ buf["errs"] = <<>>
               /\ buf["wrapped"] = <<>>
               /\ hooked[i].deltas = IF next - 1 <= Chunks THEN next - 1 ELSE Chunks
               /\ hooked[i].err = "none" /\ kind = "mock" => next > Total
    <3>1. hooked # <<>>
      BY <2>2
    <3>2. hooked = <<heard>>
      BY <2>2, <3>1, HookedMeans
    <3>3. hooked[i] = heard
      BY <2>2, <3>2
    <3>4. Given = IF next - 1 <= Chunks THEN next - 1 ELSE Chunks
      BY <1>2 DEF Given
    <3>5. /\ src = "ended" /\ buf["events"] = <<>> /\ buf["errs"] = <<>>
          /\ buf["wrapped"] = <<>> /\ heard.deltas = Given
      BY <2>2, <3>1, HookedMeans
    <3>6. heard.err = "none" /\ kind = "mock" => next > Total
      BY <3>5 DEF OrderInv, OneError, Explained, Failed
    <3> QED
      BY <3>3, <3>4, <3>5, <3>6
  <2> QED
    BY <2>1, <2>2 DEF HooksSeeWholeStream
<1>4. CancelComesLast
  BY DEF OrderInv, OneError, Timely, ErrorPlaces, Producing, CancelComesLast
<1>5. LostOnlyBehindError
  <2> SUFFICES ASSUME kind = "openai" PROVE LostOnlyBehindError
    BY DEF LostOnlyBehindError
  <2>1. ASSUME NEW i \in 1..Len(hooked), hooked[i].err = "none"
        PROVE  hooked[i].deltas = fetched /\ reader = "ended"
    <3>1. hooked # <<>> /\ ~short
      BY <2>1 DEF OrderInv, Roles, Fresh
    <3>2. /\ hooked = <<heard>> /\ src = "ended" /\ heard.deltas = Given
          /\ buf["errs"] = <<>> /\ buf["wrapped"] = <<>>
      BY <3>1, HookedMeans
    <3>3. hooked[i] = heard
      BY <2>1, <3>2
    <3>4. ~Failed
      BY <2>1, <3>2, <3>3 DEF Failed
    <3>5. next - 1 = fetched /\ reader = "ended"
      BY <3>2, <3>4, NothingLost
    <3>6. fetched \in 0..Chunks
      BY DEF OrderInv, Typed, ReaderOK
    <3>7. Given = fetched
      BY <1>2, <3>5, <3>6 DEF Given
    <3> QED
      BY <3>2, <3>3, <3>5, <3>7
  <2>2. /\ next - 1 <= fetched
        /\ src = "ended" /\ reader = "ended" /\ heard.err = "none"
           /\ buf["wrapped"] = <<>> /\ buf["errs"] = <<>> => next - 1 = fetched
    BY NothingLost DEF Failed
  <2> QED
    BY <2>1, <2>2 DEF LostOnlyBehindError
<1> QED
  BY <1>1, <1>3, <1>4, <1>5

\* The types of the variables of a stream and of its openai reader.
THEOREM StreamTypes == UpSpec => []UpTypeOK
<1>1. OrderInv => UpTypeOK
  BY TypedMeans DEF OrderInv
<1> QED
  BY OrderAlways, <1>1, PTL

\* Through all the channels of handleProviderStreamAttempt, the wrapper and the
\* stream writer, the client reads the content in order and without a gap.
THEOREM ClientReadsInOrder == UpSpec => []ClientReadsPrefix
BY OrderAlways, OrderMeans, PTL

\* The post hooks of wrapStreamWithPostHooks run once, on the whole of what the
\* provider sent and on its error.
THEOREM HooksGetAll == UpSpec => []HooksSeeWholeStream
BY OrderAlways, OrderMeans, PTL

\* The deferred cancel of handleProviderStreamAttempt cuts no stream short.
THEOREM CancelCutsNothing == UpSpec => []CancelComesLast
BY OrderAlways, OrderMeans, PTL

\* What Provider.ChatStream leaves of the chunks of its reader lies behind an
\* error, and the hooks of a success wait for the reader.
THEOREM NothingLostWithoutError == UpSpec => []LostOnlyBehindError
BY OrderAlways, OrderMeans, PTL

-----------------------------------------------------------------------------
(* Completion *)

LEMMA ChunksKept ==
    ASSUME Typed, [UpNext]_allVars
    PROVE  ReaderPasses \/ AdapterTakes \/ UNCHANGED buf["chunks"]
<1> USE DEF callVars, provVars, fwdVars, wrapVars, chanVars, Typed
<1>1. CASE Call
  BY <1>1 DEF Call, AttemptFails, ShortCircuit, Expire, Connect
<1>2. CASE Source
  <2>1. CASE SourceSends
    <3>1. Event(next) \in Nat
      BY StreamAssumption DEF StreamAssumption, DataOK, Event, Total, Done
    <3> QED
      BY <2>1, <3>1, PutEvents DEF SourceSends
  <2>2. ASSUME NEW why \in Sent, SourceFails(why) PROVE UNCHANGED buf["chunks"]
    BY <2>2, PutErrs DEF SourceFails
  <2> QED
    BY <1>2, <2>1, <2>2 DEF Source, SourceClosesErrs, SourceClosesEvents, Sent
<1>3. CASE Forwarder
  BY <1>3, ForwardMoves DEF Forwarder, ForwardEnds, ForwarderCancels, ForwarderCloses
<1>4. CASE Wrapper
  BY <1>4, TakeEvents, TakeWrapped, PutOutput DEF Wrapper, WrapperTakes, WrapperCopies,
     WrapperHearsError, WrapperDrops, WrapperRunsHooks, EndStream, ShortRunsHooks,
     WrapperSendsDone, WrapperCloses, ShortSendsDelta, ShortSendsDone, DataOK, Done
<1>5. CASE Writer
  BY <1>5, TakeOutput DEF Writer, SseWrites, SseEnds
<1>6. CASE Reader
  <2>1. ASSUME NEW why \in Sent, ReaderFails(why) PROVE UNCHANGED buf["chunks"]
    BY <2>1, PutFaults DEF ReaderFails
  <2> QED
    BY <1>6, <2>1 DEF Reader, ReaderReadsChunk, ReaderReadsOdd, ReaderReadsDone,
       ReaderAtEnd, ReaderClosesFaults, ReaderClosesChunks, streamVars, vars, Sent
<1>7. CASE Adapter
  BY <1>7, AdapterHearsErrorMoves, PutEvents DEF Adapter, AdapterPasses, ReaderOK,
     AdapterDrops, AdapterEnds, streamVars, vars
<1>8. CASE UNCHANGED <<vars, upVars>>
  BY <1>8 DEF vars
<1> QED
  BY <1>1, <1>2, <1>3, <1>4, <1>5, <1>6, <1>7, <1>8, Steps

\* While a reader or a mock runs there is no error.
LEMMA RunningUnfailed ==
    ASSUME OrderInv
    PROVE  /\ kind = "openai" /\ ~Returned => Unfailed
           /\ src = "sending" => Unfailed
<1> USE DEF OrderInv, OneError
<1>1. ASSUME kind = "openai", ~Returned PROVE Unfailed
  <2>1. src \in Producing
    BY <1>1 DEF Explained, Roles, Returned, Producing
  <2>2. reader \in {"reading", "passing", "passingDone"}
    BY <1>1 DEF Returned, Typed, ReaderOK
  <2> QED
    BY <2>1, <2>2 DEF ErrorPlaces, Unfailed, Failed
<1>2. ASSUME src = "sending" PROVE Unfailed
  <2>1. kind = "mock" /\ buf["faults"] = <<>>
    BY <1>2, WhoRuns DEF Typed, Roles, UpFresh
  <2> QED
    BY <1>2, <2>1 DEF ErrorPlaces, Unfailed, Failed, Producing
<1> QED
  BY <1>1, <1>2

\* Once there is nothing to come, no error comes.
LEMMA UnfailedStays ==
    ASSUME OrderInv, [UpNext]_allVars, rpc = "streaming", Unfailed,
           kind = "mock" => next > Total, kind = "openai" => Returned
    PROVE  /\ Unfailed' /\ UNCHANGED <<rpc, short, kind>>
           /\ kind = "mock" => UNCHANGED next
           /\ kind = "openai" => Returned'
<1> USE DEF OrderInv, Typed
<1>1. ASSUME NEW why \in Sent, SourceFails(why) \/ ReaderFails(why) PROVE FALSE
  <2>1. CASE SourceFails(why)
    BY <2>1, WhoRuns, StreamAssumption DEF SourceFails, StreamAssumption, Total, DataOK
  <2>2. CASE ReaderFails(why)
    BY <2>2 DEF ReaderFails, Reads, Connected, Returned
  <2> QED
    BY <1>1, <2>1, <2>2
<1>2. ~Forward /\ ~WrapperHearsError /\ ~AdapterHearsError
  BY DEF Forward, WrapperHearsError, AdapterHearsError, Ready, Unfailed, Failed
<1>3. Unfailed'
  BY <1>1, <1>2, ErrorsKept DEF Unfailed, Failed
<1>4. UNCHANGED <<rpc, short, kind>>
  <2>1. Call => UNCHANGED <<rpc, short, kind>>
    BY DEF Call, AttemptFails, ShortCircuit, Expire, Connect, callVars, provVars
  <2> QED
    BY <2>1, Steps, SourceFrame, ForwarderFrame, WrapperFrame, WriterFrame, ReaderFrame,
       AdapterFrame DEF vars
<1>5. kind = "mock" => UNCHANGED next
  <2>1. Call => UNCHANGED next
    BY DEF Call, AttemptFails, ShortCircuit, Expire, Connect, provVars
  <2>2. Source /\ kind = "mock" => UNCHANGED next
    BY StreamAssumption DEF Source, SourceSends, SourceFails, SourceClosesErrs,
       SourceClosesEvents, StreamAssumption, DataOK, Total
  <2> QED
    BY <2>1, <2>2, WhoMoves, Steps, ForwarderFrame, WrapperFrame, WriterFrame, ReaderFrame
       DEF vars
<1>6. kind = "openai" => Returned'
  <2>1. Reader /\ Returned => Returned'
    BY DEF Returned, Reader, ReaderReadsChunk, ReaderReadsOdd, ReaderReadsDone, ReaderAtEnd,
       ReaderPasses, ReaderFails, ReaderClosesFaults, ReaderClosesChunks, Reads
  <2>2. UNCHANGED reader /\ Returned => Returned'
    BY DEF Returned
  <2> QED
    BY <2>1, <2>2, Steps, AdapterFrame DEF upVars
<1> QED
  BY <1>3, <1>4, <1>5, <1>6

LEMMA AllGivenStays ==
    ASSUME OrderInv, [UpNext]_allVars, rpc = "streaming", AllGiven
    PROVE  AllGiven'
<1> USE DEF OrderInv, Typed
<1>1. /\ Unfailed' /\ UNCHANGED <<rpc, short, kind>>
      /\ kind = "mock" => UNCHANGED next
      /\ kind = "openai" => Returned'
  BY UnfailedStays DEF AllGiven
<1>2. ~ReaderPasses /\ ~AdapterTakes
  BY WhoRuns DEF ReaderPasses, AdapterTakes, Ready, AllGiven, Returned
<1>3. buf'["chunks"] = <<>>
  BY <1>2, ChunksKept DEF AllGiven
<1>4. src' # "passing"
  <2>1. Call => src' # "passing"
    BY StreamAssumption DEF Call, AttemptFails, ShortCircuit, Expire, Connect, provVars, AllGiven
  <2>2. Source => src' # "passing"
    BY DEF Source, SourceSends, SourceFails, SourceClosesErrs, SourceClosesEvents
  <2>3. Adapter => src' # "passing"
    BY <1>2 DEF Adapter, AdapterPasses, AdapterHearsError, AdapterDrops, AdapterEnds, AllGiven,
       streamVars, vars
  <2> QED
    BY <2>1, <2>2, <2>3, Steps, ForwarderFrame, WrapperFrame, WriterFrame, ReaderFrame
       DEF vars, AllGiven
<1> QED
  BY <1>1, <1>3, <1>4 DEF AllGiven

LEMMA ChunksEndNext ==
    ASSUME OrderInv, ChunksEnd, [UpNext]_allVars, ~odd'
    PROVE  ChunksEnd'
<1> USE StreamAssumption DEF StreamAssumption, OrderInv, Typed, Order
<1>0. PICK d \in 0..1 : /\ kind = "openai" => Exactly(buf["chunks"], Drawn, fetched, d)
                        /\ d = 1 => Unfailed /\ Returned
  BY DEF ChunksEnd
<1>1. /\ carried \in Nat /\ next \in Nat \ {0} /\ line \in Nat /\ fetched \in Nat
      /\ Drawn \in Nat /\ buf["chunks"] \in Seq(Nat)
  BY DEF DataOK, Total, ReaderOK, BufOK, Drawn
<1>2. reader' = "passing" => line' # Done
  <2>1. ASSUME Reader PROVE reader' = "passing" => line' # Done
    BY <1>1, <2>1 DEF Reader, ReaderReadsChunk, ReaderReadsOdd, ReaderReadsDone, ReaderAtEnd,
       ReaderPasses, ReaderFails, ReaderClosesFaults, ReaderClosesChunks, Done
  <2> QED
    BY <2>1, Steps, AdapterFrame DEF ChunksEnd, upVars
\* A reader that has returned does not run again, and no error comes.
<1>3. ASSUME kind = "openai", Unfailed, Returned
      PROVE  /\ Unfailed' /\ Returned' /\ kind' = "openai"
             /\ buf'["chunks"] = buf["chunks"] \/ AdapterTakes
  <2>1. rpc = "streaming"
    BY <1>3, WhoRuns
  <2>2. ~ReaderPasses
    BY <1>3 DEF ReaderPasses, Returned
  <2> QED
    BY <1>3, <2>1, <2>2, UnfailedStays, ChunksKept
<1>4. CASE ReaderPasses
  <2>1. /\ buf'["chunks"] = Append(buf["chunks"], line) /\ UNCHANGED line
        /\ fetched' = IF line = Done THEN fetched ELSE line
        /\ reader \in {"passing", "passingDone"} /\ ~Returned
        /\ reader = "passingDone" => Returned'
        /\ line = Done \/ line = fetched + 1
    BY <1>1, <1>4, PutChunks DEF ReaderPasses, ReaderOK, ChunksOrder, Returned
  <2>2. kind = "openai" /\ UNCHANGED <<kind, src, next, carried>> /\ Drawn' = Drawn
    BY <1>4, <2>1, WhoRuns, ReaderFrame DEF Reader, Drawn
  <2>3. d = 0 /\ Exactly(buf["chunks"], Drawn, fetched, 0)
    BY <1>0, <2>1, <2>2
  <2>4. ~(src' = "passing" /\ carried' = Done)
    BY <2>1, <2>2 DEF ChunksEnd
  <2>5. CASE line = Done
    <3>1. reader = "passingDone"
      BY <2>1, <2>5 DEF ChunksEnd
    <3>2. Unfailed'
      <4>1. Unfailed
        BY <2>1, <2>2, RunningUnfailed
      <4>2. UNCHANGED <<buf["errs"], buf["wrapped"], buf["faults"], heard>>
        BY <1>1, <1>4, PutChunks DEF ReaderPasses, readerFrame, wrapVars
      <4> QED
        BY <4>1, <4>2 DEF Unfailed, Failed
    <3>3. Exactly(buf'["chunks"], Drawn', fetched', 1)
      BY <1>1, <2>1, <2>2, <2>3, <2>5, ExactlyAppend
    <3> QED
      BY <1>2, <2>1, <2>4, <3>1, <3>2, <3>3 DEF ChunksEnd
  <2>6. CASE line # Done
    <3>1. Exactly(buf'["chunks"], Drawn', fetched', 0)
      BY <1>1, <2>1, <2>2, <2>3, <2>6, ExactlyAppend
    <3> QED
      BY <1>2, <2>4, <3>1 DEF ChunksEnd
  <2> QED
    BY <2>5, <2>6
<1>5. CASE AdapterTakes
  <2>1. /\ Ready("chunks") /\ carried' = Head(buf["chunks"]) /\ carried' \in Nat
        /\ buf'["chunks"] = Tail(buf["chunks"]) /\ src' = "passing" /\ Drawn = next - 1
        /\ UNCHANGED <<next, kind, fetched>> /\ kind = "openai"
    BY <1>5, WhoRuns, FirstOf, TakeChunks DEF AdapterTakes, Drawn
  <2>2. CASE carried' = Done
    <3>1. Drawn = fetched /\ d = 1 /\ Tail(buf["chunks"]) = <<>>
      BY <1>0, <1>1, <2>1, <2>2, ExactlyTail DEF Ready
    <3>2. Unfailed' /\ Returned'
      BY <1>0, <1>3, <2>1, <3>1
    <3>3. Exactly(buf'["chunks"], Drawn', fetched', 0)
      <4>1. Exactly(<<>>, fetched, fetched, 0)
        BY <1>1, ExactlyNothing
      <4>2. Drawn' = fetched
        BY <2>1, <2>2, <3>1 DEF Drawn
      <4> QED
        BY <2>1, <3>1, <4>1, <4>2
    <3> QED
      BY <1>2, <2>1, <3>1, <3>2, <3>3 DEF ChunksEnd
  <2>3. CASE carried' # Done
    <3>1. Exactly(Tail(buf["chunks"]), Drawn + 1, fetched, d)
      BY <1>0, <1>1, <2>1, <2>3, ExactlyTail DEF Ready
    <3>2. Drawn' = Drawn + 1
      BY <1>1, <2>1, <2>3 DEF Drawn
    <3>3. d = 1 => Unfailed' /\ Returned'
      BY <1>0, <1>3, <2>1
    <3>4. Exactly(buf'["chunks"], Drawn', fetched', d)
      BY <2>1, <3>1, <3>2
    <3> QED
      BY <1>2, <2>3, <3>3, <3>4 DEF ChunksEnd
  <2> QED
    BY <2>2, <2>3
<1>6. CASE ~ReaderPasses /\ ~AdapterTakes
  <2>1. UNCHANGED buf["chunks"]
    BY <1>6, ChunksKept
  <2>2. UNCHANGED fetched
    <3>1. Reader => UNCHANGED fetched
      BY <1>6 DEF Reader, ReaderReadsChunk, ReaderReadsOdd, ReaderReadsDone, ReaderAtEnd,
         ReaderFails, ReaderClosesFaults, ReaderClosesChunks
    <3> QED
      BY <3>1, Steps, AdapterFrame DEF upVars
  <2>3. CASE kind' = "openai" /\ kind = "openai"
    <3>1. Drawn' = Drawn /\ (src' = "passing" => src = "passing" /\ carried' = carried)
      <4>1. CASE Call /\ UNCHANGED upVars
        <5>1. rpc = "streaming"
          BY <2>3, WhoRuns
        <5>2. UNCHANGED <<src, next, carried>>
          BY <4>1, <5>1 DEF Call, AttemptFails, ShortCircuit, Expire, Connect, provVars, upVars
        <5> QED
          BY <5>2 DEF Drawn
      <4>2. CASE Source
        <5>1. UNCHANGED next /\ src # "passing" /\ src' # "passing"
          BY <2>3, <4>2, WhoRuns DEF Source, SourceSends, SourceFails, SourceClosesErrs,
             SourceClosesEvents
        <5> QED
          BY <5>1 DEF Drawn
      <4>3. CASE Adapter
        <5>1. CASE AdapterPasses
          BY <1>1, <5>1 DEF AdapterPasses, Drawn
        <5>2. CASE ~AdapterPasses
          <6>1. UNCHANGED next /\ src # "passing" /\ src' # "passing"
            BY <1>6, <4>3, <5>2 DEF Adapter, AdapterHearsError, AdapterDrops, AdapterEnds,
               streamVars, vars
          <6> QED
            BY <6>1 DEF Drawn
        <5> QED
          BY <5>1, <5>2
      <4>4. CASE UNCHANGED <<src, next, carried>>
        BY <4>4 DEF Drawn
      <4> QED
        BY <4>1, <4>2, <4>3, <4>4, Steps, ForwarderFrame, WrapperFrame, WriterFrame,
           ReaderFrame DEF vars, upVars
    <3>2. src' = "passing" /\ carried' = Done =>
              Unfailed' /\ buf'["chunks"] = <<>> /\ Returned'
      BY <1>3, <2>1, <2>3, <3>1 DEF ChunksEnd
    <3>3. d = 1 => Unfailed' /\ Returned'
      BY <1>0, <1>3, <2>3
    <3>4. Exactly(buf'["chunks"], Drawn', fetched', d)
      BY <1>0, <2>1, <2>2, <2>3, <3>1
    <3> QED
      BY <1>2, <3>2, <3>3, <3>4 DEF ChunksEnd
  <2>4. CASE kind' = "openai" /\ kind # "openai"
    <3>1. PICK k \in Kinds : Connect(k) /\ UNCHANGED upVars
      <4>1. Call /\ UNCHANGED upVars
        BY <2>4, Steps, SourceFrame, ForwarderFrame, WrapperFrame, WriterFrame,
           ReaderFrame, AdapterFrame DEF vars
      <4> QED
        BY <2>4, <4>1 DEF Call, AttemptFails, ShortCircuit, Expire, provVars
    <3>2. /\ src' \in {"select", "sending"} /\ next' = 1 /\ buf'["chunks"] = <<>> /\ fetched' = 0
      BY <3>1 DEF Connect, Roles, Fresh, UpFresh, upVars, chanVars, Channels
    <3>3. Exactly(<<>>, 0, 0, 0)
      BY ExactlyNothing
    <3>4. Drawn' = 0
      BY <3>2 DEF Drawn
    <3> QED
      BY <1>2, <3>2, <3>3, <3>4 DEF ChunksEnd
  <2>5. CASE kind' # "openai"
    <3>1. src' # "passing"
      BY <2>5, RolesNext DEF Roles, Fresh
    <3> QED
      BY <1>2, <2>5, <3>1 DEF ChunksEnd
  <2> QED
    BY <2>3, <2>4, <2>5
<1> QED
  BY <1>4, <1>5, <1>6

LEMMA EventsEndNext ==
    ASSUME OrderInv, ChunksEnd, EventsEnd, [UpNext]_allVars
    PROVE  EventsEnd'
<1> USE StreamAssumption DEF StreamAssumption, OrderInv, Typed, Order
<1>0. PICK d \in 0..1 : /\ ~short => Exactly(buf["events"], heard.deltas, Given, d)
                        /\ d = 1 => AllGiven
  BY DEF EventsEnd
<1>1. /\ carried \in Nat /\ next \in Nat \ {0} /\ heard.deltas \in Nat /\ held \in Nat
      /\ Given \in Nat /\ buf["events"] \in Seq(Nat) /\ Total = Chunks + 1
  BY DEF DataOK, Total, ReaderOK, BufOK, Given
<1>2. AllGiven => ~SourceSends /\ ~AdapterPasses
  BY <1>1, WhoRuns DEF AllGiven, SourceSends, AdapterPasses
<1>3. CASE Call
  <2>1. CASE rpc = "streaming"
    <3>1. UNCHANGED <<short, buf, next, wrp, held, heard>>
      BY <1>3, <2>1 DEF Call, AttemptFails, ShortCircuit, Expire, Connect, callVars, provVars,
         wrapVars, chanVars
    <3>2. AllGiven => AllGiven'
      BY <2>1, AllGivenStays
    <3> QED
      BY <1>0, <3>1, <3>2 DEF EventsEnd, Given
  <2>2. CASE rpc # "streaming"
    <3>1. /\ ~heard'.done /\ heard'.deltas = 0 /\ next' = 1 /\ buf'["events"] = <<>>
          /\ wrp' # "copying"
      BY <1>3, <2>2 DEF Roles, Fresh, Call, AttemptFails, ShortCircuit, Expire, Connect,
         provVars, wrapVars, chanVars, Channels
    <3>2. Given' = 0
      BY <1>1, <3>1 DEF Given
    <3>3. Exactly(<<>>, 0, 0, 0)
      BY ExactlyNothing
    <3> QED
      BY <3>1, <3>2, <3>3 DEF EventsEnd
  <2> QED
    BY <2>1, <2>2
<1>4. CASE SourceSends
  <2>1. /\ kind = "mock" /\ ~short /\ Event(next) \in Nat /\ src = "sending" /\ next <= Total
        /\ next' = next + 1 /\ UNCHANGED <<src, kind, short, wrp, held, heard, reader>>
        /\ Unfailed /\ buf["chunks"] = <<>>
    <3>1. kind = "mock" /\ ~short /\ src = "sending" /\ Event(next) \in Nat
      BY <1>1, <1>4, WhoRuns DEF SourceSends, Event, Done
    <3>2. Unfailed /\ buf["chunks"] = <<>>
      BY <3>1, RunningUnfailed DEF Roles, UpFresh
    <3>3. UNCHANGED reader
      BY <1>4, <3>1, WhoMoves, Steps, AdapterFrame, WhoRuns DEF upVars
    <3> QED
      BY <1>4, <3>1, <3>2, <3>3 DEF SourceSends, callVars, wrapVars
  <2>2. /\ buf'["events"] = Append(buf["events"], Event(next))
        /\ UNCHANGED <<buf["errs"], buf["wrapped"], buf["faults"], buf["chunks"]>>
    BY <1>4, <2>1, PutEvents DEF SourceSends
  <2>3. d = 0 /\ ~heard.done
    BY <1>0, <1>2, <1>4 DEF EventsEnd
  <2>4. CASE next <= Chunks
    <3>1. Event(next) = Given + 1 /\ Given' = Given + 1
      BY <1>1, <2>1, <2>4 DEF Event, Given
    <3>2. Exactly(buf'["events"], heard'.deltas, Given', 0)
      BY <1>0, <1>1, <2>1, <2>2, <2>3, <3>1, ExactlyAppend
    <3> QED
      BY <2>1, <2>3, <3>2 DEF EventsEnd
  <2>5. CASE next > Chunks
    <3>1. Event(next) = Done /\ Given' = Given /\ next' > Total
      BY <1>1, <2>1, <2>5 DEF Event, Given
    <3>2. Exactly(buf'["events"], heard'.deltas, Given', 1)
      BY <1>0, <1>1, <2>1, <2>2, <2>3, <3>1, ExactlyAppend
    <3>3. AllGiven'
      BY <2>1, <2>2, <3>1 DEF AllGiven, Unfailed, Failed
    <3> QED
      BY <2>1, <2>3, <3>2, <3>3 DEF EventsEnd
  <2> QED
    BY <1>1, <2>4, <2>5
<1>5. CASE AdapterPasses
  <2>1. /\ kind = "openai" /\ ~short /\ src = "passing" /\ src' = "select"
        /\ next' = IF carried = Done THEN next ELSE next + 1
        /\ UNCHANGED <<kind, short, wrp, held, heard, reader>>
    BY <1>5, WhoRuns DEF AdapterPasses, callVars, wrapVars, upVars
  <2>2. /\ buf'["events"] = Append(buf["events"], carried)
        /\ UNCHANGED <<buf["errs"], buf["wrapped"], buf["faults"], buf["chunks"]>>
    BY <1>1, <1>5, PutEvents DEF AdapterPasses
  <2>3. d = 0 /\ ~heard.done
    BY <1>0, <1>2, <1>5 DEF EventsEnd
  <2>4. CASE carried = Done
    <3>1. Exactly(buf'["events"], heard'.deltas, Given', 1)
      <4>1. Given' = Given
        BY <2>1, <2>4 DEF Given
      <4> QED
        BY <1>0, <1>1, <2>1, <2>2, <2>3, <2>4, <4>1, ExactlyAppend
    <3>2. Unfailed /\ buf["chunks"] = <<>> /\ Returned
      BY <2>1, <2>4 DEF ChunksEnd
    <3>3. AllGiven'
      BY <2>1, <2>2, <3>2 DEF AllGiven, Unfailed, Failed, Returned
    <3> QED
      BY <2>1, <2>3, <3>1, <3>3 DEF EventsEnd
  <2>5. CASE carried # Done
    <3>1. next <= Chunks /\ carried = next
      <4>1. Drawn = next /\ carried = next
        BY <2>1, <2>5 DEF ChunksOrder, Drawn
      <4>2. Drawn <= fetched /\ fetched \in 0..Chunks
        BY <2>1 DEF ChunksOrder, Carries, ReaderOK
      <4> QED
        BY <1>1, <4>1, <4>2
    <3>2. carried = Given + 1 /\ Given' = Given + 1
      BY <1>1, <2>1, <2>5, <3>1 DEF Given
    <3>3. Exactly(buf'["events"], heard'.deltas, Given', 0)
      BY <1>0, <1>1, <2>1, <2>2, <2>3, <3>2, ExactlyAppend
    <3> QED
      BY <2>1, <2>3, <3>3 DEF EventsEnd
  <2> QED
    BY <2>4, <2>5
<1>6. CASE WrapperTakes
  <2>1. /\ ~short /\ rpc = "streaming" /\ Ready("events") /\ UNCHANGED <<next, short>>
        /\ held' = Head(buf["events"]) /\ held' \in Nat /\ wrp' = "copying"
        /\ buf'["events"] = Tail(buf["events"])
    BY <1>6, WhoRuns, FirstOf, TakeEvents DEF WrapperTakes, callVars, provVars
  <2>2. Given' = Given /\ ~heard.done
    BY <1>1, <2>1 DEF Given, EventsEnd, Ready
  <2>3. CASE held' = Done
    <3>1. heard'.deltas = heard.deltas /\ heard'.done
      BY <1>6, <2>3 DEF WrapperTakes, DataOK
    <3>2. heard.deltas = Given /\ d = 1 /\ Tail(buf["events"]) = <<>>
      BY <1>0, <1>1, <2>1, <2>3, ExactlyTail DEF Ready
    <3>3. AllGiven'
      BY <1>0, <2>1, <3>2, AllGivenStays
    <3>4. Exactly(<<>>, Given, Given, 0)
      BY <1>1, ExactlyNothing
    <3>5. Exactly(buf'["events"], heard'.deltas, Given', 0) /\ buf'["events"] = <<>>
      BY <2>1, <2>2, <3>1, <3>2, <3>4
    <3>6. ~short' /\ held' = Done /\ heard'.done
      BY <2>1, <2>3, <3>1
    <3> QED
      BY <3>3, <3>5, <3>6 DEF EventsEnd
  <2>4. CASE held' # Done
    <3>1. heard'.deltas = heard.deltas + 1 /\ ~heard'.done
      BY <1>6, <2>2, <2>4 DEF WrapperTakes, DataOK
    <3>2. Exactly(Tail(buf["events"]), heard.deltas + 1, Given, d)
      BY <1>0, <1>1, <2>1, <2>4, ExactlyTail DEF Ready
    <3>3. d = 1 => AllGiven'
      BY <1>0, <2>1, AllGivenStays
    <3> QED
      BY <2>1, <2>2, <2>4, <3>1, <3>2, <3>3 DEF EventsEnd
  <2> QED
    BY <2>3, <2>4
<1>7. CASE ~(Call \/ SourceSends \/ AdapterPasses \/ WrapperTakes)
  <2>1. UNCHANGED buf["events"] /\ UNCHANGED <<next, rpc, short>>
    BY <1>7, EventsKept, Steps, SourceFrame, ForwarderFrame, WrapperFrame, WriterFrame,
       ReaderFrame, AdapterFrame DEF vars
  <2>2. /\ UNCHANGED heard.done /\ (short \/ UNCHANGED heard.deltas)
        /\ wrp' # "copying" \/ UNCHANGED <<wrp, held, heard>>
    <3>1. CASE Wrapper
      <4>1. CASE WrapperHearsError
        BY <4>1 DEF WrapperHearsError, DataOK
      <4>2. ASSUME NEW ok \in BOOLEAN, ShortRunsHooks(ok)
            PROVE  UNCHANGED heard.done /\ short /\ wrp' # "copying"
        BY <4>2, WhoRuns DEF ShortRunsHooks, DataOK
      <4> QED
        BY <1>7, <3>1, <4>1, <4>2 DEF Wrapper, WrapperCopies, WrapperDrops, WrapperRunsHooks,
           EndStream, WrapperSendsDone, WrapperCloses, ShortSendsDelta, ShortSendsDone
    <3> QED
      BY <1>7, <3>1, Steps, SourceFrame, ForwarderFrame, WriterFrame, ReaderFrame,
         AdapterFrame DEF vars
  <2>3. Given' = Given
    BY <2>1 DEF Given
  <2>4. CASE rpc = "streaming"
    <3>1. AllGiven => AllGiven'
      BY <2>4, AllGivenStays
    <3> QED
      BY <1>0, <2>1, <2>2, <2>3, <3>1 DEF EventsEnd
  <2>5. CASE rpc # "streaming"
    <3>1. /\ ~heard.done /\ heard.deltas = 0 /\ next = 1 /\ buf["events"] = <<>>
          /\ wrp = "off" /\ ~short
      BY <2>5 DEF Roles, Fresh, Channels
    <3>2. Given = 0
      BY <1>1, <3>1 DEF Given
    <3>3. Exactly(<<>>, 0, 0, 0)
      BY ExactlyNothing
    <3> QED
      BY <2>1, <2>2, <2>3, <3>1, <3>2, <3>3 DEF EventsEnd
  <2> QED
    BY <2>4, <2>5
<1> QED
  BY <1>3, <1>4, <1>5, <1>6, <1>7

\* What the wrapper has copied when nothing is to come is the answer.
LEMMA CopiedAll ==
    ASSUME OrderInv, ~short, rpc = "streaming", heard.deltas = Given
    PROVE  /\ AllGiven => heard.deltas = Answer /\ heard.err = "none"
           /\ wrp = "done" /\ heard.err = "none" => heard.deltas = Answer
<1> USE StreamAssumption DEF StreamAssumption, OrderInv, Typed, Order
<1>1. /\ next \in Nat \ {0} /\ fetched \in 0..Chunks /\ Drawn \in Nat /\ Chunks \in Nat
      /\ Total = Chunks + 1
  BY DEF DataOK, Total, ReaderOK, Drawn
<1>2. kind \in {"mock", "openai"}
  BY DEF Roles
<1>3. kind = "mock" /\ next > Total => Given = Answer
  BY <1>1 DEF Given, Answer
<1>4. kind = "openai" /\ next - 1 = fetched => Given = Answer
  BY <1>1 DEF Given, Answer
<1>5. ASSUME AllGiven PROVE heard.deltas = Answer /\ heard.err = "none"
  <2>1. kind = "openai" => next - 1 = fetched
    <3>1. kind = "openai" => Drawn = fetched
      BY <1>1, <1>5, CarriesNothing DEF AllGiven, ChunksOrder
    <3> QED
      BY <1>5, <3>1 DEF Drawn, AllGiven
  <2>2. kind = "mock" => next > Total
    BY <1>5 DEF AllGiven
  <2>3. heard.err = "none"
    BY <1>5 DEF AllGiven, Unfailed, Failed
  <2> QED
    BY <1>2, <1>3, <1>4, <2>1, <2>2, <2>3
<1>6. ASSUME wrp = "done", heard.err = "none" PROVE heard.deltas = Answer
  <2>1. hooked # <<>>
    BY <1>6 DEF Closings, HookedOnce
  <2>2. src = "ended" /\ ~Failed
    BY <1>6, <2>1, HookedMeans DEF Failed
  <2>3. kind = "openai" => next - 1 = fetched
    BY <2>2, NothingLost
  <2>4. kind = "mock" => next > Total
    BY <2>2 DEF OneError, Explained
  <2> QED
    BY <1>2, <1>3, <1>4, <2>3, <2>4
<1> QED
  BY <1>5, <1>6

\* After Done the wrapper only goes to its end, and the answer is what it was.
LEMMA DoneSentStays ==
    ASSUME OrderInv, EventsEnd, [UpNext]_allVars, rpc = "streaming", NEW c \in Nat, DoneSent(c)
    PROVE  DoneSent(c)'
<1> USE DEF OrderInv, Typed, wrapVars
<1>1. kind = "openai" => Returned
  <2>1. CASE wrp = "select"
    BY <2>1 DEF DoneSent, EventsEnd, AllGiven
  <2>2. CASE wrp # "select" /\ kind = "openai"
    <3>1. wrp \in {"closing", "ended"} /\ ~short
      BY <2>2, WhoRuns DEF DoneSent
    <3>2. src = "ended"
      BY <3>1 DEF Closings, LeftOut, Ended, ClosedBy
    <3> QED
      BY <2>2, <3>2 DEF OneError, Explained, Returned
  <2> QED
    BY <2>1, <2>2
<1>2. Answer' = Answer
  <2>1. UNCHANGED <<short, kind>>
    <3>1. Call => UNCHANGED <<short, kind>>
      BY DEF Call, AttemptFails, ShortCircuit, Expire, Connect, callVars, provVars
    <3> QED
      BY <3>1, Steps, SourceFrame, ForwarderFrame, WrapperFrame, WriterFrame, ReaderFrame,
         AdapterFrame DEF vars
  <2>2. kind = "openai" => UNCHANGED fetched
    <3>1. Reader /\ Returned => UNCHANGED fetched
      BY DEF Reader, ReaderReadsChunk, ReaderReadsOdd, ReaderReadsDone, ReaderAtEnd,
         ReaderPasses, ReaderFails, ReaderClosesFaults, ReaderClosesChunks, Reads, Returned
    <3> QED
      BY <1>1, <3>1, Steps, AdapterFrame DEF upVars
  <2> QED
    BY <2>1, <2>2 DEF Answer
<1>3. CASE Wrapper
  <2>1. ~WrapperTakes /\ ~WrapperHearsError
    BY DEF WrapperTakes, WrapperHearsError, DoneSent, EventsEnd, AllGiven, Unfailed, Failed, Ready
  <2>2. ASSUME NEW ok \in BOOLEAN, WrapperRunsHooks(ok)
        PROVE  wrp' = "closing" /\ UNCHANGED heard
    BY <2>2 DEF WrapperRunsHooks, EndStream, DoneSent
  <2>3. ASSUME NEW k \in {"events", "wrapped"}, WrapperDrops(k)
        PROVE  UNCHANGED <<wrp, heard>>
    BY <2>3 DEF WrapperDrops
  <2>4. WrapperCloses => wrp' = "ended" /\ UNCHANGED heard
    BY DEF WrapperCloses
  <2>5. /\ ~WrapperCopies /\ ~WrapperSendsDone /\ ~ShortSendsDelta /\ ~ShortSendsDone
        /\ \A ok \in BOOLEAN : ~ShortRunsHooks(ok)
    BY DEF WrapperCopies, WrapperSendsDone, ShortSendsDelta, ShortSendsDone, ShortRunsHooks,
       DoneSent
  <2>6. \/ wrp' \in {"closing", "ended"} /\ UNCHANGED heard
        \/ UNCHANGED <<wrp, heard>>
    BY <1>3, <2>1, <2>2, <2>3, <2>4, <2>5 DEF Wrapper
  <2> QED
    BY <1>2, <2>6 DEF DoneSent
<1>4. CASE UNCHANGED <<wrp, heard>>
  BY <1>2, <1>4 DEF DoneSent
<1>5. Call => UNCHANGED <<wrp, heard>>
  BY DEF Call, AttemptFails, ShortCircuit, Expire, Connect
<1> QED
  BY <1>3, <1>4, <1>5, Steps, SourceFrame, ForwarderFrame, WriterFrame, ReaderFrame,
     AdapterFrame DEF vars

LEMMA WireEndNext ==
    ASSUME OrderInv, EventsEnd, WireEnd, [UpNext]_allVars
    PROVE  WireEnd'
<1> USE StreamAssumption DEF StreamAssumption, OrderInv, Typed, Order
<1>0. PICK w \in 0..Total, c \in 0..Total, d \in 0..1, e \in 0..1 :
          /\ Exactly(wire, 0, w, d) /\ Exactly(buf["output"], w, c, e)
          /\ ~short => c = Copied
          /\ wrp \in {"shortHooks", "shortDelta"} => c = 0
          /\ wrp = "shortDone" => c = 1
          /\ d = 1 => buf["output"] = <<>>
          /\ d = 1 \/ e = 1 => DoneSent(c)
  BY DEF WireEnd
<1>1. /\ held \in Nat /\ heard.deltas \in Nat /\ Total = Chunks + 1 /\ Chunks \in Nat
      /\ wire \in Seq(Nat) /\ buf["output"] \in Seq(Nat) /\ w \in Nat /\ c \in Nat
  BY DEF DataOK, Total, BufOK
<1>2. wrp \notin {"select", "closing", "ended"} => d = 0 /\ e = 0
  BY <1>0 DEF DoneSent
<1>3. CASE rpc # "streaming"
  <2>1. /\ ~heard'.done /\ heard'.deltas = 0 /\ wire' = <<>> /\ buf'["output"] = <<>>
        /\ wrp' \in {"off", "select", "shortHooks"}
    <3>1. Call \/ UNCHANGED vars
      BY <1>3, WhoMoves, Steps, WhoRuns
    <3> QED
      BY <1>3, <3>1 DEF Roles, Fresh, Call, AttemptFails, ShortCircuit, Expire, Connect,
         wrapVars, chanVars, vars, Channels
  <2>2. Exactly(<<>>, 0, 0, 0) /\ 0 \in 0..Total /\ 0 \in 0..1 /\ Copied' = 0
    BY <1>1, <2>1, ExactlyNothing DEF Copied
  <2>3. wrp' # "done" /\ wrp' # "shortDone"
    BY <2>1
  <2> QED
    BY <2>1, <2>2, <2>3 DEF WireEnd
<1>4. CASE SseWrites
  <2>1. /\ Ready("output") /\ wire' = Append(wire, Head(buf["output"]))
        /\ buf'["output"] = Tail(buf["output"])
        /\ UNCHANGED <<short, wrp, held, heard, rpc>> /\ rpc = "streaming"
    BY <1>4, WhoMoves, TakeOutput DEF SseWrites, Writer, callVars, wrapVars
  <2>2. d = 0 /\ Copied' = Copied
    BY <1>0, <2>1 DEF Ready, Copied
  <2>3. d = 1 \/ e = 1 => DoneSent(c)'
    BY <1>0, <1>1, <2>1, DoneSentStays
  <2>4. CASE Head(buf["output"]) = Done
    <3>1. w = c /\ e = 1 /\ Tail(buf["output"]) = <<>>
      BY <1>0, <1>1, <2>1, <2>4, ExactlyTail DEF Ready
    <3>2. Exactly(wire', 0, w, 1)
      BY <1>0, <1>1, <2>1, <2>2, <2>4, ExactlyAppend
    <3>3. Exactly(<<>>, w, c, 0)
      BY <1>1, <3>1, ExactlyNothing
    <3>4. buf'["output"] = <<>>
      BY <2>1, <3>1
    <3>5. wrp' # "done" \/ heard'.err = "none"
      BY <2>1 DEF WireEnd
    <3> QED
      BY <1>0, <2>1, <2>2, <2>3, <3>1, <3>2, <3>3, <3>4, <3>5 DEF WireEnd
  <2>5. CASE Head(buf["output"]) # Done
    <3>1. Head(buf["output"]) = w + 1 /\ Exactly(Tail(buf["output"]), w + 1, c, e)
      BY <1>0, <1>1, <2>1, <2>5, ExactlyTail DEF Ready
    <3>2. Exactly(wire', 0, w + 1, 0)
      BY <1>0, <1>1, <2>1, <2>2, <3>1, ExactlyAppend
    <3>3. w + 1 \in 0..Total
      BY <1>1, <3>1 DEF Exactly
    <3>4. Exactly(buf'["output"], w + 1, c, e)
      BY <2>1, <3>1
    <3>5. wrp' # "done" \/ heard'.err = "none"
      BY <2>1 DEF WireEnd
    <3> QED
      BY <1>0, <2>1, <2>2, <2>3, <3>2, <3>3, <3>4, <3>5 DEF WireEnd
  <2> QED
    BY <2>4, <2>5
<1>5. CASE WrapperCopies
  <2>1. /\ wrp = "copying" /\ wrp' = "select"
        /\ UNCHANGED <<wire, short, held, heard, kind, fetched>>
        /\ buf'["output"] = Append(buf["output"], held) /\ ~short /\ rpc = "streaming"
    <3>1. wrp = "copying" /\ ~short /\ rpc = "streaming" /\ wrp' = "select"
      BY <1>5, WhoRuns DEF WrapperCopies
    <3>2. UNCHANGED fetched
      <4>1. ~Reader
        BY <3>1, ReaderFrame
      <4> QED
        BY <4>1, Steps, AdapterFrame DEF upVars
    <3> QED
      BY <1>1, <1>5, <3>1, <3>2, PutOutput DEF WrapperCopies, callVars, provVars
  <2>2. d = 0 /\ e = 0
    BY <1>2, <2>1
  <2>3. CASE held = Done
    <3>1. heard.done /\ AllGiven /\ buf["events"] = <<>>
      BY <2>1, <2>3 DEF EventsEnd
    <3>2. heard.deltas = Given
      <4>1. Given \in Nat
        BY <1>1 DEF Given, DataOK
      <4>2. Carries(<<>>, heard.deltas, Given)
        BY <2>1, <3>1 DEF EventsOrder
      <4> QED
        BY <1>1, <4>1, <4>2, CarriesNothing
    <3>3. c = heard.deltas /\ Copied' = c
      BY <1>0, <2>1, <2>3 DEF Copied
    <3>4. heard.deltas = Answer /\ heard.err = "none"
      BY <2>1, <3>1, <3>2, CopiedAll
    <3>5. Answer' = Answer
      BY <2>1 DEF Answer
    <3>6. DoneSent(c)'
      BY <2>1, <3>1, <3>3, <3>4, <3>5 DEF DoneSent
    <3>7. Exactly(buf'["output"], w, c, 1)
      BY <1>0, <1>1, <2>1, <2>2, <2>3, ExactlyAppend
    <3> QED
      BY <1>0, <2>1, <2>2, <3>3, <3>6, <3>7 DEF WireEnd
  <2>4. CASE held # Done
    <3>1. held = heard.deltas /\ heard.deltas <= Chunks
      <4>1. Given <= Chunks /\ Given \in Nat
        BY <1>1 DEF Given, DataOK
      <4> QED
        BY <1>1, <2>1, <2>4, <4>1 DEF EventsOrder, Carries
    <3>2. Copied' = c + 1 /\ held = c + 1 /\ c + 1 \in 0..Total
      BY <1>0, <1>1, <2>1, <2>4, <3>1 DEF Copied
    <3>3. Exactly(buf'["output"], w, c + 1, 0)
      BY <1>0, <1>1, <2>1, <2>2, <3>2, ExactlyAppend
    <3> QED
      BY <1>0, <2>1, <2>2, <3>2, <3>3 DEF WireEnd
  <2> QED
    BY <2>3, <2>4
<1>6. CASE WrapperSendsDone \/ ShortSendsDone
  <2>1. /\ wrp \in {"done", "shortDone"} /\ wrp' = "closing" /\ rpc = "streaming"
        /\ UNCHANGED <<wire, short, held, heard, kind, fetched>>
        /\ buf'["output"] = Append(buf["output"], Done)
    <3>1. wrp \in {"done", "shortDone"} /\ wrp' = "closing"
      BY <1>6 DEF WrapperSendsDone, ShortSendsDone
    <3>2. UNCHANGED fetched
      <4>1. ~Reader
        BY <3>1, ReaderFrame
      <4> QED
        BY <4>1, Steps, AdapterFrame DEF upVars
    <3> QED
      BY <1>6, <3>1, <3>2, WhoRuns, PutOutput DEF WrapperSendsDone, ShortSendsDone, Done,
         callVars, provVars
  <2>2. d = 0 /\ e = 0 /\ Copied' = Copied
    BY <1>2, <2>1 DEF Copied
  <2>3. c = Answer /\ heard.err = "none"
    <3>1. CASE wrp = "done"
      <4>1. ~short /\ c = heard.deltas /\ heard.err = "none"
        BY <1>0, <3>1, WhoRuns DEF Copied, WireEnd
      <4>2. hooked # <<>>
        BY <3>1 DEF Closings, HookedOnce
      <4>3. heard.deltas = Given
        BY <4>1, <4>2, HookedMeans
      <4> QED
        BY <2>1, <3>1, <4>1, <4>3, CopiedAll
    <3>2. CASE wrp = "shortDone"
      <4>1. short /\ c = 1 /\ heard.err = "none"
        BY <1>0, <3>2, WhoRuns DEF Roles, OneError, ErrorPlaces
      <4>2. Answer = 1
        <5>1. kind # "openai"
          BY <2>1, <4>1 DEF Roles
        <5> QED
          BY <4>1, <5>1 DEF Answer
      <4> QED
        BY <4>1, <4>2
    <3> QED
      BY <2>1, <3>1, <3>2
  <2>4. Answer' = Answer
    BY <2>1 DEF Answer
  <2>5. DoneSent(c)'
    BY <2>1, <2>3, <2>4 DEF DoneSent
  <2>6. Exactly(buf'["output"], w, c, 1)
    BY <1>0, <1>1, <2>1, <2>2, ExactlyAppend
  <2> QED
    BY <1>0, <2>1, <2>2, <2>5, <2>6 DEF WireEnd
<1>7. CASE ShortSendsDelta
  <2>1. /\ short /\ c = 0 /\ wrp = "shortDelta" /\ wrp' = "shortDone"
        /\ UNCHANGED <<wire, short>> /\ buf'["output"] = Append(buf["output"], 1)
    BY <1>0, <1>7, WhoRuns, PutOutput DEF ShortSendsDelta, callVars
  <2>2. d = 0 /\ e = 0
    BY <1>2, <2>1
  <2>3. Exactly(buf'["output"], w, 1, 0) /\ 1 \in 0..Total
    BY <1>0, <1>1, <2>1, <2>2, ExactlyAppend
  <2> QED
    BY <1>0, <2>1, <2>2, <2>3 DEF WireEnd
<1>8. CASE rpc = "streaming" /\ UNCHANGED <<wire, buf["output"]>>
  <2>1. UNCHANGED short
    <3>1. Call => UNCHANGED short
      BY <1>8 DEF Call, AttemptFails, ShortCircuit, Expire, Connect, callVars
    <3> QED
      BY <3>1, Steps, SourceFrame, ForwarderFrame, WrapperFrame, WriterFrame, ReaderFrame,
         AdapterFrame DEF vars
  <2>2. d = 1 \/ e = 1 => DoneSent(c)'
    BY <1>0, <1>1, <1>8, DoneSentStays
  <2>3. CASE UNCHANGED <<wrp, held, heard>>
    BY <1>0, <1>8, <2>1, <2>2, <2>3 DEF WireEnd, Copied
  <2>4. CASE WrapperTakes
    <3>1. wrp = "select" /\ wrp' = "copying" /\ held' \in Nat /\ ~short
      BY <2>4, WhoRuns, FirstOf DEF WrapperTakes
    <3>2. Copied' = Copied
      <4>1. CASE held' = Done
        BY <1>1, <2>4, <3>1, <4>1 DEF WrapperTakes, DataOK, Copied
      <4>2. CASE held' # Done
        BY <1>1, <2>4, <3>1, <4>2 DEF WrapperTakes, DataOK, Copied
      <4> QED
        BY <4>1, <4>2
    <3> QED
      BY <1>0, <1>8, <2>1, <2>2, <3>1, <3>2 DEF WireEnd
  <2>5. ASSUME NEW ok \in BOOLEAN, ShortRunsHooks(ok) PROVE WireEnd'
    <3>1. short /\ wrp = "shortHooks" /\ wrp' \in {"shortDelta", "closing"}
      BY <2>5, WhoRuns DEF ShortRunsHooks
    <3> QED
      BY <1>0, <1>8, <2>1, <2>2, <3>1 DEF WireEnd
  <2>6. ASSUME \/ WrapperHearsError \/ WrapperCloses
               \/ \E k \in {"events", "wrapped"} : WrapperDrops(k)
               \/ \E ok \in BOOLEAN : WrapperRunsHooks(ok)
        PROVE  WireEnd'
    <3>1. /\ wrp \notin {"copying", "shortHooks", "shortDelta", "shortDone"}
          /\ wrp' \notin {"copying", "shortHooks", "shortDelta", "shortDone"}
          /\ heard'.deltas = heard.deltas
          /\ wrp' = "done" => heard'.err = "none"
      BY <2>6 DEF WrapperHearsError, WrapperCloses, WrapperDrops, WrapperRunsHooks, EndStream,
         DataOK
    <3>2. Copied' = Copied
      BY <3>1 DEF Copied
    <3> QED
      BY <1>0, <1>8, <2>1, <2>2, <3>1, <3>2 DEF WireEnd
  <2>7. CASE ~Wrapper
    <3>1. Call => UNCHANGED <<wrp, held, heard>>
      BY <1>8 DEF Call, AttemptFails, ShortCircuit, Expire, Connect, wrapVars
    <3> QED
      BY <2>3, <2>7, <3>1, Steps, SourceFrame, ForwarderFrame, WriterFrame, ReaderFrame,
         AdapterFrame DEF vars
  <2> QED
    BY <1>5, <1>6, <1>7, <2>4, <2>5, <2>6, <2>7 DEF Wrapper
<1> QED
  BY <1>3, <1>4, <1>5, <1>6, <1>7, <1>8, WireKept

LEMMA StreamInvInit == UpInit => StreamInv
<1> SUFFICES ASSUME UpInit PROVE StreamInv
  OBVIOUS
<1>1. OrderInv
  BY OrderInit
<1>2. /\ wire = <<>> /\ buf["output"] = <<>> /\ buf["events"] = <<>> /\ buf["chunks"] = <<>>
      /\ heard.deltas = 0 /\ ~heard.done /\ Copied = 0 /\ Given = 0
      /\ kind = "none" /\ src = "off" /\ wrp = "off" /\ reader = "reading" /\ ~short
  BY StreamAssumption DEF StreamAssumption, UpInit, Init, Channels, Copied, Given
<1>3. Exactly(<<>>, 0, 0, 0)
  BY ExactlyNothing
<1>4. ChunksEnd
  BY <1>2 DEF ChunksEnd
<1>5. EventsEnd
  BY <1>2, <1>3 DEF EventsEnd
<1>6. WireEnd
  <2>1. 0 \in 0..Total /\ 0 \in 0..1
    BY StreamAssumption DEF StreamAssumption, Total
  <2> QED
    BY <1>2, <1>3, <2>1 DEF WireEnd
<1> QED
  BY <1>1, <1>4, <1>5, <1>6 DEF StreamInv, Completion

LEMMA StreamInvNext == StreamInv /\ [UpNext]_allVars => StreamInv'
<1> SUFFICES ASSUME StreamInv, [UpNext]_allVars PROVE StreamInv'
  OBVIOUS
<1>1. OrderInv /\ OrderInv'
  BY OrderNext DEF StreamInv
<1>2. ASSUME ~odd' PROVE Completion'
  <2>1. ~odd
    <3>1. Reader => (odd => odd')
      BY DEF Reader, ReaderReadsChunk, ReaderReadsOdd, ReaderReadsDone, ReaderAtEnd,
         ReaderPasses, ReaderFails, ReaderClosesFaults, ReaderClosesChunks
    <3> QED
      BY <1>2, <3>1, Steps, AdapterFrame DEF upVars
  <2> QED
    BY <1>1, <1>2, <2>1, ChunksEndNext, EventsEndNext, WireEndNext DEF StreamInv, Completion
<1> QED
  BY <1>1, <1>2 DEF StreamInv

LEMMA DoneMeans ==
    ASSUME StreamInv
    PROVE  DoneMeansComplete
<1> SUFFICES ASSUME Done \in Items(wire), ~odd
             PROVE  /\ wire = [i \in 1..(Answer + 1) |-> IF i <= Answer THEN i ELSE Done]
                    /\ heard.err = "none"
  BY DEF DoneMeansComplete
<1>1. PICK w \in 0..Total, c \in 0..Total, d \in 0..1, e \in 0..1 :
          /\ Exactly(wire, 0, w, d) /\ Exactly(buf["output"], w, c, e)
          /\ d = 1 => buf["output"] = <<>>
          /\ d = 1 \/ e = 1 => DoneSent(c)
  BY DEF StreamInv, Completion, WireEnd
<1>2. w \in Nat /\ c \in Nat /\ wire \in Seq(Nat)
  BY StreamAssumption DEF StreamAssumption, Total, StreamInv, OrderInv, Typed, DataOK
<1>3. PICK k \in 1..Len(wire) : wire[k] = Done
  BY DEF Items
<1>4. d = 1
  BY <1>1, <1>2, <1>3 DEF Exactly, Done
<1>5. w = c /\ c = Answer /\ heard.err = "none"
  BY <1>1, <1>2, <1>4, ExactlyNothing DEF DoneSent
<1>6. Len(wire) = Answer + 1 /\ \A i \in 1..Len(wire) : wire[i] = IF i <= Answer THEN i ELSE Done
  BY <1>1, <1>2, <1>4, <1>5 DEF Exactly
<1>7. wire = [i \in 1..Len(wire) |-> wire[i]]
  BY <1>2
<1>8. wire = [i \in 1..(Answer + 1) |-> IF i <= Answer THEN i ELSE Done]
  BY <1>6, <1>7
<1> QED
  BY <1>5, <1>8

\* [DONE] comes once, behind the whole answer of handleStreamingChatCompletion,
\* and never for a stream that failed.
THEOREM DoneComesComplete == UpSpec => []DoneMeansComplete
<1>1. UpSpec => []StreamInv
  BY StreamInvInit, StreamInvNext, PTL DEF UpSpec
<1> QED
  BY <1>1, DoneMeans, PTL

=============================================================================
