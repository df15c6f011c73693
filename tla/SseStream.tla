----------------------------- MODULE SseStream -----------------------------
(***************************************************************************)
(* One SSE answer on its way through the gateway: inspected up to its      *)
(* first event (relay_common.secure_success_stream), then relayed as it is *)
(* while a tracker looks for the final [DONE] event (SseDoneTracker).      *)
(*                                                                         *)
(* A byte here is a line break or a piece of a line: "event" a data field  *)
(* with a valid completion, "done" one with [DONE], "text" anything else.  *)
(* A field with text behind it is a broken one, and a line that begins     *)
(* with text a comment or another field.  All count 1 towards the limit.   *)
(***************************************************************************)
EXTENDS Integers, SequencesExt, Selections

CONSTANTS
    Chunks,             \* what the transport may deliver at once
    InspectionLimit,    \* MAX_PRECOMMIT_INSPECTION_BYTES
    MaxLength           \* bound: bytes the upstream sends

DataFields == {"event", "done"}
Breaks == {"CR", "LF"}
Bytes == DataFields \cup Breaks \cup {"text"}

ASSUME StreamAssumption ==
    /\ Chunks \subseteq Seq(Bytes) \ {<<>>}
    /\ InspectionLimit \in Nat \ {0}
    /\ MaxLength \in Nat

VARIABLES
    received,   \* all bytes the upstream has delivered (history)
    phase,
    inspection, \* the bytes inspected, up to the limit
    queue,      \* initial_chunks not relayed yet
    tracker,    \* the SseDoneTracker
    sent        \* all bytes the client has been given

streamVars == <<received, phase, inspection, queue, tracker, sent>>

\* The data lines of the event being read, and whether [DONE] has been.
NoEvent == [data |-> <<>>, closed |-> <<>>]

NewTracker == [pending |-> <<>>, event |-> NoEvent, skipLeadingLf |-> FALSE, done |-> FALSE]

StreamTypeOK ==
    /\ received \in Seq(Bytes)
    /\ phase \in {"inspecting", "rejected", "lost", "relaying",
                  "truncated", "cut", "completed"}
    /\ inspection \in Seq(Bytes)
    /\ Len(inspection) <= InspectionLimit
    /\ queue \in Seq(Seq(Bytes))
    /\ tracker.pending \in Seq(Bytes)
    /\ tracker.skipLeadingLf \in BOOLEAN
    /\ tracker.done \in BOOLEAN
    /\ sent \in Seq(Bytes)

StreamInit ==
    /\ received = <<>>
    /\ phase = "inspecting"
    /\ inspection = <<>>
    /\ queue = <<>>
    /\ tracker = NewTracker
    /\ sent = <<>>

-----------------------------------------------------------------------------
\* Lines and events, as both the inspection and the tracker read them.

LineBreaks(b, start) == {i \in start .. Len(b) : b[i] \in Breaks}

\* _next_sse_line: the line that begins at start, and where the next one does.
\* A CR that ends the buffer ends the line as well.
NextLine(b, start) ==
    LET i == Min(LineBreaks(b, start)) IN
    [line |-> SubSeq(b, start, i - 1),
     next |-> IF b[i] = "CR" /\ i < Len(b) /\ b[i + 1] = "LF" THEN i + 2 ELSE i + 1]

\* All lines of b that have come to their end.
Lines(b) ==
    LET from[start \in 1 .. Len(b) + 1] ==
            IF LineBreaks(b, start) = {}
            THEN <<>>
            ELSE <<NextLine(b, start)>> \o from[NextLine(b, start).next]
    IN  from[1]

\* One line more: an empty one closes the event, if there is any data in it.
TrackLine(e, l) ==
    CASE l.line = <<>> /\ e.data # <<>> ->
            [data |-> <<>>, closed |-> Append(e.closed, e.data)]
      [] l.line # <<>> /\ Head(l.line) \in DataFields ->
            [e EXCEPT !.data = Append(@, l.line)]
      [] OTHER -> e

\* The event as it is after each number of lines.
Tracked(e, lines) ==
    LET after[n \in 0 .. Len(lines)] ==
            IF n = 0 THEN e ELSE TrackLine(after[n - 1], lines[n])
    IN  after

Valid == <<<<"event">>>>
Done == <<<<"done">>>>

\* _classify_sse_prefix: the verdict is that on the first event.
Classify(b) ==
    LET closed == Tracked(NoEvent, Lines(b))[Len(Lines(b))].closed IN
    IF closed = <<>> THEN "need_more"
    ELSE IF Head(closed) = Valid THEN "valid" ELSE "invalid"

-----------------------------------------------------------------------------
\* Before the commitment.

\* Mistake: each chunk is classified on its own.
VerdictOnChunk(inspected, chunk) == Classify(chunk)

Verdict(inspected, chunk) == Classify(inspected)

\* Mistake: the last chunk is inspected whole.
InspectedWhole(chunk) == inspection \o chunk

Inspected(chunk) ==
    SubSeq(inspection \o chunk, 1, Min({Len(inspection \o chunk), InspectionLimit}))

\* The next chunk is inspected as far as the limit goes, and kept whole.
Inspect(chunk) ==
    /\ phase = "inspecting"
    /\ Len(received) + Len(chunk) <= MaxLength
    /\ received' = received \o chunk
    /\ inspection' = Inspected(chunk)
    /\ queue' = Append(queue, chunk)
    /\ phase' = IF Verdict(inspection', chunk) = "valid" THEN "relaying"
                ELSE IF \/ Verdict(inspection', chunk) = "invalid"
                        \/ Len(inspection') = InspectionLimit
                     THEN "rejected" ELSE "inspecting"
    /\ UNCHANGED <<tracker, sent>>

\* The stream ends or breaks before its first event.
Lose ==
    /\ phase = "inspecting"
    /\ phase' = "lost"
    /\ UNCHANGED <<received, inspection, queue, tracker, sent>>

-----------------------------------------------------------------------------
\* After it (iter_committed_stream, relay._stream_committed).

\* Mistake: a CRLF split between two chunks is taken for two line breaks.
FreshKeepingLf(t, chunk) == chunk

\* What is new in this chunk: the LF of a CRLF begun in the last one is not.
Fresh(t, chunk) ==
    IF t.skipLeadingLf /\ Head(chunk) = "LF" THEN Tail(chunk) ELSE chunk

\* SseDoneTracker.feed, once it has not seen [DONE] yet.  Reading stops at the
\* line that closes the [DONE] event; what was read is dropped.
Fed(t, chunk) ==
    LET buffer   == t.pending \o Fresh(t, chunk)
        lines    == Lines(buffer)
        after    == Tracked(t.event, lines)
        closing  == {n \in 1 .. Len(lines) : Done \in Range(after[n].closed)}
        last     == IF closing = {} THEN Len(lines) ELSE Min(closing)
        start    == IF last = 0 THEN 1 ELSE lines[last].next
    IN
    [pending       |-> SubSeq(buffer, start, Len(buffer)),
     event         |-> [data |-> after[last].data, closed |-> <<>>],
     skipLeadingLf |-> start > 1 /\ start = Len(buffer) + 1 /\ buffer[start - 1] = "CR",
     done          |-> closing # {}]

Feed(t, chunk) ==
    CASE t.done -> t
      [] ~t.done /\ Fresh(t, chunk) = <<>> -> [t EXCEPT !.skipLeadingLf = FALSE]
      [] OTHER -> Fed(t, chunk)

\* _event_bytes: every data line of the event and its line break.
EventBytes(data) ==
    LET upTo[n \in 0 .. Len(data)] == IF n = 0 THEN 0 ELSE upTo[n - 1] + Len(data[n]) + 1
    IN  upTo[Len(data)]

\* Mistake: an event of just the permitted size is refused.
TooMuchAtLimit(t) == Len(t.pending) + EventBytes(t.event.data) >= InspectionLimit

\* _enforce_tracking_limit raises.
TooMuch(t) == Len(t.pending) + EventBytes(t.event.data) > InspectionLimit

\* A chunk is tracked, then yielded; it is not if the tracker objects.
Relay(chunk) ==
    LET next == Feed(tracker, chunk) IN
    /\ tracker' = next
    /\ IF TooMuch(next)
       THEN phase' = "truncated" /\ UNCHANGED sent
       ELSE sent' = sent \o chunk /\ UNCHANGED phase
    /\ UNCHANGED inspection

RelayInitial ==
    /\ phase = "relaying"
    /\ queue # <<>>
    /\ Relay(Head(queue))
    /\ queue' = Tail(queue)
    /\ UNCHANGED received

RelayNext(chunk) ==
    /\ phase = "relaying"
    /\ queue = <<>>
    /\ Len(received) + Len(chunk) <= MaxLength
    /\ received' = received \o chunk
    /\ Relay(chunk)
    /\ UNCHANGED queue

\* Mistake: the end of the stream is taken for its completion.
EndUnchecked ==
    /\ phase = "relaying"
    /\ queue = <<>>
    /\ phase' = "completed"
    /\ UNCHANGED <<received, inspection, queue, tracker, sent>>

\* require_done at the end of the stream.
End ==
    /\ phase = "relaying"
    /\ queue = <<>>
    /\ phase' = IF tracker.done THEN "completed" ELSE "cut"
    /\ UNCHANGED <<received, inspection, queue, tracker, sent>>

\* The connection breaks.
Break ==
    /\ phase = "relaying"
    /\ queue = <<>>
    /\ phase' = "cut"
    /\ UNCHANGED <<received, inspection, queue, tracker, sent>>

StreamNext ==
    \/ \E chunk \in Chunks : Inspect(chunk) \/ RelayNext(chunk)
    \/ Lose \/ RelayInitial \/ End \/ Break

StreamSpec == StreamInit /\ [][StreamNext]_streamVars

-----------------------------------------------------------------------------
\* The same questions asked of the whole text, line breaks made uniform first.

\* CRLF, CR and LF all become LF.
Uniform(s) ==
    Kept([i \in 1 .. Len(s) |-> IF s[i] \in Breaks THEN "LF" ELSE s[i]],
         {i \in 1 .. Len(s) : ~(s[i] = "LF" /\ i > 1 /\ s[i - 1] = "CR")})

\* Where the blank lines of a uniform text are; 0 is its beginning.
Blanks(u) == {i \in 1 .. Len(u) : u[i] = "LF" /\ (i = 1 \/ u[i - 1] = "LF")}

\* The part of u between two positions that are its beginning or blank lines
\* holds nothing but this field and lines without data.
OnlyField(u, from, to, field) ==
    LET Starts == {i \in from + 1 .. to - 1 : i = from + 1 \/ u[i - 1] = "LF"} IN
    \E i \in Starts :
        /\ u[i] = field /\ u[i + 1] = "LF"
        /\ \A j \in Starts \ {i} : u[j] \notin DataFields

HasData(u, from, to) ==
    \E i \in from + 1 .. to - 1 :
        u[i] \in DataFields /\ (i = from + 1 \/ u[i - 1] = "LF")

\* Blank lines next to each other.
Adjacent(u, from, to) == Blanks(u) \cap from + 1 .. to - 1 = {}

\* What the first event of s is: valid, something else, or not there yet.
FirstEvent(s) ==
    LET u == Uniform(s)
        ends == {e \in Blanks(u) : \E p \in Blanks(u) \cup {0} :
                     p < e /\ Adjacent(u, p, e) /\ HasData(u, p, e)}
    IN  IF ends = {} THEN "none"
        ELSE LET e == Min(ends)
                 p == Max({q \in Blanks(u) \cup {0} : q < e})
             IN  IF OnlyField(u, p, e, "event") THEN "valid" ELSE "other"

HasDone(s) ==
    LET u == Uniform(s) IN
    \E e \in Blanks(u), p \in Blanks(u) \cup {0} :
        p < e /\ Adjacent(u, p, e) /\ OnlyField(u, p, e, "done")

\* How much of s is behind its last blank line.
OpenBytes(s) == Len(Uniform(s)) - Max(Blanks(Uniform(s)) \cup {0})

Inspectable(s) == SubSeq(s, 1, Min({Len(s), InspectionLimit}))

\* Whether an answer is committed to depends on the first event within the
\* limit and on nothing else, however the transport cuts the text.
CommitsOnFirstEvent ==
    LET first == FirstEvent(Inspectable(received)) IN
    /\ phase = "inspecting" => first = "none" /\ Len(received) < InspectionLimit
    /\ phase = "rejected" => \/ first = "other"
                             \/ first = "none" /\ Len(received) >= InspectionLimit
    /\ phase = "lost" => first = "none"
    /\ phase \notin {"inspecting", "rejected", "lost"} /\ queue # <<>> => first = "valid"

\* The tracker has seen [DONE] exactly if the text relayed so far has such an
\* event, complete with its blank line, wherever chunks begin and end.
DoneByContent ==
    phase \in {"relaying", "cut", "completed"} => (tracker.done <=> HasDone(sent))

\* The client of a completed stream has all bytes that came, once and in order,
\* and a [DONE] event among them; it never has anything else than their
\* beginning.
CompletedIsWhole ==
    /\ phase \in {"relaying", "cut", "completed"} => sent \o FlattenSeq(queue) = received
    /\ phase = "completed" => HasDone(received)

\* A stream is given up for its size only when it really has a line or an event
\* longer than the limit, or more than that behind its [DONE].
TruncatedOnlyOversized ==
    phase = "truncated" /\ ~tracker.done =>
        \E n \in 1 .. Len(received) : OpenBytes(SubSeq(received, 1, n)) > InspectionLimit

\* What the tracker concludes of a stream is what its text says (SseDoneTracker).
EndedAsItsText == DoneByContent /\ CompletedIsWhole /\ TruncatedOnlyOversized

\* StreamTruncatedError (relay_common.py:352): the stream ended without its
\* [DONE] event.
TruncatedWithoutDone ==
    phase = "truncated" => ~tracker.done

=============================================================================
