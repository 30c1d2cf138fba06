------------------------------ MODULE Clients -------------------------------
(***************************************************************************)
(* The clients that start or follow a run over /v1/runs: the TypeScript    *)
(* and Python packages, the command line and the web application.  The     *)
(* answer arrives in chunks cut anywhere, and may stop anywhere.           *)
(*                                                                         *)
(* A chunk is a sequence of tokens: the `event:' line of a frame, the two  *)
(* halves of its `data:' line, a comment line, a carriage return, a line   *)
(* feed.                                                                   *)
(***************************************************************************)
EXTENDS Naturals, Sequences, SequencesExt, FiniteSets

CONSTANT MaxFrames   \* bound: frames of a stream

VARIABLES
    client,      \* who calls
    answer,      \* "none" yet, a "stream", or the kind of a JSON body
    eol,         \* how the lines of the stream end
    written,     \* the frames the transport writes: <<kind>>
    arrived,     \* tokens that have arrived
    buffered,    \* tokens received that are not a whole frame yet
    latest,      \* the last run frame, by its place among the frames read, or 0
    read,        \* history: frames read so far
    ending,      \* "none" yet, "tidy" or "broken"
    outcome      \* what the caller is given, or Unanswered

clientVars == <<client, answer, eol, written, arrived, buffered, latest, read, ending, outcome>>

FrameKinds == {"comment", "event", "run", "error"}
Unanswered == [kind |-> "unanswered"]

(* writeEventFrame, and the comment that keeps a silent stream alive. *)
FrameTokens(kind) ==
    IF kind = "comment" THEN <<"comment">> \o eol \o eol
    ELSE <<kind>> \o eol \o <<"da", "ta">> \o eol \o eol
Transcript == FlattenSeq([i \in DOMAIN written |-> FrameTokens(written[i])])

(* The outcomes: a run with the frame it came in, a refusal the daemon     *)
(* made, or the absence of an answer.  describeError, describe_error and   *)
(* classifyFailure call only the second recognised.                        *)
Run(i) == [kind |-> "run", frame |-> i]
Refusal == [kind |-> "refusal"]
NoAnswerAtAll == [kind |-> "noAnswer"]
Recognised(o) == o.kind = "refusal"

-----------------------------------------------------------------------------
(* The buffer after a chunk: CRLF is normalised over all of it, except in  *)
(* the web application, which does not know it.                            *)
Normalised(b) ==
    LET kept == SelectSeq([i \in DOMAIN b |-> i],
                          LAMBDA i : ~(b[i] = "\r" /\ i < Len(b) /\ b[i + 1] = "\n"))
    IN  [i \in DOMAIN kept |-> b[kept[i]]]
BufferedByChunk(b, chunk) == IF client = "web" THEN b \o chunk ELSE b \o Normalised(chunk)
Buffered(b, chunk) == IF client = "web" THEN b \o chunk ELSE Normalised(b \o chunk)

(* The frames a blank line ends, and what comes after the last of them. *)
Split(b) ==
    FoldLeft(LAMBDA acc, t :
                 IF t = "\n" /\ acc.rest # <<>> /\ Last(acc.rest) = "\n"
                 THEN [whole |-> Append(acc.whole, Front(acc.rest)), rest |-> <<>>]
                 ELSE [acc EXCEPT !.rest = Append(@, t)],
             [whole |-> <<>>, rest |-> <<>>], b)

(* parseEventFrame: nothing without data; data that is not JSON is text.   *)
ParseFrame(raw) ==
    LET names == SelectSeq(raw, LAMBDA t : t \in FrameKinds \ {"comment"})
    IN  [name |-> IF names = <<>> THEN "message" ELSE Last(names),
         data |-> Contains(raw, "da"), json |-> Contains(raw, "ta")]
Parsed(raws) == SelectSeq([i \in DOMAIN raws |-> ParseFrame(raws[i])], LAMBDA f : f.data)

(* #followRun, _follow_run, startRun and reduceRun over the frames of one  *)
(* read: an error frame ends the call, a run frame is kept, and any other  *)
(* goes to the listener.                                                   *)
Followed(frames) ==
    FoldLeft(LAMBDA acc, f :
                 IF acc.outcome # Unanswered THEN acc
                 ELSE IF f.name = "error"
                 THEN [acc EXCEPT !.read = @ + 1, !.outcome = IF f.json THEN Refusal ELSE NoAnswerAtAll]
                 ELSE IF f.name = "run"
                 THEN [read |-> acc.read + 1, latest |-> IF f.json THEN acc.read + 1 ELSE 0,
                       outcome |-> Unanswered]
                 ELSE [acc EXCEPT !.read = @ + 1],
             [read |-> read, latest |-> latest, outcome |-> Unanswered], frames)

-----------------------------------------------------------------------------
(* No token or link to call with, or no transport there. *)
NoBody ==
    /\ answer = "none"
    /\ outcome = Unanswered
    /\ outcome' = NoAnswerAtAll
    /\ UNCHANGED <<client, answer, eol, written, arrived, buffered, latest, read, ending>>

(* One JSON body, as the content type says: a run, a ProtocolError, or     *)
(* something this build does not recognise.                                *)
JsonBody(body) ==
    /\ answer = "none" /\ outcome = Unanswered
    /\ answer' = body
    /\ outcome' = CASE body = "runBody" -> Run(0)
                    [] body = "protocolError" -> Refusal
                    [] body = "unreadable" -> NoAnswerAtAll
    /\ UNCHANGED <<client, eol, written, arrived, buffered, latest, read, ending>>

StreamOpens ==
    /\ answer = "none" /\ outcome = Unanswered
    /\ answer' = "stream"
    /\ eol' \in IF client = "web" THEN {<<"\n">>} ELSE {<<"\n">>, <<"\r", "\n">>}
    /\ \E n \in 0 .. MaxFrames : written' \in [1 .. n -> FrameKinds]
    /\ UNCHANGED <<client, arrived, buffered, latest, read, ending, outcome>>

Chunk(n) ==
    LET split == Split(Buffered(buffered, SubSeq(Transcript, arrived + 1, arrived + n)))
        after == Followed(Parsed(split.whole))
    IN  /\ answer = "stream" /\ outcome = Unanswered
        /\ arrived + n <= Len(Transcript)
        /\ arrived' = arrived + n
        /\ buffered' = split.rest
        /\ read' = after.read /\ latest' = after.latest /\ outcome' = after.outcome
        /\ UNCHANGED <<client, answer, eol, written, ending>>

(* The stream ends tidily.  The Python reader takes what is left for a     *)
(* frame of its own; the others drop it.                                   *)
Left == IF client = "python" THEN Parsed(<<buffered>>) ELSE <<>>
Ends ==
    LET after == Followed(Left)
    IN  /\ answer = "stream" /\ outcome = Unanswered
        /\ outcome' = IF after.outcome # Unanswered THEN after.outcome
                      ELSE IF after.latest = 0 THEN NoAnswerAtAll ELSE Run(after.latest)
        /\ read' = after.read /\ latest' = after.latest
        /\ ending' = "tidy"
        /\ UNCHANGED <<client, answer, eol, written, arrived, buffered>>

(* The connection breaks, or is silent for the idle timeout. *)
Breaks ==
    /\ answer = "stream" /\ outcome = Unanswered
    /\ outcome' = NoAnswerAtAll
    /\ ending' = "broken"
    /\ UNCHANGED <<client, answer, eol, written, arrived, buffered, latest, read>>

ClientsInit ==
    /\ client \in {"typescript", "python", "cli", "web"}
    /\ answer = "none"
    /\ eol = <<>> /\ written = <<>>
    /\ arrived = 0 /\ buffered = <<>>
    /\ latest = 0 /\ read = 0
    /\ ending = "none"
    /\ outcome = Unanswered

ClientsNext ==
    \/ NoBody
    \/ \E body \in {"runBody", "protocolError", "unreadable"} : JsonBody(body)
    \/ StreamOpens
    \/ \E n \in 1 .. 8 : Chunk(n)
    \/ Ends
    \/ Breaks

ClientsSpec == ClientsInit /\ [][ClientsNext]_clientVars

-----------------------------------------------------------------------------
(* Where the frames lie in the stream, by what was written. *)
EndOf(i) == Len(FlattenSeq([k \in 1 .. i |-> FrameTokens(written[k])]))
Whole == {i \in DOMAIN written : EndOf(i) <= arrived /\ written[i] # "comment"}
PayloadArrived(i) ==
    arrived >= EndOf(i - 1) + Len(FrameTokens(written[i])) - 2 * Len(eol)
NthRead(n) == CHOOSE i \in DOMAIN written :
                 written[i] # "comment" /\ Cardinality({k \in 1 .. i : written[k] # "comment"}) = n

(* However the stream is cut into chunks, and wherever it stops, a client  *)
(* has read each whole frame once; it returns the last run it was told of  *)
(* and no run it was not; and it calls a failure the daemon's refusal only *)
(* when the daemon sent one.                                               *)
FollowsTheStream ==
    answer = "stream" =>
        /\ ending = "none" /\ outcome = Unanswered => read = Cardinality(Whole)
        /\ outcome.kind = "run" =>
              LET i == NthRead(outcome.frame)
              IN  /\ written[i] = "run" /\ PayloadArrived(i)
                  /\ \A k \in Whole : k > i => written[k] = "event"
        /\ Recognised(outcome) =>
              \E i \in DOMAIN written : written[i] = "error" /\ PayloadArrived(i)
        /\ ending = "tidy" /\ arrived = Len(Transcript) =>
              (outcome.kind = "run" <=> /\ \E i \in Whole : written[i] = "run"
                                        /\ \A i \in Whole : written[i] # "error")
=============================================================================
