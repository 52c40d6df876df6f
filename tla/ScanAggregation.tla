-------------------------- MODULE ScanAggregation --------------------------
(***************************************************************************)
(* What the streaming scan promises its caller (spec section 4.4), with no *)
(* transport detail.  Per caller: Idle -> Receiving -> Completed | Failed. *)
(* The service produces an ordered stream of chunks; the call returns the  *)
(* concatenation of their items once end-of-stream is signalled and no    *)
(* chunk carried an error, raises the first chunk error with no items, or  *)
(* fails with a transport error at any time.                              *)
(***************************************************************************)
EXTENDS Naturals, Sequences, SequencesExt

CONSTANTS Callers, Items, Errors, MaxChunks

Chunks == [items : BoundedSeq(Items, 1), error : {""} \cup Errors]

Results == [kind : {"none", "TransportError"}]
             \cup [kind : {"ok"}, items : Seq(Items)]
             \cup [kind : {"StreamError"}, error : Errors]

VARIABLES
  status,  \* "idle" or "receiving": a scan call is in progress
  stream,  \* chunks the service produced for the caller's current scan
  ended,   \* the transport signalled end-of-stream with status OK
  result   \* what the caller's last scan returned or raised

avars == <<status, stream, ended, result>>

ErrorAt(c) == {i \in 1..Len(stream[c]) : stream[c][i].error # ""}

StreamItems(c) == FlattenSeq([i \in 1..Len(stream[c]) |-> stream[c][i].items])

AInit ==
  /\ status = [c \in Callers |-> "idle"]
  /\ stream = [c \in Callers |-> <<>>]
  /\ ended = [c \in Callers |-> FALSE]
  /\ result = [c \in Callers |-> [kind |-> "none"]]

Dispatch(c) ==
  /\ status[c] = "idle"
  /\ status' = [status EXCEPT ![c] = "receiving"]
  /\ stream' = [stream EXCEPT ![c] = <<>>]
  /\ result' = [result EXCEPT ![c] = [kind |-> "none"]]
  /\ UNCHANGED ended

\* The call cannot be dispatched at all (no usable channel).
Reject(c) ==
  /\ status[c] = "idle"
  /\ stream' = [stream EXCEPT ![c] = <<>>]
  /\ result' = [result EXCEPT ![c] = [kind |-> "TransportError"]]
  /\ UNCHANGED <<status, ended>>

Produce(c, ch) ==
  /\ status[c] = "receiving"
  /\ ~ended[c]
  /\ Len(stream[c]) < MaxChunks
  /\ stream' = [stream EXCEPT ![c] = Append(@, ch)]
  /\ UNCHANGED <<status, ended, result>>

EndOfStream(c) ==
  /\ status[c] = "receiving"
  /\ ~ended[c]
  /\ ended' = [ended EXCEPT ![c] = TRUE]
  /\ UNCHANGED <<status, stream, result>>

Complete(c) ==
  /\ status[c] = "receiving"
  /\ ended[c]
  /\ ErrorAt(c) = {}
  /\ result' = [result EXCEPT ![c] = [kind |-> "ok", items |-> StreamItems(c)]]
  /\ status' = [status EXCEPT ![c] = "idle"]
  /\ ended' = [ended EXCEPT ![c] = FALSE]
  /\ UNCHANGED stream

\* Fail-fast: the first erroneous chunk is raised, accumulated items are
\* discarded.
Fail(c) ==
  /\ status[c] = "receiving"
  /\ ErrorAt(c) # {}
  /\ LET first == CHOOSE i \in ErrorAt(c) : \A j \in ErrorAt(c) : i <= j
     IN result' = [result EXCEPT ![c] = [kind |-> "StreamError",
                                         error |-> stream[c][first].error]]
  /\ status' = [status EXCEPT ![c] = "idle"]
  /\ ended' = [ended EXCEPT ![c] = FALSE]
  /\ UNCHANGED stream

Abort(c) ==
  /\ status[c] = "receiving"
  /\ result' = [result EXCEPT ![c] = [kind |-> "TransportError"]]
  /\ status' = [status EXCEPT ![c] = "idle"]
  /\ ended' = [ended EXCEPT ![c] = FALSE]
  /\ UNCHANGED stream

ANext ==
  \E c \in Callers :
    \/ Dispatch(c) \/ Reject(c) \/ EndOfStream(c)
    \/ Complete(c) \/ Fail(c) \/ Abort(c)
    \/ \E ch \in Chunks : Produce(c, ch)

ASpec == AInit /\ [][ANext]_avars

=============================================================================
