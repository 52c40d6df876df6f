------------------------------- MODULE Client -------------------------------
(***************************************************************************)
(* keystonedb.Client (bindings/python/client/keystonedb/client.py): one    *)
(* gRPC channel shared by several caller threads.  Each caller blocks in   *)
(* one call at a time: a unary call (one request, one response) or the     *)
(* streaming scan, whose chunks the client aggregates in arrival order.    *)
(* Any thread may close the client; closing the channel cancels every RPC  *)
(* in flight.  The server and the transport are the environment: they      *)
(* answer, stream chunks, end streams or fail calls, in any order.         *)
(***************************************************************************)
EXTENDS Naturals, Sequences, SequencesExt

CONSTANTS
  Callers,     \* threads calling through the one Client
  UnaryCalls,  \* client methods exercised; all have the same body
  Items,       \* item payloads a scan chunk may carry
  Errors,      \* non-empty error strings a chunk may carry
  MaxChunks,   \* bound: chunks the server sends on one scan stream
  MaxCalls     \* bound: calls issued by each caller

\* Client methods whose body is "return self._stub.<Method>(request)".
UnaryMethods == {"put", "get", "delete", "query", "batch_get", "batch_write",
                 "transact_get", "transact_write", "update", "execute_statement"}

ASSUME UnaryCalls \subseteq UnaryMethods

\* A ScanResponse: repeated items plus the error string ("" when none).
Chunks == [items : BoundedSeq(Items, 1), error : {""} \cup Errors]

\* gRPC call status: "active" until the server ends it ("ok"), the
\* transport or server fails it ("failed"), or channel.close() cancels it.
RpcStates == {"none", "active", "ok", "failed", "cancelled"}

VARIABLES
  channel,      \* "none" before Client.connect, then "open", then "closed"
  pc,           \* "idle", "scan", or the unary method the caller is blocked in
  rpc,          \* status of the caller's current RPC
  inbox,        \* chunks delivered to the call object, not yet iterated
  sent,         \* history: every chunk the server sent on the current scan
  items,        \* the local list scan() accumulates
  scanResult,   \* what the caller's last scan() returned or raised
  unaryResult,  \* what the caller's last unary call returned or raised
  calls,        \* calls issued so far by each caller
  reachable     \* a server listens at the address given to connect()

vars == <<channel, pc, rpc, inbox, sent, items, scanResult, unaryResult, calls,
          reachable>>

NoResult == [kind |-> "none"]

TypeOK ==
  /\ channel \in {"none", "open", "closed"}
  /\ pc \in [Callers -> {"idle", "scan"} \cup UnaryCalls]
  /\ rpc \in [Callers -> RpcStates]
  /\ inbox \in [Callers -> BoundedSeq(Chunks, MaxChunks)]
  /\ sent \in [Callers -> BoundedSeq(Chunks, MaxChunks)]
  /\ items \in [Callers -> BoundedSeq(Items, MaxChunks)]
  /\ scanResult \in [Callers -> [kind : {"none", "RpcError", "ValueError"}]
                        \cup [kind : {"ok"}, items : BoundedSeq(Items, MaxChunks)]
                        \cup [kind : {"StreamError"}, error : Errors]]
  /\ unaryResult \in [Callers -> {"none", "response", "RpcError", "ValueError"}]
  /\ calls \in [Callers -> 0..MaxCalls]
  /\ reachable \in BOOLEAN

Init ==
  /\ channel = "none"
  /\ pc = [c \in Callers |-> "idle"]
  /\ rpc = [c \in Callers |-> "none"]
  /\ inbox = [c \in Callers |-> <<>>]
  /\ sent = [c \in Callers |-> <<>>]
  /\ items = [c \in Callers |-> <<>>]
  /\ scanResult = [c \in Callers |-> NoResult]
  /\ unaryResult = [c \in Callers |-> "none"]
  /\ calls = [c \in Callers |-> 0]
  /\ reachable \in BOOLEAN

(***************************************************************************)
(* Client operations                                                       *)
(***************************************************************************)

\* Client.connect: grpc.insecure_channel(address) and a stub over it.
\* The channel connects lazily: connect() returns whether or not a server
\* is reachable.
Connect ==
  /\ channel = "none"
  /\ channel' = "open"
  /\ UNCHANGED <<pc, rpc, inbox, sent, items, scanResult, unaryResult, calls, reachable>>

\* A cancelled or failed call keeps at most the one response gRPC had
\* already received; messages still in transit are dropped.
Kept(s, k) == SubSeq(s, 1, IF k < Len(s) THEN k ELSE Len(s))

\* Mutant of Close: the client drops its channel reference without calling
\* channel.close(), so calls in flight are never cancelled.
CloseWithoutCancel ==
  /\ channel # "none"
  /\ channel' = "closed"
  /\ UNCHANGED <<pc, rpc, inbox, sent, items, scanResult, unaryResult, calls, reachable>>

\* Client.close (also run by __exit__): self._channel is always truthy, so
\* channel.close() runs on every call; it cancels every RPC in flight and
\* is a no-op on a closed channel.
Close ==
  /\ channel # "none"
  /\ channel' = "closed"
  /\ rpc' = [c \in Callers |-> IF rpc[c] = "active" THEN "cancelled" ELSE rpc[c]]
  /\ \E k \in [Callers -> 0..1] :
       inbox' = [c \in Callers |->
                   IF rpc[c] = "active" THEN Kept(inbox[c], k[c]) ELSE inbox[c]]
  /\ UNCHANGED <<pc, sent, items, scanResult, unaryResult, calls, reachable>>

\* put/get/delete/...: self._stub.<Method>(request).  On a closed channel
\* gRPC raises ValueError before anything is sent.
CallUnary(c, m) ==
  /\ pc[c] = "idle"
  /\ calls[c] < MaxCalls
  /\ channel # "none"
  /\ calls' = [calls EXCEPT ![c] = @ + 1]
  /\ \/ /\ channel = "open"
        /\ pc' = [pc EXCEPT ![c] = m]
        /\ rpc' = [rpc EXCEPT ![c] = "active"]
        /\ unaryResult' = [unaryResult EXCEPT ![c] = "none"]
     \/ /\ channel = "closed"
        /\ unaryResult' = [unaryResult EXCEPT ![c] = "ValueError"]
        /\ UNCHANGED <<pc, rpc>>
  /\ UNCHANGED <<channel, inbox, sent, items, scanResult, reachable>>

\* The blocking stub call returns the response or raises grpc.RpcError.
ReturnUnary(c) ==
  /\ pc[c] \in UnaryCalls
  /\ rpc[c] \in {"ok", "failed", "cancelled"}
  /\ unaryResult' = [unaryResult EXCEPT ![c] =
                       IF rpc[c] = "ok" THEN "response" ELSE "RpcError"]
  /\ pc' = [pc EXCEPT ![c] = "idle"]
  /\ rpc' = [rpc EXCEPT ![c] = "none"]
  /\ UNCHANGED <<channel, inbox, sent, items, scanResult, calls, reachable>>

\* scan(): items = []; for response in self._stub.Scan(request).
StartScan(c) ==
  /\ pc[c] = "idle"
  /\ calls[c] < MaxCalls
  /\ channel # "none"
  /\ calls' = [calls EXCEPT ![c] = @ + 1]
  /\ items' = [items EXCEPT ![c] = <<>>]
  /\ sent' = [sent EXCEPT ![c] = <<>>]
  /\ inbox' = [inbox EXCEPT ![c] = <<>>]
  /\ \/ /\ channel = "open"
        /\ pc' = [pc EXCEPT ![c] = "scan"]
        /\ rpc' = [rpc EXCEPT ![c] = "active"]
        /\ scanResult' = [scanResult EXCEPT ![c] = NoResult]
     \/ /\ channel = "closed"
        /\ scanResult' = [scanResult EXCEPT ![c] = [kind |-> "ValueError"]]
        /\ UNCHANGED <<pc, rpc>>
  /\ UNCHANGED <<channel, unaryResult, reachable>>

\* Mutant of ScanNext: "if response.error is not None", always true for a
\* protobuf string, so every chunk raises, with its empty error.
ScanNextNoneCheck(c) ==
  /\ pc[c] = "scan"
  /\ inbox[c] # <<>>
  /\ LET response == Head(inbox[c]) IN
       /\ scanResult' = [scanResult EXCEPT ![c] =
                           [kind |-> "StreamError", error |-> response.error]]
       /\ pc' = [pc EXCEPT ![c] = "idle"]
       /\ rpc' = [rpc EXCEPT ![c] = "none"]
       /\ inbox' = [inbox EXCEPT ![c] = <<>>]
       /\ items' = [items EXCEPT ![c] = <<>>]
  /\ UNCHANGED <<channel, sent, unaryResult, calls, reachable>>

\* Mutant of ScanNext: "break" instead of "raise" on an erroneous chunk,
\* returning the items gathered so far.
ScanNextBreakOnError(c) ==
  /\ pc[c] = "scan"
  /\ inbox[c] # <<>>
  /\ LET response == Head(inbox[c]) IN
       \/ /\ response.error # ""
          /\ scanResult' = [scanResult EXCEPT ![c] = [kind |-> "ok", items |-> items[c]]]
          /\ pc' = [pc EXCEPT ![c] = "idle"]
          /\ rpc' = [rpc EXCEPT ![c] = "none"]
          /\ inbox' = [inbox EXCEPT ![c] = <<>>]
          /\ items' = [items EXCEPT ![c] = <<>>]
       \/ /\ response.error = ""
          /\ items' = [items EXCEPT ![c] = @ \o response.items]
          /\ inbox' = [inbox EXCEPT ![c] = Tail(@)]
          /\ UNCHANGED <<scanResult, pc, rpc>>
  /\ UNCHANGED <<channel, sent, unaryResult, calls, reachable>>

\* One loop iteration: a chunk with a non-empty error raises at once (the
\* abandoned iterator is released and cancels the call); otherwise its
\* items are appended.
ScanNext(c) ==
  /\ pc[c] = "scan"
  /\ inbox[c] # <<>>
  /\ LET response == Head(inbox[c]) IN
       \/ /\ response.error # ""
          /\ scanResult' = [scanResult EXCEPT ![c] =
                              [kind |-> "StreamError", error |-> response.error]]
          /\ pc' = [pc EXCEPT ![c] = "idle"]
          /\ rpc' = [rpc EXCEPT ![c] = "none"]
          /\ inbox' = [inbox EXCEPT ![c] = <<>>]
          /\ items' = [items EXCEPT ![c] = <<>>]
       \/ /\ response.error = ""
          /\ items' = [items EXCEPT ![c] = @ \o response.items]
          /\ inbox' = [inbox EXCEPT ![c] = Tail(@)]
          /\ UNCHANGED <<scanResult, pc, rpc>>
  /\ UNCHANGED <<channel, sent, unaryResult, calls, reachable>>

\* The iterator is exhausted: StopIteration returns the items, a non-OK
\* status raises grpc.RpcError and the local list is dropped.
ScanEnd(c) ==
  /\ pc[c] = "scan"
  /\ inbox[c] = <<>>
  /\ rpc[c] \in {"ok", "failed", "cancelled"}
  /\ scanResult' = [scanResult EXCEPT ![c] =
                      IF rpc[c] = "ok" THEN [kind |-> "ok", items |-> items[c]]
                                       ELSE [kind |-> "RpcError"]]
  /\ pc' = [pc EXCEPT ![c] = "idle"]
  /\ rpc' = [rpc EXCEPT ![c] = "none"]
  /\ items' = [items EXCEPT ![c] = <<>>]
  /\ UNCHANGED <<channel, inbox, sent, unaryResult, calls, reachable>>

(***************************************************************************)
(* Server and transport (environment)                                      *)
(***************************************************************************)

\* Only a reachable server answers, streams or ends a stream.
Respond(c) ==
  /\ reachable
  /\ pc[c] \in UnaryCalls
  /\ rpc[c] = "active"
  /\ rpc' = [rpc EXCEPT ![c] = "ok"]
  /\ UNCHANGED <<channel, pc, inbox, sent, items, scanResult, unaryResult, calls, reachable>>

SendChunk(c, ch) ==
  /\ reachable
  /\ pc[c] = "scan"
  /\ rpc[c] = "active"
  /\ Len(sent[c]) < MaxChunks
  /\ sent' = [sent EXCEPT ![c] = Append(@, ch)]
  /\ inbox' = [inbox EXCEPT ![c] = Append(@, ch)]
  /\ UNCHANGED <<channel, pc, rpc, items, scanResult, unaryResult, calls, reachable>>

EndStream(c) ==
  /\ reachable
  /\ pc[c] = "scan"
  /\ rpc[c] = "active"
  /\ rpc' = [rpc EXCEPT ![c] = "ok"]
  /\ UNCHANGED <<channel, pc, inbox, sent, items, scanResult, unaryResult, calls, reachable>>

\* Connection loss or a non-OK status from the server; on an unreachable
\* address, the UNAVAILABLE of a failed connection attempt.
FailCall(c) ==
  /\ rpc[c] = "active"
  /\ rpc' = [rpc EXCEPT ![c] = "failed"]
  /\ \E k \in 0..1 : inbox' = [inbox EXCEPT ![c] = Kept(@, k)]
  /\ UNCHANGED <<channel, pc, sent, items, scanResult, unaryResult, calls, reachable>>

(***************************************************************************)
(* Specification                                                           *)
(***************************************************************************)

ClientStep(c) ==
  \/ \E m \in UnaryCalls : CallUnary(c, m)
  \/ ReturnUnary(c) \/ StartScan(c) \/ ScanNext(c) \/ ScanEnd(c)

Environment(c) ==
  \/ Respond(c) \/ EndStream(c) \/ FailCall(c)
  \/ \E ch \in Chunks : SendChunk(c, ch)

Next ==
  \/ Connect
  \/ Close
  \/ \E c \in Callers : ClientStep(c) \/ Environment(c)

\* A caller blocked in a call is woken by gRPC whenever its call object has
\* something to deliver, so the client's own steps are weakly fair.  The
\* server, the transport and close() get no fairness: no deadline is set
\* on any stub call, and nothing obliges anyone to close.
\* The stub calls leave wait_for_ready at its default (False): when the
\* channel's connection attempt fails, gRPC fails the call with UNAVAILABLE,
\* so failing a call on an unreachable address is weakly fair too.
Fairness ==
  \A c \in Callers :
    /\ WF_vars(ReturnUnary(c) \/ ScanNext(c) \/ ScanEnd(c))
    /\ WF_vars(~reachable /\ FailCall(c))

Spec == Init /\ [][Next]_vars

FairSpec == Spec /\ Fairness

(***************************************************************************)
(* Properties                                                              *)
(***************************************************************************)

\* The aggregation in scan() implements the promise of spec section 4.4:
\* a returned list is the in-order concatenation of every chunk the server
\* sent, returned only after end-of-stream and when no chunk carried an
\* error; a raised stream error is the first erroneous chunk's error and
\* carries no items; anything else is a transport error.
Scan == INSTANCE ScanAggregation WITH
  status <- [c \in Callers |-> IF pc[c] = "scan" THEN "receiving" ELSE "idle"],
  stream <- sent,
  ended <- [c \in Callers |-> pc[c] = "scan" /\ rpc[c] = "ok"],
  result <- [c \in Callers |->
               IF scanResult[c].kind \in {"RpcError", "ValueError"}
               THEN [kind |-> "TransportError"] ELSE scanResult[c]]

ScanRefinement == Scan!ASpec

\* close() releases every caller blocked on the channel: once the channel
\* is closed, each call in progress (unary or scan) eventually returns or
\* raises, whatever the server does.
CallsEndAfterClose ==
  \A c \in Callers : (channel = "closed" /\ pc[c] # "idle") ~> (pc[c] = "idle")

=============================================================================
