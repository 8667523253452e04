------------------------------ MODULE EventBus ------------------------------
(***************************************************************************)
(* shared/eventbus/eventbus.go and, as far as that code relies on it, the  *)
(* NATS JetStream server: one subject of the FINORA stream with one        *)
(* publishing process and one durable consumer.                            *)
(*                                                                         *)
(* Publish waits for the server's answer, but its request can outlive it:  *)
(* the NATS client keeps what it could not send while it is reconnecting,  *)
(* so a Publish that returned an error may still reach the server ("late").*)
(* Ack and Nak are fire-and-forget.                                        *)
(***************************************************************************)
EXTENDS Naturals, FiniteSets

CONSTANTS
    MsgIds,       \* de-duplication keys (Nats-Msg-Id)
    NoMsg,        \* "no message"
    MaxDeliver,   \* ConsumerConfig.MaxDeliver (10 in the code)
    MaxSeq,       \* bound: stream sequence numbers are 1..MaxSeq
    MaxLapses,    \* bound: how often one id leaves the de-duplication window
    MaxLate,      \* bound: requests of one id that outlived their Publish
    MaxAged       \* bound: messages that reach the stream's MaxAge

ASSUME BusAssumption ==
    /\ NoMsg \notin MsgIds
    /\ MaxDeliver \in Nat \ {0}
    /\ MaxSeq \in Nat
    /\ MaxLapses \in Nat
    /\ MaxLate \in Nat
    /\ MaxAged \in Nat

VARIABLES
    (* publisher's side *)
    request,      \* the message Publish waits for, or NoMsg
    progress,     \* "none"; "sent": not processed yet; "stored": processed
    late,         \* [MsgIds -> Nat]: requests whose Publish has given up
    (* stream *)
    last,         \* last sequence number
    stream,       \* [1..MaxSeq -> MsgIds \cup {NoMsg}]: every message ever stored
    aged,         \* messages 1..aged have been removed by MaxAge
    dedup,        \* ids in the de-duplication window
    lapses,       \* [MsgIds -> Nat]: how often the id has left it
    (* durable consumer, server's side *)
    deliveries,   \* [1..MaxSeq -> Nat]
    waiting,      \* delivered, AckWait running
    acked,        \* acknowledged: never delivered again
    (* durable consumer, client's side *)
    buffer,       \* [1..MaxSeq -> Nat]: delivered copies not yet handled
    handling,     \* sequence number the callback works on, 0 if none
    ackWire,      \* acks sent and not yet received
    runs          \* [1..MaxSeq -> Nat]: handler calls that returned nil

publishVars == <<request, progress, late>>
streamVars  == <<last, stream, aged, dedup, lapses>>
serverVars  == <<deliveries, waiting, acked>>
clientVars  == <<buffer, handling, ackWire, runs>>
busVars     == <<publishVars, streamVars, serverVars, clientVars>>

Seqs == 1..MaxSeq

BusTypeOK ==
    /\ request \in MsgIds \cup {NoMsg}
    /\ progress \in {"none", "sent", "stored"}
    /\ request = NoMsg <=> progress = "none"
    /\ late \in [MsgIds -> Nat]
    /\ last \in 0..MaxSeq
    /\ stream \in [Seqs -> MsgIds \cup {NoMsg}]
    /\ aged \in 0..MaxSeq
    /\ dedup \in SUBSET MsgIds
    /\ lapses \in [MsgIds -> Nat]
    /\ deliveries \in [Seqs -> Nat]
    /\ waiting \in SUBSET Seqs
    /\ acked \in SUBSET Seqs
    /\ buffer \in [Seqs -> Nat]
    /\ handling \in 0..MaxSeq
    /\ ackWire \in SUBSET Seqs
    /\ runs \in [Seqs -> Nat]

BusInit ==
    /\ request = NoMsg
    /\ progress = "none"
    /\ late = [m \in MsgIds |-> 0]
    /\ last = 0
    /\ stream = [s \in Seqs |-> NoMsg]
    /\ aged = 0
    /\ dedup = {}
    /\ lapses = [m \in MsgIds |-> 0]
    /\ deliveries = [s \in Seqs |-> 0]
    /\ waiting = {}
    /\ acked = {}
    /\ buffer = [s \in Seqs |-> 0]
    /\ handling = 0
    /\ ackWire = {}
    /\ runs = [s \in Seqs |-> 0]

(* the sequence numbers under which message m has ever been stored *)
Copies(m) == {s \in Seqs : s <= last /\ stream[s] = m}

-----------------------------------------------------------------------------
(* The stream *)

(* A Publish that does not pass the msgID on: nothing to de-duplicate by. *)
StoreMutant(m) ==
    /\ last < MaxSeq
    /\ last' = last + 1
    /\ stream' = [stream EXCEPT ![last + 1] = m]
    /\ dedup' = dedup \cup {m}
    /\ UNCHANGED <<aged, lapses>>

(* The server processes a publish request: a message whose id is in the     *)
(* window is answered like a stored one but not stored again.               *)
Store(m) ==
    \/ /\ m \in dedup
       /\ UNCHANGED streamVars
    \/ /\ m \notin dedup
       /\ last < MaxSeq
       /\ last' = last + 1
       /\ stream' = [stream EXCEPT ![last + 1] = m]
       /\ dedup' = dedup \cup {m}
       /\ UNCHANGED <<aged, lapses>>

(* two minutes after an id was stored the server forgets it *)
DedupLapse(m) ==
    /\ m \in dedup
    /\ lapses[m] < MaxLapses
    /\ dedup' = dedup \ {m}
    /\ lapses' = [lapses EXCEPT ![m] = @ + 1]
    /\ UNCHANGED <<publishVars, last, stream, aged, serverVars, clientVars>>

(* EnsureStream's MaxAge: the oldest message is removed.  Thirty days are   *)
(* far more than the de-duplication window.                                 *)
AgeOut ==
    /\ aged < last
    /\ aged < MaxAged
    /\ stream[aged + 1] \in dedup =>
           \E t \in (aged + 2)..last : stream[t] = stream[aged + 1]
    /\ aged' = aged + 1
    /\ waiting' = waiting \ {aged + 1}
    /\ UNCHANGED <<publishVars, last, stream, dedup, lapses,
                   deliveries, acked, clientVars>>

-----------------------------------------------------------------------------
(* Bus.Publish *)

(* PublishMsg sends the request *)
PublishStart(m) ==
    /\ progress = "none"
    /\ progress' = "sent"
    /\ request' = m
    /\ UNCHANGED <<late, streamVars, serverVars, clientVars>>

(* the server receives it, stores it and answers *)
PublishReceived ==
    /\ progress = "sent"
    /\ progress' = "stored"
    /\ Store(request)
    /\ UNCHANGED <<request, late, serverVars, clientVars>>

(* the answer arrives: Publish returns nil *)
PublishOk ==
    /\ progress = "stored"
    /\ progress' = "none"
    /\ request' = NoMsg
    /\ UNCHANGED <<late, streamVars, serverVars, clientVars>>

(* Publish gives up (no answer in time, no connection), or its process      *)
(* stops: an unanswered request is dropped or stays under way.              *)
PublishAbandoned ==
    /\ request' = NoMsg
    /\ progress' = "none"
    /\ \/ UNCHANGED late
       \/ /\ progress = "sent"
          /\ late[request] < MaxLate
          /\ late' = [late EXCEPT ![request] = @ + 1]
    /\ UNCHANGED <<streamVars, serverVars, clientVars>>

(* Publish returns an error *)
PublishErr ==
    /\ progress # "none"
    /\ PublishAbandoned

(* a request that outlived its Publish reaches the server *)
LateArrives(m) ==
    /\ late[m] > 0
    /\ late' = [late EXCEPT ![m] = @ - 1]
    /\ Store(m)
    /\ UNCHANGED <<request, progress, serverVars, clientVars>>

(* ... or never does *)
LateLost(m) ==
    /\ late[m] > 0
    /\ late' = [late EXCEPT ![m] = @ - 1]
    /\ UNCHANGED <<request, progress, streamVars, serverVars, clientVars>>

-----------------------------------------------------------------------------
(* Bus.Subscribe: the durable consumer *)

(* A consumer created without the MaxDeliver bound. *)
DeliverMutant(s) ==
    /\ s \in aged + 1 .. last
    /\ s \notin acked \cup waiting
    /\ \A t \in aged + 1 .. s - 1 : deliveries[t] > 0
    /\ deliveries' = [deliveries EXCEPT ![s] = @ + 1]
    /\ waiting' = waiting \cup {s}
    /\ buffer' = [buffer EXCEPT ![s] = @ + 1]
    /\ UNCHANGED <<publishVars, streamVars, acked, handling, ackWire, runs>>

(* The server sends message s to the client, which buffers it: for the      *)
(* first time in stream order, or again once its AckWait is over.           *)
Deliver(s) ==
    /\ s \in aged + 1 .. last
    /\ s \notin acked \cup waiting
    /\ deliveries[s] < MaxDeliver
    /\ \A t \in aged + 1 .. s - 1 : deliveries[t] > 0
    /\ deliveries' = [deliveries EXCEPT ![s] = @ + 1]
    /\ waiting' = waiting \cup {s}
    /\ buffer' = [buffer EXCEPT ![s] = @ + 1]
    /\ UNCHANGED <<publishVars, streamVars, acked, handling, ackWire, runs>>

(* no ack within AckWait: s may be delivered again, even though the client  *)
(* may still have its copy in the buffer or be working on it                *)
AckWaitExpires(s) ==
    /\ s \in waiting
    /\ waiting' = waiting \ {s}
    /\ UNCHANGED <<publishVars, streamVars, deliveries, acked, clientVars>>

(* the consume callback takes a message: one at a time *)
HandlerStart(s) ==
    /\ handling = 0
    /\ buffer[s] > 0
    /\ handling' = s
    /\ buffer' = [buffer EXCEPT ![s] = @ - 1]
    /\ UNCHANGED <<publishVars, streamVars, serverVars, ackWire, runs>>

(* handler returned nil: the callback sends an ack and ignores its error *)
HandlerOk ==
    /\ handling # 0
    /\ handling' = 0
    /\ runs' = [runs EXCEPT ![handling] = @ + 1]
    /\ ackWire' = ackWire \cup {handling}
    /\ UNCHANGED <<publishVars, streamVars, serverVars, buffer>>

(* A callback that acks whatever the handler returned. *)
HandlerErrMutant ==
    /\ handling # 0
    /\ handling' = 0
    /\ ackWire' = ackWire \cup {handling}
    /\ UNCHANGED <<publishVars, streamVars, serverVars, buffer, runs>>

(* handler returned an error: the callback sends a nak, which ends AckWait  *)
(* if it arrives and changes nothing if it does not                         *)
HandlerErr ==
    /\ handling # 0
    /\ handling' = 0
    /\ \/ waiting' = waiting \ {handling}
       \/ UNCHANGED waiting
    /\ UNCHANGED <<publishVars, streamVars, deliveries, acked,
                   buffer, ackWire, runs>>

AckArrives(s) ==
    /\ s \in ackWire
    /\ ackWire' = ackWire \ {s}
    /\ acked' = acked \cup {s}
    /\ waiting' = waiting \ {s}
    /\ UNCHANGED <<publishVars, streamVars, deliveries, buffer, handling, runs>>

AckLost(s) ==
    /\ s \in ackWire
    /\ ackWire' = ackWire \ {s}
    /\ UNCHANGED <<publishVars, streamVars, serverVars, buffer, handling, runs>>

(* the consuming process stops, with what it had buffered; the durable      *)
(* consumer's own state is the server's                                     *)
ConsumerCrash ==
    /\ handling' = 0
    /\ buffer' = [s \in Seqs |-> 0]
    /\ UNCHANGED <<publishVars, streamVars, serverVars, ackWire, runs>>

=============================================================================
