--------------------------- MODULE EventPublisher ---------------------------
(***************************************************************************)
(* The lifecycle events of a gateway: the Publisher (internal/events) is a *)
(* bounded queue that request handlers fill without ever waiting, a drain  *)
(* goroutine that hands its events to the Sink, here the Kafka Producer    *)
(* (internal/kafka) with its own bound, acknowledgements that come from    *)
(* the client's goroutines, and a Close bounded by its context. Every      *)
(* atomic operation of the code that another goroutine can see between is  *)
(* a step. The events are numbered in the order their handler offers them. *)
(***************************************************************************)
EXTENDS Integers, FiniteSets, Sequences

CONSTANTS PubHandlers, PubEvents,     \* the handlers, and how many events each offers
          PubUnencodable,             \* events protocol.Encode refuses
          PubBuffer, PubMaxBuffered   \* Config.BufferSize, MaxBufferedRecords

ASSUME PubAssumption ==
  /\ IsFiniteSet(PubHandlers) /\ PubEvents \in Nat /\ PubBuffer \in Nat \ {0} /\ PubMaxBuffered \in Nat \ {0}
  /\ PubUnencodable \subseteq PubHandlers \X (1..PubEvents)

VARIABLES
  pubHandler,                        \* each handler: the number of its event and whether it is inside Enqueue
  pubCh, pubRun, pubItem,            \* the channel; the drain goroutine and the event in its hands
  pubStop, pubClosed, pubAbandoned, pubClose,  \* Close: its flags, and where it is
  pubInflight, pubPublished, pubFailures,      \* the publisher's counters (failures of every reason together)
  pubSink, pubAcks,                  \* records the client holds, and acknowledgements being delivered
  pubTopic                           \* what the broker has

pubVars == <<pubHandler, pubCh, pubRun, pubItem, pubStop, pubClosed, pubAbandoned, pubClose, pubInflight, pubPublished, pubFailures,
             pubSink, pubAcks, pubTopic>>

pubCounters == <<pubInflight, pubPublished, pubFailures>>

pubClosing == <<pubStop, pubClosed, pubAbandoned, pubClose>>

PubNone == <<>>

PubInit ==
  /\ pubHandler = [h \in PubHandlers |-> [n |-> 0, in |-> FALSE]]
  /\ pubCh = <<>> /\ pubRun = "select" /\ pubItem = PubNone
  /\ pubStop = FALSE /\ pubClosed = FALSE /\ pubAbandoned = FALSE /\ pubClose = "no"
  /\ pubInflight = 0 /\ pubPublished = 0 /\ pubFailures = 0
  /\ pubSink = <<>> /\ pubAcks = <<>> /\ pubTopic = <<>>

-----------------------------------------------------------------------------
(* Enqueue. *)

\* Its first step reads closed.
PubEnqueue(h) ==
  /\ ~pubHandler[h].in /\ pubHandler[h].n < PubEvents
  /\ pubHandler' = [pubHandler EXCEPT ![h] = [n |-> @.n + 1, in |-> ~pubClosed]]
  /\ pubFailures' = IF pubClosed THEN pubFailures + 1 ELSE pubFailures
  /\ UNCHANGED <<pubCh, pubRun, pubItem, pubClosing, pubInflight, pubPublished, pubSink, pubAcks, pubTopic>>

(* Mutant: a full channel drops without counting. *)
PubOfferUncounted(h) ==
  /\ pubHandler[h].in /\ pubHandler' = [pubHandler EXCEPT ![h].in = FALSE]
  /\ LET full == Len(pubCh) >= PubBuffer IN
       /\ pubCh' = IF full THEN pubCh ELSE Append(pubCh, <<h, pubHandler[h].n>>)
       /\ UNCHANGED pubFailures
  /\ UNCHANGED <<pubRun, pubItem, pubClosing, pubInflight, pubPublished, pubSink, pubAcks, pubTopic>>

\* Its second offers the event to the channel: a full one drops the newest event.
PubOffer(h) ==
  /\ pubHandler[h].in /\ pubHandler' = [pubHandler EXCEPT ![h].in = FALSE]
  /\ LET full == Len(pubCh) >= PubBuffer IN
       /\ pubCh' = IF full THEN pubCh ELSE Append(pubCh, <<h, pubHandler[h].n>>)
       /\ pubFailures' = IF full THEN pubFailures + 1 ELSE pubFailures
  /\ UNCHANGED <<pubRun, pubItem, pubClosing, pubInflight, pubPublished, pubSink, pubAcks, pubTopic>>

-----------------------------------------------------------------------------
(* The drain goroutine. *)

\* run: take the next event, whether or not stop is closed.
PubTake ==
  /\ pubRun \in {"select", "drain"} /\ pubCh # <<>>
  /\ pubItem' = Head(pubCh) /\ pubCh' = Tail(pubCh) /\ pubRun' = IF pubRun = "drain" THEN "sendLast" ELSE "send"
  /\ UNCHANGED <<pubHandler, pubClosing, pubCounters, pubSink, pubAcks, pubTopic>>

\* run: stop is closed; what is buffered is drained.
PubStopSeen ==
  /\ pubRun = "select" /\ pubStop /\ pubRun' = "drain"
  /\ UNCHANGED <<pubHandler, pubCh, pubItem, pubClosing, pubCounters, pubSink, pubAcks, pubTopic>>

\* run: nothing is left (default), done is closed.
PubDrained ==
  /\ pubRun = "drain" /\ pubCh = <<>> /\ pubRun' = "done"
  /\ UNCHANGED <<pubHandler, pubCh, pubItem, pubClosing, pubCounters, pubSink, pubAcks, pubTopic>>

PubBack == IF pubRun \in {"sendLast", "produceLast"} THEN "drain" ELSE "select"

\* send: encode, and count the record as in flight before it is produced.
PubEncode ==
  /\ pubRun \in {"send", "sendLast"}
  /\ IF pubItem \in PubUnencodable
     THEN pubFailures' = pubFailures + 1 /\ pubRun' = PubBack /\ pubItem' = PubNone /\ UNCHANGED pubInflight
     ELSE pubInflight' = pubInflight + 1 /\ pubRun' = (IF pubRun = "send" THEN "produce" ELSE "produceLast") /\ UNCHANGED <<pubItem, pubFailures>>
  /\ UNCHANGED <<pubHandler, pubCh, pubClosing, pubPublished, pubSink, pubAcks, pubTopic>>

\* Records the client has taken and not acknowledged (Producer.count).
PubCount == Len(pubSink) + Cardinality({i \in DOMAIN pubAcks : ~pubAcks[i].counted})

\* Produce: refused (ErrFull) when MaxBufferedRecords are with the client.
PubProduce ==
  /\ pubRun \in {"produce", "produceLast"} /\ pubRun' = PubBack /\ pubItem' = PubNone
  /\ IF PubCount < PubMaxBuffered
     THEN pubSink' = Append(pubSink, pubItem) /\ UNCHANGED <<pubInflight, pubFailures>>
     ELSE pubInflight' = pubInflight - 1 /\ pubFailures' = pubFailures + 1 /\ UNCHANGED pubSink
  /\ UNCHANGED <<pubHandler, pubCh, pubClosing, pubPublished, pubAcks, pubTopic>>

-----------------------------------------------------------------------------
(* The client and its acknowledgements. *)

\* The broker takes the oldest record, or the delivery timeout gives up on it with or without the broker having it.
PubBroker ==
  /\ pubSink # <<>> /\ pubSink' = Tail(pubSink)
  /\ \E stored, ok \in BOOLEAN :
       /\ ok => stored
       /\ pubTopic' = IF stored THEN Append(pubTopic, Head(pubSink)) ELSE pubTopic
       /\ pubAcks' = Append(pubAcks, [ok |-> ok, counted |-> FALSE])
  /\ UNCHANGED <<pubHandler, pubCh, pubRun, pubItem, pubClosing, pubCounters>>

\* delivered: the record is no longer in flight,
PubLanded ==
  /\ pubAcks # <<>> /\ ~Head(pubAcks).counted /\ pubAcks' = [pubAcks EXCEPT ![1].counted = TRUE] /\ pubInflight' = pubInflight - 1
  /\ UNCHANGED <<pubHandler, pubCh, pubRun, pubItem, pubClosing, pubPublished, pubFailures, pubSink, pubTopic>>

\* and counted, unless Close has counted it.
PubDelivered ==
  /\ pubAcks # <<>> /\ Head(pubAcks).counted /\ pubAcks' = Tail(pubAcks)
  /\ pubPublished' = IF ~pubAbandoned /\ Head(pubAcks).ok THEN pubPublished + 1 ELSE pubPublished
  /\ pubFailures' = IF ~pubAbandoned /\ ~Head(pubAcks).ok THEN pubFailures + 1 ELSE pubFailures
  /\ UNCHANGED <<pubHandler, pubCh, pubRun, pubItem, pubClosing, pubInflight, pubSink, pubTopic>>

-----------------------------------------------------------------------------
(* Close. *)

PubCloseStart ==
  /\ pubClose = "no" /\ pubClose' = "draining" /\ pubClosed' = TRUE /\ pubStop' = TRUE
  /\ UNCHANGED <<pubHandler, pubCh, pubRun, pubItem, pubAbandoned, pubCounters, pubSink, pubAcks, pubTopic>>

\* The drain goroutine is done: Flush waits for the acknowledgements.
PubFlush ==
  /\ pubClose = "draining" /\ pubRun = "done" /\ pubClose' = "flushing"
  /\ UNCHANGED <<pubHandler, pubCh, pubRun, pubItem, pubStop, pubClosed, pubAbandoned, pubCounters, pubSink, pubAcks, pubTopic>>

\* Everything is flushed, or the context is done.
PubAbandon ==
  /\ \/ pubClose = "flushing"
     \/ pubClose = "draining"
  /\ pubClose' = "count" /\ pubAbandoned' = TRUE
  /\ UNCHANGED <<pubHandler, pubCh, pubRun, pubItem, pubStop, pubClosed, pubCounters, pubSink, pubAcks, pubTopic>>

\* lost: what is buffered and what is in flight.
PubCountLost ==
  /\ pubClose = "count" /\ pubClose' = "closed" /\ pubFailures' = pubFailures + Len(pubCh) + pubInflight
  /\ UNCHANGED <<pubHandler, pubCh, pubRun, pubItem, pubStop, pubClosed, pubAbandoned, pubInflight, pubPublished, pubSink, pubAcks, pubTopic>>

-----------------------------------------------------------------------------
PubDrain == PubTake \/ PubStopSeen \/ PubDrained \/ PubEncode \/ PubProduce

PubClosure == PubFlush \/ PubAbandon \/ PubCountLost

PubNext ==
  \/ \E h \in PubHandlers : PubEnqueue(h) \/ PubOffer(h)
  \/ PubDrain \/ PubBroker \/ PubLanded \/ PubDelivered \/ PubCloseStart \/ PubClosure

\* The goroutines run; Close's context ends in time; the broker owes nothing.
PubFairness == WF_pubVars(PubClosure) /\ WF_pubVars(PubDrain) /\ \A h \in PubHandlers : WF_pubVars(PubOffer(h))

PubSpec == PubInit /\ [][PubNext]_pubVars /\ PubFairness

-----------------------------------------------------------------------------
(* Properties. *)

\* The events that were offered so far.
PubOffered == Cardinality({e \in PubHandlers \X (1..PubEvents) : e[2] <= pubHandler[e[1]].n})

\* Events a handler is offering, and the one in the drain goroutine's hands that is not counted as in flight.
PubInHands == Cardinality({h \in PubHandlers : pubHandler[h].in}) + (IF pubRun \in {"send", "sendLast"} THEN 1 ELSE 0)

\* Acknowledgements between their two steps.
PubLanding == Cardinality({i \in DOMAIN pubAcks : pubAcks[i].counted})

\* The channel never holds more than BufferSize events, the client never more than MaxBufferedRecords, and the count of
\* records in flight is that of the records which are.
PubTypeOK ==
  /\ Len(pubCh) <= PubBuffer /\ PubCount <= PubMaxBuffered
  /\ pubInflight = PubCount + (IF pubRun \in {"produce", "produceLast"} THEN 1 ELSE 0)

\* "Drops are counted, never hidden" (internal/events/sink.go) until Close gives up: every event offered is with a goroutine,
\* buffered, in flight, published or counted as a failure, and is so once.
PubAccounted ==
  ~pubAbandoned => PubOffered = PubInHands + Len(pubCh) + pubInflight + PubLanding + pubPublished + pubFailures

\* The events of one request reach its partition in the order the request met them, whatever was dropped between.
PubInOrder == \A i, j \in DOMAIN pubTopic : (i < j /\ pubTopic[i][1] = pubTopic[j][1]) => pubTopic[i][2] < pubTopic[j][2]

\* An event counted as published is on the topic.
PubPublishedStored == pubPublished <= Len(pubTopic)

\* Close returns, whatever the broker does.
PubCloseReturns == pubClose = "draining" ~> pubClose = "closed"

\* On its way from a handler to the topic no event vanishes uncounted, overtakes another of its request, or is counted as
\* published without being stored (Publish, drain, deliver, Close).
PubSafe == PubTypeOK /\ PubAccounted /\ PubInOrder /\ PubPublishedStored
=============================================================================
