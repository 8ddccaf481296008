------------------------------ MODULE KafkaLog ------------------------------
(***************************************************************************)
(* The durable event log (internal/adapter/driven/kafkalog) from the       *)
(* engine's Publish to the settlement goroutine that applies the events,   *)
(* over the lives of a process that may crash, or be shut down by          *)
(* cmd/orderbook/main.go, and is started again.                            *)
(*                                                                         *)
(* Events are numbered in the order in which they are published; their IDs *)
(* never repeat, since every engine draws a producer ID of its own.  What  *)
(* an event does to the wallets is the business of Exchange: here it is    *)
(* applied, or not.  Events always marshal and unmarshal.                  *)
(***************************************************************************)
EXTENDS Integers, Sequences, FiniteSets, SequencesExt

CONSTANTS
    MaxEvent,   \* how many events are ever published
    QueueSize,  \* capacity of the channel in
    OutSize,    \* capacity of the channel out
    BufferSize, \* how many records the Kafka client buffers
    MaxLife,    \* how many times the process is started
    Faults      \* what may happen: see Fault

Fault == {"crash", "shutdown", "broker", "journal"}

ASSUME SizeAssumption ==
    /\ MaxEvent \in Nat /\ MaxLife \in Nat \ {0}
    /\ QueueSize \in Nat \ {0} /\ OutSize \in Nat \ {0}
    /\ BufferSize \in Nat \ {0}
ASSUME FaultsAssumption == Faults \subseteq Fault

Event == 1..MaxEvent

VARIABLES
    topic,      \* the records of the one partition, in the broker
    committed,  \* how many of them the consumer group has committed
    published,  \* the last event the engine has published
    engine,     \* whether the engine goroutine still runs
    in,         \* events on their way to the producer goroutine
    buffered,   \* events given to Produce and not yet acknowledged by the broker
    producer,   \* whether the producer goroutine still runs
    consumer,   \* where the consumer goroutine stands
    fetched,    \* the last record it has fetched
    position,   \* the last record it has put in out
    marked,     \* the last record it has marked for commit
    out,        \* events on their way to settlement
    settling,   \* where settlement stands with the event in hand
    hand,       \* that event, 0 if there is none
    journal,    \* the events in processed_events
    applied,    \* how often an event was applied
    dropped,    \* events that never got to the broker
    skipped,    \* events settlement reported as skipped
    closing,    \* where the shutdown stands; "down" if there is no process
    life,       \* which life of the process this is
    panicked    \* whether a process has died of a send on a closed channel

producerVars == <<published, engine, in, buffered, producer>>
consumerVars == <<consumer, fetched, position, marked, out>>
settlementVars == <<settling, hand, journal, applied, skipped>>
brokerVars == <<topic, committed>>
vars == <<brokerVars, producerVars, consumerVars, settlementVars,
          dropped, closing, life, panicked>>

Alive == closing # "down"
InClosed == closing \notin {"no", "stopping"}

Init ==
    /\ topic = << >> /\ committed = 0
    /\ published = 0 /\ engine = "running"
    /\ in = << >> /\ buffered = << >> /\ producer = "running"
    /\ consumer = "poll" /\ fetched = 0 /\ position = 0 /\ marked = 0 /\ out = << >>
    /\ settling = "idle" /\ hand = 0
    /\ journal = {} /\ applied = [e \in Event |-> 0]
    /\ dropped = {} /\ skipped = {}
    /\ closing = "no" /\ life = 1 /\ panicked = FALSE

-----------------------------------------------------------------------------
(* The end of a process: what it kept in memory is gone. *)
Die ==
    /\ closing' = "down"
    /\ dropped' = dropped \cup ToSet(in) \cup ToSet(buffered)
    /\ in' = << >> /\ buffered' = << >> /\ out' = << >>
    /\ settling' = "idle" /\ hand' = 0
    /\ UNCHANGED <<brokerVars, published, engine, producer, consumer, fetched,
                   position, marked, journal, applied, skipped, life>>

Crash == "crash" \in Faults /\ Alive /\ Die /\ UNCHANGED panicked

(* New and Events: the group goes on after the records it has committed. *)
Start ==
    /\ closing = "down" /\ life < MaxLife
    /\ life' = life + 1
    /\ closing' = "no"
    /\ engine' = "running" /\ producer' = "running" /\ consumer' = "poll"
    /\ fetched' = committed /\ position' = committed /\ marked' = committed
    /\ UNCHANGED <<brokerVars, published, in, buffered, out, settlementVars,
                   dropped, panicked>>

-----------------------------------------------------------------------------
(* Engine and producer *)

(* Publish waits while the channel is full. *)
Publish ==
    /\ Alive /\ ~InClosed /\ engine = "running"
    /\ published < MaxEvent /\ Len(in) < QueueSize
    /\ published' = published + 1
    /\ in' = Append(in, published')
    /\ UNCHANGED <<brokerVars, engine, buffered, producer, consumerVars,
                   settlementVars, dropped, closing, life, panicked>>

(* A send on the closed channel is a panic, and ends the process. *)
PublishPanics ==
    /\ Alive /\ InClosed /\ engine = "running" /\ published < MaxEvent
    /\ panicked' = TRUE
    /\ Die

(* client.Produce does not return while the client buffers all it can: the last
   of these events waits in the call, with no context to end it. *)
HeldBack == producer = "running" /\ Len(buffered) > BufferSize

(* Mutant of Produce: the newest event is sent first. *)
ProduceInFront ==
    /\ in # << >> /\ producer = "running" /\ ~HeldBack
    /\ in' = Tail(in)
    /\ buffered' = <<Head(in)>> \o buffered
    /\ UNCHANGED <<brokerVars, published, engine, producer, consumerVars,
                   settlementVars, dropped, closing, life, panicked>>

(* One turn of produceLoop, once the call before has returned. *)
Produce ==
    /\ in # << >> /\ producer = "running" /\ ~HeldBack
    /\ in' = Tail(in)
    /\ buffered' = Append(buffered, Head(in))
    /\ UNCHANGED <<brokerVars, published, engine, producer, consumerVars,
                   settlementVars, dropped, closing, life, panicked>>

(* Mutant of ProducerEnds: producerDone stays open. *)
ProducerEndsSilently ==
    /\ Alive /\ InClosed /\ in = << >> /\ producer = "running" /\ ~HeldBack
    /\ producer' = "gone"
    /\ UNCHANGED <<brokerVars, published, engine, in, buffered, consumerVars,
                   settlementVars, dropped, closing, life, panicked>>

(* The channel is closed and empty: produceLoop ends. *)
ProducerEnds ==
    /\ Alive /\ InClosed /\ in = << >> /\ producer = "running" /\ ~HeldBack
    /\ producer' = "done"
    /\ UNCHANGED <<brokerVars, published, engine, in, buffered, consumerVars,
                   settlementVars, dropped, closing, life, panicked>>

(* The broker appends a record to the partition. *)
Acknowledge ==
    /\ buffered # << >>
    /\ topic' = Append(topic, Head(buffered))
    /\ buffered' = Tail(buffered)
    /\ UNCHANGED <<committed, published, engine, in, producer, consumerVars,
                   settlementVars, dropped, closing, life, panicked>>

(* The callback of Produce reports an error: the event is lost. *)
ProduceFailed ==
    /\ "broker" \in Faults /\ buffered # << >>
    /\ dropped' = dropped \cup {Head(buffered)}
    /\ buffered' = Tail(buffered)
    /\ UNCHANGED <<brokerVars, published, engine, in, producer, consumerVars,
                   settlementVars, closing, life, panicked>>

-----------------------------------------------------------------------------
(* Consumer *)

(* Mutant of Poll: records are marked as soon as they are fetched. *)
PollMarks ==
    /\ Alive /\ consumer = "poll" /\ position = fetched
    /\ fetched' \in fetched..Len(topic)
    /\ marked' = fetched'
    /\ UNCHANGED <<brokerVars, producerVars, consumer, position, out,
                   settlementVars, dropped, closing, life, panicked>>

(* PollFetches returns some of the records that follow, or none. *)
Poll ==
    /\ Alive /\ consumer = "poll" /\ position = fetched
    /\ fetched' \in fetched..Len(topic)
    /\ UNCHANGED <<brokerVars, producerVars, consumer, position, marked, out,
                   settlementVars, dropped, closing, life, panicked>>

(* Mutant of HandOver: an event that finds the channel full is let go. *)
HandOverOrDrop ==
    /\ Alive /\ consumer = "poll" /\ position < fetched
    /\ out' = IF Len(out) < OutSize THEN Append(out, topic[position + 1]) ELSE out
    /\ position' = position + 1
    /\ consumer' = "mark"
    /\ UNCHANGED <<brokerVars, producerVars, fetched, marked, settlementVars,
                   dropped, closing, life, panicked>>

(* Mutant of HandOver: nothing limits the channel. *)
HandOverUnbounded ==
    /\ Alive /\ consumer = "poll" /\ position < fetched
    /\ out' = Append(out, topic[position + 1])
    /\ position' = position + 1
    /\ consumer' = "mark"
    /\ UNCHANGED <<brokerVars, producerVars, fetched, marked, settlementVars,
                   dropped, closing, life, panicked>>

(* The next record of the batch goes to settlement; also when the consumer is
   being stopped, because select takes either case. *)
HandOver ==
    /\ Alive /\ consumer = "poll" /\ position < fetched /\ Len(out) < OutSize
    /\ out' = Append(out, topic[position + 1])
    /\ position' = position + 1
    /\ consumer' = "mark"
    /\ UNCHANGED <<brokerVars, producerVars, fetched, marked, settlementVars,
                   dropped, closing, life, panicked>>

(* MarkCommitRecords, once the channel has the event. *)
Mark ==
    /\ Alive /\ consumer = "mark"
    /\ marked' = position
    /\ consumer' = "poll"
    /\ UNCHANGED <<brokerVars, producerVars, fetched, position, out,
                   settlementVars, dropped, closing, life, panicked>>

(* AutoCommitMarks: the client commits what is marked, every second. *)
AutoCommit ==
    /\ closing \notin {"closed", "down"} /\ committed < marked
    /\ committed' = marked
    /\ UNCHANGED <<topic, producerVars, consumerVars, settlementVars, dropped,
                   closing, life, panicked>>

(* The context of the consumer is cancelled: consumeLoop ends, and with it the
   records of the batch that were not handed over. *)
ConsumerEnds ==
    /\ closing = "stop" /\ consumer = "poll"
    /\ consumer' = "done"
    /\ UNCHANGED <<brokerVars, producerVars, fetched, position, marked, out,
                   settlementVars, dropped, closing, life, panicked>>

-----------------------------------------------------------------------------
(* Settlement *)

Receive ==
    /\ settling = "idle" /\ out # << >>
    /\ hand' = Head(out)
    /\ out' = Tail(out)
    /\ settling' = "mark"
    /\ UNCHANGED <<brokerVars, producerVars, consumer, fetched, position, marked,
                   journal, applied, skipped, dropped, closing, life, panicked>>

(* Mutant of MarkProcessed: a duplicate is applied again. *)
MarkProcessedAlways ==
    /\ settling = "mark"
    /\ journal' = journal \cup {hand}
    /\ settling' = "apply"
    /\ UNCHANGED <<brokerVars, producerVars, consumerVars, hand, applied,
                   skipped, dropped, closing, life, panicked>>

(* handle asks the journal: a fresh event is applied next, a duplicate is
   dropped, and so is any event the journal has no answer for, whether or not
   its row was written. *)
MarkProcessed ==
    /\ settling = "mark"
    /\ \/ /\ journal' = journal \cup {hand}
          /\ settling' = IF hand \in journal THEN "idle" ELSE "apply"
          /\ UNCHANGED skipped
       \/ /\ "journal" \in Faults
          /\ journal' \in {journal, journal \cup {hand}}
          /\ settling' = "idle"
          /\ skipped' = skipped \cup {hand}
    /\ hand' = IF settling' = "idle" THEN 0 ELSE hand
    /\ UNCHANGED <<brokerVars, producerVars, consumerVars, applied, dropped,
                   closing, life, panicked>>

Apply ==
    /\ settling = "apply"
    /\ applied' = [applied EXCEPT ![hand] = @ + 1]
    /\ settling' = "idle" /\ hand' = 0
    /\ UNCHANGED <<brokerVars, producerVars, consumerVars, journal, skipped,
                   dropped, closing, life, panicked>>

-----------------------------------------------------------------------------
(* Shutdown: the end of main, and Close *)

(* Only the place in main and Close changes. *)
Proceed(from, to) ==
    /\ closing = from /\ closing' = to
    /\ UNCHANGED <<producerVars, consumerVars, settlementVars, topic, life, panicked>>

(* A signal; HTTP is shut down and the engine's context is cancelled. *)
StopEngine ==
    "shutdown" \in Faults /\ Proceed("no", "stopping") /\ UNCHANGED <<committed, dropped>>

(* The engine sees its context between two commands; until then it publishes. *)
EngineStops ==
    /\ closing \notin {"no", "down"} /\ engine = "running"
    /\ engine' = "stopped"
    /\ UNCHANGED <<brokerVars, published, in, buffered, producer, consumerVars,
                   settlementVars, dropped, closing, life, panicked>>

CloseIn == Proceed("stopping", "drain") /\ UNCHANGED <<committed, dropped>>

(* Mutant of CloseDrained: Close does not wait for producerDone. *)
CloseAtOnce == Proceed("drain", "flush") /\ UNCHANGED <<committed, dropped>>

(* Close waits for the producer goroutine. *)
CloseDrained ==
    producer = "done" /\ Proceed("drain", "flush") /\ UNCHANGED <<committed, dropped>>

(* Flush ends with the buffer empty, or with its timeout on a slow broker: Close
   goes on after either. *)
CloseFlush == Proceed("flush", "stop") /\ UNCHANGED <<committed, dropped>>

(* Close waits for the consumer it has stopped. *)
CloseStopped ==
    consumer = "done" /\ Proceed("stop", "commit") /\ UNCHANGED <<committed, dropped>>

(* CommitMarkedOffsets, or its timeout, then the client fails what is still
   buffered. *)
CloseClient ==
    /\ closing = "commit" /\ closing' = "closed"
    /\ committed' \in {marked, committed}
    /\ dropped' = dropped \cup ToSet(buffered)
    /\ buffered' = << >>
    /\ UNCHANGED <<topic, published, engine, in, producer, consumerVars,
                   settlementVars, life, panicked>>

(* main gives settlement half a second, whether it is done or not. *)
Exit == closing = "closed" /\ Die /\ UNCHANGED panicked

-----------------------------------------------------------------------------
Producer == Produce \/ ProducerEnds
Consumer == HandOver \/ Mark \/ ConsumerEnds
Settlement == Receive \/ MarkProcessed \/ Apply
Close == CloseIn \/ CloseDrained \/ CloseFlush \/ CloseStopped \/ CloseClient

Next ==
    \/ Publish \/ PublishPanics \/ EngineStops
    \/ Producer \/ Acknowledge \/ ProduceFailed
    \/ Poll \/ Consumer \/ AutoCommit
    \/ Settlement
    \/ StopEngine \/ Close \/ Exit \/ Crash \/ Start

Spec == Init /\ [][Next]_vars

(* The goroutines run when they can.  Of the broker nothing is assumed: it may
   be silent for ever. *)
FairSpec ==
    /\ Spec
    /\ WF_vars(Producer) /\ WF_vars(Consumer) /\ WF_vars(Settlement)
    /\ WF_vars(Close) /\ WF_vars(EngineStops)

-----------------------------------------------------------------------------
(* Properties *)

(* The channels keep to their capacity and every variable to its values. *)
KafkaTypeOK ==
    /\ topic \in Seq(Event) /\ in \in Seq(Event) /\ buffered \in Seq(Event)
    /\ out \in Seq(Event)
    /\ Len(in) <= QueueSize /\ Len(out) <= OutSize
    /\ Len(buffered) <= BufferSize + 1
    /\ published \in 0..MaxEvent /\ life \in 1..MaxLife
    /\ engine \in {"running", "stopped"} /\ producer \in {"running", "done"}
    /\ consumer \in {"poll", "mark", "done"}
    /\ settling \in {"idle", "mark", "apply"} /\ hand \in 0..MaxEvent
    /\ journal \subseteq Event /\ dropped \subseteq Event /\ skipped \subseteq Event
    /\ applied \in [Event -> Nat]
    /\ closing \in {"no", "stopping", "drain", "flush", "stop", "commit",
                    "closed", "down"}

(* Order survives the queues and the restarts: the partition holds events in
   the order of their publication, and what is on its way to settlement is a
   gapless stretch of it, up to the consumer's position. *)
DeliveryInOrder ==
    /\ \A i, j \in 1..Len(topic) : i < j => topic[i] < topic[j]
    /\ committed <= marked /\ marked <= position
    /\ position <= fetched /\ fetched <= Len(topic)
    /\ Alive => out = SubSeq(topic, position - Len(out) + 1, position)

(* However often a record is delivered again, its event is applied at most
   once, over all lives of the process. *)
AppliedAtMostOnce == \A e \in Event : applied[e] <= 1

(* Events the group will never see again, that settlement was not seen to skip,
   and that are neither applied nor on their way. *)
Lost == {topic[i] : i \in {k \in 1..committed :
            /\ applied[topic[k]] = 0
            /\ topic[k] \notin skipped
            /\ topic[k] \notin ToSet(out)
            /\ topic[k] # hand}}

(* The end of a process loses at most what was in the channel and in hand. *)
LossBounded == Cardinality(Lost) <= life * (OutSize + 1)

(* Once the log is closed, every event that was published is in the broker or
   was reported as lost: Close empties the queue before it lets go. *)
CloseKeepsEvents ==
    closing = "closed" => 1..published \subseteq (ToSet(topic) \cup dropped)

(* The broker answers: it acknowledges what is produced, delivers what it has
   and takes the commits the client sends every second. *)
BrokerAnswers == WF_vars(Acknowledge) /\ WF_vars(Poll) /\ WF_vars(AutoCommit)

(* As long as the broker answers, every event that is published gets settled, in
   this life of the process or the next, unless a failing broker or journal or
   the end of an earlier life has taken it or the process is told to stop: no
   queue is left waiting for another. *)
EventsSettle ==
    BrokerAnswers =>
        \A e \in Event :
            (published >= e) ~> \/ applied[e] = 1
                                \/ e \in dropped \cup skipped
                                \/ life > 1 /\ e \in Lost
                                \/ closing # "no"

(* Whatever the broker does, a shutdown ends, unless the producer goroutine is
   held back in Produce for ever: Close waits for it before any of the calls
   that have a timeout. *)
ShutdownEnds ==
    (closing = "stopping") ~> (closing \in {"closed", "down"} \/ []HeldBack)

(* As the package comment says: offsets are committed for records already
   handed to the consumer, so a crash can redeliver; a settled trade is not
   lost. *)
NothingLost == Lost = {}

(* As main says: the engine is stopped, then the log is closed; nobody sends
   on the closed channel. *)
NoPanic == ~panicked
=============================================================================
