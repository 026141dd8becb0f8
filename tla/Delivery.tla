------------------------------ MODULE Delivery ------------------------------
(* The way of a decoded message to its consumers: the JSON encoder of a    *)
(* worker, the producers and the ClickHouse consumer.  They share nothing  *)
(* but the messages; part says which of them runs, the others rest in an   *)
(* initial state.                                                          *)
EXTENDS Naturals

CONSTANTS RawFields, MaxSets, MaxFields                                        \* JSON
CONSTANTS Queues, ProducerCap, MaxRetry, MaxMsgs                               \* producers
CONSTANTS Workers, Ingesters, Messages, Bad, ConsumerCap, Batch, MaxCrashes    \* ClickHouse

VARIABLES part
VARIABLES proto, DataSets, i, j, b, err, jpc, mq                               \* JSON
VARIABLES MQ, up, conn, Chan, closed, made, pc, msg, attempt, accepted, errors, taken, delivered,
          silent, ec                                                           \* producers
VARIABLES wpc, offset, marked, flushed, ch, ipc, batch, committing, rows, crashes   \* ClickHouse

J == INSTANCE JSONMarshal WITH pc <- jpc
P == INSTANCE Producer WITH Cap <- ProducerCap
C == INSTANCE ClickHouseConsumer WITH Cap <- ConsumerCap

ASSUME DeliveryAssumption ==
    J!MarshalAssumption /\ P!ProducerAssumption /\ C!ConsumerAssumption

json == <<proto, DataSets, i, j, b, err, jpc, mq>>
producer == <<MQ, up, conn, Chan, closed, made, pc, msg, attempt, accepted, errors, taken, delivered,
              silent, ec>>
consumer == <<wpc, offset, marked, flushed, ch, ipc, batch, committing, rows, crashes>>
vars == <<part, json, producer, consumer>>

Init ==
    /\ part \in {"json", "producer", "consumer"}
    /\ J!Init /\ (part # "json" => proto = "ipfix")
    /\ P!Init /\ (part # "producer" => MQ = "kafka" /\ up)
    /\ C!Init

JSON == part = "json" /\ UNCHANGED <<part, producer, consumer>>
Producers == part = "producer" /\ UNCHANGED <<part, json, consumer>>
ClickHouse == part = "consumer" /\ UNCHANGED <<part, json, producer>>

Next ==
    \/ JSON /\ J!Next
    \/ Producers /\ P!Next
    \/ ClickHouse /\ C!Next

(* The fairness of Producer and ClickHouseConsumer. *)
Fairness ==
    /\ WF_vars(Producers /\ P!inputMsg)
    /\ WF_vars(Producers /\ \E m \in accepted : P!KafkaClient(m))
    /\ \A w \in Workers : WF_vars(ClickHouse /\ (C!Receive(w) \/ C!Send(w) \/ C!MarkOffset(w)))
    /\ \A g \in Ingesters :
         /\ WF_vars(ClickHouse /\ (C!Ping(g, TRUE) \/ C!Ping(g, FALSE)))
         /\ WF_vars(ClickHouse /\ C!Fill(g)) /\ WF_vars(ClickHouse /\ C!Commit(g))
    /\ WF_vars(ClickHouse /\ \E tx \in committing : C!Committed(tx))

Spec == Init /\ [][Next]_vars /\ Fairness
-----------------------------------------------------------------------------
(* A text that a worker queues is that of one message, whole, and of none  *)
(* whose last field cannot be written.                                     *)
QueuedWhole == J!TypeOK /\ J!QueuedWhole /\ J!FailedNotQueued

(* The error count of a producer accounts for the messages that it lost,   *)
(* but for those lost behind a call that returned no error, and none is    *)
(* tried more often than retry-max allows.                                 *)
LossesCounted == P!TypeOK /\ P!LossesCounted

(* inputMsg gets done with every message and returns once its channel is   *)
(* closed (by Shutdown, which vFlow does not call); the raw socket         *)
(* delivers again after a broken pipe.                                     *)
ProducerGoesOn == P!MessageDone /\ P!Drained /\ P!Recovers

(* A message is in the database once, and once more for each crash; and    *)
(* without a crash none is marked as read and forgotten.                   *)
IngestedOnce == C!NoneTwice /\ C!FlushedOnItsWay

(* An ingester at work takes everything the partitions hold. *)
Ingested == C!Ingested
=============================================================================
