------------------------- MODULE ClickHouseConsumer -------------------------
(***************************************************************************)
(* The ClickHouse consumer (consumers/clickhouse/main.go): workers that    *)
(* take messages of vFlow from Kafka, one partition each, and mark their   *)
(* offsets, and ingesters that gather batches of messages in transactions  *)
(* which are committed in goroutines of their own.  Offsets are flushed to *)
(* Kafka in the background; after a crash they say where to resume.        *)
(***************************************************************************)
EXTENDS Integers, Sequences, Functions

CONSTANTS
    Workers, Ingesters,
    Messages,   \* messages per partition
    Bad,        \* messages that are no JSON, a set of <<worker, offset>>
    Cap,        \* of ch
    Batch,      \* messages per transaction
    MaxCrashes

ConsumerAssumption ==
    /\ Messages \in Nat /\ Cap \in Nat \ {0} /\ Batch \in Nat \ {0} /\ MaxCrashes \in Nat
    /\ Bad \subseteq Workers \X (1..Messages)

VARIABLES
    wpc, offset, marked,    \* of each worker: where it is, the message it has, the last one marked
    flushed,                \* the offset Kafka holds for each partition
    ch,
    ipc, batch,             \* of each ingester
    committing,             \* transactions whose commit goroutine runs
    rows,                   \* how often each message is in the database
    crashes

memory == <<wpc, offset, marked, ch, ipc, batch, committing>>
vars == <<memory, flushed, rows, crashes>>

Msgs == Workers \X (1..Messages)
Msg(w) == <<w, offset[w]>>

(* main: the channel, the ingesters and the workers *)
Init ==
    /\ flushed = [w \in Workers |-> 0]
    /\ wpc = [w \in Workers |-> "select"]
    /\ offset = flushed /\ marked = flushed
    /\ ch = <<>>
    /\ ipc = [i \in Ingesters |-> "ping"]
    /\ batch = [i \in Ingesters |-> <<>>]
    /\ committing = {}
    /\ rows = [m \in Msgs |-> 0]
    /\ crashes = 0

(* Mutant: a message that is no JSON ends the worker. *)
ReceiveStops(w) ==
    /\ wpc[w] = "select" /\ offset[w] < Messages
    /\ offset' = [offset EXCEPT ![w] = @ + 1]
    /\ wpc' = [wpc EXCEPT ![w] = IF <<w, offset[w] + 1>> \in Bad THEN "returned" ELSE "send"]
    /\ UNCHANGED <<marked, flushed, ch, ipc, batch, committing, rows, crashes>>

(* consumer.Messages() *)
Receive(w) ==
    /\ wpc[w] = "select" /\ offset[w] < Messages
    /\ offset' = [offset EXCEPT ![w] = @ + 1]
    /\ wpc' = [wpc EXCEPT ![w] = IF <<w, offset[w] + 1>> \in Bad THEN "mark" ELSE "send"]
    /\ UNCHANGED <<marked, flushed, ch, ipc, batch, committing, rows, crashes>>

(* Mutant: a full channel drops the message. *)
SendOrDrop(w) ==
    /\ wpc[w] = "send"
    /\ ch' = IF Len(ch) < Cap THEN Append(ch, Msg(w)) ELSE ch
    /\ wpc' = [wpc EXCEPT ![w] = "mark"]
    /\ UNCHANGED <<offset, marked, flushed, ipc, batch, committing, rows, crashes>>

(* ch <- objmap *)
Send(w) ==
    /\ wpc[w] = "send" /\ Len(ch) < Cap
    /\ ch' = Append(ch, Msg(w))
    /\ wpc' = [wpc EXCEPT ![w] = "mark"]
    /\ UNCHANGED <<offset, marked, flushed, ipc, batch, committing, rows, crashes>>

MarkOffset(w) ==
    /\ wpc[w] = "mark"
    /\ marked' = [marked EXCEPT ![w] = offset[w]]
    /\ wpc' = [wpc EXCEPT ![w] = "select"]
    /\ UNCHANGED <<offset, flushed, ch, ipc, batch, committing, rows, crashes>>

(* The client library stores the marked offsets now and then. *)
Flush(w) ==
    /\ flushed[w] # marked[w]
    /\ flushed' = [flushed EXCEPT ![w] = marked[w]]
    /\ UNCHANGED <<memory, rows, crashes>>

(* Ping, Begin and Prepare; an ingester whose ping fails returns. *)
Ping(i, ok) ==
    /\ ipc[i] = "ping"
    /\ ipc' = [ipc EXCEPT ![i] = IF ok THEN "fill" ELSE "returned"]
    /\ UNCHANGED <<wpc, offset, marked, flushed, ch, batch, committing, rows, crashes>>

(* sample = <-ch and the Execs of its data sets *)
Fill(i) ==
    /\ ipc[i] = "fill" /\ Len(batch[i]) < Batch /\ ch # <<>>
    /\ batch' = [batch EXCEPT ![i] = Append(@, Head(ch))]
    /\ ch' = Tail(ch)
    /\ UNCHANGED <<wpc, offset, marked, flushed, ipc, committing, rows, crashes>>

(* Mutant: the goroutine and the ingester share the transaction. *)
CommitShared(i) ==
    /\ Len(batch[i]) = Batch
    /\ committing' = committing \cup {Range(batch[i])}
    /\ batch' = [batch EXCEPT ![i] = Tail(@)]
    /\ UNCHANGED <<wpc, offset, marked, flushed, ch, ipc, rows, crashes>>

(* go func(tx), then the next transaction *)
Commit(i) ==
    /\ Len(batch[i]) = Batch
    /\ committing' = committing \cup {Range(batch[i])}
    /\ batch' = [batch EXCEPT ![i] = <<>>]
    /\ UNCHANGED <<wpc, offset, marked, flushed, ch, ipc, rows, crashes>>

Committed(tx) ==
    /\ rows' = [m \in Msgs |-> IF m \in tx THEN rows[m] + 1 ELSE rows[m]]
    /\ committing' = committing \ {tx}
    /\ UNCHANGED <<wpc, offset, marked, flushed, ch, ipc, batch, crashes>>

(* log.Fatal (Begin, Prepare, Exec or Commit failed), or any other end of  *)
(* the process, and its next start.                                        *)
Crash ==
    /\ crashes < MaxCrashes
    /\ crashes' = crashes + 1
    /\ wpc' = [w \in Workers |-> "select"]
    /\ offset' = flushed /\ marked' = flushed
    /\ ch' = <<>>
    /\ ipc' = [i \in Ingesters |-> "ping"]
    /\ batch' = [i \in Ingesters |-> <<>>]
    /\ committing' = {}
    /\ UNCHANGED <<flushed, rows>>

Next ==
    \/ \E w \in Workers : Receive(w) \/ Send(w) \/ MarkOffset(w) \/ Flush(w)
    \/ \E i \in Ingesters : Ping(i, TRUE) \/ Ping(i, FALSE) \/ Fill(i) \/ Commit(i)
    \/ \E tx \in committing : Committed(tx)
    \/ Crash

Spec ==
    /\ Init /\ [][Next]_vars
    /\ \A w \in Workers : WF_vars(Receive(w) \/ Send(w) \/ MarkOffset(w))
    /\ \A i \in Ingesters : WF_vars(Ping(i, TRUE) \/ Ping(i, FALSE)) /\ WF_vars(Fill(i)) /\ WF_vars(Commit(i))
    /\ WF_vars(\E tx \in committing : Committed(tx))
-----------------------------------------------------------------------------
(* As long as the process lives a message gets into the database at most   *)
(* once; every crash can deliver it one more time.                         *)
NoneTwice == \A m \in Msgs : rows[m] <= 1 + crashes

(* Without a crash a message whose offset Kafka holds is no JSON, or is in *)
(* the database or on its way there.                                       *)
FlushedOnItsWay ==
    crashes = 0 =>
        \A w \in Workers : \A o \in 1..flushed[w] :
            LET m == <<w, o>> IN
            \/ m \in Bad
            \/ rows[m] > 0
            \/ m \in Range(ch) \cup (UNION committing) \cup (UNION {Range(batch[i]) : i \in Ingesters})

(* Nothing is left to do. *)
Quiet ==
    /\ ch = <<>> /\ committing = {}
    /\ \A w \in Workers : offset[w] = Messages
    /\ \A i \in Ingesters : Len(batch[i]) < Batch

(* While an ingester is at work everything the partitions hold is taken    *)
(* off the channel, and the transactions it fills are committed; less than *)
(* a transaction's worth per ingester stays behind.                        *)
Ingested == (\E i \in Ingesters : ipc[i] = "fill") ~> Quiet \/ (\A i \in Ingesters : ipc[i] # "fill")
=============================================================================
