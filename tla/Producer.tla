------------------------------ MODULE Producer ------------------------------
(***************************************************************************)
(* The producer of one collector (producer/): Run sets up the message      *)
(* queue and inputMsg moves messages from the collector's channel to it,   *)
(* in one of four ways.  The servers may fail and come back at any time.   *)
(***************************************************************************)
EXTENDS Naturals, Sequences, FiniteSets

CONSTANTS
    Queues,      \* names of message queues that are configured
    Cap,         \* capacity of the channel
    MaxRetry,    \* retry-max of the raw socket
    MaxMsgs      \* bound: messages of the collector

ProducerAssumption ==
    /\ Queues \subseteq {"kafka", "nsq", "nats", "rawSocket"}
    /\ Cap \in Nat \ {0} /\ MaxRetry \in Nat /\ MaxMsgs \in Nat

VARIABLES
    MQ,        \* the queue in use
    up,        \* its server can be reached
    conn,      \* the connection of a raw socket or of the NATS client
    Chan, closed, made,  \* the channel; messages made so far
    pc, msg, attempt,    \* inputMsg
    accepted,  \* messages in the client of Kafka or NATS
    errors,    \* Kafka: errors not received yet
    taken, delivered, silent,  \* history: messages received, taken over by
               \* the server, and gone although no call returned an error
    ec         \* MQErrorCount

chanVars == <<Chan, closed, made>>
clientVars == <<accepted, errors>>
history == <<taken, delivered, silent>>
vars == <<MQ, up, conn, chanVars, pc, msg, attempt, clientVars, history, ec>>

(* conn: "half" is a connection whose other end is gone, which this end    *)
(* does not know yet; "pipe" and "reset" are how a later write fails.      *)
Connections == {"none", "ok", "half", "pipe", "reset", "reconnecting", "closed"}

Init ==
    /\ MQ \in Queues
    /\ up \in BOOLEAN /\ conn = "none"
    /\ Chan = <<>> /\ closed = FALSE /\ made = 0
    /\ pc = "setup" /\ msg = 0 /\ attempt = 0
    /\ accepted = {} /\ errors = 0
    /\ taken = {} /\ delivered = {} /\ silent = {} /\ ec = 0
-----------------------------------------------------------------------------
(* The collector's workers offer messages and drop what has no room. *)
Offer ==
    /\ made < MaxMsgs /\ ~closed /\ pc # "fatal"
    /\ made' = made + 1
    /\ Chan' = IF Len(Chan) < Cap THEN Append(Chan, made') ELSE Chan
    /\ UNCHANGED <<MQ, up, conn, closed, pc, msg, attempt, clientVars, history, ec>>

(* The exported Shutdown; vFlow itself ends without it. *)
Shutdown ==
    /\ ~closed /\ closed' = TRUE
    /\ UNCHANGED <<MQ, up, conn, Chan, made, pc, msg, attempt, clientVars, history, ec>>

(* What setup may find: a file, or none; in the Kafka file addresses of    *)
(* brokers, or an empty list, and the three TLS files, which may be        *)
(* unreadable; and settings that the client refuses.                       *)
Configs == [loaded : BOOLEAN, brokers : BOOLEAN, tls : {"none", "read", "unreadable"}, valid : BOOLEAN]

tlsConfig(c) == c.loaded => c.tls # "unreadable"

(* An address of the environment replaces the first one of the list, and   *)
(* without one there is no first; without addresses there is no client.    *)
loadEnv(c) == c.loaded => c.brokers

(* When setup succeeds.  Kafka and NSQ run on their defaults without a     *)
(* file, and NSQ connects when it publishes.                               *)
KafkaSetupOK(c) == tlsConfig(c) /\ loadEnv(c) /\ c.valid /\ up
NSQSetupOK(c) == TRUE
NATSSetupOK(c) == c.loaded /\ up
RawSocketSetupOK(c) == c.loaded /\ up

SetupOK(c) ==
    CASE MQ = "kafka" -> KafkaSetupOK(c)
      [] MQ = "nsq" -> NSQSetupOK(c)
      [] MQ = "nats" -> NATSSetupOK(c)
      [] MQ = "rawSocket" -> RawSocketSetupOK(c)

(* An error of setup ends the process. *)
Setup(c) ==
    /\ pc = "setup"
    /\ IF SetupOK(c)
       THEN pc' = "take" /\ conn' = "ok"
       ELSE pc' = "fatal" /\ UNCHANGED conn
    /\ UNCHANGED <<MQ, up, chanVars, msg, attempt, clientVars, history, ec>>

Take ==
    /\ pc = "take" /\ Chan # <<>>
    /\ msg' = Head(Chan) /\ Chan' = Tail(Chan)
    /\ taken' = taken \cup {msg'}
    /\ attempt' = 0 /\ pc' = "send"
    /\ UNCHANGED <<MQ, up, conn, closed, made, clientVars, delivered, silent, ec>>

(* Mutant: the loop receives from the closed channel for ever. *)
ReturnNever ==
    /\ pc = "take" /\ Chan = <<>> /\ closed
    /\ UNCHANGED vars

(* The channel is closed and empty: inputMsg returns.  Kafka waits for its *)
(* client to flush and drops the errors that were not read.                *)
Return ==
    /\ pc = "take" /\ Chan = <<>> /\ closed
    /\ MQ = "kafka" => accepted = {}
    /\ pc' = "end" /\ errors' = 0
    /\ UNCHANGED <<MQ, up, conn, chanVars, msg, attempt, accepted, history, ec>>

Done == pc' = "take" /\ msg' = 0 /\ attempt' = 0
-----------------------------------------------------------------------------
(* Kafka: the select sends the message or receives the error of an earlier *)
(* one; in the latter case the message is gone.                            *)
KafkaInput ==
    /\ MQ = "kafka" /\ pc = "send"
    /\ accepted' = accepted \cup {msg}
    /\ Done
    /\ UNCHANGED <<MQ, up, conn, chanVars, errors, history, ec>>

(* Mutant: an error is not counted. *)
KafkaErrorSilent ==
    /\ MQ = "kafka" /\ pc = "send" /\ errors > 0
    /\ errors' = errors - 1
    /\ Done
    /\ UNCHANGED <<MQ, up, conn, chanVars, accepted, history, ec>>

KafkaError ==
    /\ MQ = "kafka" /\ pc = "send" /\ errors > 0
    /\ errors' = errors - 1 /\ ec' = ec + 1
    /\ Done
    /\ UNCHANGED <<MQ, up, conn, chanVars, accepted, history>>

(* The client delivers a message, or gives it up after its retries. *)
KafkaClient(m) ==
    /\ MQ = "kafka" /\ m \in accepted
    /\ accepted' = accepted \ {m}
    /\ \/ up /\ delivered' = delivered \cup {m} /\ UNCHANGED errors
       \/ errors' = errors + 1 /\ UNCHANGED delivered
    /\ UNCHANGED <<MQ, up, conn, chanVars, pc, msg, attempt, taken, silent, ec>>

(* NSQ: Publish returns after the server's answer.  When that goes missing *)
(* the message is delivered and counted as an error.                       *)
NSQPublish ==
    /\ MQ = "nsq" /\ pc = "send"
    /\ \/ up /\ delivered' = delivered \cup {msg} /\ ec' \in {ec, ec + 1}
       \/ UNCHANGED delivered /\ ec' = ec + 1
    /\ Done
    /\ UNCHANGED <<MQ, up, conn, chanVars, clientVars, taken, silent>>

(* NATS: Publish hands the message to the client, which keeps it while it  *)
(* looks for the server, unless its buffer is full.                        *)
NATSPublish ==
    /\ MQ = "nats" /\ pc = "send"
    /\ \/ conn = "ok" /\ delivered' = delivered \cup {msg} /\ UNCHANGED <<accepted, silent, ec>>
       \/ conn = "half" /\ silent' = silent \cup {msg} /\ UNCHANGED <<accepted, delivered, ec>>
       \/ conn = "reconnecting" /\ accepted' = accepted \cup {msg} /\ UNCHANGED <<delivered, silent, ec>>
       \/ conn \in {"reconnecting", "closed"} /\ ec' = ec + 1 /\ UNCHANGED <<accepted, delivered, silent>>
    /\ Done
    /\ UNCHANGED <<MQ, up, conn, chanVars, errors, taken>>

(* The client misses the server, finds it again, or gives up.  What it     *)
(* kept is sent, or gone: no call is left to return an error.              *)
NATSClient ==
    /\ MQ = "nats"
    /\ \/ conn = "half" /\ conn' = "reconnecting" /\ UNCHANGED <<accepted, delivered, silent>>
       \/ /\ conn = "reconnecting" /\ up /\ conn' = "ok"
          /\ delivered' = delivered \cup accepted /\ accepted' = {} /\ UNCHANGED silent
       \/ /\ conn = "reconnecting" /\ ~up /\ conn' = "closed"
          /\ silent' = silent \cup accepted /\ accepted' = {} /\ UNCHANGED delivered
    /\ UNCHANGED <<MQ, up, chanVars, pc, msg, attempt, errors, taken, ec>>

(* A TCP write that no error meets.  Of what is written after the other    *)
(* end is gone only a later write gets to know.  The message is the format *)
(* of Fprintf, so one with a % in it does not arrive as it was.            *)
RawWrite ==
    /\ MQ = "rawSocket" /\ pc = "send"
    /\ \/ conn = "ok" /\ delivered' = delivered \cup {msg} /\ UNCHANGED <<conn, silent>>
       \/ /\ conn = "half" /\ conn' \in {"half", "pipe", "reset"}
          /\ silent' = silent \cup {msg} /\ UNCHANGED delivered
    /\ Done
    /\ UNCHANGED <<MQ, up, chanVars, clientVars, taken, ec>>

(* Mutant: the message is tried until it is written. *)
RawWriteFailsForever ==
    /\ MQ = "rawSocket" /\ pc = "send" /\ conn \in {"pipe", "reset"}
    /\ conn' = IF conn = "pipe" /\ up THEN "ok" ELSE conn
    /\ UNCHANGED <<MQ, up, chanVars, pc, msg, attempt, clientVars, history, ec>>

(* Mutant: no new connection is made. *)
RawWriteFailsNoDial ==
    /\ MQ = "rawSocket" /\ pc = "send" /\ conn \in {"pipe", "reset"}
    /\ ec' = ec + 1
    /\ IF attempt >= MaxRetry THEN Done ELSE attempt' = attempt + 1 /\ UNCHANGED <<pc, msg>>
    /\ UNCHANGED <<MQ, up, conn, chanVars, clientVars, history>>

(* Mutant: the attempt that gives up is not counted. *)
RawWriteFailsUncounted ==
    /\ MQ = "rawSocket" /\ pc = "send" /\ conn \in {"pipe", "reset"}
    /\ conn' = IF conn = "pipe" /\ up THEN "ok" ELSE conn
    /\ IF attempt >= MaxRetry
       THEN Done /\ UNCHANGED ec
       ELSE attempt' = attempt + 1 /\ ec' = ec + 1 /\ UNCHANGED <<pc, msg>>
    /\ UNCHANGED <<MQ, up, chanVars, clientVars, history>>

(* A failed write is counted; after a broken pipe a new connection is      *)
(* tried; the message is given up when attempt MaxRetry has failed.        *)
RawWriteFails ==
    /\ MQ = "rawSocket" /\ pc = "send" /\ conn \in {"pipe", "reset"}
    /\ ec' = ec + 1
    /\ conn' = IF conn = "pipe" /\ up THEN "ok" ELSE conn
    /\ IF attempt >= MaxRetry THEN Done ELSE attempt' = attempt + 1 /\ UNCHANGED <<pc, msg>>
    /\ UNCHANGED <<MQ, up, chanVars, clientVars, history>>
-----------------------------------------------------------------------------
(* What becomes of a connection whose server goes.  The clients of Kafka   *)
(* and NSQ look after theirs.                                              *)
Broken ==
    CASE MQ = "rawSocket" -> {"half", "pipe", "reset"}
      [] MQ = "nats" -> {"half", "reconnecting"}
      [] OTHER -> {"ok"}

(* The server goes, and with it the connection; it comes back. *)
ServerDown ==
    /\ up /\ up' = FALSE
    /\ IF conn = "ok" THEN conn' \in Broken ELSE UNCHANGED conn
    /\ UNCHANGED <<MQ, chanVars, pc, msg, attempt, clientVars, history, ec>>

ServerUp ==
    /\ ~up /\ up' = TRUE
    /\ UNCHANGED <<MQ, conn, chanVars, pc, msg, attempt, clientVars, history, ec>>

inputMsg ==
    \/ \E c \in Configs : Setup(c)
    \/ Take \/ Return
    \/ KafkaInput \/ KafkaError \/ NSQPublish \/ NATSPublish \/ RawWrite \/ RawWriteFails

Next ==
    \/ Offer \/ Shutdown
    \/ inputMsg
    \/ \E m \in accepted : KafkaClient(m)
    \/ NATSClient
    \/ ServerDown \/ ServerUp

(* The producer and the Kafka client run. *)
Spec ==
    /\ Init /\ [][Next]_vars
    /\ WF_vars(inputMsg) /\ WF_vars(\E m \in accepted : KafkaClient(m))
-----------------------------------------------------------------------------
(* The channel stays within its capacity, and the raw socket tries a       *)
(* message at most MaxRetry + 1 times.                                     *)
TypeOK ==
    /\ Chan \in Seq(1..MaxMsgs) /\ Len(Chan) <= Cap
    /\ pc \in {"setup", "fatal", "take", "send", "end"}
    /\ conn \in Connections
    /\ msg \in 0..made /\ attempt \in 0..MaxRetry
    /\ ec \in Nat /\ errors \in Nat

(* The messages received that are nowhere any more. *)
Lost == taken \ (delivered \cup accepted \cup {msg})

(* The error count accounts for every message lost, except those that were *)
(* written to a connection before its end was noticed or were in the NATS  *)
(* client when it gave up (silent).  Of Kafka's two losses are one count:  *)
(* the message that failed in the client and the one in hand when its      *)
(* error was received.  The raw socket counts MaxRetry + 1 for each.       *)
LossesCounted ==
    CASE MQ = "kafka" -> pc # "end" => Cardinality(Lost) = 2 * ec + errors
      [] MQ = "rawSocket" -> (MaxRetry + 1) * Cardinality(Lost \ silent) + attempt <= ec
      [] OTHER -> Cardinality(Lost \ silent) <= ec

(* inputMsg is done with every message, whatever the server does: the      *)
(* retries are bounded.                                                    *)
MessageDone == pc = "send" ~> pc = "take"

(* After Shutdown the messages in the channel are dealt with and inputMsg  *)
(* returns, so that Run does.                                              *)
Drained == closed ~> (pc \in {"end", "fatal"})

(* Once a server stays up, the raw socket delivers the message in hand:    *)
(* within the retries the connection whose pipe broke is replaced.  One    *)
(* that failed otherwise, or that only seems to be there, is not.          *)
Recovers ==
    \A m \in 1..MaxMsgs :
        (/\ MaxRetry > 0 /\ MQ = "rawSocket" /\ msg = m /\ attempt = 0
         /\ [](up /\ conn \in {"ok", "pipe"})) ~> m \in delivered
=============================================================================
