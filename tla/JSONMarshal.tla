----------------------------- MODULE JSONMarshal -----------------------------
(***************************************************************************)
(* A worker encodes the messages it decoded, one after the other, into one *)
(* bytes.Buffer: Interpret of ipfix/interpret.go gives each field a Go     *)
(* value by its element's type, JSONMarshal of ipfix/marshal.go and        *)
(* netflow/v9/marshal.go writes the message, and the worker of             *)
(* vflow/ipfix.go copies the text into the message queue.  Texts are       *)
(* sequences of tokens; names and numbers are left out.                    *)
(***************************************************************************)
EXTENDS Naturals, Sequences

(* A field has a type of the information model, a length in bytes and an   *)
(* enterprise number; it is extreme when the top bit of an integer is set, *)
(* a float is not a number, or a string holds a quote.                     *)
CONSTANTS
    RawFields,           \* the fields of the exporters' records
    MaxSets, MaxFields   \* bounds: records of a message, fields of a record

MarshalAssumption ==
    /\ RawFields \subseteq [type : STRING, len : Nat, extreme : BOOLEAN, EnterpriseNo : Nat]
    /\ MaxSets \in Nat /\ MaxFields \in Nat

VARIABLES
    proto,      \* the protocol this worker serves
    DataSets,   \* the message being encoded
    i, j,       \* the field encodeDataSet is at
    b, err, pc,
    mq          \* what this message put on the queue: the text and whose it is

vars == <<proto, DataSets, i, j, b, err, pc, mq>>
-----------------------------------------------------------------------------
minLen(t) ==
    CASE t \in {"Boolean", "Uint8", "Int8"} -> 1
      [] t \in {"Uint16", "Int16"} -> 2
      [] t \in {"Uint32", "Int32", "Float32", "DateTimeSeconds", "Ipv4Address"} -> 4
      [] t \in {"Uint64", "Int64", "Float64", "DateTimeMilliseconds",
                "DateTimeMicroseconds", "DateTimeNanoseconds"} -> 8
      [] t = "MacAddress" -> 6
      [] t = "Ipv6Address" -> 16
      [] OTHER -> 0

(* The kind of Go value a field becomes.  What is too short for its type   *)
(* stays an array of bytes.                                                *)
Interpret(f) ==
    CASE f.len < minLen(f.type) -> "bytes"
      [] f.type = "Boolean" -> "bool"
      [] f.type \in {"Uint8", "Uint16", "Uint32", "DateTimeSeconds"} -> "uint"
      [] f.type \in {"Uint64", "DateTimeMilliseconds", "DateTimeMicroseconds",
                     "DateTimeNanoseconds"} -> "uint64"
      [] f.type \in {"Int8", "Int16", "Int32", "Int64"} -> "int"
      [] f.type \in {"Float32", "Float64"} -> "float"
      [] f.type = "String" -> "string"
      [] f.type \in {"MacAddress", "Ipv4Address", "Ipv6Address"} -> "address"
      [] OTHER -> "bytes"

(* The text of a value; no text for a type the switch does not know.  All  *)
(* integers go through int64.                                              *)
writeValue(f) ==
    LET v == Interpret(f) IN
    CASE v = "bool" -> <<>>
      [] v = "uint" -> <<"number">>
      [] v \in {"uint64", "int"} -> IF f.extreme THEN <<"-", "number">> ELSE <<"number">>
      [] v = "float" -> IF f.extreme THEN <<"NaN">> ELSE <<"number">>
      [] v = "string" /\ f.extreme -> <<"QUOTE", "text", "QUOTE", "text", "QUOTE">>
      [] OTHER -> <<"QUOTE", "text", "QUOTE">>

Writable(f) == Interpret(f) # "bool"

encodeAgent == <<"AgentID:", ",">>
encodeHeader == <<"Header:", ",">>

(* The enterprise number, which only IPFIX has. *)
Enterprise(f) == IF proto = "ipfix" /\ f.EnterpriseNo # 0 THEN <<",", "E:">> ELSE <<>>

Field(f) == <<"{", "I:", ",", "V:">> \o writeValue(f) \o Enterprise(f) \o <<"}">>
-----------------------------------------------------------------------------
UpTo(n, S) == UNION {[1..k -> S] : k \in 1..n}
DecodedMessages == UpTo(MaxSets, UpTo(MaxFields, RawFields))

NoText == [text |-> <<>>, msg |-> <<>>]

Init ==
    /\ proto \in {"ipfix", "netflow9"}
    /\ DataSets = <<>> /\ i = 0 /\ j = 0
    /\ b = <<>> /\ err = FALSE
    /\ pc = "loop"
    /\ mq = NoText

(* Mutant: the buffer keeps what the previous message left. *)
TakeNoReset(msg) ==
    /\ pc = "loop"
    /\ DataSets' = msg
    /\ b' = b \o <<"{">> \o encodeAgent \o encodeHeader \o <<"DataSets:", "[">>
    /\ i' = 1 /\ j' = 0
    /\ err' = FALSE
    /\ pc' = "record" /\ mq' = NoText
    /\ UNCHANGED proto

(* The worker's loop resets the buffer, takes a datagram and, when it      *)
(* decoded to data, starts JSONMarshal.                                    *)
Take(msg) ==
    /\ pc = "loop"
    /\ DataSets' = msg
    /\ b' = <<"{">> \o encodeAgent \o encodeHeader \o <<"DataSets:", "[">>
    /\ i' = 1 /\ j' = 0
    /\ err' = FALSE
    /\ pc' = "record" /\ mq' = NoText
    /\ UNCHANGED proto

BeginRecord ==
    /\ pc = "record"
    /\ b' = Append(b, "[") /\ j' = 1
    /\ pc' = "field"
    /\ UNCHANGED <<proto, DataSets, i, err, mq>>

(* One field; err is the outcome of this field alone. *)
EncodeField ==
    /\ pc = "field"
    /\ LET f == DataSets[i][j] IN
       /\ b' = b \o Field(f) \o (IF j < Len(DataSets[i]) THEN <<",">> ELSE <<>>)
       /\ err' = ~Writable(f)
    /\ IF j < Len(DataSets[i]) THEN j' = j + 1 /\ UNCHANGED pc
                               ELSE pc' = "close" /\ UNCHANGED j
    /\ UNCHANGED <<proto, DataSets, i, mq>>

(* Mutant: one record too many. *)
CloseRecordOneMore ==
    /\ pc = "close"
    /\ j' = 0
    /\ IF i <= Len(DataSets)
       THEN b' = b \o <<"]", ",">> /\ i' = i + 1 /\ pc' = "record"
       ELSE b' = b \o <<"]", "]">> /\ pc' = "encoded" /\ UNCHANGED i
    /\ UNCHANGED <<proto, DataSets, err, mq>>

CloseRecord ==
    /\ pc = "close"
    /\ j' = 0
    /\ IF i < Len(DataSets)
       THEN b' = b \o <<"]", ",">> /\ i' = i + 1 /\ pc' = "record"
       ELSE b' = b \o <<"]", "]">> /\ pc' = "encoded" /\ UNCHANGED i
    /\ UNCHANGED <<proto, DataSets, err, mq>>

(* Mutant: the error of JSONMarshal is only logged. *)
QueueAlways ==
    /\ pc = "encoded"
    /\ b' = Append(b, "}")
    /\ mq' = [text |-> b', msg |-> DataSets]
    /\ pc' = "loop"
    /\ UNCHANGED <<proto, DataSets, i, j, err>>

(* The end of JSONMarshal: an error makes the worker continue; otherwise a *)
(* copy goes to the queue unless that is full.                             *)
Queue ==
    /\ pc = "encoded"
    /\ \/ err /\ UNCHANGED <<b, mq>>
       \/ /\ ~err
          /\ b' = Append(b, "}")
          /\ mq' \in {NoText, [text |-> b', msg |-> DataSets]}
    /\ pc' = "loop"
    /\ UNCHANGED <<proto, DataSets, i, j, err>>

Next ==
    \/ \E msg \in DecodedMessages : Take(msg)
    \/ BeginRecord
    \/ EncodeField
    \/ CloseRecord
    \/ Queue

Spec == Init /\ [][Next]_vars
-----------------------------------------------------------------------------
(* The reference: objects and arrays joined by commas.  Joins(parts)[n] is *)
(* the first n of the parts.                                               *)
Joins(parts) ==
    LET First[n \in 1..Len(parts)] == IF n = 1 THEN parts[1] ELSE First[n - 1] \o <<",">> \o parts[n]
    IN  First

Joined(parts) == Joins(parts)[Len(parts)]

RecordText(r) == <<"[">> \o Joined([k \in DOMAIN r |-> Field(r[k])]) \o <<"]">>

MessageText(m) ==
    <<"{">> \o Joined(<< <<"AgentID:">>, <<"Header:">>,
                <<"DataSets:", "[">> \o Joined([k \in DOMAIN m |-> RecordText(m[k])]) \o <<"]">> >>)
            \o <<"}">>

(* The positions and texts of JSONMarshal are of their types. *)
TypeOK ==
    /\ DataSets \in DecodedMessages \cup {<<>>}
    /\ i \in 0..Len(DataSets)
    /\ i > 0 => j \in 0..Len(DataSets[i])
    /\ err \in BOOLEAN
    /\ pc \in {"loop", "record", "field", "close", "encoded"}

(* A queued text is the encoding of one message and of nothing else,       *)
(* whatever the messages before it left in the buffer: commas stand        *)
(* between fields and between records and nowhere else, and what an        *)
(* aborted JSONMarshal wrote is never queued in front of it.               *)
QueuedWhole == mq.msg # <<>> => mq.text = MessageText(mq.msg)

(* A message whose last field has no text is not queued: the error of      *)
(* JSONMarshal makes the worker continue.                                  *)
FailedNotQueued ==
    mq.msg # <<>> => LET r == mq.msg[Len(mq.msg)] IN Writable(r[Len(r)])
=============================================================================
