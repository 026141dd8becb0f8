--------------------------- MODULE DeliveryProofs ---------------------------
(***************************************************************************)
(* The JSON encoders, the producers and the ClickHouse consumer for any    *)
(* messages, channels, retries, partitions, transactions and crashes.      *)
(***************************************************************************)
EXTENDS Delivery, Integers, Sequences, TLAPS

(* Of a producer: a message is received once, and then in one place.       *)
ProducerType ==
    /\ MQ \in Queues /\ made \in 0..MaxMsgs
    /\ Chan \in Seq(1..made) /\ Len(Chan) <= ProducerCap
    /\ pc \in {"setup", "fatal", "take", "send", "end"}
    /\ conn \in P!Connections
    /\ msg \in 0..made /\ attempt \in 0..MaxRetry
    /\ ec \in Nat /\ errors \in Nat
    /\ taken \subseteq 1..made

OnePlace ==
    /\ accepted \cup delivered \cup silent \subseteq taken
    /\ accepted \cap delivered = {}
    /\ pc = "send" => msg \in taken /\ msg \notin accepted \cup delivered \cup silent
    /\ pc # "send" => msg = 0
    /\ \A x \in 1..Len(Chan) : Chan[x] \notin taken
    /\ \A x, y \in 1..Len(Chan) : Chan[x] = Chan[y] => x = y

ProducerInv == ProducerType /\ OnePlace /\ P!LossesCounted

(* The messages that the error count is to account for. *)
Missed == IF MQ = "kafka" THEN P!Lost ELSE P!Lost \ silent

(* Of the consumer: where a message can be. *)
Taken(w) == IF wpc[w] = "send" THEN offset[w] - 1 ELSE offset[w]
InFlight(m) ==
    \/ m \in C!Range(ch)
    \/ \E tx \in committing : m \in tx
    \/ \E g \in Ingesters : m \in C!Range(batch[g])

Distinct(s) == \A x, y \in 1..Len(s) : s[x] = s[y] => x = y

ConsumerType ==
    /\ wpc \in [Workers -> {"select", "send", "mark"}]
    /\ offset \in [Workers -> 0..Messages] /\ marked \in [Workers -> 0..Messages]
    /\ flushed \in [Workers -> 0..Messages]
    /\ ch \in Seq(C!Msgs) /\ batch \in [Ingesters -> Seq(C!Msgs)]
    /\ committing \subseteq SUBSET C!Msgs
    /\ rows \in [C!Msgs -> Nat] /\ crashes \in Nat

(* Offsets are flushed after they are marked, and marked after the message *)
(* was sent.                                                               *)
OffsetsInOrder ==
    \A w \in Workers :
        /\ flushed[w] <= marked[w]
        /\ wpc[w] = "select" => marked[w] = offset[w]
        /\ wpc[w] # "select" => offset[w] > 0 /\ marked[w] = offset[w] - 1

(* No message is twice on its way. *)
Apart ==
    /\ Distinct(ch) /\ \A g \in Ingesters : Distinct(batch[g])
    /\ \A g \in Ingesters : C!Range(ch) \cap C!Range(batch[g]) = {}
    /\ \A tx \in committing : C!Range(ch) \cap tx = {}
    /\ \A g \in Ingesters, tx \in committing : C!Range(batch[g]) \cap tx = {}
    /\ \A g, h \in Ingesters : g # h => C!Range(batch[g]) \cap C!Range(batch[h]) = {}
    /\ \A tx, ty \in committing : tx # ty => tx \cap ty = {}

(* A message that is still to be taken, or on its way, has been inserted   *)
(* once per crash at most.                                                 *)
RowsBounded ==
    \A w \in Workers, o \in 1..Messages :
        /\ rows[<<w, o>>] <= 1 + crashes
        /\ InFlight(<<w, o>>) => rows[<<w, o>>] <= crashes /\ o <= Taken(w)
        /\ o > Taken(w) => rows[<<w, o>>] <= crashes

(* Without a crash, what was taken is somewhere. *)
TakenKept ==
    crashes = 0 =>
        \A w \in Workers : \A o \in 1..Taken(w) :
            <<w, o>> \in Bad \/ rows[<<w, o>>] > 0 \/ InFlight(<<w, o>>)

ConsumerInv == ConsumerType /\ OffsetsInOrder /\ Apart /\ RowsBounded /\ TakenKept
-----------------------------------------------------------------------------
(* The assumptions on the constants, part by part. *)
LEMMA Constants ==
    /\ ProducerCap \in Nat \ {0} /\ MaxRetry \in Nat /\ MaxMsgs \in Nat
    /\ Queues \subseteq {"kafka", "nsq", "nats", "rawSocket"}
    /\ Messages \in Nat /\ MaxCrashes \in Nat /\ Batch \in Nat \ {0}
  BY Zenon, DeliveryAssumption DEF P!ProducerAssumption, C!ConsumerAssumption

(* What is in a sequence that grows at its end or loses its head. *)
LEMMA RangeAppend ==
    ASSUME NEW S, NEW s \in Seq(S), NEW e \in S
    PROVE  /\ C!Range(Append(s, e)) = C!Range(s) \cup {e}
           /\ Distinct(s) /\ e \notin C!Range(s) => Distinct(Append(s, e))
<1>1. /\ DOMAIN s = 1..Len(s) /\ Len(s) \in Nat
      /\ DOMAIN Append(s, e) = 1..Len(s) + 1 /\ Len(Append(s, e)) = Len(s) + 1
      /\ \A x \in 1..Len(s) : Append(s, e)[x] = s[x]
      /\ Append(s, e)[Len(s) + 1] = e
    OBVIOUS
<1>2. \A x \in 1..Len(s) + 1 : x \in 1..Len(s) \/ x = Len(s) + 1
    BY <1>1
<1>3. 1..Len(s) \subseteq 1..Len(s) + 1 /\ Len(s) + 1 \in 1..Len(s) + 1
    BY <1>1
<1>4. C!Range(Append(s, e)) = C!Range(s) \cup {e}
    BY Zenon, <1>1, <1>2, <1>3 DEF C!Range
<1>5. ASSUME Distinct(s), e \notin C!Range(s) PROVE Distinct(Append(s, e))
    BY Zenon, <1>1, <1>2, <1>3, <1>5 DEF C!Range, Distinct
<1> QED
    BY Zenon, <1>4, <1>5

(* A sequence without its head. *)
LEMMA RangeTail ==
    ASSUME NEW S, NEW s \in Seq(S), s # <<>>, Distinct(s)
    PROVE  /\ Head(s) \in S /\ Head(s) \in C!Range(s) /\ Tail(s) \in Seq(S)
           /\ C!Range(Tail(s)) = C!Range(s) \ {Head(s)}
           /\ Distinct(Tail(s))
<1>1. /\ DOMAIN s = 1..Len(s) /\ Len(s) \in Nat /\ Len(s) > 0
      /\ Head(s) = s[1] /\ Head(s) \in S /\ Tail(s) \in Seq(S)
      /\ DOMAIN Tail(s) = 1..Len(s) - 1 /\ Len(Tail(s)) = Len(s) - 1
      /\ \A x \in 1..Len(s) - 1 : Tail(s)[x] = s[x + 1]
    OBVIOUS
<1>2. Head(s) \in C!Range(s)
    BY <1>1 DEF C!Range
<1>3. ASSUME NEW x \in 1..Len(s) - 1 PROVE s[x + 1] \in C!Range(s) /\ s[x + 1] # Head(s)
    BY <1>1 DEF C!Range, Distinct
<1>4. ASSUME NEW x \in 1..Len(s), s[x] # Head(s) PROVE s[x] \in C!Range(Tail(s))
  <2>1. x - 1 \in 1..Len(s) - 1 /\ Tail(s)[x - 1] = s[x]
    BY <1>1, <1>4
  <2> QED
    BY Zenon, <1>1, <2>1 DEF C!Range
<1>5. C!Range(Tail(s)) = C!Range(s) \ {Head(s)}
  <2>1. \A e \in C!Range(Tail(s)) : e \in C!Range(s) /\ e # Head(s)
    <3>1. \A e \in C!Range(Tail(s)) : \E x \in 1..Len(s) - 1 : e = s[x + 1]
        BY Zenon, <1>1 DEF C!Range
    <3> QED
        BY Zenon, <1>3, <3>1
  <2>2. \A e \in C!Range(s) : e # Head(s) => e \in C!Range(Tail(s))
    <3>1. \A e \in C!Range(s) : \E x \in 1..Len(s) : e = s[x]
        BY Zenon, <1>1 DEF C!Range
    <3> QED
        BY Zenon, <1>4, <3>1
  <2> QED
    BY Zenon, <2>1, <2>2
<1>6. Distinct(Tail(s))
    BY <1>1 DEF Distinct
<1> QED
    BY Zenon, <1>1, <1>2, <1>5, <1>6

(* The empty sequence. *)
LEMMA RangeEmpty ==
    ASSUME NEW S
    PROVE  <<>> \in Seq(S) /\ C!Range(<<>>) = {} /\ Distinct(<<>>)
  BY DEF C!Range, Distinct

(* Elements of a sequence are elements of its set. *)
LEMMA RangeWithin ==
    ASSUME NEW S, NEW s \in Seq(S)
    PROVE  C!Range(s) \subseteq S
  BY DEF C!Range

(* The consumer starts with nothing taken. *)
LEMMA ConsumerInit == Init => ConsumerInv
<1> SUFFICES ASSUME C!Init PROVE ConsumerInv
    BY Zenon DEF Init
<1>1. /\ flushed = [w \in Workers |-> 0] /\ offset = flushed /\ marked = flushed
      /\ wpc = [w \in Workers |-> "select"] /\ ch = <<>> /\ committing = {}
      /\ batch = [g \in Ingesters |-> <<>>] /\ rows = [m \in C!Msgs |-> 0] /\ crashes = 0
    BY Zenon DEF C!Init
<1>2. 0 \in 0..Messages /\ 0 \in Nat
    BY Constants
<1>3. ConsumerType
    BY Zenon, <1>1, <1>2, RangeEmpty DEF ConsumerType
<1>4. OffsetsInOrder
    BY <1>1 DEF OffsetsInOrder
<1>5. Apart
    BY Zenon, <1>1, RangeEmpty DEF Apart
<1>6. \A m : ~InFlight(m)
    BY Zenon, <1>1, RangeEmpty DEF InFlight
<1>7. \A w \in Workers : Taken(w) = 0
    BY Zenon, <1>1 DEF Taken
<1>8. \A w \in Workers, o \in 1..Messages : rows[<<w, o>>] = 0
    BY <1>1 DEF C!Msgs
<1>9. RowsBounded
  <2>1. 0 <= 1 + crashes /\ 0 <= crashes
    BY <1>1
  <2> QED
    BY Zenon, <2>1, <1>6, <1>8 DEF RowsBounded
<1>10. TakenKept
    BY <1>7 DEF TakenKept
<1> QED
    BY Zenon, <1>3, <1>4, <1>5, <1>9, <1>10 DEF ConsumerInv

(* The number of messages taken from a partition. *)
LEMMA TakenType ==
    ASSUME ConsumerType, NEW w \in Workers
    PROVE  Taken(w) \in Int /\ Taken(w) <= Messages
<1>1. offset[w] \in 0..Messages /\ Messages \in Nat
    BY Zenon, Constants DEF ConsumerType
<1> QED
    BY <1>1 DEF Taken

(* Steps that take no message, insert none, and lose none. *)
LEMMA FlightStays ==
    ASSUME RowsBounded, TakenKept, UNCHANGED <<rows, crashes>>,
           \A w \in Workers : Taken(w)' = Taken(w),
           \A w \in Workers, o \in 1..Messages : InFlight(<<w, o>>)' <=> InFlight(<<w, o>>),
           ConsumerType
    PROVE  RowsBounded' /\ TakenKept'
<1>1. RowsBounded'
    BY Zenon DEF RowsBounded
<1>2. \A w \in Workers : \A o \in 1..Taken(w) : o \in 1..Messages
    BY TakenType, Constants
<1>3. TakenKept'
    BY Zenon, <1>2 DEF TakenKept
<1> QED
    BY Zenon, <1>1, <1>3

(* What InFlight depends on. *)
LEMMA SameFlight ==
    ASSUME UNCHANGED <<ch, committing, batch>>
    PROVE  \A m : InFlight(m)' <=> InFlight(m)
  BY Zenon DEF InFlight

(* A message received is not taken yet, unless it is no JSON. *)
LEMMA ReceiveStep ==
    ASSUME ConsumerInv, NEW w \in Workers, C!Receive(w)
    PROVE  ConsumerInv'
<1>1. /\ wpc[w] = "select" /\ offset[w] < Messages
      /\ offset' = [offset EXCEPT ![w] = @ + 1]
      /\ wpc' = [wpc EXCEPT ![w] = IF <<w, offset[w] + 1>> \in Bad THEN "mark" ELSE "send"]
      /\ UNCHANGED <<marked, flushed, ch, batch, committing, rows, crashes>>
    BY Zenon DEF C!Receive
<1>2. ConsumerType
    BY Zenon DEF ConsumerInv
<1>3. /\ offset[w] \in 0..Messages /\ offset[w] + 1 \in 0..Messages /\ offset'[w] = offset[w] + 1
      /\ wpc'[w] = IF <<w, offset[w] + 1>> \in Bad THEN "mark" ELSE "send"
      /\ \A v \in Workers : v # w => offset'[v] = offset[v] /\ wpc'[v] = wpc[v]
    BY <1>1, <1>2, Constants DEF ConsumerType
<1>4. ConsumerType'
    BY <1>1, <1>2, <1>3 DEF ConsumerType
<1>5. OffsetsInOrder'
  <2>1. ASSUME NEW v \in Workers
        PROVE  /\ flushed'[v] <= marked'[v]
               /\ wpc'[v] = "select" => marked'[v] = offset'[v]
               /\ wpc'[v] # "select" => offset'[v] > 0 /\ marked'[v] = offset'[v] - 1
    BY <1>1, <1>2, <1>3 DEF ConsumerInv, ConsumerType, OffsetsInOrder
  <2> QED
    BY Zenon, <2>1 DEF OffsetsInOrder
<1>6. Apart'
    BY Zenon, <1>1 DEF ConsumerInv, Apart
<1>7. /\ \A v \in Workers : v # w => Taken(v)' = Taken(v)
      /\ Taken(w) = offset[w]
      /\ Taken(w)' = Taken(w) \/ (Taken(w)' = offset[w] + 1 /\ <<w, offset[w] + 1>> \in Bad)
  <2>1. \A v \in Workers : v # w => Taken(v)' = Taken(v)
    BY Zenon, <1>3 DEF Taken
  <2>2. Taken(w) = offset[w]
    BY Zenon, <1>1 DEF Taken
  <2>3. CASE <<w, offset[w] + 1>> \in Bad
    <3>1. wpc'[w] = "mark"
        BY Zenon, <1>3, <2>3
    <3> QED
        BY Zenon, <1>3, <2>1, <2>2, <2>3, <3>1 DEF Taken
  <2>4. CASE <<w, offset[w] + 1>> \notin Bad
    <3>1. wpc'[w] = "send" /\ offset'[w] - 1 = offset[w]
        BY <1>3, <2>4
    <3> QED
        BY Zenon, <2>1, <2>2, <3>1 DEF Taken
  <2> QED
    BY Zenon, <2>3, <2>4
<1>8. \A v \in Workers, o \in 1..Messages : o <= Taken(v) => o <= Taken(v)'
    BY <1>3, <1>7
<1>9. \A v \in Workers, o \in 1..Messages : o > Taken(v)' => o > Taken(v)
  <2>1. \A v \in Workers : Taken(v) \in Int /\ Taken(v)' \in Int
    <3>1. \A v \in Workers : offset[v] \in Int /\ offset'[v] \in Int
        BY <1>2, <1>4, Constants DEF ConsumerType
    <3> QED
        BY <3>1 DEF Taken
  <2> QED
    BY <1>3, <1>7, <2>1
<1>10. RowsBounded'
    BY Zenon, <1>1, <1>8, <1>9, SameFlight DEF ConsumerInv, RowsBounded
<1>11. \A v \in Workers : \A o \in 1..Taken(v)' : o \in 1..Taken(v) \/ <<v, o>> \in Bad
    BY <1>3, <1>7
<1>12. TakenKept'
    BY Zenon, <1>1, <1>11, SameFlight DEF ConsumerInv, TakenKept
<1> QED
    BY Zenon, <1>4, <1>5, <1>6, <1>10, <1>12 DEF ConsumerInv

(* A message put on the channel was not on its way. *)
LEMMA SendStep ==
    ASSUME ConsumerInv, NEW w \in Workers, C!Send(w)
    PROVE  ConsumerInv'
<1> DEFINE m == <<w, offset[w]>>
<1>1. /\ wpc[w] = "send" /\ ch' = Append(ch, m) /\ wpc' = [wpc EXCEPT ![w] = "mark"]
      /\ UNCHANGED <<offset, marked, flushed, batch, committing, rows, crashes>>
    BY Zenon DEF C!Send, C!Msg
<1>2. ConsumerType /\ OffsetsInOrder /\ Apart /\ RowsBounded /\ TakenKept
    BY Zenon DEF ConsumerInv
<1>3. offset[w] \in 1..Messages /\ m \in C!Msgs /\ Taken(w) = offset[w] - 1
  <2>1. offset[w] \in 0..Messages /\ offset[w] > 0
    BY Zenon, <1>1, <1>2 DEF ConsumerType, OffsetsInOrder
  <2>2. offset[w] \in 1..Messages
    BY <2>1, Constants
  <2> QED
    BY Zenon, <1>1, <2>2 DEF C!Msgs, Taken
<1>4. wpc'[w] = "mark" /\ \A v \in Workers : v # w => wpc'[v] = wpc[v]
    BY Zenon, <1>1, <1>2 DEF ConsumerType
<1>5. Taken(w)' = offset[w] /\ \A v \in Workers : v # w => Taken(v)' = Taken(v)
    BY Zenon, <1>1, <1>4 DEF Taken
<1>6. ~InFlight(m) /\ rows[m] <= crashes
  <2>1. offset[w] > Taken(w) /\ ~(offset[w] <= Taken(w))
    BY <1>3, Constants
  <2> QED
    BY Zenon, <1>2, <1>3, <2>1 DEF RowsBounded
<1>7. /\ ch' \in Seq(C!Msgs) /\ C!Range(ch') = C!Range(ch) \cup {m} /\ Distinct(ch')
  <2>1. ch \in Seq(C!Msgs) /\ Distinct(ch) /\ m \notin C!Range(ch)
    BY Zenon, <1>2, <1>6 DEF ConsumerType, Apart, InFlight
  <2>2. ch' \in Seq(C!Msgs)
    BY <1>1, <1>3, <2>1
  <2> QED
    BY ZenonT(60), <1>1, <1>3, <2>1, <2>2, RangeAppend
<1>8. ConsumerType'
    BY Zenon, <1>1, <1>2, <1>7 DEF ConsumerType
<1>9. OffsetsInOrder'
  <2>1. ASSUME NEW v \in Workers
        PROVE  wpc'[v] = wpc[v] \/ (wpc[v] # "select" /\ wpc'[v] # "select")
    BY Zenon, <1>1, <1>4
  <2> QED
    BY Zenon, <1>1, <1>2, <2>1 DEF OffsetsInOrder
<1>10. Apart'
  <2>1. (\A tx \in committing : m \notin tx) /\ \A g \in Ingesters : m \notin C!Range(batch[g])
    BY Zenon, <1>6 DEF InFlight
  <2>2. \A S : C!Range(ch) \cap S = {} /\ m \notin S => C!Range(ch') \cap S = {}
    BY <1>7
  <2>3. /\ \A g \in Ingesters : C!Range(ch') \cap C!Range(batch[g]) = {}
        /\ \A tx \in committing : C!Range(ch') \cap tx = {}
    BY Zenon, <1>2, <2>1, <2>2 DEF Apart
  <2> QED
    BY Zenon, <1>1, <1>2, <1>7, <2>3 DEF Apart
<1>11. \A n : InFlight(n)' <=> (InFlight(n) \/ n = m)
  <2>1. \A n : n \in C!Range(ch') <=> (n \in C!Range(ch) \/ n = m)
    BY Zenon, <1>7
  <2> HIDE DEF m
  <2> QED
    BY Zenon, <1>1, <2>1 DEF InFlight
<1>12. RowsBounded'
  <2>1. ASSUME NEW v \in Workers, NEW o \in 1..Messages
        PROVE  /\ rows[<<v, o>>] <= 1 + crashes
               /\ InFlight(<<v, o>>)' => rows[<<v, o>>] <= crashes /\ o <= Taken(v)'
               /\ o > Taken(v)' => rows[<<v, o>>] <= crashes
    <3>1. CASE v = w /\ o = offset[w]
      <4>1. o <= offset[w] /\ crashes <= 1 + crashes
        BY <1>2, <1>3, <3>1 DEF ConsumerType
      <4> QED
        BY Zenon, <1>2, <1>5, <1>6, <3>1, <4>1 DEF RowsBounded
    <3>2. CASE v # w \/ o # offset[w]
      <4>1. <<v, o>> # m
        BY <3>2
      <4>2. (o <= Taken(v) => o <= Taken(v)') /\ (o > Taken(v)' => o > Taken(v))
        <5>1. CASE v = w
            BY <1>3, <1>5, <3>2, <5>1
        <5>2. CASE v # w
            BY Zenon, <1>5, <5>2
        <5> QED
            BY Zenon, <5>1, <5>2
      <4> QED
        BY Zenon, <1>2, <1>11, <4>1, <4>2 DEF RowsBounded
    <3> QED
        BY Zenon, <3>1, <3>2
  <2> QED
    BY Zenon, <1>1, <2>1 DEF RowsBounded
<1>13. TakenKept'
  <2>1. ASSUME NEW v \in Workers, NEW o \in 1..Taken(v)'
        PROVE  o \in 1..Taken(v) \/ <<v, o>> = m
    <3>1. CASE v = w
        BY <1>3, <1>5, <3>1
    <3>2. CASE v # w
        BY Zenon, <1>5, <3>2
    <3> QED
        BY Zenon, <3>1, <3>2
  <2> QED
    BY Zenon, <1>1, <1>2, <1>11, <2>1 DEF TakenKept
<1> QED
    BY Zenon, <1>8, <1>9, <1>10, <1>12, <1>13 DEF ConsumerInv

(* Marking and flushing follow the offset. *)
LEMMA OffsetStep ==
    ASSUME ConsumerInv, NEW w \in Workers, C!MarkOffset(w) \/ C!Flush(w)
    PROVE  ConsumerInv'
<1>1. ConsumerType /\ OffsetsInOrder
    BY Zenon DEF ConsumerInv
<1>2. UNCHANGED <<offset, ch, batch, committing, rows, crashes>>
    BY Zenon DEF C!MarkOffset, C!Flush, C!memory
<1>3. /\ marked' \in [Workers -> 0..Messages] /\ flushed' \in [Workers -> 0..Messages]
      /\ wpc' \in [Workers -> {"select", "send", "mark"}]
      /\ OffsetsInOrder'
      /\ \A v \in Workers : Taken(v)' = Taken(v)
  <2>1. CASE C!MarkOffset(w)
    <3>1. /\ wpc[w] = "mark" /\ marked' = [marked EXCEPT ![w] = offset[w]]
          /\ wpc' = [wpc EXCEPT ![w] = "select"] /\ UNCHANGED flushed
        BY Zenon, <2>1 DEF C!MarkOffset
    <3>2. /\ marked' \in [Workers -> 0..Messages]
          /\ wpc' \in [Workers -> {"select", "send", "mark"}]
          /\ marked'[w] = offset[w] /\ wpc'[w] = "select"
          /\ \A v \in Workers : v # w => marked'[v] = marked[v] /\ wpc'[v] = wpc[v]
        BY Zenon, <1>1, <3>1 DEF ConsumerType
    <3>3. \A v \in Workers : Taken(v)' = Taken(v)
      <4>1. Taken(w)' = offset[w] /\ Taken(w) = offset[w]
        BY Zenon, <1>2, <3>1, <3>2 DEF Taken
      <4> QED
        BY Zenon, <1>2, <3>2, <4>1 DEF Taken
    <3>4. flushed[w] <= offset[w]
        BY SMTT(30), <1>1, <3>1, Constants DEF ConsumerType, OffsetsInOrder
    <3>5. OffsetsInOrder'
        BY Zenon, <1>1, <1>2, <3>1, <3>2, <3>4 DEF OffsetsInOrder
    <3> QED
        BY Zenon, <1>1, <3>1, <3>2, <3>3, <3>5 DEF ConsumerType
  <2>2. CASE C!Flush(w)
    <3>1. flushed' = [flushed EXCEPT ![w] = marked[w]] /\ UNCHANGED <<wpc, marked>>
        BY Zenon, <2>2 DEF C!Flush, C!memory
    <3>2. /\ flushed' \in [Workers -> 0..Messages] /\ flushed'[w] = marked[w]
          /\ \A v \in Workers : v # w => flushed'[v] = flushed[v]
        BY Zenon, <1>1, <3>1 DEF ConsumerType
    <3>3. marked[w] <= marked[w]
        BY <1>1, Constants DEF ConsumerType
    <3>4. OffsetsInOrder'
        BY Zenon, <1>1, <1>2, <3>1, <3>2, <3>3 DEF OffsetsInOrder
    <3>5. \A v \in Workers : Taken(v)' = Taken(v)
        BY Zenon, <1>2, <3>1 DEF Taken
    <3> QED
        BY Zenon, <1>1, <3>1, <3>2, <3>4, <3>5 DEF ConsumerType
  <2> QED
    BY Zenon, <2>1, <2>2
<1>4. ConsumerType'
    BY Zenon, <1>1, <1>2, <1>3 DEF ConsumerType
<1>5. Apart'
    BY Zenon, <1>2 DEF ConsumerInv, Apart
<1>6. RowsBounded' /\ TakenKept'
    BY Zenon, <1>1, <1>2, <1>3, SameFlight, FlightStays DEF ConsumerInv
<1> QED
    BY Zenon, <1>3, <1>4, <1>5, <1>6 DEF ConsumerInv

(* A ping moves no message. *)
LEMMA PingStep ==
    ASSUME ConsumerInv, NEW g \in Ingesters, NEW ok \in BOOLEAN, C!Ping(g, ok)
    PROVE  ConsumerInv'
<1>1. UNCHANGED <<wpc, offset, marked, flushed, ch, batch, committing, rows, crashes>>
    BY Zenon DEF C!Ping
<1>2. \A w \in Workers : Taken(w)' = Taken(w)
    BY Zenon, <1>1 DEF Taken
<1>3. RowsBounded' /\ TakenKept'
    BY Zenon, <1>1, <1>2, SameFlight, FlightStays DEF ConsumerInv
<1> QED
    BY Zenon, <1>1, <1>3 DEF ConsumerInv, ConsumerType, OffsetsInOrder, Apart

(* An ingester moves a message from the channel to its batch. *)
LEMMA FillStep ==
    ASSUME ConsumerInv, NEW g \in Ingesters, C!Fill(g)
    PROVE  ConsumerInv'
<1> DEFINE m == Head(ch)
<1>1. /\ ch # <<>> /\ ch' = Tail(ch)
      /\ batch' = [batch EXCEPT ![g] = Append(batch[g], m)]
      /\ UNCHANGED <<wpc, offset, marked, flushed, committing, rows, crashes>>
    BY Zenon DEF C!Fill
<1>2. ConsumerType /\ OffsetsInOrder /\ Apart /\ RowsBounded /\ TakenKept
    BY Zenon DEF ConsumerInv
<1>3. /\ ch' \in Seq(C!Msgs) /\ m \in C!Msgs /\ m \in C!Range(ch)
      /\ C!Range(ch') = C!Range(ch) \ {m} /\ Distinct(ch')
    BY Zenon, <1>1, <1>2, RangeTail DEF ConsumerType, Apart
<1>4. /\ batch'[g] = Append(batch[g], m) /\ batch[g] \in Seq(C!Msgs)
      /\ \A h \in Ingesters : h # g => batch'[h] = batch[h]
    BY Zenon, <1>1, <1>2 DEF ConsumerType
<1>5. m \notin C!Range(batch[g]) /\ Distinct(batch[g])
    BY Zenon, <1>2, <1>3 DEF Apart
<1>6. /\ batch'[g] \in Seq(C!Msgs) /\ C!Range(batch'[g]) = C!Range(batch[g]) \cup {m}
      /\ Distinct(batch'[g])
  <2>1. batch'[g] \in Seq(C!Msgs)
    BY <1>3, <1>4
  <2>2. /\ C!Range(Append(batch[g], m)) = C!Range(batch[g]) \cup {m}
        /\ Distinct(batch[g]) /\ m \notin C!Range(batch[g]) => Distinct(Append(batch[g], m))
    <3> HIDE DEF m
    <3> QED
        BY Zenon, <1>3, <1>4, RangeAppend
  <2> QED
    BY Zenon, <1>4, <1>5, <2>1, <2>2
<1> HIDE DEF m
<1>7. ConsumerType'
  <2>1. batch' \in [Ingesters -> Seq(C!Msgs)]
    <3>1. batch' = [h \in Ingesters |-> batch'[h]] /\ \A h \in Ingesters : batch'[h] \in Seq(C!Msgs)
        BY Zenon, <1>1, <1>2, <1>4, <1>6 DEF ConsumerType
    <3> QED
        BY Zenon, <3>1
  <2> QED
    BY Zenon, <1>1, <1>2, <1>3, <2>1 DEF ConsumerType
<1>8. OffsetsInOrder'
    BY Zenon, <1>1, <1>2 DEF OffsetsInOrder
<1>9. Apart'
  <2>1. /\ \A h \in Ingesters : h # g => m \notin C!Range(batch[h])
        /\ \A tx \in committing : m \notin tx
    BY Zenon, <1>2, <1>3 DEF Apart
  <2>2. \A S : m \notin S /\ C!Range(batch[g]) \cap S = {} => C!Range(batch'[g]) \cap S = {}
    BY Zenon, <1>6
  <2>3. \A h \in Ingesters : C!Range(ch') \cap C!Range(batch'[h]) = {}
    <3>1. \A h \in Ingesters : C!Range(ch) \cap C!Range(batch[h]) = {}
        BY Zenon, <1>2 DEF Apart
    <3>2. C!Range(ch') \cap C!Range(batch'[g]) = {}
        BY Zenon, <1>3, <1>6, <3>1
    <3>3. ASSUME NEW h \in Ingesters, h # g PROVE C!Range(ch') \cap C!Range(batch'[h]) = {}
        BY Zenon, <1>3, <1>4, <3>1, <3>3
    <3> QED
        BY Zenon, <3>2, <3>3
  <2>4. \A tx \in committing : C!Range(ch') \cap tx = {}
    <3>1. \A tx \in committing : C!Range(ch) \cap tx = {}
        BY Zenon, <1>2 DEF Apart
    <3> QED
        BY Zenon, <1>3, <3>1
  <2>5. \A h \in Ingesters, tx \in committing : C!Range(batch'[h]) \cap tx = {}
    BY Zenon, <1>2, <1>4, <2>1, <2>2 DEF Apart
  <2>6. \A h \in Ingesters : h # g => C!Range(batch'[g]) \cap C!Range(batch'[h]) = {}
    BY Zenon, <1>2, <1>4, <2>1, <2>2 DEF Apart
  <2>7. \A h, k \in Ingesters : h # k => C!Range(batch'[h]) \cap C!Range(batch'[k]) = {}
    <3>1. \A S, T : S \cap T = T \cap S
        OBVIOUS
    <3> QED
        BY ZenonT(60), <1>2, <1>4, <2>6, <3>1 DEF Apart
  <2>8. \A h \in Ingesters : Distinct(batch'[h])
    BY Zenon, <1>2, <1>4, <1>6 DEF Apart
  <2> QED
    BY Zenon, <1>1, <1>2, <1>3, <2>3, <2>4, <2>5, <2>7, <2>8 DEF Apart
<1>10. \A n : InFlight(n)' <=> InFlight(n)
  <2>1. ASSUME NEW n
        PROVE  (n \in C!Range(ch') \/ \E h \in Ingesters : n \in C!Range(batch'[h]))
                 <=> (n \in C!Range(ch) \/ \E h \in Ingesters : n \in C!Range(batch[h]))
    <3>1. CASE n = m
        BY Zenon, <1>3, <1>6, <3>1
    <3>2. CASE n # m
      <4>1. \A h \in Ingesters : n \in C!Range(batch'[h]) <=> n \in C!Range(batch[h])
        BY Zenon, <1>4, <1>6, <3>2
      <4>2. n \in C!Range(ch') <=> n \in C!Range(ch)
        BY Zenon, <1>3, <3>2
      <4> QED
        BY Zenon, <4>1, <4>2
    <3> QED
        BY Zenon, <3>1, <3>2
  <2> QED
    BY Zenon, <1>1, <2>1 DEF InFlight
<1>11. \A w \in Workers : Taken(w)' = Taken(w)
    BY Zenon, <1>1 DEF Taken
<1>12. RowsBounded' /\ TakenKept'
    BY Zenon, <1>1, <1>2, <1>10, <1>11, FlightStays
<1> QED
    BY Zenon, <1>7, <1>8, <1>9, <1>12 DEF ConsumerInv

(* A full batch becomes a transaction. *)
LEMMA CommitStep ==
    ASSUME ConsumerInv, NEW g \in Ingesters, C!Commit(g)
    PROVE  ConsumerInv'
<1> DEFINE T == C!Range(batch[g])
<1>1. /\ committing' = committing \cup {T}
      /\ batch' = [batch EXCEPT ![g] = <<>>]
      /\ UNCHANGED <<wpc, offset, marked, flushed, ch, rows, crashes>>
    BY Zenon DEF C!Commit
<1>2. ConsumerType /\ OffsetsInOrder /\ Apart /\ RowsBounded /\ TakenKept
    BY Zenon DEF ConsumerInv
<1>3. T \subseteq C!Msgs
    BY Zenon, <1>2, RangeWithin DEF ConsumerType
<1>4. /\ batch'[g] = <<>> /\ C!Range(batch'[g]) = {} /\ Distinct(batch'[g])
      /\ batch' \in [Ingesters -> Seq(C!Msgs)]
      /\ \A h \in Ingesters : h # g => batch'[h] = batch[h]
    BY Zenon, <1>1, <1>2, RangeEmpty DEF ConsumerType
<1>5. /\ C!Range(ch) \cap T = {}
      /\ \A tx \in committing : T \cap tx = {}
      /\ \A h \in Ingesters : h # g => C!Range(batch[h]) \cap T = {}
    BY Zenon, <1>2 DEF Apart
<1> HIDE DEF T
<1>6. ConsumerType' /\ OffsetsInOrder'
    BY ZenonT(60), <1>1, <1>2, <1>3, <1>4 DEF ConsumerType, OffsetsInOrder
<1>7. Apart'
  <2>1. \A S : {} \cap S = {} /\ S \cap {} = {}
    OBVIOUS
  <2>2. /\ \A h \in Ingesters : Distinct(batch'[h])
        /\ \A h \in Ingesters : C!Range(ch) \cap C!Range(batch'[h]) = {}
        /\ \A h, k \in Ingesters : h # k => C!Range(batch'[h]) \cap C!Range(batch'[k]) = {}
    BY Zenon, <1>2, <1>4, <2>1 DEF Apart
  <2>3. \A tx \in committing' : C!Range(ch) \cap tx = {}
    BY Zenon, <1>1, <1>2, <1>5 DEF Apart
  <2>4. \A h \in Ingesters, tx \in committing' : C!Range(batch'[h]) \cap tx = {}
    BY Zenon, <1>1, <1>2, <1>4, <1>5, <2>1 DEF Apart
  <2>5. \A tx, ty \in committing' : tx # ty => tx \cap ty = {}
    <3>1. \A S : S \cap T = T \cap S
        OBVIOUS
    <3> QED
        BY Zenon, <1>1, <1>2, <1>5, <3>1 DEF Apart
  <2> QED
    BY Zenon, <1>1, <1>2, <2>2, <2>3, <2>4, <2>5 DEF Apart
<1>8. \A n : InFlight(n)' <=> InFlight(n)
  <2>1. ASSUME NEW n
        PROVE  ((\E tx \in committing' : n \in tx) \/ \E h \in Ingesters : n \in C!Range(batch'[h]))
                 <=> ((\E tx \in committing : n \in tx) \/ \E h \in Ingesters : n \in C!Range(batch[h]))
    BY Zenon, <1>1, <1>4 DEF T
  <2> QED
    BY Zenon, <1>1, <2>1 DEF InFlight
<1>9. \A w \in Workers : Taken(w)' = Taken(w)
    BY Zenon, <1>1 DEF Taken
<1>10. RowsBounded' /\ TakenKept'
    BY Zenon, <1>1, <1>2, <1>8, <1>9, FlightStays
<1> QED
    BY Zenon, <1>6, <1>7, <1>10 DEF ConsumerInv

(* A transaction inserts its messages, which are then not on their way. *)
LEMMA CommittedStep ==
    ASSUME ConsumerInv, NEW tx \in committing, C!Committed(tx)
    PROVE  ConsumerInv'
<1>1. /\ rows' = [m \in C!Msgs |-> IF m \in tx THEN rows[m] + 1 ELSE rows[m]]
      /\ committing' = committing \ {tx}
      /\ UNCHANGED <<wpc, offset, marked, flushed, ch, batch, crashes>>
    BY Zenon DEF C!Committed
<1>2. ConsumerType /\ OffsetsInOrder /\ Apart /\ RowsBounded /\ TakenKept
    BY Zenon DEF ConsumerInv
<1>3. rows \in [C!Msgs -> Nat] /\ rows' \in [C!Msgs -> Nat] /\ crashes \in Nat
    BY <1>1, <1>2 DEF ConsumerType
<1>4. ConsumerType' /\ OffsetsInOrder' /\ Apart'
    BY Zenon, <1>1, <1>2, <1>3 DEF ConsumerType, OffsetsInOrder, Apart
<1>5. \A n : /\ n \in tx => InFlight(n) /\ ~InFlight(n)'
             /\ n \notin tx => (InFlight(n)' <=> InFlight(n))
  <2>1. \A n \in tx : /\ n \notin C!Range(ch) /\ \A g \in Ingesters : n \notin C!Range(batch[g])
                      /\ \A ty \in committing' : n \notin ty
    BY Zenon, <1>1, <1>2 DEF Apart
  <2> QED
    BY Zenon, <1>1, <2>1 DEF InFlight
<1>6. \A w \in Workers : Taken(w)' = Taken(w)
    BY Zenon, <1>1 DEF Taken
<1>7. \A w \in Workers, o \in 1..Messages :
         <<w, o>> \in C!Msgs /\ rows[<<w, o>>] \in Nat
    BY <1>3 DEF C!Msgs
<1>8. RowsBounded'
  <2>1. ASSUME NEW w \in Workers, NEW o \in 1..Messages
        PROVE  /\ rows'[<<w, o>>] <= 1 + crashes
               /\ InFlight(<<w, o>>)' => rows'[<<w, o>>] <= crashes /\ o <= Taken(w)'
               /\ o > Taken(w)' => rows'[<<w, o>>] <= crashes
    <3>1. CASE <<w, o>> \in tx
      <4>1. /\ rows[<<w, o>>] <= crashes /\ o <= Taken(w) /\ ~InFlight(<<w, o>>)'
        BY Zenon, <1>2, <1>5, <3>1 DEF RowsBounded
      <4>2. rows'[<<w, o>>] = rows[<<w, o>>] + 1
        BY Zenon, <1>1, <1>7, <3>1
      <4>3. rows'[<<w, o>>] <= 1 + crashes
        BY <1>3, <1>7, <4>1, <4>2
      <4>4. ~(o > Taken(w))
        BY <4>1, <1>2, TakenType, Constants
      <4> QED
        BY Zenon, <1>6, <4>1, <4>3, <4>4
    <3>2. CASE <<w, o>> \notin tx
      <4>1. rows'[<<w, o>>] = rows[<<w, o>>]
        BY Zenon, <1>1, <1>7, <3>2
      <4> QED
        BY Zenon, <1>2, <1>5, <1>6, <3>2, <4>1 DEF RowsBounded
    <3> QED
        BY Zenon, <3>1, <3>2
  <2> QED
    BY Zenon, <1>1, <2>1 DEF RowsBounded
<1>9. TakenKept'
  <2>1. ASSUME crashes = 0, NEW w \in Workers, NEW o \in 1..Taken(w)
        PROVE  <<w, o>> \in Bad \/ rows'[<<w, o>>] > 0 \/ InFlight(<<w, o>>)'
    <3>1. o \in 1..Messages
        BY <1>2, TakenType, Constants
    <3>2. CASE <<w, o>> \in tx
      <4>1. rows'[<<w, o>>] = rows[<<w, o>>] + 1
        BY Zenon, <1>1, <1>7, <3>1, <3>2
      <4>2. rows'[<<w, o>>] > 0
        BY <1>7, <3>1, <4>1
      <4> QED
        BY Zenon, <4>2
    <3>3. CASE <<w, o>> \notin tx
      <4>1. rows'[<<w, o>>] = rows[<<w, o>>]
        BY Zenon, <1>1, <1>7, <3>1, <3>3
      <4> QED
        BY Zenon, <1>2, <1>5, <2>1, <3>3, <4>1 DEF TakenKept
    <3> QED
        BY Zenon, <3>2, <3>3
  <2> QED
    BY Zenon, <1>1, <1>6, <2>1 DEF TakenKept
<1> QED
    BY Zenon, <1>4, <1>8, <1>9 DEF ConsumerInv

(* A crash allows each message one more row. *)
LEMMA CrashStep == ASSUME ConsumerInv, C!Crash PROVE ConsumerInv'
<1>1. /\ crashes' = crashes + 1 /\ wpc' = [w \in Workers |-> "select"]
      /\ offset' = flushed /\ marked' = flushed /\ ch' = <<>> /\ committing' = {}
      /\ batch' = [g \in Ingesters |-> <<>>] /\ UNCHANGED <<flushed, rows>>
    BY Zenon DEF C!Crash
<1>2. ConsumerType /\ OffsetsInOrder /\ Apart /\ RowsBounded /\ TakenKept
    BY Zenon DEF ConsumerInv
<1>3. crashes \in Nat /\ crashes' \in Nat /\ crashes' # 0
    BY <1>1, <1>2 DEF ConsumerType
<1>4. ConsumerType' /\ Apart'
    BY Zenon, <1>1, <1>2, <1>3, RangeEmpty DEF ConsumerType, Apart
<1>5. OffsetsInOrder'
  <2>1. \A w \in Workers : flushed[w] <= flushed[w] /\ wpc'[w] = "select"
    BY <1>1, <1>2, Constants DEF ConsumerType
  <2> QED
    BY Zenon, <1>1, <2>1 DEF OffsetsInOrder
<1>6. \A n : ~InFlight(n)'
    BY Zenon, <1>1, RangeEmpty DEF InFlight
<1>7. \A w \in Workers, o \in 1..Messages : rows[<<w, o>>] <= crashes' /\ rows[<<w, o>>] <= 1 + crashes'
  <2>1. \A w \in Workers, o \in 1..Messages : rows[<<w, o>>] \in Nat /\ rows[<<w, o>>] <= 1 + crashes
    <3>1. \A w \in Workers, o \in 1..Messages : rows[<<w, o>>] \in Nat
        BY <1>2 DEF ConsumerType, C!Msgs
    <3> QED
        BY Zenon, <1>2, <3>1 DEF RowsBounded
  <2>2. \A n \in Nat : n <= 1 + crashes => n <= crashes' /\ n <= 1 + crashes'
    BY <1>1, <1>3
  <2> QED
    BY Zenon, <2>1, <2>2
<1>8. RowsBounded'
    BY Zenon, <1>1, <1>6, <1>7 DEF RowsBounded
<1>9. TakenKept'
    BY Zenon, <1>3 DEF TakenKept
<1> QED
    BY Zenon, <1>4, <1>5, <1>8, <1>9 DEF ConsumerInv

(* Every step of the consumer preserves its invariant. *)
LEMMA ConsumerStep == ASSUME ConsumerInv, C!Next PROVE ConsumerInv'
  BY Zenon, ReceiveStep, SendStep, OffsetStep, PingStep, FillStep, CommitStep, CommittedStep, CrashStep
  DEF C!Next

(* The invariant of the consumer gives the bounds on its rows. *)
LEMMA ConsumerSafe == ConsumerInv => IngestedOnce
<1> SUFFICES ASSUME ConsumerInv PROVE IngestedOnce
    OBVIOUS
<1>1. ConsumerType /\ OffsetsInOrder /\ RowsBounded /\ TakenKept
    BY Zenon DEF ConsumerInv
<1>2. C!NoneTwice
  <2>1. \A m \in C!Msgs : \E w \in Workers, o \in 1..Messages : m = <<w, o>>
    BY DEF C!Msgs
  <2> QED
    BY Zenon, <1>1, <2>1 DEF RowsBounded, C!NoneTwice
<1>3. ASSUME NEW w \in Workers, NEW o \in 1..flushed[w] PROVE o \in 1..Taken(w)
  <2>1. flushed[w] \in 0..Messages /\ marked[w] \in 0..Messages /\ offset[w] \in 0..Messages
    BY Zenon, <1>1 DEF ConsumerType
  <2>2. /\ flushed[w] <= marked[w]
        /\ wpc[w] = "select" => marked[w] = offset[w]
        /\ wpc[w] # "select" => offset[w] > 0 /\ marked[w] = offset[w] - 1
    BY Zenon, <1>1 DEF OffsetsInOrder
  <2> QED
    BY <2>1, <2>2, Constants DEF Taken
<1>4. C!FlushedOnItsWay
  <2>1. \A m : InFlight(m) =>
            m \in C!Range(ch) \cup (UNION committing) \cup (UNION {C!Range(batch[g]) : g \in Ingesters})
    <3>1. ASSUME NEW m, NEW g \in Ingesters, m \in C!Range(batch[g])
          PROVE  m \in UNION {C!Range(batch[h]) : h \in Ingesters}
        BY <3>1
    <3>2. ASSUME NEW m, NEW tx \in committing, m \in tx PROVE m \in UNION committing
        BY Zenon, <3>2
    <3>3. ASSUME NEW m, InFlight(m)
          PROVE  m \in C!Range(ch) \cup (UNION committing) \cup (UNION {C!Range(batch[g]) : g \in Ingesters})
      <4>1. \/ m \in C!Range(ch) \/ m \in UNION committing
            \/ m \in UNION {C!Range(batch[g]) : g \in Ingesters}
        BY Zenon, <3>1, <3>2, <3>3 DEF InFlight
      <4> QED
        BY <4>1
    <3> QED
        BY Zenon, <3>3
  <2>2. ASSUME crashes = 0, NEW w \in Workers, NEW o \in 1..flushed[w]
        PROVE  \/ <<w, o>> \in Bad
               \/ rows[<<w, o>>] > 0
               \/ <<w, o>> \in C!Range(ch) \cup (UNION committing) \cup (UNION {C!Range(batch[g]) : g \in Ingesters})
    BY Zenon, <1>1, <1>3, <2>1, <2>2 DEF TakenKept
  <2> QED
    BY <2>2 DEF C!FlushedOnItsWay
<1> QED
    BY Zenon, <1>2, <1>4 DEF IngestedOnce
-----------------------------------------------------------------------------
(* One more message missed is one more. *)
MissedAddUp ==
    /\ P!Cardinality(Missed) \in Nat
    /\ \A m : m \notin Missed => P!Cardinality(Missed \cup {m}) = P!Cardinality(Missed) + 1

(* A count that grows as fast as what it covers. *)
LEMMA StillCovered ==
    /\ \A l, a, z, e, f \in Nat : l + a <= e /\ e + z <= f + a => l + z <= f
    /\ \A a, e, f \in Nat : e <= f => e + 0 <= f + a
OBVIOUS

(* The count when no message goes missing. *)
LEMMA NoneMissed ==
    ASSUME ProducerInv, MissedAddUp, UNCHANGED MQ, Missed' = Missed, ec' \in Nat, attempt' \in Nat,
           MQ = "kafka" => UNCHANGED <<ec, errors>> /\ (pc' # "end" => pc # "end"),
           MQ = "rawSocket" => ec + attempt' <= ec' + attempt,
           MQ \notin {"kafka", "rawSocket"} => ec <= ec'
    PROVE  P!LossesCounted'
<1> DEFINE n == P!Cardinality(Missed)
           l == (MaxRetry + 1) * n
<1>1. /\ n \in Nat /\ ec \in Nat /\ attempt \in Nat /\ MaxRetry \in Nat
      /\ P!Cardinality(Missed') = n
    BY Constants DEF MissedAddUp, ProducerInv, ProducerType
<1>2. CASE MQ = "kafka"
    BY Zenon, <1>1, <1>2 DEF P!LossesCounted, ProducerInv, Missed
<1>3. CASE MQ = "rawSocket"
  <2>1. n = P!Cardinality(P!Lost \ silent) /\ P!Cardinality((P!Lost \ silent)') = n
    BY Zenon, <1>1, <1>3 DEF Missed
  <2>2. l + attempt <= ec
    BY Zenon, <1>3, <2>1 DEF P!LossesCounted, ProducerInv
  <2>3. l \in Nat
    BY <1>1
  <2> HIDE DEF l
  <2>4. l + attempt' <= ec'
    BY Zenon, <1>1, <1>3, <2>2, <2>3, StillCovered
  <2> QED
    BY Zenon, <1>3, <2>1, <2>4 DEF P!LossesCounted, l
<1>4. CASE MQ \notin {"kafka", "rawSocket"}
  <2>1. n = P!Cardinality(P!Lost \ silent) /\ P!Cardinality((P!Lost \ silent)') = n
    BY Zenon, <1>1, <1>4 DEF Missed
  <2>2. n <= ec
    BY Zenon, <1>4, <2>1 DEF P!LossesCounted, ProducerInv
  <2>3. n <= ec'
    BY <1>1, <1>4, <2>2
  <2> QED
    BY Zenon, <1>4, <2>1, <2>3 DEF P!LossesCounted
<1> QED
    BY Zenon, <1>2, <1>3, <1>4

(* The count when one does. *)
LEMMA OneMissed ==
    ASSUME ProducerInv, MissedAddUp, UNCHANGED MQ, NEW m, m \notin Missed, Missed' = Missed \cup {m},
           MQ = "kafka" => pc # "end" /\ 2 * ec' + errors' = 2 * ec + errors + 1,
           MQ = "rawSocket" => ec' = ec + 1 /\ attempt = MaxRetry /\ attempt' = 0,
           MQ \notin {"kafka", "rawSocket"} => ec' = ec + 1
    PROVE  P!LossesCounted'
<1> DEFINE n == P!Cardinality(Missed)
           l == (MaxRetry + 1) * n
<1>1. /\ n \in Nat /\ ec \in Nat /\ errors \in Nat /\ MaxRetry \in Nat
      /\ P!Cardinality(Missed') = n + 1
    BY Constants DEF MissedAddUp, ProducerInv, ProducerType
<1>2. CASE MQ = "kafka"
  <2>1. n = P!Cardinality(P!Lost) /\ P!Cardinality(P!Lost') = n + 1
    BY Zenon, <1>1, <1>2 DEF Missed
  <2>2. n = 2 * ec + errors
    BY Zenon, <1>2, <2>1 DEF P!LossesCounted, ProducerInv
  <2>3. n + 1 = 2 * ec' + errors'
    BY <1>1, <1>2, <2>2
  <2> QED
    BY Zenon, <1>2, <2>1, <2>3 DEF P!LossesCounted
<1>3. CASE MQ = "rawSocket"
  <2>1. n = P!Cardinality(P!Lost \ silent) /\ P!Cardinality((P!Lost \ silent)') = n + 1
    BY Zenon, <1>1, <1>3 DEF Missed
  <2>2. l + attempt <= ec
    BY Zenon, <1>3, <2>1 DEF P!LossesCounted, ProducerInv
  <2>3. l \in Nat /\ (MaxRetry + 1) * (n + 1) = l + MaxRetry + 1
    BY <1>1
  <2> HIDE DEF l
  <2>4. l + MaxRetry + 1 + attempt' <= ec'
    BY <1>1, <1>3, <2>2, <2>3
  <2> QED
    BY Zenon, <1>3, <2>1, <2>3, <2>4 DEF P!LossesCounted
<1>4. CASE MQ \notin {"kafka", "rawSocket"}
  <2>1. n = P!Cardinality(P!Lost \ silent) /\ P!Cardinality((P!Lost \ silent)') = n + 1
    BY Zenon, <1>1, <1>4 DEF Missed
  <2>2. n <= ec
    BY Zenon, <1>4, <2>1 DEF P!LossesCounted, ProducerInv
  <2>3. n + 1 <= ec'
    BY <1>1, <1>4, <2>2
  <2> QED
    BY Zenon, <1>4, <2>1, <2>3 DEF P!LossesCounted
<1> QED
    BY Zenon, <1>2, <1>3, <1>4

(* Messages are numbered from 1. *)
LEMMA ZeroNotTaken == ProducerInv => 0 \notin taken
BY DEF ProducerInv, ProducerType

(* The end of a message: the next step of inputMsg is a receive. *)
LEMMA MessageLeaves ==
    ASSUME ProducerInv, P!Done, pc = "send", UNCHANGED <<MQ, made, Chan, taken>>,
           conn' \in P!Connections, ec' \in Nat, errors' \in Nat,
           \/ accepted' = accepted \cup {msg} /\ UNCHANGED <<delivered, silent>>
           \/ delivered' = delivered \cup {msg} /\ UNCHANGED <<accepted, silent>>
           \/ silent' = silent \cup {msg} /\ UNCHANGED <<accepted, delivered>>
           \/ UNCHANGED <<accepted, delivered, silent>>
    PROVE  ProducerType' /\ OnePlace' /\ attempt' \in Nat /\ pc' = "take"
<1>1. /\ msg \in taken /\ msg \notin accepted \cup delivered \cup silent
      /\ pc' = "take" /\ msg' = 0 /\ attempt' = 0
    BY Zenon DEF ProducerInv, OnePlace, P!Done
<1>2. 0 \in 0..made /\ 0 \in 0..MaxRetry
    BY Constants DEF ProducerInv, ProducerType
<1>3. ProducerType'
    BY Zenon, <1>1, <1>2 DEF ProducerInv, ProducerType
<1>4. accepted' \cup delivered' \cup silent' \subseteq taken /\ accepted' \cap delivered' = {}
    BY Zenon, <1>1 DEF ProducerInv, OnePlace
<1>5. OnePlace'
    BY Zenon, <1>1, <1>4 DEF ProducerInv, OnePlace
<1> QED
    BY <1>1, <1>3, <1>5

(* The message in hand that leaves to some place is not missed. *)
LEMMA NotMissedWhenLeft ==
    ASSUME ProducerInv, P!Done, pc = "send", UNCHANGED <<MQ, taken>>,
           \/ accepted' = accepted \cup {msg} /\ UNCHANGED <<delivered, silent>>
           \/ delivered' = delivered \cup {msg} /\ UNCHANGED <<accepted, silent>>
           \/ MQ # "kafka" /\ silent' = silent \cup {msg} /\ UNCHANGED <<accepted, delivered>>
    PROVE  Missed' = Missed
<1>1. msg' = 0 /\ 0 \notin taken
    BY Zenon, ZeroNotTaken DEF P!Done
<1>2. CASE MQ = "kafka"
    BY Zenon, <1>1, <1>2 DEF Missed, P!Lost
<1>3. CASE MQ # "kafka"
    BY Zenon, <1>1, <1>3 DEF Missed, P!Lost
<1> QED
    BY Zenon, <1>2, <1>3

(* One that leaves to none is. *)
LEMMA MissedWhenLeft ==
    ASSUME ProducerInv, P!Done, pc = "send", UNCHANGED <<MQ, taken, accepted, delivered, silent>>
    PROVE  msg \notin Missed /\ Missed' = Missed \cup {msg}
<1>1. /\ msg \in taken /\ msg \notin accepted \cup delivered \cup silent /\ msg' = 0 /\ 0 \notin taken
    BY Zenon, ZeroNotTaken DEF ProducerInv, OnePlace, P!Done
<1>2. CASE MQ = "kafka"
    BY Zenon, <1>1, <1>2 DEF Missed, P!Lost
<1>3. CASE MQ # "kafka"
    BY Zenon, <1>1, <1>3 DEF Missed, P!Lost
<1> QED
    BY Zenon, <1>2, <1>3

(* Steps that leave every message where it is. *)
LEMMA MessagesStay ==
    ASSUME ProducerInv, MissedAddUp,
           UNCHANGED <<MQ, made, Chan, msg, accepted, errors, taken, delivered, silent>>,
           attempt' \in 0..MaxRetry, ec' \in Nat, ec + attempt' <= ec' + attempt, ec <= ec',
           MQ = "kafka" => ec' = ec,
           conn' \in P!Connections,
           pc' = pc \/ (pc = "setup" /\ pc' \in {"take", "fatal"})
    PROVE  ProducerInv'
<1>1. ProducerType' /\ OnePlace'
    BY DEF ProducerInv, ProducerType, OnePlace
<1>2. Missed' = Missed /\ attempt' \in Nat /\ (pc' # "end" => pc # "end")
    BY DEF Missed, P!Lost
<1>3. P!LossesCounted'
    BY Zenon, <1>2, NoneMissed
<1> QED
    BY Zenon, <1>1, <1>3 DEF ProducerInv

(* A message that a worker offers is younger than all others. *)
LEMMA OfferStep == ASSUME ProducerInv, MissedAddUp, P!Offer PROVE ProducerInv'
<1>1. /\ made \in 0..MaxMsgs /\ made < MaxMsgs /\ made' = made + 1
      /\ Chan' = IF Len(Chan) < ProducerCap THEN Append(Chan, made + 1) ELSE Chan
      /\ UNCHANGED <<MQ, conn, pc, msg, attempt, accepted, errors, taken, delivered, silent, ec>>
    BY Zenon DEF P!Offer, P!clientVars, P!history, ProducerInv, ProducerType
<1>2. Chan \in Seq(1..made + 1)
    BY <1>1 DEF ProducerInv, ProducerType
<1>3. Chan' \in Seq(1..made') /\ Len(Chan') <= ProducerCap
  <2>1. CASE Len(Chan) < ProducerCap
    <3>1. Chan' = Append(Chan, made + 1) /\ made + 1 \in 1..made + 1
        BY <1>1, <2>1
    <3> QED
        BY <1>1, <1>2, <2>1, <3>1, Constants
  <2>2. CASE ~ (Len(Chan) < ProducerCap)
    BY Zenon, <1>1, <1>2, <2>2 DEF ProducerInv, ProducerType
  <2> QED
    BY Zenon, <2>1, <2>2
<1>4. ProducerType'
    BY <1>1, <1>3, Constants DEF ProducerInv, ProducerType
<1>5. made + 1 \notin taken
    BY <1>1 DEF ProducerInv, ProducerType
<1>6. \A x \in 1..Len(Chan) : Chan[x] # made + 1
    BY DEF ProducerInv, ProducerType
<1>7. /\ \A x \in 1..Len(Chan') : Chan'[x] \notin taken
      /\ \A x, y \in 1..Len(Chan') : Chan'[x] = Chan'[y] => x = y
    BY SMTT(30), <1>1, <1>5, <1>6 DEF ProducerInv, ProducerType, OnePlace
<1>8. OnePlace'
    BY Zenon, <1>1, <1>7 DEF ProducerInv, OnePlace
<1>9. P!LossesCounted'
    BY Zenon, <1>1 DEF ProducerInv, P!LossesCounted, P!Lost
<1> QED
    BY Zenon, <1>4, <1>8, <1>9 DEF ProducerInv

(* The message in hand was not received before. *)
LEMMA TakeStep == ASSUME ProducerInv, MissedAddUp, P!Take PROVE ProducerInv'
<1>1. /\ pc = "take" /\ Chan # <<>> /\ pc' = "send" /\ attempt' = 0
      /\ msg' = Head(Chan) /\ Chan' = Tail(Chan) /\ taken' = taken \cup {msg'}
      /\ UNCHANGED <<MQ, made, conn, accepted, errors, delivered, silent, ec>>
    BY Zenon DEF P!Take, P!clientVars
<1>2. /\ msg' \in 1..made /\ msg' = Chan[1] /\ Chan' \in Seq(1..made) /\ Len(Chan') = Len(Chan) - 1
      /\ Len(Chan) \in Nat /\ Len(Chan) > 0
      /\ \A x \in 1..Len(Chan') : Chan'[x] = Chan[x + 1]
    BY <1>1 DEF ProducerInv, ProducerType
<1>3. ProducerType'
  <2>1. Len(Chan') <= ProducerCap /\ 0 \in 0..MaxRetry /\ 1..made \subseteq 0..made
    BY <1>2, Constants DEF ProducerInv, ProducerType
  <2>2. taken' \subseteq 1..made
    BY Zenon, <1>1, <1>2 DEF ProducerInv, ProducerType
  <2> QED
    BY Zenon, <1>1, <1>2, <2>1, <2>2 DEF ProducerInv, ProducerType
<1>4. msg' \notin taken /\ msg = 0 /\ 0 \notin taken
  <2>1. 1 \in 1..Len(Chan)
    BY <1>2
  <2> QED
    BY Zenon, <1>1, <1>2, <2>1, ZeroNotTaken DEF ProducerInv, OnePlace
<1>5. /\ \A x \in 1..Len(Chan') : Chan'[x] \notin taken'
      /\ \A x, y \in 1..Len(Chan') : Chan'[x] = Chan'[y] => x = y
    BY <1>1, <1>2 DEF ProducerInv, ProducerType, OnePlace
<1>6. OnePlace'
    BY Zenon, <1>1, <1>4, <1>5 DEF ProducerInv, OnePlace
<1>7. Missed' = Missed
    BY Zenon, <1>1, <1>4 DEF Missed, P!Lost
<1>8. attempt' \in Nat /\ ec \in Nat /\ ec <= ec /\ ec + attempt' <= ec + attempt /\ pc # "end"
    BY <1>1, Constants DEF ProducerInv, ProducerType
<1>9. P!LossesCounted'
    BY Zenon, <1>1, <1>7, <1>8, NoneMissed
<1> QED
    BY Zenon, <1>3, <1>6, <1>9 DEF ProducerInv

(* inputMsg returns when the client has nothing left. *)
LEMMA ReturnStep == ASSUME ProducerInv, P!Return PROVE ProducerInv'
<1>1. /\ pc = "take" /\ pc' = "end" /\ errors' = 0
      /\ UNCHANGED <<MQ, made, Chan, msg, attempt, conn, accepted, taken, delivered, silent, ec>>
    BY Zenon DEF P!Return, P!chanVars, P!history
<1>2. ProducerType' /\ OnePlace'
    BY <1>1 DEF ProducerInv, ProducerType, OnePlace
<1>3. P!LossesCounted'
    BY Zenon, <1>1 DEF ProducerInv, P!LossesCounted, P!Lost
<1> QED
    BY Zenon, <1>2, <1>3 DEF ProducerInv

(* The two losses of Kafka: in the client, and with an error received. *)
LEMMA KafkaStep ==
    ASSUME ProducerInv, MissedAddUp, P!KafkaInput \/ P!KafkaError \/ \E m \in accepted : P!KafkaClient(m)
    PROVE  ProducerInv'
<1>1. CASE P!KafkaInput
  <2>1. /\ pc = "send" /\ P!Done /\ accepted' = accepted \cup {msg} /\ MQ = "kafka"
        /\ UNCHANGED <<MQ, conn, made, Chan, errors, taken, delivered, silent, ec>>
    BY Zenon, <1>1 DEF P!KafkaInput, P!chanVars, P!history
  <2>2. /\ ProducerType' /\ OnePlace' /\ attempt' \in Nat /\ pc' = "take" /\ ec' \in Nat
    BY Zenon, <2>1, MessageLeaves DEF ProducerInv, ProducerType
  <2>3. Missed' = Missed /\ pc # "end"
    BY Zenon, <2>1, NotMissedWhenLeft
  <2>4. P!LossesCounted'
    BY Zenon, <2>1, <2>2, <2>3, NoneMissed
  <2> QED
    BY Zenon, <2>2, <2>4 DEF ProducerInv
<1>2. CASE P!KafkaError
  <2>1. /\ pc = "send" /\ P!Done /\ MQ = "kafka" /\ errors > 0
        /\ ec' = ec + 1 /\ errors' = errors - 1
        /\ UNCHANGED <<MQ, conn, made, Chan, accepted, taken, delivered, silent>>
    BY Zenon, <1>2 DEF P!KafkaError, P!chanVars, P!history
  <2>2. /\ ec' \in Nat /\ errors' \in Nat /\ 2 * ec' + errors' = 2 * ec + errors + 1
    BY <2>1 DEF ProducerInv, ProducerType
  <2>3. ProducerType' /\ OnePlace'
    BY Zenon, <2>1, <2>2, MessageLeaves DEF ProducerInv, ProducerType
  <2>4. msg \notin Missed /\ Missed' = Missed \cup {msg} /\ pc # "end"
    BY Zenon, <2>1, MissedWhenLeft
  <2>5. P!LossesCounted'
    BY Zenon, <2>1, <2>2, <2>4, OneMissed
  <2> QED
    BY Zenon, <2>3, <2>5 DEF ProducerInv
<1>3. ASSUME NEW m \in accepted, P!KafkaClient(m) PROVE ProducerInv'
  <2>1. /\ MQ = "kafka" /\ accepted' = accepted \ {m}
        /\ UNCHANGED <<MQ, conn, made, Chan, pc, msg, attempt, taken, silent, ec>>
        /\ \/ delivered' = delivered \cup {m} /\ UNCHANGED errors
           \/ errors' = errors + 1 /\ UNCHANGED delivered
    BY Zenon, <1>3 DEF P!KafkaClient, P!chanVars
  <2>2. m \in taken /\ m \notin delivered
    BY Zenon DEF ProducerInv, OnePlace
  <2>3. m # msg
    BY Zenon, <2>2, ZeroNotTaken DEF ProducerInv, OnePlace
  <2>4. errors' \in Nat /\ ec \in Nat /\ attempt \in Nat
    BY <2>1, Constants DEF ProducerInv, ProducerType
  <2>5. ProducerType'
    BY Zenon, <2>1, <2>4 DEF ProducerInv, ProducerType
  <2>6. accepted' \cup delivered' \cup silent' \subseteq taken /\ accepted' \cap delivered' = {}
    BY Zenon, <2>1, <2>2 DEF ProducerInv, OnePlace
  <2>7. OnePlace'
    BY Zenon, <2>1, <2>3, <2>6 DEF ProducerInv, OnePlace
  <2>8. P!LossesCounted'
    <3>1. CASE delivered' = delivered \cup {m} /\ UNCHANGED errors
      <4>1. Missed' = Missed
        BY Zenon, <2>1, <3>1 DEF Missed, P!Lost
      <4> QED
        BY Zenon, <2>1, <2>4, <3>1, <4>1, NoneMissed
    <3>2. CASE errors' = errors + 1 /\ UNCHANGED delivered
      <4>1. m \notin Missed /\ Missed' = Missed \cup {m}
        BY Zenon, <2>1, <2>2, <2>3, <3>2 DEF Missed, P!Lost
      <4>2. 2 * ec' + errors' = 2 * ec + errors + 1
        BY <2>1, <3>2 DEF ProducerInv, ProducerType
      <4>3. CASE pc # "end"
        BY Zenon, <2>1, <4>1, <4>2, <4>3, OneMissed
      <4>4. CASE pc = "end"
        BY Zenon, <2>1, <4>4 DEF P!LossesCounted
      <4> QED
        BY Zenon, <4>3, <4>4
    <3> QED
        BY Zenon, <2>1, <3>1, <3>2
  <2> QED
    BY Zenon, <2>5, <2>7, <2>8 DEF ProducerInv
<1> QED
    BY Zenon, <1>1, <1>2, <1>3

(* A message that leaves NSQ, NATS or the raw socket is delivered, kept by *)
(* the client, gone in silence, or counted.                                *)
LEMMA OneQueueLeaves ==
    ASSUME ProducerInv, MissedAddUp, pc = "send", P!Done, MQ # "kafka",
           UNCHANGED <<MQ, made, Chan, errors, taken>>, conn' \in P!Connections,
           \/ /\ \/ delivered' = delivered \cup {msg} /\ UNCHANGED <<accepted, silent>>
                 \/ accepted' = accepted \cup {msg} /\ UNCHANGED <<delivered, silent>>
                 \/ silent' = silent \cup {msg} /\ UNCHANGED <<accepted, delivered>>
              /\ ec' \in {ec, ec + 1}
           \/ UNCHANGED <<accepted, delivered, silent>> /\ ec' = ec + 1 /\ (MQ = "rawSocket" => attempt = MaxRetry)
    PROVE  ProducerInv'
<1>1. ec \in Nat /\ ec' \in Nat /\ errors' \in Nat /\ ec <= ec' /\ attempt \in Nat
    BY Constants DEF ProducerInv, ProducerType
<1>2. attempt' = 0 /\ ec + attempt' <= ec' + attempt
    BY Zenon, <1>1, StillCovered DEF P!Done
<1>3. ProducerType' /\ OnePlace' /\ attempt' \in Nat
    BY Zenon, <1>1, MessageLeaves
<1>4. P!LossesCounted'
  <2>1. CASE UNCHANGED <<accepted, delivered, silent>> /\ ec' = ec + 1 /\ (MQ = "rawSocket" => attempt = MaxRetry)
    <3>1. msg \notin Missed /\ Missed' = Missed \cup {msg}
        BY Zenon, <2>1, MissedWhenLeft
    <3> QED
        BY Zenon, <1>2, <2>1, <3>1, OneMissed
  <2>2. CASE \/ delivered' = delivered \cup {msg} /\ UNCHANGED <<accepted, silent>>
             \/ accepted' = accepted \cup {msg} /\ UNCHANGED <<delivered, silent>>
             \/ silent' = silent \cup {msg} /\ UNCHANGED <<accepted, delivered>>
    <3>1. Missed' = Missed
        BY Zenon, <2>2, NotMissedWhenLeft
    <3> QED
        BY Zenon, <1>1, <1>2, <1>3, <3>1, NoneMissed
  <2> QED
    BY Zenon, <2>1, <2>2
<1> QED
    BY Zenon, <1>3, <1>4 DEF ProducerInv

(* NSQ, NATS and the raw socket. *)
LEMMA OneQueueStep ==
    ASSUME ProducerInv, MissedAddUp, P!NSQPublish \/ P!NATSPublish \/ P!RawWrite \/ P!RawWriteFails
    PROVE  ProducerInv'
<1>1. /\ ec \in Nat /\ ec + 1 \in Nat /\ attempt \in 0..MaxRetry /\ conn \in P!Connections
      /\ attempt \in Nat /\ MaxRetry \in Nat
    BY Constants DEF ProducerInv, ProducerType
<1>2. CASE P!NSQPublish
  <2>1. /\ pc = "send" /\ P!Done /\ MQ # "kafka" /\ MQ # "rawSocket"
        /\ UNCHANGED <<MQ, made, Chan, errors, taken, accepted, silent, conn>>
        /\ \/ delivered' = delivered \cup {msg} /\ ec' \in {ec, ec + 1}
           \/ UNCHANGED delivered /\ ec' = ec + 1
    BY Zenon, <1>2 DEF P!NSQPublish, P!chanVars, P!clientVars
  <2> QED
    BY Zenon, <1>1, <2>1, OneQueueLeaves
<1>3. CASE P!NATSPublish
  <2>1. /\ pc = "send" /\ P!Done /\ MQ # "kafka" /\ MQ # "rawSocket"
        /\ UNCHANGED <<MQ, made, Chan, errors, taken, conn>>
        /\ \/ delivered' = delivered \cup {msg} /\ UNCHANGED <<accepted, silent, ec>>
           \/ silent' = silent \cup {msg} /\ UNCHANGED <<accepted, delivered, ec>>
           \/ accepted' = accepted \cup {msg} /\ UNCHANGED <<delivered, silent, ec>>
           \/ ec' = ec + 1 /\ UNCHANGED <<accepted, delivered, silent>>
    BY Zenon, <1>3 DEF P!NATSPublish, P!chanVars
  <2> QED
    BY Zenon, <1>1, <2>1, OneQueueLeaves
<1>4. CASE P!RawWrite
  <2>1. /\ pc = "send" /\ P!Done /\ MQ # "kafka"
        /\ UNCHANGED <<MQ, made, Chan, errors, taken, accepted, ec>>
        /\ conn' = conn \/ conn' \in {"half", "pipe", "reset"}
        /\ \/ delivered' = delivered \cup {msg} /\ UNCHANGED silent
           \/ silent' = silent \cup {msg} /\ UNCHANGED delivered
    BY Zenon, <1>4 DEF P!RawWrite, P!chanVars, P!clientVars
  <2>2. conn' \in P!Connections
    BY Zenon, <1>1, <2>1 DEF P!Connections
  <2> QED
    BY Zenon, <1>1, <2>1, <2>2, OneQueueLeaves
<1>5. CASE P!RawWriteFails
  <2>1. /\ MQ = "rawSocket" /\ pc = "send" /\ ec' = ec + 1
        /\ UNCHANGED <<MQ, made, Chan, accepted, errors, taken, delivered, silent>>
        /\ conn' = conn \/ conn' = "ok"
        /\ IF attempt >= MaxRetry THEN P!Done ELSE attempt' = attempt + 1 /\ UNCHANGED <<pc, msg>>
    BY Zenon, <1>5 DEF P!RawWriteFails, P!chanVars, P!clientVars, P!history
  <2>2. conn' \in P!Connections /\ MQ # "kafka"
    BY Zenon, <1>1, <2>1 DEF P!Connections
  <2>3. CASE attempt >= MaxRetry
    <3>1. attempt = MaxRetry
        BY <1>1, <2>3
    <3> QED
        BY Zenon, <2>1, <2>2, <2>3, <3>1, OneQueueLeaves
  <2>4. CASE ~ (attempt >= MaxRetry)
    <3>1. attempt' = attempt + 1 /\ UNCHANGED <<pc, msg>>
        BY Zenon, <2>1, <2>4
    <3>2. attempt' \in 0..MaxRetry /\ ec <= ec' /\ ec + attempt' <= ec' + attempt /\ ec' \in Nat
        BY <1>1, <2>1, <2>4, <3>1
    <3> QED
        BY Zenon, <2>1, <2>2, <3>1, <3>2, MessagesStay
  <2> QED
    BY Zenon, <2>3, <2>4
<1> QED
    BY Zenon, <1>2, <1>3, <1>4, <1>5

(* The NATS client sends what it keeps, or drops it in silence. *)
LEMMA NATSClientStep == ASSUME ProducerInv, MissedAddUp, P!NATSClient PROVE ProducerInv'
<1>1. /\ MQ = "nats" /\ UNCHANGED <<MQ, made, Chan, pc, msg, attempt, errors, taken, ec>>
      /\ conn' \in {"reconnecting", "ok", "closed"}
      /\ \/ UNCHANGED <<accepted, delivered, silent>>
         \/ delivered' = delivered \cup accepted /\ accepted' = {} /\ UNCHANGED silent
         \/ silent' = silent \cup accepted /\ accepted' = {} /\ UNCHANGED delivered
    BY Zenon DEF P!NATSClient, P!chanVars
<1>2. conn' \in P!Connections /\ MQ \notin {"kafka", "rawSocket"}
    BY Zenon, <1>1 DEF P!Connections
<1>3. ProducerType'
    BY Zenon, <1>1, <1>2 DEF ProducerInv, ProducerType
<1>4. accepted' \cup delivered' \cup silent' = accepted \cup delivered \cup silent
    BY Zenon, <1>1
<1>5. accepted' \cap delivered' = {}
    BY Zenon, <1>1 DEF ProducerInv, OnePlace
<1>6. OnePlace'
    BY Zenon, <1>1, <1>4, <1>5 DEF ProducerInv, OnePlace
<1>7. Missed' = Missed
    BY Zenon, <1>1, <1>2 DEF Missed, P!Lost
<1>8. ec \in Nat /\ ec <= ec /\ attempt \in Nat
    BY Constants DEF ProducerInv, ProducerType
<1>9. P!LossesCounted'
    BY Zenon, <1>1, <1>2, <1>7, <1>8, NoneMissed
<1> QED
    BY Zenon, <1>3, <1>6, <1>9 DEF ProducerInv

(* Every step of a producer preserves its invariant. *)
LEMMA ProducerStep == ASSUME ProducerInv, MissedAddUp, P!Next PROVE ProducerInv'
<1>1. /\ ec \in Nat /\ ec <= ec /\ attempt \in 0..MaxRetry /\ conn \in P!Connections
      /\ ec + attempt <= ec + attempt
    BY DEF ProducerInv, ProducerType
<1>2. CASE P!Shutdown \/ P!ServerDown \/ P!ServerUp
  <2>1. /\ UNCHANGED <<MQ, made, Chan, pc, msg, attempt, accepted, errors, taken, delivered, silent, ec>>
        /\ conn' = conn \/ conn' \in P!Broken
    BY Zenon, <1>2 DEF P!Shutdown, P!ServerDown, P!ServerUp, P!chanVars, P!clientVars, P!history
  <2>2. P!Broken \subseteq P!Connections
    BY DEF P!Broken, P!Connections
  <2>3. conn' \in P!Connections
    BY Zenon, <1>1, <2>1, <2>2
  <2> QED
    BY Zenon, <1>1, <2>1, <2>3, MessagesStay
<1>3. ASSUME NEW c \in P!Configs, P!Setup(c) PROVE ProducerInv'
  <2>1. /\ UNCHANGED <<MQ, made, Chan, msg, attempt, accepted, errors, taken, delivered, silent, ec>>
        /\ pc = "setup" /\ pc' \in {"take", "fatal"} /\ (conn' = conn \/ conn' = "ok")
    BY Zenon, <1>3 DEF P!Setup, P!chanVars, P!clientVars, P!history
  <2>2. conn' \in P!Connections
    BY Zenon, <1>1, <2>1 DEF P!Connections
  <2> QED
    BY Zenon, <1>1, <2>1, <2>2, MessagesStay
<1> QED
    BY Zenon, <1>2, <1>3, OfferStep, TakeStep, ReturnStep, KafkaStep, OneQueueStep, NATSClientStep
    DEF P!Next, P!inputMsg

(* The invariant of a producer gives the count of its losses. *)
LEMMA ProducerSafe == ProducerInv => LossesCounted
<1> SUFFICES ASSUME ProducerInv PROVE LossesCounted
    OBVIOUS
<1>1. P!TypeOK
    BY Constants DEF ProducerInv, ProducerType, P!TypeOK
<1> QED
    BY Zenon, <1>1 DEF ProducerInv, LossesCounted
-----------------------------------------------------------------------------
(* The JSON encoder. *)

(* Texts are sequences of tokens. *)
Tokens == {"{", "}", "[", "]", ",", "I:", "V:", "E:", "number", "-", "NaN", "QUOTE", "text",
           "AgentID:", "Header:", "DataSets:"}
Texts == Seq(Tokens)

(* Short sequences. *)
LEMMA Short ==
    ASSUME NEW S, NEW t \in S, NEW u \in S, NEW v \in S, NEW w \in S
    PROVE  /\ <<>> \in Seq(S) /\ <<t>> \in Seq(S) /\ <<t, u>> \in Seq(S) /\ <<t, u, v>> \in Seq(S)
           /\ <<t, u, v, w>> \in Seq(S) /\ <<t, u, v, u, t>> \in Seq(S)
OBVIOUS

(* Two sequences with the same elements are one. *)
LEMMA SameElements ==
    ASSUME NEW S, NEW s \in Seq(S), NEW t \in Seq(S), Len(s) = Len(t), \A k \in 1..Len(s) : s[k] = t[k]
    PROVE  s = t
OBVIOUS

(* Two tokens are one and the other. *)
LEMMA Pair ==
    ASSUME NEW S, NEW t \in S, NEW u \in S
    PROVE  <<t, u>> = <<t>> \o <<u>>
<1> DEFINE s == <<t, u>>
           v == <<t>> \o <<u>>
<1>1. s \in Seq(S) /\ Len(s) = 2 /\ s[1] = t /\ s[2] = u
    OBVIOUS
<1>2. v \in Seq(S) /\ Len(v) = 2 /\ v[1] = t /\ v[2] = u
    OBVIOUS
<1>3. \A k \in 1..2 : k = 1 \/ k = 2
    OBVIOUS
<1> HIDE DEF s, v
<1>4. \A k \in 1..Len(s) : s[k] = v[k]
    BY Zenon, <1>1, <1>2, <1>3
<1> QED
    BY Zenon, <1>1, <1>2, <1>4, SameElements DEF s, v

(* One more token. *)
LEMMA AppendIsConcat ==
    ASSUME NEW S, NEW s \in Seq(S), NEW t \in S
    PROVE  Append(s, t) = s \o <<t>>
OBVIOUS

(* The texts that the encoders write. *)
LEMMA Written ==
    /\ <<>> \in Texts /\ <<",">> \in Texts /\ <<"{">> \in Texts /\ <<"}">> \in Texts
    /\ <<"[">> \in Texts /\ <<"]">> \in Texts /\ <<"]", ",">> \in Texts /\ <<"]", "]">> \in Texts
    /\ <<"AgentID:">> \in Texts /\ <<"Header:">> \in Texts /\ <<"DataSets:", "[">> \in Texts
    /\ <<"AgentID:", ",">> \in Texts /\ <<"Header:", ",">> \in Texts
    /\ <<"{", "I:", ",", "V:">> \in Texts /\ <<",", "E:">> \in Texts
<1>1. /\ "{" \in Tokens /\ "}" \in Tokens /\ "[" \in Tokens /\ "]" \in Tokens /\ "," \in Tokens
      /\ "I:" \in Tokens /\ "V:" \in Tokens /\ "E:" \in Tokens
      /\ "AgentID:" \in Tokens /\ "Header:" \in Tokens /\ "DataSets:" \in Tokens
    BY Zenon DEF Tokens
<1>2. \A t \in Tokens : <<t>> \in Texts
    BY Zenon, Short DEF Texts
<1>3. \A t, u \in Tokens : <<t, u>> \in Texts
    BY Zenon, Short DEF Texts
<1>4. <<"{", "I:", ",", "V:">> \in Texts
    BY Zenon, <1>1, Short DEF Texts
<1>5. <<>> \in Texts
    BY DEF Texts
<1> QED
    BY Zenon, <1>1, <1>2, <1>3, <1>4, <1>5

(* What writeValue writes is a text, of any kind of field. *)
LEMMA ValueText ==
    ASSUME NEW f
    PROVE  J!writeValue(f) \in Texts
<1>1. "number" \in Tokens /\ "-" \in Tokens /\ "NaN" \in Tokens /\ "QUOTE" \in Tokens /\ "text" \in Tokens
    BY Zenon DEF Tokens
<1>2. /\ <<>> \in Texts /\ <<"number">> \in Texts /\ <<"-", "number">> \in Texts /\ <<"NaN">> \in Texts
      /\ <<"QUOTE", "text", "QUOTE", "text", "QUOTE">> \in Texts /\ <<"QUOTE", "text", "QUOTE">> \in Texts
    BY Zenon, <1>1, Short DEF Texts
<1> DEFINE v == J!Interpret(f)
<1> HIDE DEF v
<1> QED
    BY Zenon, <1>2 DEF J!writeValue

(* Texts in a row are a text. *)
LEMMA Concat ==
    ASSUME NEW x \in Texts, NEW y \in Texts
    PROVE  x \o y \in Texts /\ x \o <<>> = x /\ <<>> \o x = x
BY DEF Texts

Assoc(x, y, z) == (x \o y) \o z = x \o (y \o z)

(* It does not matter which are put together first. *)
LEMMA Associative ==
    ASSUME NEW x \in Texts, NEW y \in Texts, NEW z \in Texts
    PROVE  Assoc(x, y, z)
BY DEF Texts, Assoc

(* Parts that are texts. *)
AreTexts(s) == Len(s) \in Nat /\ \A k \in 1..Len(s) : s[k] \in Texts

(* Joins puts commas between them. *)
AreJoined(s) ==
    /\ J!Joins(s) \in [1..Len(s) -> Texts]
    /\ \A k \in 1..Len(s) : J!Joins(s)[k] = IF k = 1 THEN s[1] ELSE J!Joins(s)[k - 1] \o <<",">> \o s[k]

(* However many there are. *)
JoinsLaw == \A s : AreTexts(s) => AreJoined(s)

(* The text of a field, of a record and of a message of protocol p. *)
FieldText(p, f) ==
    <<"{", "I:", ",", "V:">> \o J!writeValue(f)
      \o (IF p = "ipfix" /\ f.EnterpriseNo # 0 THEN <<",", "E:">> ELSE <<>>) \o <<"}">>
FieldTexts(p, r) == [k \in DOMAIN r |-> FieldText(p, r[k])]
RecordText(p, r) == <<"[">> \o J!Joined(FieldTexts(p, r)) \o <<"]">>
RecordTexts(p, m) == [k \in DOMAIN m |-> RecordText(p, m[k])]
Start == <<"{">> \o J!encodeAgent \o J!encodeHeader \o <<"DataSets:", "[">>
MessageText(p, m) == Start \o J!Joined(RecordTexts(p, m)) \o <<"]">> \o <<"}">>

(* What stands in front of part n of s. *)
Before(s, n) == IF n = 1 THEN <<>> ELSE J!Joins(s)[n - 1] \o <<",">>

(* Where JSONMarshal is. *)
EncoderPlace ==
    /\ DataSets \in J!DecodedMessages \cup {<<>>}
    /\ i \in 0..Len(DataSets) /\ (i > 0 => j \in 0..Len(DataSets[i]))
    /\ err \in BOOLEAN /\ jpc \in {"loop", "record", "field", "close", "encoded"}
    /\ jpc # "loop" => DataSets \in J!DecodedMessages /\ i > 0
    /\ jpc = "field" => j > 0
    /\ jpc = "encoded" => i = Len(DataSets)

(* What the buffer holds: the records before this one, and of this one the *)
(* fields before the one in hand.                                          *)
Opened == Start \o Before(RecordTexts(proto, DataSets), i) \o <<"[">>
EncoderText ==
    /\ jpc = "record" => b = Start \o Before(RecordTexts(proto, DataSets), i)
    /\ jpc = "field" => b = Opened \o Before(FieldTexts(proto, DataSets[i]), j)
    /\ jpc = "close" => b = Opened \o J!Joined(FieldTexts(proto, DataSets[i]))
    /\ jpc = "encoded" => b = Start \o J!Joined(RecordTexts(proto, DataSets)) \o <<"]">>

(* err is the outcome of the last field encoded. *)
LastWritable(m) == J!Writable(m[Len(m)][Len(m[Len(m)])])
EncoderErr ==
    /\ jpc = "close" => err = ~J!Writable(DataSets[i][Len(DataSets[i])])
    /\ jpc = "encoded" => err = ~LastWritable(DataSets)

(* What is queued. *)
EncoderQueue ==
    mq.msg # <<>> =>
        mq.msg \in J!DecodedMessages /\ mq.text = MessageText(proto, mq.msg) /\ LastWritable(mq.msg)

EncoderInv == EncoderPlace /\ EncoderText /\ EncoderErr /\ EncoderQueue

(* A sequence that is not empty. *)
Sized(s) == Len(s) \in Nat /\ Len(s) >= 1 /\ DOMAIN s = 1..Len(s)

(* A function on 1..n is a sequence of n elements. *)
LEMMA FunctionLength ==
    ASSUME NEW n \in Nat, NEW S, NEW s \in [1..n -> S]
    PROVE  Len(s) = n /\ DOMAIN s = 1..n
OBVIOUS

(* The messages of J!UpTo are sequences. *)
LEMMA UpToSized ==
    ASSUME NEW n \in Nat, NEW S, NEW s \in J!UpTo(n, S)
    PROVE  Sized(s) /\ \A k \in 1..Len(s) : s[k] \in S
<1>1. PICK k \in 1..n : s \in [1..k -> S]
    BY Zenon DEF J!UpTo
<1>2. k \in Nat /\ k >= 1
    OBVIOUS
<1>3. Len(s) = k /\ DOMAIN s = 1..k
    BY Zenon, <1>1, <1>2, FunctionLength
<1> QED
    BY Zenon, <1>1, <1>2, <1>3 DEF Sized

(* A decoded message has records, and a record has fields. *)
LEMMA MessageSized ==
    ASSUME NEW m \in J!DecodedMessages
    PROVE  Sized(m) /\ \A k \in 1..Len(m) : Sized(m[k])
<1>1. MaxSets \in Nat /\ MaxFields \in Nat
    BY Zenon, DeliveryAssumption DEF J!MarshalAssumption
<1>2. Sized(m) /\ \A k \in 1..Len(m) : m[k] \in J!UpTo(MaxFields, RawFields)
    BY Zenon, <1>1, UpToSized DEF J!DecodedMessages
<1> QED
    BY Zenon, <1>1, <1>2, UpToSized

(* Texts of parts. *)
LEMMA FieldIsText ==
    ASSUME NEW p, NEW f
    PROVE  FieldText(p, f) \in Texts
<1> DEFINE o == <<"{", "I:", ",", "V:">>
           v == J!writeValue(f)
           e == IF p = "ipfix" /\ f.EnterpriseNo # 0 THEN <<",", "E:">> ELSE <<>>
           c == <<"}">>
<1>1. o \in Texts /\ v \in Texts /\ e \in Texts /\ c \in Texts
    BY Zenon, Written, ValueText
<1> HIDE DEF o, v, e, c
<1>2. o \o v \in Texts
    BY Zenon, <1>1, Concat
<1>3. (o \o v) \o e \in Texts
    BY Zenon, <1>1, <1>2, Concat
<1>4. ((o \o v) \o e) \o c \in Texts
    BY Zenon, <1>1, <1>3, Concat
<1> QED
    BY Zenon, <1>4 DEF FieldText, o, v, e, c

(* A function on 1..n of texts. *)
LEMMA PartsAreTexts ==
    ASSUME JoinsLaw, NEW s, NEW r, Sized(r), DOMAIN s = DOMAIN r, s = [k \in DOMAIN s |-> s[k]],
           \A k \in 1..Len(r) : s[k] \in Texts
    PROVE  AreTexts(s) /\ Len(s) = Len(r) /\ AreJoined(s) /\ J!Joined(s) \in Texts
<1> DEFINE n == Len(r)
<1>1. n \in Nat /\ n >= 1 /\ DOMAIN s = 1..n
    BY Zenon DEF Sized
<1> HIDE DEF n
<1>2. s \in [1..n -> Texts]
    BY Zenon, <1>1 DEF n
<1>3. Len(s) = n
    BY Zenon, <1>1, <1>2, FunctionLength
<1>4. AreTexts(s)
    BY Zenon, <1>1, <1>2, <1>3 DEF AreTexts
<1>5. AreJoined(s)
    BY Zenon, <1>4 DEF JoinsLaw
<1>6. n \in 1..n
    BY <1>1
<1>7. J!Joined(s) \in Texts
    BY Zenon, <1>3, <1>5, <1>6 DEF AreJoined, J!Joined
<1> QED
    BY Zenon, <1>3, <1>4, <1>5, <1>7 DEF n

(* The fields of a record are texts, and so is the record. *)
LEMMA RecordParts ==
    ASSUME JoinsLaw, NEW p, NEW r, Sized(r)
    PROVE  /\ AreTexts(FieldTexts(p, r)) /\ Len(FieldTexts(p, r)) = Len(r) /\ AreJoined(FieldTexts(p, r))
           /\ J!Joined(FieldTexts(p, r)) \in Texts /\ RecordText(p, r) \in Texts
<1> DEFINE s == FieldTexts(p, r)
<1>1. DOMAIN s = DOMAIN r /\ s = [k \in DOMAIN s |-> s[k]]
    BY Zenon DEF FieldTexts
<1>2. \A k \in 1..Len(r) : s[k] \in Texts
    BY Zenon, FieldIsText DEF FieldTexts, Sized
<1>3. AreTexts(s) /\ Len(s) = Len(r) /\ AreJoined(s) /\ J!Joined(s) \in Texts
    <2> HIDE DEF s
    <2>1. QED
        BY Zenon, <1>1, <1>2, PartsAreTexts
<1>4. <<"[">> \o J!Joined(s) \in Texts
    BY Zenon, <1>3, Written, Concat
<1>5. (<<"[">> \o J!Joined(s)) \o <<"]">> \in Texts
    <2> HIDE DEF s
    <2>1. QED
        BY Zenon, <1>4, Written, Concat
<1> QED
    BY Zenon, <1>3, <1>5 DEF RecordText

(* The records of a message are texts, and so are all of them. *)
LEMMA MessageParts ==
    ASSUME JoinsLaw, NEW p, NEW m, Sized(m), \A k \in 1..Len(m) : Sized(m[k])
    PROVE  /\ AreTexts(RecordTexts(p, m)) /\ Len(RecordTexts(p, m)) = Len(m) /\ AreJoined(RecordTexts(p, m))
           /\ J!Joined(RecordTexts(p, m)) \in Texts
<1> DEFINE s == RecordTexts(p, m)
<1>1. DOMAIN s = DOMAIN m /\ s = [k \in DOMAIN s |-> s[k]]
    BY Zenon DEF RecordTexts
<1>2. \A k \in 1..Len(m) : s[k] \in Texts
    BY Zenon, RecordParts DEF RecordTexts, Sized
<1> HIDE DEF s
<1>3. AreTexts(s) /\ Len(s) = Len(m) /\ AreJoined(s) /\ J!Joined(s) \in Texts
    BY Zenon, <1>1, <1>2, PartsAreTexts
<1> QED
    BY Zenon, <1>3 DEF s

(* What stands in front of a part, and the part: the parts up to it. *)
LEMMA BeforePart ==
    ASSUME NEW s, AreTexts(s), AreJoined(s), NEW k \in 1..Len(s)
    PROVE  /\ Before(s, k) \in Texts /\ J!Joins(s)[k] \in Texts
           /\ Before(s, k) \o s[k] = J!Joins(s)[k]
           /\ k < Len(s) => Before(s, k + 1) = J!Joins(s)[k] \o <<",">>
<1>1. k + 1 # 1 /\ (k + 1) - 1 = k /\ (k # 1 => k - 1 \in 1..Len(s))
    BY DEF AreTexts
<1>2. J!Joins(s)[k] \in Texts /\ s[k] \in Texts
    BY Zenon DEF AreTexts, AreJoined
<1>3. k # 1 => J!Joins(s)[k - 1] \o <<",">> \in Texts
    BY Zenon, <1>1, Written, Concat DEF AreJoined
<1>4. Before(s, k) \in Texts
    BY Zenon, <1>3, Written DEF Before
<1>5. Before(s, k) \o s[k] = J!Joins(s)[k]
    <2>1. CASE k = 1
        <3>1. <<>> \o s[k] = s[k]
            BY Zenon, <1>2, Concat
        <3>2. QED
            BY Zenon, <2>1, <3>1 DEF Before, AreJoined
    <2>2. CASE k # 1
        BY Zenon, <2>2 DEF Before, AreJoined
    <2>3. QED
        BY Zenon, <2>1, <2>2
<1>6. Before(s, k + 1) = J!Joins(s)[k] \o <<",">>
    BY Zenon, <1>1 DEF Before
<1> QED
    BY Zenon, <1>2, <1>4, <1>5, <1>6

(* A message of the decoder, its parts and the one in hand. *)
LEMMA InHand ==
    ASSUME EncoderPlace, jpc # "loop"
    PROVE  /\ DataSets \in J!DecodedMessages /\ Sized(DataSets) /\ \A k \in 1..Len(DataSets) : Sized(DataSets[k])
           /\ i \in 1..Len(DataSets) /\ Sized(DataSets[i])
<1>1. DataSets \in J!DecodedMessages /\ i \in 0..Len(DataSets) /\ i > 0
    BY Zenon DEF EncoderPlace
<1>2. Sized(DataSets) /\ \A k \in 1..Len(DataSets) : Sized(DataSets[k])
    BY Zenon, <1>1, MessageSized
<1>3. Len(DataSets) \in Nat
    BY Zenon, <1>2 DEF Sized
<1>4. i \in 1..Len(DataSets)
    BY <1>1, <1>3
<1> QED
    BY Zenon, <1>1, <1>2, <1>4

(* The start of every message is a text. *)
LEMMA StartIsText == Start \in Texts
<1> DEFINE x == <<"{">>
           a == J!encodeAgent
           h == J!encodeHeader
           d == <<"DataSets:", "[">>
<1>1. x \in Texts /\ a \in Texts /\ h \in Texts /\ d \in Texts
    BY Zenon, Written DEF J!encodeAgent, J!encodeHeader
<1> HIDE DEF x, a, h, d
<1>2. x \o a \in Texts
    BY Zenon, <1>1, Concat
<1>3. (x \o a) \o h \in Texts
    BY Zenon, <1>1, <1>2, Concat
<1>4. ((x \o a) \o h) \o d \in Texts
    BY Zenon, <1>1, <1>3, Concat
<1> QED
    BY Zenon, <1>4 DEF Start, x, a, h, d

(* The worker takes a message. *)
LEMMA TakeMessage ==
    ASSUME JoinsLaw, EncoderInv, NEW m \in J!DecodedMessages, J!Take(m)
    PROVE  EncoderInv'
<1>1. /\ DataSets' = m /\ b' = Start /\ i' = 1 /\ j' = 0 /\ err' = FALSE /\ jpc' = "record" /\ mq' = J!NoText
    BY Zenon DEF J!Take, Start
<1>2. Sized(m)
    BY Zenon, MessageSized
<1>3. 1 \in 0..Len(m) /\ Sized(m[1])
    <2>1. 1 \in 0..Len(m) /\ 1 \in 1..Len(m)
        BY <1>2 DEF Sized
    <2>2. QED
        BY Zenon, <2>1, MessageSized
<1>4. 0 \in 0..Len(m[1])
    BY <1>3 DEF Sized
<1>5. EncoderPlace'
    <2>1. 1 > 0
        OBVIOUS
    <2>2. QED
        BY Zenon, <1>1, <1>3, <1>4, <2>1 DEF EncoderPlace
<1>6. EncoderText'
    <2>1. Before(RecordTexts(proto', m), 1) = <<>>
        BY Zenon DEF Before
    <2>2. Start \o <<>> = Start
        BY Zenon, StartIsText, Concat
    <2>3. QED
        BY Zenon, <1>1, <2>1, <2>2 DEF EncoderText
<1>7. EncoderErr' /\ EncoderQueue'
    <2>1. mq'.msg = <<>>
        BY Zenon, <1>1 DEF J!NoText
    <2>2. QED
        BY Zenon, <1>1, <2>1 DEF EncoderErr, EncoderQueue
<1> QED
    BY Zenon, <1>5, <1>6, <1>7 DEF EncoderInv

(* A record begins. *)
LEMMA BeginsRecord ==
    ASSUME JoinsLaw, EncoderInv, J!BeginRecord
    PROVE  EncoderInv'
<1>1. /\ jpc = "record" /\ b' = Append(b, "[") /\ j' = 1 /\ jpc' = "field"
      /\ UNCHANGED <<proto, DataSets, i, err, mq>>
    BY Zenon DEF J!BeginRecord
<1>2. EncoderPlace /\ EncoderText /\ EncoderQueue
    BY Zenon DEF EncoderInv
<1>3. /\ DataSets \in J!DecodedMessages /\ Sized(DataSets) /\ \A k \in 1..Len(DataSets) : Sized(DataSets[k])
      /\ i \in 1..Len(DataSets) /\ Sized(DataSets[i])
    BY Zenon, <1>1, <1>2, InHand
<1>4. EncoderPlace'
    <2>1. 1 \in 0..Len(DataSets[i]) /\ 1 > 0
        BY <1>3 DEF Sized
    <2>2. QED
        BY Zenon, <1>1, <1>2, <2>1 DEF EncoderPlace
<1>5. EncoderText'
    <2> DEFINE x == Before(RecordTexts(proto, DataSets), i)
    <2>1. b = Start \o x
        BY Zenon, <1>1, <1>2 DEF EncoderText
    <2>2. x \in Texts
        BY Zenon, <1>3, MessageParts, BeforePart
    <2> HIDE DEF x
    <2>3. b \in Texts
        BY Zenon, <2>1, <2>2, StartIsText, Concat
    <2>4. b' = b \o <<"[">>
        <3>1. "[" \in Tokens
            BY Zenon DEF Tokens
        <3>2. QED
            BY Zenon, <1>1, <2>3, <3>1, AppendIsConcat DEF Texts
    <2>5. b' \in Texts /\ b' \o <<>> = b'
        BY Zenon, <2>3, <2>4, Written, Concat
    <2>6. b' = Opened' /\ Before(FieldTexts(proto, DataSets[i]), j)' = <<>>
        BY Zenon, <1>1, <2>1, <2>4 DEF Opened, x, Before
    <2>7. QED
        BY Zenon, <1>1, <2>5, <2>6 DEF EncoderText
<1>6. EncoderErr' /\ EncoderQueue'
    BY Zenon, <1>1, <1>2 DEF EncoderErr, EncoderQueue
<1> QED
    BY Zenon, <1>4, <1>5, <1>6 DEF EncoderInv

(* A field is encoded as FieldText says. *)
LEMMA FieldEncoded == \A f : J!Field(f) = FieldText(proto, f)
BY Zenon DEF J!Field, J!Enterprise, FieldText

(* One field. *)
LEMMA EncodesField ==
    ASSUME JoinsLaw, EncoderInv, J!EncodeField
    PROVE  EncoderInv'
<1> DEFINE r == DataSets[i]
           s == FieldTexts(proto, r)
           c == IF j < Len(r) THEN <<",">> ELSE <<>>
<1>1. /\ jpc = "field" /\ b' = b \o FieldText(proto, r[j]) \o c
      /\ err' = ~J!Writable(r[j])
      /\ (j < Len(r) /\ j' = j + 1 /\ jpc' = jpc) \/ (~(j < Len(r)) /\ jpc' = "close" /\ j' = j)
      /\ UNCHANGED <<proto, DataSets, i, mq>>
    BY Zenon, FieldEncoded DEF J!EncodeField
<1>2. EncoderPlace /\ EncoderText /\ EncoderQueue
    BY Zenon DEF EncoderInv
<1>3. /\ DataSets \in J!DecodedMessages /\ Sized(DataSets) /\ \A k \in 1..Len(DataSets) : Sized(DataSets[k])
      /\ i \in 1..Len(DataSets) /\ Sized(r)
    BY Zenon, <1>1, <1>2, InHand
<1>4. AreTexts(s) /\ Len(s) = Len(r) /\ AreJoined(s) /\ J!Joined(s) \in Texts
    BY Zenon, <1>3, RecordParts
<1>5. Len(r) \in Nat /\ j \in 1..Len(r) /\ i > 0
    <2>1. i > 0
        BY <1>3 DEF Sized
    <2>2. j \in 0..Len(r) /\ j > 0
        BY Zenon, <1>1, <1>2, <2>1 DEF EncoderPlace
    <2>3. Len(r) \in Nat
        BY Zenon, <1>3 DEF Sized
    <2> HIDE DEF r
    <2>4. QED
        BY <2>1, <2>2, <2>3
<1>6. s[j] = FieldText(proto, r[j])
    BY Zenon, <1>3, <1>5 DEF FieldTexts, Sized
<1>7. Opened \in Texts
    <2> DEFINE x == Before(RecordTexts(proto, DataSets), i)
    <2>1. x \in Texts
        BY Zenon, <1>3, MessageParts, BeforePart
    <2> HIDE DEF x
    <2>2. Start \o x \in Texts
        BY Zenon, <2>1, StartIsText, Concat
    <2>3. (Start \o x) \o <<"[">> \in Texts
        BY Zenon, <2>2, Written, Concat
    <2>4. QED
        BY Zenon, <2>3 DEF Opened, x
<1>8. /\ Before(s, j) \in Texts /\ J!Joins(s)[j] \in Texts /\ s[j] \in Texts /\ Before(s, j) \o s[j] = J!Joins(s)[j]
      /\ j < Len(r) => Before(s, j + 1) = J!Joins(s)[j] \o <<",">>
    <2> HIDE DEF s, r
    <2>1. s[j] \in Texts
        BY Zenon, <1>4, <1>5 DEF AreTexts
    <2>2. QED
        BY Zenon, <1>4, <1>5, <2>1, BeforePart
<1>9. b \o FieldText(proto, r[j]) = Opened \o J!Joins(s)[j]
    <2>1. b = Opened \o Before(s, j)
        BY Zenon, <1>1, <1>2 DEF EncoderText
    <2> HIDE DEF s, r
    <2>2. Assoc(Opened, Before(s, j), s[j])
        BY Zenon, <1>7, <1>8, Associative
    <2>3. QED
        BY Zenon, <1>6, <1>8, <2>1, <2>2 DEF Assoc
<1>10. Opened' = Opened /\ DataSets'[i'] = r /\ FieldTexts(proto', DataSets'[i']) = s
    BY Zenon, <1>1 DEF Opened
<1>11. EncoderPlace'
    <2>1. j' \in 0..Len(r) /\ j' > 0
        <3>1. (j < Len(r) /\ j' = j + 1) \/ j' = j
            BY Zenon, <1>1
        <3> HIDE DEF r
        <3>2. QED
            BY <1>5, <3>1
    <2>2. err' \in BOOLEAN
        BY Zenon, <1>1
    <2>3. QED
        BY Zenon, <1>1, <1>2, <1>3, <1>5, <2>1, <2>2 DEF EncoderPlace
<1>12. EncoderText'
    <2>1. CASE j < Len(r)
        <3>1. b' = (Opened \o J!Joins(s)[j]) \o <<",">> /\ j' = j + 1 /\ jpc' = "field"
            BY Zenon, <1>1, <1>9, <2>1
        <3>2. b' = Opened \o Before(s, j + 1)
            <4> HIDE DEF s, r
            <4>1. <<",">> \in Texts
                BY Zenon, Written
            <4>2. Assoc(Opened, J!Joins(s)[j], <<",">>)
                BY Zenon, <1>7, <1>8, <4>1, Associative
            <4>3. QED
                BY Zenon, <1>8, <2>1, <3>1, <4>2 DEF Assoc
        <3>3. QED
            BY Zenon, <1>10, <3>1, <3>2 DEF EncoderText
    <2>2. CASE ~(j < Len(r))
        <3>1. b' = (Opened \o J!Joins(s)[j]) \o <<>> /\ jpc' = "close"
            BY Zenon, <1>1, <1>9, <2>2
        <3>2. j = Len(r)
            BY <1>5, <2>2
        <3>3. b' = Opened \o J!Joined(s)
            <4>1. Opened \o J!Joins(s)[j] \in Texts
                BY Zenon, <1>7, <1>8, Concat
            <4>2. (Opened \o J!Joins(s)[j]) \o <<>> = Opened \o J!Joins(s)[j]
                BY Zenon, <4>1, Concat
            <4>3. J!Joined(s) = J!Joins(s)[j]
                BY Zenon, <1>4, <3>2 DEF J!Joined
            <4>4. QED
                BY Zenon, <3>1, <4>2, <4>3
        <3>4. QED
            BY Zenon, <1>10, <3>1, <3>3 DEF EncoderText
    <2>3. QED
        BY Zenon, <2>1, <2>2
<1>13. EncoderErr'
    <2>1. jpc' = "close" => j = Len(r)
        <3>1. jpc' = "close" => ~(j < Len(r))
            BY Zenon, <1>1
        <3>2. QED
            BY <1>5, <3>1
    <2>2. jpc' # "encoded"
        BY Zenon, <1>1
    <2>3. QED
        BY Zenon, <1>1, <2>1, <2>2 DEF EncoderErr
<1>14. EncoderQueue'
    BY Zenon, <1>1, <1>2 DEF EncoderQueue
<1> QED
    BY Zenon, <1>11, <1>12, <1>13, <1>14 DEF EncoderInv

(* The same text, in other groups. *)
Regrouped(x, y, o, t, c, d) == (((x \o y) \o o) \o t) \o (c \o d) = x \o ((y \o ((o \o t) \o c)) \o d)

(* The record in hand goes to the records before it. *)
LEMMA Regroup ==
    ASSUME NEW x \in Texts, NEW y \in Texts, NEW o \in Texts, NEW t \in Texts, NEW c \in Texts, NEW d \in Texts
    PROVE  Regrouped(x, y, o, t, c, d)
<1> DEFINE u == x \o y
           v == o \o t
           w == u \o v
           z == v \o c
<1>1. u \in Texts /\ v \in Texts
    BY Zenon, Concat
<1>2. Assoc(u, o, t)
    BY Zenon, <1>1, Associative
<1> HIDE DEF u, v
<1>3. w \in Texts /\ z \in Texts
    BY Zenon, <1>1, Concat
<1>4. Assoc(u, v, c)
    BY Zenon, <1>1, Associative
<1> HIDE DEF w, z
<1>5. Assoc(w, c, d)
    BY Zenon, <1>3, Associative
<1>6. Assoc(x, y, z)
    BY Zenon, <1>3, Associative
<1>7. y \o z \in Texts
    BY Zenon, <1>3, Concat
<1>8. Assoc(x, y \o z, d)
    BY Zenon, <1>7, Associative
<1>9. (((x \o y) \o o) \o t) \o (c \o d) = (w \o c) \o d
    BY Zenon, <1>2, <1>5 DEF Assoc, u, v, w
<1>10. w \o c = x \o (y \o z)
    BY Zenon, <1>4, <1>6 DEF Assoc, u, w, z
<1>11. (w \o c) \o d = x \o ((y \o z) \o d)
    BY Zenon, <1>8, <1>10 DEF Assoc
<1> QED
    BY Zenon, <1>9, <1>11 DEF Regrouped, v, z

(* A record ends, and with the last one the array of records. *)
LEMMA ClosesRecord ==
    ASSUME JoinsLaw, EncoderInv, J!CloseRecord
    PROVE  EncoderInv'
<1> DEFINE n == Len(DataSets)
           s == RecordTexts(proto, DataSets)
           t == J!Joined(FieldTexts(proto, DataSets[i]))
<1>1. /\ jpc = "close" /\ j' = 0
      /\ \/ i < n /\ b' = b \o <<"]", ",">> /\ i' = i + 1 /\ jpc' = "record"
         \/ ~(i < n) /\ b' = b \o <<"]", "]">> /\ jpc' = "encoded" /\ i' = i
      /\ UNCHANGED <<proto, DataSets, err, mq>>
    BY Zenon DEF J!CloseRecord
<1>2. EncoderPlace /\ EncoderText /\ EncoderErr /\ EncoderQueue
    BY Zenon DEF EncoderInv
<1>3. /\ DataSets \in J!DecodedMessages /\ Sized(DataSets) /\ \A k \in 1..n : Sized(DataSets[k])
      /\ i \in 1..n /\ Sized(DataSets[i])
    BY Zenon, <1>1, <1>2, InHand
<1>4. n \in Nat
    BY Zenon, <1>3 DEF Sized
<1>5. AreTexts(s) /\ Len(s) = n /\ AreJoined(s)
    BY Zenon, <1>3, MessageParts
<1>6. t \in Texts /\ s[i] = (<<"[">> \o t) \o <<"]">>
    <2>1. t \in Texts
        BY Zenon, <1>3, RecordParts
    <2>2. QED
        BY Zenon, <1>3, <2>1 DEF RecordTexts, RecordText, Sized
<1>7. /\ Before(s, i) \in Texts /\ J!Joins(s)[i] \in Texts /\ Before(s, i) \o s[i] = J!Joins(s)[i]
      /\ i < n => Before(s, i + 1) = J!Joins(s)[i] \o <<",">>
    <2> HIDE DEF s, n
    <2>1. QED
        BY Zenon, <1>3, <1>5, BeforePart
<1>8. b = ((Start \o Before(s, i)) \o <<"[">>) \o t
    BY Zenon, <1>1, <1>2 DEF EncoderText, Opened
<1>9. ASSUME NEW d \in Texts
      PROVE  b \o (<<"]">> \o d) = Start \o (J!Joins(s)[i] \o d)
    <2>1. <<"[">> \in Texts /\ <<"]">> \in Texts
        BY Zenon, Written
    <2> DEFINE x == Start
               y == Before(s, i)
               o == <<"[">>
               c == <<"]">>
    <2>2. x \in Texts /\ y \in Texts /\ o \in Texts /\ c \in Texts
        BY Zenon, <1>7, <2>1, StartIsText
    <2> HIDE DEF s, t, x, y, o, c
    <2>3. Regrouped(x, y, o, t, c, d)
        BY Zenon, <1>6, <2>2, Regroup
    <2>4. b = ((x \o y) \o o) \o t /\ y \o ((o \o t) \o c) = J!Joins(s)[i]
        BY Zenon, <1>6, <1>7, <1>8 DEF x, y, o, c
    <2>5. QED
        BY Zenon, <2>3, <2>4 DEF Regrouped, x, c
<1>10. CASE i < n
    <2>1. b' = b \o <<"]", ",">> /\ i' = i + 1 /\ jpc' = "record"
        BY Zenon, <1>1, <1>10
    <2>2. <<"]", ",">> = <<"]">> \o <<",">> /\ <<",">> \in Texts
        <3>1. "]" \in Tokens /\ "," \in Tokens
            BY Zenon DEF Tokens
        <3>2. QED
            BY Zenon, <3>1, Pair, Written
    <2>3. b' = Start \o Before(s, i + 1)
        <3> HIDE DEF s, n
        <3>1. QED
            BY Zenon, <1>7, <1>9, <1>10, <2>1, <2>2
    <2>4. EncoderText'
        BY Zenon, <1>1, <2>1, <2>3 DEF EncoderText
    <2>5. i + 1 \in 1..n /\ i + 1 \in 0..n /\ i + 1 > 0
        <3> HIDE DEF n
        <3>1. QED
            BY <1>3, <1>4, <1>10
    <2>6. 0 \in 0..Len(DataSets[i + 1])
        <3>1. Sized(DataSets[i + 1])
            BY Zenon, <1>3, <2>5
        <3>2. QED
            BY <3>1 DEF Sized
    <2>7. EncoderPlace'
        BY Zenon, <1>1, <1>2, <1>3, <2>1, <2>5, <2>6 DEF EncoderPlace
    <2>8. EncoderErr' /\ EncoderQueue'
        BY Zenon, <1>1, <1>2, <2>1 DEF EncoderErr, EncoderQueue
    <2>9. QED
        BY Zenon, <2>4, <2>7, <2>8 DEF EncoderInv
<1>11. CASE ~(i < n)
    <2>1. b' = b \o <<"]", "]">> /\ i' = i /\ jpc' = "encoded"
        BY Zenon, <1>1, <1>11
    <2>2. <<"]", "]">> = <<"]">> \o <<"]">> /\ <<"]">> \in Texts
        <3>1. "]" \in Tokens
            BY Zenon DEF Tokens
        <3>2. QED
            BY Zenon, <3>1, Pair, Written
    <2>3. i = n /\ i > 0 /\ i \in 0..n
        <3> HIDE DEF n
        <3>1. QED
            BY <1>3, <1>4, <1>11
    <2>4. b' = (Start \o J!Joined(s)) \o <<"]">>
        <3>1. J!Joined(s) = J!Joins(s)[i]
            BY Zenon, <1>5, <2>3 DEF J!Joined
        <3> HIDE DEF s, n
        <3>2. Assoc(Start, J!Joins(s)[i], <<"]">>)
            BY Zenon, <1>7, <2>2, StartIsText, Associative
        <3>3. QED
            BY Zenon, <1>9, <2>1, <2>2, <3>1, <3>2 DEF Assoc
    <2>5. EncoderText'
        BY Zenon, <1>1, <2>1, <2>4 DEF EncoderText
    <2>6. 0 \in 0..Len(DataSets[i])
        BY <1>3 DEF Sized
    <2>7. EncoderPlace'
        BY Zenon, <1>1, <1>2, <1>3, <2>1, <2>3, <2>6 DEF EncoderPlace
    <2>8. EncoderErr' /\ EncoderQueue'
        BY Zenon, <1>1, <1>2, <2>1, <2>3 DEF EncoderErr, EncoderQueue, LastWritable
    <2>9. QED
        BY Zenon, <2>5, <2>7, <2>8 DEF EncoderInv
<1> QED
    BY Zenon, <1>10, <1>11

(* The end of JSONMarshal, and the message queue. *)
LEMMA QueuesText ==
    ASSUME JoinsLaw, EncoderInv, J!Queue
    PROVE  EncoderInv'
<1>1. /\ jpc = "encoded" /\ jpc' = "loop" /\ UNCHANGED <<proto, DataSets, i, j, err>>
      /\ mq' = mq \/ mq' = J!NoText \/ (~err /\ b' = Append(b, "}") /\ mq' = [text |-> b', msg |-> DataSets])
    BY Zenon DEF J!Queue
<1>2. EncoderPlace /\ EncoderText /\ EncoderErr /\ EncoderQueue
    BY Zenon DEF EncoderInv
<1>3. DataSets \in J!DecodedMessages /\ Sized(DataSets) /\ \A k \in 1..Len(DataSets) : Sized(DataSets[k])
    BY Zenon, <1>1, <1>2, InHand
<1>4. EncoderPlace'
    BY Zenon, <1>1, <1>2 DEF EncoderPlace
<1>5. EncoderText' /\ EncoderErr'
    BY Zenon, <1>1 DEF EncoderText, EncoderErr
<1>6. ASSUME ~err, b' = Append(b, "}"), mq' = [text |-> b', msg |-> DataSets]
      PROVE  EncoderQueue'
    <2> DEFINE t == J!Joined(RecordTexts(proto, DataSets))
    <2>1. b = (Start \o t) \o <<"]">>
        BY Zenon, <1>1, <1>2 DEF EncoderText
    <2>2. t \in Texts
        BY Zenon, <1>3, MessageParts
    <2>3. <<"]">> \in Texts /\ "}" \in Tokens
        BY Zenon, Written DEF Tokens
    <2>4. b \in Texts
        <3> HIDE DEF t
        <3>1. Start \o t \in Texts
            BY Zenon, <2>2, StartIsText, Concat
        <3>2. QED
            BY Zenon, <2>1, <2>3, <3>1, Concat
    <2>5. b' = b \o <<"}">>
        BY Zenon, <1>6, <2>3, <2>4, AppendIsConcat DEF Texts
    <2>6. b' = MessageText(proto, DataSets)
        BY Zenon, <2>1, <2>5 DEF MessageText
    <2>7. LastWritable(DataSets)
        BY Zenon, <1>1, <1>2, <1>6 DEF EncoderErr
    <2>8. mq'.text = b' /\ mq'.msg = DataSets
        BY Zenon, <1>6
    <2>9. QED
        BY Zenon, <1>1, <1>3, <2>6, <2>7, <2>8 DEF EncoderQueue
<1>7. EncoderQueue'
    <2>1. J!NoText.msg = <<>>
        BY Zenon DEF J!NoText
    <2>2. QED
        BY Zenon, <1>1, <1>2, <1>6, <2>1 DEF EncoderQueue
<1> QED
    BY Zenon, <1>4, <1>5, <1>7 DEF EncoderInv

(* Every step of JSONMarshal keeps to the text. *)
LEMMA EncoderStep == ASSUME JoinsLaw, EncoderInv, J!Next PROVE EncoderInv'
BY Zenon, TakeMessage, BeginsRecord, EncodesField, ClosesRecord, QueuesText DEF J!Next

(* Initially nothing is encoded. *)
LEMMA EncoderInit == J!Init => EncoderInv
<1> SUFFICES ASSUME J!Init PROVE EncoderInv
    OBVIOUS
<1>1. DataSets = <<>> /\ i = 0 /\ err = FALSE /\ jpc = "loop" /\ mq.msg = <<>>
    BY Zenon DEF J!Init, J!NoText
<1>2. i \in 0..Len(DataSets) /\ ~(i > 0)
    BY <1>1
<1>3. EncoderPlace
    BY Zenon, <1>1, <1>2 DEF EncoderPlace
<1>4. EncoderText /\ EncoderErr /\ EncoderQueue
    BY Zenon, <1>1 DEF EncoderText, EncoderErr, EncoderQueue
<1> QED
    BY Zenon, <1>3, <1>4 DEF EncoderInv

(* The encoder rests. *)
LEMMA EncoderRests == EncoderInv /\ UNCHANGED json => EncoderInv'
<1> SUFFICES ASSUME EncoderInv, UNCHANGED json PROVE EncoderInv'
    OBVIOUS
<1>1. UNCHANGED <<proto, DataSets, i, j, b, err, jpc, mq>>
    BY Zenon DEF json
<1>2. EncoderPlace' /\ EncoderErr' /\ EncoderQueue'
    BY Zenon, <1>1 DEF EncoderInv, EncoderPlace, EncoderErr, EncoderQueue
<1>3. EncoderText'
    BY Zenon, <1>1 DEF EncoderInv, EncoderText, Opened
<1> QED
    BY Zenon, <1>2, <1>3 DEF EncoderInv

(* What the reference joins is the text that was encoded. *)
LEMMA ReferenceText ==
    ASSUME JoinsLaw, NEW m, Sized(m), \A k \in 1..Len(m) : Sized(m[k])
    PROVE  J!MessageText(m) = MessageText(proto, m)
<1> DEFINE t == J!Joined(RecordTexts(proto, m))
           x == <<"{">>
           a == <<"AgentID:", ",">>
           h == <<"Header:", ",">>
           d == <<"DataSets:", "[">>
           r == <<"]">>
           e == (d \o t) \o r
           A == <<"AgentID:">>
           H == <<"Header:">>
           c == <<",">>
           s == <<A, H, e>>
<1>1. [k \in DOMAIN m |-> J!RecordText(m[k])] = RecordTexts(proto, m)
    <2>1. \A q : [k \in DOMAIN q |-> J!Field(q[k])] = FieldTexts(proto, q)
        BY Zenon, FieldEncoded DEF FieldTexts
    <2>2. \A q : J!RecordText(q) = RecordText(proto, q)
        BY Zenon, <2>1 DEF J!RecordText, RecordText
    <2>3. QED
        BY Zenon, <2>2 DEF RecordTexts
<1>2. J!MessageText(m) = (x \o J!Joined(s)) \o <<"}">>
    BY Zenon, <1>1 DEF J!MessageText
<1>3. /\ t \in Texts /\ x \in Texts /\ a \in Texts /\ h \in Texts /\ d \in Texts /\ r \in Texts
      /\ A \in Texts /\ H \in Texts /\ c \in Texts
    BY Zenon, MessageParts, Written
<1>4. a = A \o c /\ h = H \o c
    <2>1. "AgentID:" \in Tokens /\ "Header:" \in Tokens /\ "," \in Tokens
        BY Zenon DEF Tokens
    <2>2. QED
        BY Zenon, <2>1, Pair
<1>5. Start = ((x \o a) \o h) \o d
    BY Zenon DEF Start, J!encodeAgent, J!encodeHeader
<1> HIDE DEF t, x, a, h, d, r, A, H, c
<1>6. d \o t \in Texts /\ a \o h \in Texts /\ x \o a \in Texts
    BY Zenon, <1>3, Concat
<1>7. e \in Texts
    BY Zenon, <1>3, <1>6, Concat
<1> HIDE DEF e
<1>8. J!Joined(s) = (((A \o c) \o H) \o c) \o e
    <2>1. Len(s) = 3 /\ s[1] = A /\ s[2] = H /\ s[3] = e
        OBVIOUS
    <2>2. \A k \in 1..3 : k = 1 \/ k = 2 \/ k = 3
        OBVIOUS
    <2>3. 3 \in Nat /\ 1 \in 1..3 /\ 2 \in 1..3 /\ 3 \in 1..3 /\ 2 # 1 /\ 3 # 1 /\ 2 - 1 = 1 /\ 3 - 1 = 2
        OBVIOUS
    <2> HIDE DEF s
    <2>4. AreTexts(s)
        BY Zenon, <1>3, <1>7, <2>1, <2>2, <2>3 DEF AreTexts
    <2>5. AreJoined(s)
        BY Zenon, <2>4 DEF JoinsLaw
    <2>6. J!Joins(s)[1] = A
        BY Zenon, <2>1, <2>3, <2>5 DEF AreJoined
    <2>7. J!Joins(s)[2] = J!Joins(s)[1] \o c \o H
        <3>1. J!Joins(s)[2] = J!Joins(s)[2 - 1] \o c \o s[2]
            BY Zenon, <2>1, <2>3, <2>5 DEF AreJoined, c
        <3>2. QED
            BY Zenon, <2>1, <2>3, <3>1
    <2>8. J!Joins(s)[3] = J!Joins(s)[2] \o c \o e
        <3>1. J!Joins(s)[3] = J!Joins(s)[3 - 1] \o c \o s[3]
            BY Zenon, <2>1, <2>3, <2>5 DEF AreJoined, c
        <3>2. QED
            BY Zenon, <2>1, <2>3, <3>1
    <2>9. QED
        BY Zenon, <2>1, <2>6, <2>7, <2>8 DEF J!Joined
<1>9. J!Joined(s) = (a \o h) \o e
    <2>1. Assoc(a, H, c)
        BY Zenon, <1>3, Associative
    <2>2. QED
        BY Zenon, <1>4, <1>8, <2>1 DEF Assoc
<1> HIDE DEF s
<1>10. Assoc(x, a, h) /\ Assoc(x, a \o h, e)
    BY Zenon, <1>3, <1>6, <1>7, Associative
<1> DEFINE y == (x \o a) \o h
<1>11. y \in Texts
    BY Zenon, <1>3, <1>6, Concat
<1>12. x \o J!Joined(s) = y \o e
    BY Zenon, <1>9, <1>10 DEF Assoc
<1> HIDE DEF y
<1>13. Assoc(y, d, t) /\ Assoc(y, d \o t, r)
    BY Zenon, <1>3, <1>6, <1>11, Associative
<1>14. y \o e = (Start \o t) \o r
    BY Zenon, <1>5, <1>13 DEF Assoc, y, e
<1> QED
    BY Zenon, <1>2, <1>12, <1>14 DEF MessageText, t, r

(* What is queued is whole. *)
LEMMA EncoderSafe == JoinsLaw /\ EncoderInv => QueuedWhole
<1> SUFFICES ASSUME JoinsLaw, EncoderInv PROVE QueuedWhole
    OBVIOUS
<1>1. EncoderPlace /\ EncoderQueue
    BY Zenon DEF EncoderInv
<1>2. J!TypeOK
    BY Zenon, <1>1 DEF EncoderPlace, J!TypeOK
<1>3. ASSUME mq.msg # <<>> PROVE mq.text = J!MessageText(mq.msg) /\ LastWritable(mq.msg)
    <2>1. mq.text = MessageText(proto, mq.msg) /\ LastWritable(mq.msg) /\ mq.msg \in J!DecodedMessages
        BY Zenon, <1>1, <1>3 DEF EncoderQueue
    <2>2. QED
        BY Zenon, <2>1, MessageSized, ReferenceText
<1> QED
    BY Zenon, <1>2, <1>3 DEF QueuedWhole, J!QueuedWhole, J!FailedNotQueued, LastWritable
-----------------------------------------------------------------------------
(* The parts together. *)

DeliveryInv == ProducerInv /\ ConsumerInv /\ EncoderInv

(* A part that rests keeps its invariant. *)
LEMMA PartsRest ==
    /\ ProducerInv /\ UNCHANGED producer => ProducerInv'
    /\ ConsumerInv /\ UNCHANGED consumer => ConsumerInv'
<1>1. ProducerInv /\ UNCHANGED producer => ProducerInv'
    BY Zenon DEF ProducerInv, ProducerType, OnePlace, P!LossesCounted, P!Lost, producer
<1>2. ASSUME ConsumerInv, UNCHANGED consumer PROVE ConsumerInv'
  <2>1. UNCHANGED <<wpc, offset, marked, flushed, ch, batch, committing, rows, crashes>>
    BY Zenon, <1>2 DEF consumer
  <2>2. \A w \in Workers : Taken(w)' = Taken(w)
    BY Zenon, <2>1 DEF Taken
  <2>3. RowsBounded' /\ TakenKept'
    BY Zenon, <1>2, <2>1, <2>2, SameFlight, FlightStays DEF ConsumerInv
  <2> QED
    BY Zenon, <1>2, <2>1, <2>3 DEF ConsumerInv, ConsumerType, OffsetsInOrder, Apart
<1> QED
    BY Zenon, <1>1, <1>2

(* Every step of every part preserves the invariant. *)
LEMMA DeliveryStep == ASSUME JoinsLaw, MissedAddUp, DeliveryInv, [Next]_vars PROVE DeliveryInv'
<1> USE DEF DeliveryInv
<1>1. CASE JSON /\ J!Next
    BY Zenon, <1>1, PartsRest, EncoderStep DEF JSON
<1>2. CASE Producers /\ P!Next
    BY Zenon, <1>2, PartsRest, EncoderRests, ProducerStep DEF Producers
<1>3. CASE ClickHouse /\ C!Next
    BY Zenon, <1>3, PartsRest, EncoderRests, ConsumerStep DEF ClickHouse
<1>4. CASE UNCHANGED vars
    BY Zenon, <1>4, PartsRest, EncoderRests DEF vars
<1> QED
    BY Zenon, <1>1, <1>2, <1>3, <1>4 DEF Next

-----------------------------------------------------------------------------
(* Joining any number of texts, and counting any number of messages. *)

D == INSTANCE Induction

(* The joins of any sequence of texts are defined, and are texts. *)
LEMMA Joining == JoinsLaw
<1> SUFFICES ASSUME NEW s, AreTexts(s)
             PROVE  AreJoined(s)
    BY Zenon DEF JoinsLaw
<1> DEFINE N == Len(s)
           a(k) == s[k]
           next(k, v) == IF k = 1 THEN a(1) ELSE v \o <<",">> \o a(k)
           g == [p \in (1..N) \X Texts |-> next(p[1], p[2])]
           Body(f) == [k \in 1..N |-> IF k = 1 THEN a(1) ELSE f[k - 1] \o <<",">> \o a(k)]
<1>1. J!Joins(s) = CHOOSE f : f = Body(f)
    BY Zenon DEF J!Joins
<1>2. N \in Nat /\ \A k \in 1..N : a(k) \in Texts
    BY Zenon DEF AreTexts
<1>3. <<",">> \in Texts /\ <<>> \in Texts
    BY Zenon, Written
<1> HIDE DEF N, a
<1>4. \A k \in 1..N : 1 \in 1..N /\ k \in 0..N /\ k - 1 \in 0..N /\ (k # 1 => k - 1 \in 1..N)
    BY <1>2
<1>5. ASSUME NEW k \in 1..N, NEW v \in Texts PROVE next(k, v) \in Texts
    <2>1. v \o <<",">> \in Texts
        BY Zenon, <1>3, Concat
    <2>2. (v \o <<",">>) \o a(k) \in Texts
        BY Zenon, <1>2, <2>1, Concat
    <2>3. QED
        BY Zenon, <1>2, <1>4, <2>2
<1>6. PICK f : D!Recursive(f, N, Texts, <<>>, g)
    <2> HIDE DEF next
    <2>1. g \in [(1..N) \X Texts -> Texts]
        BY <1>5
    <2> HIDE DEF g
    <2>2. QED
        BY Zenon, <1>2, <1>3, <2>1, D!Recursion
<1> DEFINE h == [k \in 1..N |-> f[k]]
<1>7. \A k \in 1..N : f[k] = next(k, f[k - 1])
    <2> SUFFICES ASSUME NEW k \in 1..N PROVE f[k] = next(k, f[k - 1])
        OBVIOUS
    <2>1. f[k - 1] \in Texts
        BY Zenon, <1>4, <1>6 DEF D!Recursive
    <2> HIDE DEF next
    <2>2. g[<<k, f[k - 1]>>] = next(k, f[k - 1])
        BY <2>1
    <2> HIDE DEF g
    <2>3. QED
        BY Zenon, <1>6, <2>2 DEF D!Recursive
<1>8. h = Body(h)
    <2>1. ASSUME NEW k \in 1..N PROVE f[k] = IF k = 1 THEN a(1) ELSE h[k - 1] \o <<",">> \o a(k)
        BY Zenon, <1>4, <1>7
    <2>2. QED
        BY Zenon, <2>1
<1>9. J!Joins(s) = Body(J!Joins(s))
    <2> HIDE DEF Body, h
    <2>1. QED
        BY Zenon, <1>1, <1>8
<1> DEFINE e == J!Joins(s)
           Q == {k \in 0..N : k = 0 \/ e[k] \in Texts}
<1>10. \A k \in 1..N : e[k] = next(k, e[k - 1])
    BY Zenon, <1>9
<1>11. e = [k \in 1..N |-> e[k]]
    BY Zenon, <1>9
<1> HIDE DEF e
<1>12. 0 \in 0..N
    BY <1>2
<1>13. ASSUME NEW k \in 1..N, k - 1 \in Q PROVE k \in Q
    <2>1. k = 1 \/ e[k - 1] \in Texts
        BY <1>13
    <2>2. next(1, <<>>) = next(1, e[k - 1])
        OBVIOUS
    <2>3. next(k, e[k - 1]) \in Texts
        BY Zenon, <1>3, <1>5, <2>1, <2>2
    <2> HIDE DEF next
    <2>4. QED
        BY Zenon, <1>4, <1>10, <2>3
<1>14. \A k \in 0..N : k \in Q
    <2>1. 0 \in Q
        BY Zenon, <1>12
    <2> HIDE DEF Q
    <2>2. QED
        BY Zenon, <1>2, <1>13, <2>1, D!BoundedInduction
<1>15. \A k \in 1..N : k # 0
    BY <1>2
<1>16. e \in [1..N -> Texts]
    BY Zenon, <1>4, <1>11, <1>14, <1>15
<1> QED
    BY Zenon, <1>10, <1>16 DEF e, N, a, AreJoined

F == INSTANCE FiniteSetTheorems

(* The number of missed messages. *)
LEMMA CountMissed == ProducerType => MissedAddUp
<1> SUFFICES ASSUME ProducerType PROVE MissedAddUp
    OBVIOUS
<1>1. \A S : P!Cardinality(S) = F!Cardinality(S)
    BY DEF P!Cardinality, F!Cardinality
<1>2. made \in Int /\ 1 \in Int /\ taken \in SUBSET (1..made)
    BY DEF ProducerType
<1>3. Missed \in SUBSET (1..made)
    BY Zenon, <1>2 DEF Missed, P!Lost
<1>4. F!IsFiniteSet(Missed)
    BY Zenon, <1>2, <1>3, F!FS_Interval, F!FS_Subset
<1>5. /\ F!Cardinality(Missed) \in Nat
      /\ \A m : m \notin Missed => F!Cardinality(Missed \cup {m}) = F!Cardinality(Missed) + 1
    BY Zenon, <1>4, F!FS_AddElement, F!FS_CardinalityType
<1> QED
    BY ZenonT(60), <1>1, <1>5 DEF MissedAddUp

(* At first nothing is lost. *)
LEMMA NoneLost == P!Cardinality({}) = 0
<1>1. \A S : P!Cardinality(S) = F!Cardinality(S)
    BY DEF P!Cardinality, F!Cardinality
<1> QED
    BY ZenonT(60), <1>1, F!FS_EmptySet

(* A producer starts with an empty channel and no loss. *)
LEMMA ProducerInit == Init => ProducerInv
<1> SUFFICES ASSUME P!Init PROVE ProducerInv
    BY Zenon DEF Init
<1>1. ProducerType /\ OnePlace
    BY SMTT(30), Constants DEF P!Init, ProducerType, OnePlace, P!Connections
<1>2. P!Lost = {} /\ P!Lost \ silent = {} /\ ec = 0 /\ errors = 0 /\ attempt = 0
    BY DEF P!Init, P!Lost
<1>3. 0 = 2 * 0 + 0 /\ (MaxRetry + 1) * 0 + 0 <= 0 /\ 0 <= 0
    BY SMTT(30), Constants
<1>4. P!LossesCounted
    BY ZenonT(60), <1>2, <1>3, NoneLost DEF P!LossesCounted
<1> QED
    BY ZenonT(60), <1>1, <1>4 DEF ProducerInv

-----------------------------------------------------------------------------
(* The inductive invariant holds always. *)
LEMMA DeliveryAlways == Spec => []DeliveryInv
<1>1. Init => DeliveryInv
    BY ZenonT(60), ProducerInit, ConsumerInit, EncoderInit DEF DeliveryInv, Init
<1>2. DeliveryInv /\ [Next]_vars => DeliveryInv'
    BY ZenonT(60), DeliveryStep, Joining, CountMissed DEF DeliveryInv, ProducerInv
<1> QED
    BY <1>1, <1>2, PTL DEF Spec

(* A text that a worker queues is the JSON text of one message, whole,     *)
(* with commas between fields and between records and nowhere else, and of *)
(* no message whose last field JSONMarshal cannot write: for messages of   *)
(* any number of records, of any number and kinds of fields.               *)
THEOREM QueuedTextsWhole == Spec => []QueuedWhole
<1>1. DeliveryInv => QueuedWhole
    BY ZenonT(60), EncoderSafe, Joining DEF DeliveryInv
<1> QED
    BY <1>1, DeliveryAlways, PTL

(* The error count of a producer accounts for every message that it        *)
(* received and that is neither delivered nor kept, except for those lost  *)
(* behind a write or a Publish that returned no error, and the raw socket  *)
(* tries a message at most MaxRetry + 1 times: for every capacity of the   *)
(* channel, number of retries and of messages, and whenever the server     *)
(* comes and goes.                                                         *)
THEOREM ProducersCountLosses == Spec => []LossesCounted
<1>1. DeliveryInv => LossesCounted
    BY Zenon, ProducerSafe DEF DeliveryInv
<1> QED
    BY <1>1, DeliveryAlways, PTL

(* The ClickHouse consumer inserts a message once, and at most once more   *)
(* for each crash, and without a crash forgets none whose offset Kafka     *)
(* holds: for any partitions, ingesters, size of transactions and number   *)
(* of crashes.                                                             *)
THEOREM ConsumerIngestsOnce == Spec => []IngestedOnce
<1>1. DeliveryInv => IngestedOnce
    BY Zenon, ConsumerSafe DEF DeliveryInv
<1> QED
    BY <1>1, DeliveryAlways, PTL
=============================================================================
