--------------------------- MODULE CollectorProofs ---------------------------
(* Proofs about the buffers, the bytes and the fate of the datagrams of the  *)
(* three collectors, for any number of workers, buffers and datagrams and    *)
(* any capacity of the channels.  The three worker loops are taken together: *)
(* what they do to buffers and datagrams is one of a few kinds of steps, and *)
(* the invariants hold whichever of them a worker takes.                     *)
EXTENDS Collectors, TLAPS

(* The states of the three loops, and those with a buffer.  The states in    *)
(* which one of them works on a message are those of IPFIX.                  *)
Places == {"off", "start", "top", "select", "mirror", "decode", "marshal", "put"}
Held == {"top", "mirror", "decode", "marshal", "put"}

(* A worker that leaves off working on its message has finished it. *)
Finish(w, from, to) ==
    IF from \in Busy /\ to \notin Busy
        THEN \E f \in {"undecoded", "decoded"} : fate' = [fate EXCEPT ![wmsg[w].id] = f]
        ELSE UNCHANGED fate

Counts == DecodedCount' \in {DecodedCount, DecodedCount + 1}

PutStep(w) ==
    /\ \E from \in Held : Put(w, from, "select") /\ Finish(w, from, "select")
    /\ Counts /\ UNCHANGED mirrorVars

LeaveStep(w) == (SelectQuit(w) \/ SelectClosed(w)) /\ UNCHANGED mirrorVars

MsgStep(w) == \E next \in Busy : SelectMsg(w, next) /\ UNCHANGED mirrorVars

WorkStep(w) ==
    \E from, to \in Places :
        /\ from \in Held <=> to \in Held
        /\ to \in Busy => from \in Busy
        /\ Proceed(w, from, to) /\ Finish(w, from, to)
        /\ Counts /\ UNCHANGED mirrorVars

EmitStep(w) ==
    /\ \E to \in {"top", "put"} : Emit(w, "marshal", to)
    /\ Counts /\ UNCHANGED mirrorVars

CommonWorker(w) ==
    \/ \E b \in Buffers : WorkerStart(w, b) \/ MirrorCopy(w, b)
    \/ PutStep(w) \/ LeaveStep(w) \/ MsgStep(w) \/ WorkStep(w) \/ EmitStep(w)

CommonNext ==
    \/ IPFIXReader \/ IPFIXShutdown \/ IPFIXProduce \/ MirrorSide
    \/ \E w \in Workers : CommonWorker(w) \/ IPFIXPool(w)

(* The worker loop of IPFIX takes such steps ... *)
LEMMA IPFIXCommon ==
    ASSUME NEW w \in Workers, ipfixWorker(w)
    PROVE  CommonWorker(w)
  <1>1. LoopTop(w) => PutStep(w)
    BY Zenon DEF LoopTop, PutStep, Counts, Finish, Held, Busy
  <1>2. LoopSelect(w) => LeaveStep(w) \/ MsgStep(w)
    BY Zenon DEF LoopSelect, Select, LeaveStep, MsgStep, Busy
  <1>3. MirrorSkip(w) \/ DecodeData(w) => WorkStep(w)
    BY Zenon DEF MirrorSkip, DecodeData, WorkStep, Counts, Finish, Held, Busy, Places
  <1>4. DecodeFail(w) \/ DecodeEmpty(w) \/ MarshalFail(w) => WorkStep(w)
    BY Zenon DEF DecodeFail, DecodeEmpty, MarshalFail, WorkStep, Counts, Finish, Held, Busy, Places
  <1>5. MarshalSend(w) => EmitStep(w)
    BY Zenon DEF MarshalSend, EmitStep, Counts, mirrorVars
  <1>6. QED
    BY Zenon, <1>1, <1>2, <1>3, <1>4, <1>5 DEF ipfixWorker, CommonWorker

(* ... so does the one of NetFlow v9 ... *)
LEMMA NF9Common ==
    ASSUME NEW w \in Workers, netflowV9Worker(w), UNCHANGED mirrorVars
    PROVE  CommonWorker(w)
  <1>1. NF9Top(w) => PutStep(w)
    BY Zenon DEF NF9Top, PutStep, Counts, Finish, Held, Busy
  <1>2. NF9Select(w) => LeaveStep(w) \/ MsgStep(w)
    BY Zenon DEF NF9Select, Select, LeaveStep, MsgStep, Busy
  <1>3. NF9DecodeData(w) => WorkStep(w)
    BY Zenon DEF NF9DecodeData, WorkStep, Counts, Finish, Held, Busy, Places
  <1>4. NF9DecodeFail(w) \/ NF9DecodeEmpty(w) \/ NF9MarshalFail(w) => WorkStep(w)
    BY Zenon DEF NF9DecodeFail, NF9DecodeEmpty, NF9MarshalFail, WorkStep, Counts, Finish, Held, Busy, Places
  <1>5. NF9MarshalSend(w) => EmitStep(w)
    BY Zenon DEF NF9MarshalSend, EmitStep, Counts
  <1>6. \A b \in Buffers : NF9Start(w, b) => WorkerStart(w, b)
    BY Zenon DEF NF9Start, WorkerStart
  <1>7. QED
    BY Zenon, <1>1, <1>2, <1>3, <1>4, <1>5, <1>6 DEF netflowV9Worker, CommonWorker

(* ... and the one of sFlow. *)
LEMMA SFCommon ==
    ASSUME NEW w \in Workers, sFlowWorker(w), UNCHANGED mirrorVars
    PROVE  CommonWorker(w)
  <1>1. SFDecodeFail(w) \/ SFMarshalFail(w) => PutStep(w)
    BY Zenon DEF SFDecodeFail, SFMarshalFail, PutStep, Counts, Finish, Held, Busy
  <1>2. SFPut(w) => PutStep(w)
    BY Zenon DEF SFPut, PutStep, Counts, Finish, Held, Busy
  <1>3. SFSelect(w) => LeaveStep(w) \/ MsgStep(w)
    BY Zenon DEF SFSelect, Select, LeaveStep, MsgStep, Busy
  <1>4. SFStart(w) \/ SFDecode(w) => WorkStep(w)
    BY Zenon DEF SFStart, SFDecode, WorkStep, Counts, Finish, Held, Busy, Places
  <1>5. SFMarshalSend(w) => EmitStep(w)
    BY Zenon DEF SFMarshalSend, EmitStep, Counts
  <1>6. QED
    BY Zenon, <1>1, <1>2, <1>3, <1>4, <1>5 DEF sFlowWorker, CommonWorker

(* A step of a collector is a common step. *)
LEMMA CollectorsCommon ==
    ASSUME [CollectorsNext]_collectorsVars
    PROVE  CommonNext \/ UNCHANGED ipfixVars
  <1>1. IPFIXNext => CommonNext
    BY Zenon, IPFIXCommon DEF IPFIXNext, CommonNext
  <1>2. NF9Next /\ UNCHANGED mirrorVars => CommonNext
    BY Zenon, NF9Common DEF NF9Next, NF9Run, NF9Shutdown, NF9DynWorkers, CommonNext, IPFIXReader,
                            IPFIXShutdown, IPFIXProduce, IPFIXPool
  <1>3. SFNext /\ UNCHANGED mirrorVars => CommonNext
    BY Zenon, SFCommon DEF SFNext, SFRun, SFShutdown, SFDynWorkers, CommonNext, IPFIXReader,
                           IPFIXShutdown, IPFIXProduce, IPFIXPool
  <1>4. QED
    BY Zenon, <1>1, <1>2, <1>3 DEF CollectorsNext, collectorsVars
-----------------------------------------------------------------------------
Produced == [id : 0..MaxDatagrams, data : 0..MaxDatagrams]

(* What the variables hold, and that whoever is to hold a buffer has one. *)
Typed ==
    /\ reader \in [pc : {"loop", "read", "send", "done"}, body : Buffers \cup {NoBuffer}]
    /\ ReaderHolds => reader.body \in Buffers
    /\ udpCh \in Seq(Msgs)
    /\ avail \subseteq Buffers
    /\ mem \in [Buffers -> 0..MaxDatagrams]
    /\ wpc \in [Workers -> Places]
    /\ wmsg \in [Workers -> Msgs \cup {NoMsg}]
    /\ \A w \in Workers : wpc[w] \in Held => wmsg[w] \in Msgs
    /\ mCh \in Seq(Msgs)
    /\ mirrorHeld \subseteq Msgs
    /\ mqCh \in Seq(Produced)
    /\ UDPCount \in 0..MaxDatagrams
    /\ fate \in [Datagrams -> Fates]

(* A channel with one more message. *)
LEMMA AppendSeq ==
    ASSUME NEW S, NEW s \in Seq(S), NEW e \in S
    PROVE  Append(s, e) \in Seq(S)
  OBVIOUS

(* No buffer has two users. *)
Owned == ExclusiveBuffers(Held) /\ MirrorExclusive(Held)

(* What Owned depends on. *)
SameOwners ==
    /\ reader'.body = reader.body /\ (ReaderHolds' <=> ReaderHolds)
    /\ UNCHANGED <<udpCh, avail, wmsg, mCh, mirrorHeld>>
    /\ \A w \in Workers : wpc'[w] \in Held <=> wpc[w] \in Held

(* Steps that hand no buffer on. *)
LEMMA OwnersStay ==
    ASSUME Owned, SameOwners
    PROVE  Owned'
  BY DEF Owned, SameOwners, ExclusiveBuffers, MirrorExclusive

(* Every collector starts with empty channels. *)
LEMMA StartsEmpty == CollectorsInit => Init /\ NoMirror
  BY Zenon DEF CollectorsInit, IPFIXInit, NoMirror

(* The initial values have the types. *)
LEMMA TypedInit == Init /\ NoMirror => Typed
  <1> SUFFICES ASSUME Init, NoMirror
               PROVE  Typed
    OBVIOUS
  <1>1. /\ reader \in [pc : {"loop", "read", "send", "done"}, body : Buffers \cup {NoBuffer}] /\ ~ReaderHolds
        /\ udpCh \in Seq(Msgs) /\ mCh \in Seq(Msgs) /\ mqCh \in Seq(Produced)
    BY DEF Init, NoMirror, ReaderHolds
  <1>2. UDPCount \in 0..MaxDatagrams /\ 0 \in 0..MaxDatagrams
    BY CollectorAssumption DEF Init
  <1>3. mem \in [Buffers -> 0..MaxDatagrams] /\ fate \in [Datagrams -> Fates]
    BY Zenon, <1>2 DEF Init, Fates
  <1>4. /\ wpc \in [Workers -> Places] /\ wmsg \in [Workers -> Msgs \cup {NoMsg}]
        /\ \A w \in Workers : wpc[w] \notin Held
    BY Zenon DEF Init, Places, Held
  <1>5. QED
    BY Zenon, <1>1, <1>2, <1>3, <1>4 DEF Init, NoMirror, Typed

(* At the start every buffer is in the sync.Pool. *)
LEMMA OwnershipInit == Init /\ NoMirror => Owned
  BY DEF Init, NoMirror, Owned, ExclusiveBuffers, MirrorExclusive, ReaderHolds, Held

(* The reader keeps the types. *)
LEMMA ReaderTyped ==
    ASSUME Typed, IPFIXReader
    PROVE  Typed'
  <1> USE DEF Typed, ReaderHolds, IPFIXReader, mirrorVars, procVars, bufVars, workVars
  <1>1. CASE ReaderStop
    BY Zenon, <1>1 DEF ReaderStop
  <1>2. ASSUME NEW b \in Buffers, ReaderGet(b)
        PROVE  Typed'
    BY Zenon, <1>2 DEF ReaderGet
  <1>3. CASE ReadError
    BY <1>3 DEF ReadError
  <1>4. CASE ReadFromUDP
    <2>1. UDPCount' \in 0..MaxDatagrams /\ UDPCount + 1 \in 0..MaxDatagrams
      BY <1>4, CollectorAssumption DEF ReadFromUDP
    <2>2. mem' \in [Buffers -> 0..MaxDatagrams]
      BY <1>4, <2>1 DEF ReadFromUDP
    <2>3. QED
      BY Zenon, <1>4, <2>1, <2>2 DEF ReadFromUDP
  <1>5. CASE ReaderSend
    <2>1. [id |-> UDPCount, body |-> reader.body] \in Msgs
      BY Zenon, <1>5 DEF ReaderSend, Msgs
    <2>2. QED
      BY <1>5, <2>1 DEF ReaderSend
  <1>6. CASE SendOnClosed
    <2>1. UNCHANGED <<reader, udpCh, avail, mem, wpc, wmsg, mCh, mirrorHeld, mqCh, UDPCount, fate>>
      BY Zenon, <1>6 DEF SendOnClosed
    <2>2. QED
      BY Zenon, <2>1
  <1>7. QED
    BY Zenon, <1>1, <1>2, <1>3, <1>4, <1>5, <1>6 DEF Reader

(* The reader takes a buffer from the sync.Pool and hands it to the channel. *)
LEMMA ReaderOwnership ==
    ASSUME Typed, Owned, IPFIXReader
    PROVE  Owned'
  <1> USE DEF IPFIXReader, mirrorVars, procVars, bufVars, workVars
  <1>1. CASE ReaderStop \/ ReadFromUDP \/ SendOnClosed
    <2>1. SameOwners
      BY ZenonT(60), <1>1 DEF ReaderStop, ReadFromUDP, SendOnClosed, SameOwners, ReaderHolds, Typed
    <2>2. QED
      BY Zenon, <2>1, OwnersStay
  <1>2. ASSUME NEW b \in Buffers, ReaderGet(b)
        PROVE  Owned'
    <2>1. /\ reader'.body = b /\ ~ReaderHolds
          /\ b \in avail /\ avail' = avail \ {b}
          /\ UNCHANGED <<udpCh, wpc, wmsg, mCh, mirrorHeld>>
      BY Zenon, <1>2 DEF ReaderGet, ReaderHolds
    <2>2. ExclusiveBuffers(Held)'
      BY ZenonT(60), <2>1 DEF Owned, ExclusiveBuffers
    <2>3. MirrorExclusive(Held)'
      BY ZenonT(60), <2>1 DEF Owned, MirrorExclusive
    <2>4. QED
      BY Zenon, <2>2, <2>3 DEF Owned
  <1>3. CASE ReadError
    <2>1. /\ ~ReaderHolds' /\ ReaderHolds
          /\ avail' = avail \cup {reader.body}
          /\ UNCHANGED <<udpCh, wpc, wmsg, mCh, mirrorHeld>>
      BY Zenon, <1>3 DEF ReadError, ReaderHolds
    <2>2. ExclusiveBuffers(Held)'
      BY ZenonT(60), <2>1 DEF Owned, ExclusiveBuffers
    <2>3. MirrorExclusive(Held)'
      BY ZenonT(60), <2>1 DEF Owned, MirrorExclusive
    <2>4. QED
      BY Zenon, <2>2, <2>3 DEF Owned
  <1>4. CASE ReaderSend
    <2> DEFINE m == [id |-> UDPCount, body |-> reader.body]
               n == Len(udpCh) + 1
    <2>1. m \in Msgs /\ m.body = reader.body /\ udpCh \in Seq(Msgs) /\ udpCh' = Append(udpCh, m)
      BY Zenon, <1>4 DEF ReaderSend, Msgs, Typed, ReaderHolds
    <2>2. \A i \in DOMAIN udpCh' : \/ i \in DOMAIN udpCh /\ udpCh'[i] = udpCh[i]
                                   \/ i = n /\ udpCh'[i] = m
      BY <2>1
    <2> HIDE DEF m, n
    <2>3. /\ ~ReaderHolds' /\ ReaderHolds
          /\ UNCHANGED <<avail, wpc, wmsg, mCh, mirrorHeld>>
      BY Zenon, <1>4 DEF ReaderSend, ReaderHolds
    <2>4. ExclusiveBuffers(Held)'
      BY <2>1, <2>2, <2>3 DEF Owned, ExclusiveBuffers
    <2>5. MirrorExclusive(Held)'
      BY <2>1, <2>2, <2>3 DEF Owned, MirrorExclusive
    <2>6. QED
      BY Zenon, <2>4, <2>5 DEF Owned
  <1>5. QED
    BY Zenon, <1>1, <1>2, <1>3, <1>4 DEF Reader

(* A worker keeps the types. *)
LEMMA WorkerTyped ==
    ASSUME Typed, NEW w \in Workers, CommonWorker(w)
    PROVE  Typed'
  <1> USE DEF mirrorVars, procVars, bufVars, workVars
  <1>0. \A m \in Msgs : m.body \in Buffers
    BY Zenon DEF Msgs
  <1>1. ASSUME NEW b \in Buffers, WorkerStart(w, b)
        PROVE  Typed'
    <2>1. [id |-> 0, body |-> b] \in Msgs
      BY CollectorAssumption DEF Msgs
    <2>2. QED
      BY Zenon, <1>1, <2>1 DEF Typed, ReaderHolds, Places, WorkerStart
  <1>2. CASE PutStep(w)
    <2>1. PICK from \in Held : Put(w, from, "select") /\ Finish(w, from, "select")
      BY Zenon, <1>2 DEF PutStep
    <2>2. wmsg[w] \in Msgs /\ wmsg[w].body \in Buffers
      BY Zenon, <1>0, <2>1 DEF Typed, Put
    <2>3. fate' \in [Datagrams -> Fates]
      BY Zenon, <2>1 DEF Typed, Finish, Fates
    <2>4. QED
      BY Zenon, <1>2, <2>1, <2>2, <2>3 DEF Typed, ReaderHolds, Places, Held, PutStep, Put
  <1>3. CASE LeaveStep(w)
    BY ZenonT(60), <1>3 DEF Typed, ReaderHolds, Places, Held, LeaveStep, SelectQuit, SelectClosed, Leave
  <1>4. CASE MsgStep(w)
    <2>1. PICK next \in Busy : SelectMsg(w, next)
      BY Zenon, <1>4 DEF MsgStep
    <2>2. Head(udpCh) \in Msgs /\ Tail(udpCh) \in Seq(Msgs)
      BY <2>1 DEF Typed, SelectMsg
    <2>3. next \in Places
      BY Zenon DEF Busy, Places
    <2>4. QED
      BY Zenon, <1>4, <2>1, <2>2, <2>3 DEF Typed, ReaderHolds, MsgStep, SelectMsg
  <1>5. ASSUME NEW b \in Buffers, MirrorCopy(w, b)
        PROVE  Typed'
    <2>1. wmsg[w] \in Msgs
      BY Zenon, <1>5 DEF Typed, Held, MirrorCopy
    <2>2. [id |-> wmsg[w].id, body |-> b] \in Msgs /\ wmsg[w].body \in Buffers
      BY Zenon, <2>1 DEF Msgs
    <2>3. mem' \in [Buffers -> 0..MaxDatagrams]
      BY ZenonT(60), <1>5, <2>2 DEF Typed, MirrorCopy
    <2>4. avail' \subseteq Buffers
      BY Zenon, <1>5 DEF Typed, MirrorCopy
    <2>5. mCh' \in Seq(Msgs)
      <3> DEFINE m == [id |-> wmsg[w].id, body |-> b]
      <3>1. mCh' = Append(mCh, m) \/ mCh' = mCh
        BY Zenon, <1>5 DEF MirrorCopy
      <3>2. m \in Msgs /\ mCh \in Seq(Msgs)
        BY ZenonT(60), <2>2 DEF Typed
      <3> HIDE DEF m
      <3>3. QED
        BY Zenon, <3>1, <3>2, AppendSeq
    <2>6. QED
      BY Zenon, <1>5, <2>1, <2>3, <2>4, <2>5 DEF Typed, ReaderHolds, Places, Held, MirrorCopy
  <1>6. CASE WorkStep(w)
    <2>1. PICK from, to \in Places : /\ from \in Held <=> to \in Held
                                     /\ Proceed(w, from, to) /\ Finish(w, from, to)
      BY Zenon, <1>6 DEF WorkStep
    <2>2. fate' \in [Datagrams -> Fates]
      BY Zenon, <2>1 DEF Typed, Finish, Fates
    <2>3. QED
      BY Zenon, <1>6, <2>1, <2>2 DEF Typed, ReaderHolds, WorkStep, Proceed
  <1>7. CASE EmitStep(w)
    <2>1. PICK to \in {"top", "put"} : Emit(w, "marshal", to)
      BY Zenon, <1>7 DEF EmitStep
    <2>2. fate' \in [Datagrams -> Fates]
      BY Zenon, <2>1 DEF Typed, Emit, Fates
    <2>3. [id |-> wmsg[w].id, data |-> mem[wmsg[w].body]] \in Produced
      <3>1. wmsg[w] \in Msgs
        BY Zenon, <2>1 DEF Typed, Held, Emit
      <3>2. QED
        BY <3>1 DEF Msgs, Produced, Typed
    <2>4. mqCh' \in Seq(Produced)
      <3> DEFINE m == [id |-> wmsg[w].id, data |-> mem[wmsg[w].body]]
      <3>1. mqCh' = Append(mqCh, m) \/ mqCh' = mqCh
        BY Zenon, <2>1 DEF Emit
      <3>2. m \in Produced /\ mqCh \in Seq(Produced)
        BY ZenonT(60), <2>3 DEF Typed
      <3> HIDE DEF m
      <3>3. QED
        BY Zenon, <3>1, <3>2, AppendSeq
    <2>5. QED
      BY ZenonT(60), <1>7, <2>1, <2>2, <2>4 DEF Typed, ReaderHolds, Places, Held, EmitStep, Emit
  <1>8. QED
    BY ZenonT(60), <1>1, <1>2, <1>3, <1>4, <1>5, <1>6, <1>7 DEF CommonWorker

(* A worker hands on the buffer of its message and the copy for the mirror. *)
LEMMA WorkerOwnership ==
    ASSUME Typed, Owned, NEW w \in Workers, CommonWorker(w)
    PROVE  Owned'
  <1> USE DEF mirrorVars, procVars, bufVars, workVars
  <1>1. CASE WorkStep(w) \/ EmitStep(w) \/ LeaveStep(w)
    <2>1. UNCHANGED <<reader, udpCh, avail, wmsg, mCh, mirrorHeld>>
      BY Zenon, <1>1 DEF WorkStep, Proceed, EmitStep, Emit, LeaveStep, SelectQuit, SelectClosed, Leave
    <2>2. CASE WorkStep(w)
      BY Zenon, <2>1, <2>2, OwnersStay DEF WorkStep, Proceed, SameOwners, ReaderHolds, Typed
    <2>3. CASE EmitStep(w) \/ LeaveStep(w)
      BY ZenonT(60), <2>1, <2>3, OwnersStay
         DEF EmitStep, Emit, LeaveStep, SelectQuit, SelectClosed, Leave, SameOwners, ReaderHolds, Typed, Held
    <2>4. QED
      BY Zenon, <1>1, <2>2, <2>3
  <1>2. ASSUME NEW b \in Buffers, WorkerStart(w, b)
        PROVE  Owned'
    <2>1. /\ wmsg'[w].body = b /\ \A v \in Workers : v # w => wmsg'[v] = wmsg[v] /\ wpc'[v] = wpc[v]
          /\ avail' = avail \ {b} /\ b \in avail
          /\ wpc[w] \notin Held
          /\ UNCHANGED <<reader, udpCh, mCh, mirrorHeld>>
      BY Zenon, <1>2 DEF WorkerStart, Typed, Held
    <2>2. QED
      BY <2>1 DEF Owned, ExclusiveBuffers, MirrorExclusive, ReaderHolds
  <1>3. CASE PutStep(w)
    <2>1. /\ wpc'[w] \notin Held /\ wpc[w] \in Held
          /\ \A v \in Workers : v # w => wmsg'[v] = wmsg[v] /\ wpc'[v] = wpc[v]
          /\ avail' = avail \cup {wmsg[w].body}
          /\ UNCHANGED <<reader, udpCh, mCh, mirrorHeld>>
      BY ZenonT(60), <1>3 DEF PutStep, Put, Typed, Held
    <2>2. QED
      BY <2>1 DEF Owned, ExclusiveBuffers, MirrorExclusive, ReaderHolds
  <1>4. CASE MsgStep(w)
    <2>1. /\ wpc'[w] \in Held /\ wpc[w] \notin Held
          /\ wmsg'[w] = Head(udpCh)
          /\ \A v \in Workers : v # w => wmsg'[v] = wmsg[v] /\ wpc'[v] = wpc[v]
          /\ UNCHANGED <<reader, avail, mCh, mirrorHeld>>
      BY ZenonT(60), <1>4 DEF MsgStep, SelectMsg, Typed, Held, Busy
    <2>2. udpCh \in Seq(Msgs) /\ udpCh # <<>> /\ udpCh' = Tail(udpCh)
      BY Zenon, <1>4 DEF MsgStep, SelectMsg, Typed
    <2>3. /\ \A i \in DOMAIN udpCh' : i + 1 \in DOMAIN udpCh /\ i + 1 # 1 /\ udpCh'[i] = udpCh[i + 1]
          /\ \A i, j \in DOMAIN udpCh' : i # j => i + 1 # j + 1
          /\ Head(udpCh) = udpCh[1] /\ 1 \in DOMAIN udpCh
      BY <2>2
    <2>4. ExclusiveBuffers(Held)'
      <3>1. ExclusiveBuffers(Held) /\ (ReaderHolds' <=> ReaderHolds)
        BY Zenon, <2>1 DEF Owned, ReaderHolds
      <3>2. (\A i \in DOMAIN udpCh :
               /\ udpCh[i].body \notin avail
               /\ \A j \in DOMAIN udpCh : i # j => udpCh[i].body # udpCh[j].body
               /\ \A v \in Workers : wpc[v] \in Held => wmsg[v].body # udpCh[i].body)'
        BY <2>1, <2>3, <3>1 DEF ExclusiveBuffers
      <3>3. (\A v \in Workers : wpc[v] \in Held =>
               /\ wmsg[v].body \notin avail
               /\ \A u \in Workers \ {v} : wpc[u] \in Held => wmsg[u].body # wmsg[v].body)'
        BY <2>1, <2>3, <3>1 DEF ExclusiveBuffers
      <3>4. (ReaderHolds =>
               /\ reader.body \notin avail
               /\ \A i \in DOMAIN udpCh : udpCh[i].body # reader.body
               /\ \A v \in Workers : wpc[v] \in Held => wmsg[v].body # reader.body)'
        BY <2>1, <2>3, <3>1 DEF ExclusiveBuffers
      <3>5. QED
        BY Zenon, <3>2, <3>3, <3>4 DEF ExclusiveBuffers
    <2>5. MirrorExclusive(Held)'
      BY <2>1, <2>3 DEF Owned, MirrorExclusive, ReaderHolds
    <2>6. QED
      BY ZenonT(60), <2>4, <2>5 DEF Owned
  <1>5. ASSUME NEW b \in Buffers, MirrorCopy(w, b)
        PROVE  Owned'
    <2>1. /\ \A v \in Workers : wpc'[v] \in Held <=> wpc[v] \in Held
          /\ UNCHANGED <<reader, udpCh, wmsg, mirrorHeld>>
          /\ b \in avail
      BY ZenonT(60), <1>5 DEF MirrorCopy, Typed, Held
    <2>2. CASE UNCHANGED <<mCh, avail>>
      <3>1. SameOwners
        BY Zenon, <2>1, <2>2 DEF SameOwners, ReaderHolds
      <3>2. QED
        BY ZenonT(60), <3>1, OwnersStay
    <2>3. CASE mCh' = Append(mCh, [id |-> wmsg[w].id, body |-> b]) /\ avail' = avail \ {b}
      <3> DEFINE m == [id |-> wmsg[w].id, body |-> b]
                 n == Len(mCh) + 1
      <3>1. mCh \in Seq(Msgs) /\ wmsg[w] \in Msgs
        BY Zenon, <1>5 DEF MirrorCopy, Typed, Held
      <3>2. m \in Msgs /\ m.body = b
        BY ZenonT(60), <3>1 DEF Msgs
      <3>3. \A i \in DOMAIN mCh' : \/ i \in DOMAIN mCh /\ mCh'[i] = mCh[i]
                                   \/ i = n /\ mCh'[i] = m
        BY <2>3, <3>1, <3>2
      <3> HIDE DEF m, n
      <3>4. ExclusiveBuffers(Held)'
        BY ZenonT(60), <2>1, <2>3 DEF Owned, ExclusiveBuffers, ReaderHolds
      <3>5. MirrorExclusive(Held)'
        BY <2>1, <2>3, <3>2, <3>3 DEF Owned, ExclusiveBuffers, MirrorExclusive, ReaderHolds
      <3>6. QED
        BY Zenon, <3>4, <3>5 DEF Owned
    <2>4. QED
      BY ZenonT(60), <1>5, <2>2, <2>3 DEF MirrorCopy
  <1>6. QED
    BY Zenon, <1>1, <1>2, <1>3, <1>4, <1>5 DEF CommonWorker

(* The mirror side takes copies and puts their buffers back. *)
LEMMA MirrorTypedOwned ==
    ASSUME Typed, Owned, MirrorSide
    PROVE  Typed' /\ Owned'
  <1> USE DEF vars, procVars, bufVars, workVars
  <1>1. CASE MirrorEnable
    <2>1. SameOwners /\ UNCHANGED vars /\ UNCHANGED <<mCh, mirrorHeld>>
      BY <1>1 DEF MirrorEnable, SameOwners, ReaderHolds
    <2>2. QED
      BY ZenonT(60), <2>1, OwnersStay DEF Typed, ReaderHolds
  <1>2. CASE MirrorTake
    <2>1. /\ mCh \in Seq(Msgs) /\ mCh # <<>> /\ mCh' = Tail(mCh)
          /\ mirrorHeld' = mirrorHeld \cup {mCh[1]} /\ mCh[1] \in Msgs /\ 1 \in DOMAIN mCh
          /\ UNCHANGED <<reader, udpCh, avail, wpc, wmsg>>
      BY <1>2 DEF MirrorTake, Typed
    <2>2. /\ \A i \in DOMAIN mCh' : i + 1 \in DOMAIN mCh /\ i + 1 # 1 /\ mCh'[i] = mCh[i + 1]
          /\ \A i, j \in DOMAIN mCh' : i # j => i + 1 # j + 1
          /\ mCh' \in Seq(Msgs)
      BY <2>1
    <2>3. Typed'
      BY Zenon, <1>2, <2>1, <2>2 DEF MirrorTake, Typed, ReaderHolds
    <2>4. ExclusiveBuffers(Held)'
      BY ZenonT(60), <2>1 DEF Owned, ExclusiveBuffers, ReaderHolds
    <2>5. MirrorExclusive(Held)'
      BY <2>1, <2>2 DEF Owned, MirrorExclusive, ReaderHolds
    <2>6. QED
      BY ZenonT(60), <2>3, <2>4, <2>5 DEF Owned
  <1>3. ASSUME NEW m \in mirrorHeld, MirrorPut(m)
        PROVE  Typed' /\ Owned'
    <2>1. /\ mirrorHeld' = mirrorHeld \ {m} /\ avail' = avail \cup {m.body}
          /\ UNCHANGED <<reader, udpCh, wpc, wmsg, mCh>>
      BY Zenon, <1>3 DEF MirrorPut
    <2>2. m.body \in Buffers
      BY Zenon DEF Typed, Msgs
    <2>3. Typed'
      BY ZenonT(60), <1>3, <2>1, <2>2 DEF MirrorPut, Typed, ReaderHolds
    <2>4. ExclusiveBuffers(Held)'
      BY <2>1 DEF Owned, ExclusiveBuffers, MirrorExclusive, ReaderHolds
    <2>5. MirrorExclusive(Held)'
      BY <2>1 DEF Owned, MirrorExclusive, ReaderHolds
    <2>6. QED
      BY Zenon, <2>3, <2>4, <2>5 DEF Owned
  <1>4. QED
    BY Zenon, <1>1, <1>2, <1>3 DEF MirrorSide

(* shutdown, the producer and dynWorkers touch no buffer. *)
LEMMA OthersTypedOwned ==
    ASSUME Typed, Owned,
           IPFIXShutdown \/ IPFIXProduce \/ \E w \in Workers : IPFIXPool(w)
    PROVE  Typed' /\ Owned'
  <1> USE DEF mirrorVars, procVars, bufVars, workVars
  <1>1. CASE IPFIXShutdown
    <2>1. UNCHANGED <<reader, udpCh, avail, mem, wpc, wmsg, mqCh, UDPCount, fate, mCh, mirrorHeld>>
      BY Zenon, <1>1 DEF IPFIXShutdown, Shutdown, Stop, Close, Exit
    <2>2. SameOwners
      BY Zenon, <2>1 DEF SameOwners, ReaderHolds
    <2>3. QED
      BY Zenon, <2>1, <2>2, OwnersStay DEF Typed, ReaderHolds
  <1>2. CASE IPFIXProduce
    <2>1. UNCHANGED <<reader, udpCh, avail, mem, wpc, wmsg, UDPCount, fate, mCh, mirrorHeld>>
      BY ZenonT(60), <1>2 DEF IPFIXProduce, Produce
    <2>2. mqCh' \in Seq(Produced)
      BY <1>2 DEF IPFIXProduce, Produce, Typed
    <2>3. SameOwners
      BY Zenon, <2>1 DEF SameOwners, ReaderHolds
    <2>4. QED
      BY Zenon, <2>1, <2>2, <2>3, OwnersStay DEF Typed, ReaderHolds
  <1>3. ASSUME NEW w \in Workers, IPFIXPool(w)
        PROVE  Typed' /\ Owned'
    <2>1. UNCHANGED <<reader, udpCh, avail, mem, wmsg, mqCh, UDPCount, fate, mCh, mirrorHeld>>
      BY Zenon, <1>3 DEF IPFIXPool, Spawn, Retire
    <2>2. wpc' \in [Workers -> Places] /\ \A v \in Workers : wpc'[v] \in Held <=> wpc[v] \in Held
      BY ZenonT(60), <1>3 DEF IPFIXPool, Spawn, Retire, Typed, Places, Held
    <2>3. SameOwners
      BY <2>1, <2>2 DEF SameOwners, ReaderHolds
    <2>4. QED
      BY Zenon, <2>1, <2>2, <2>3, OwnersStay DEF Typed, ReaderHolds
  <1>4. QED
    BY Zenon, <1>1, <1>2, <1>3

(* Typed and Owned together are inductive. *)
LEMMA OwnershipStep ==
    ASSUME Typed, Owned, CommonNext \/ UNCHANGED ipfixVars
    PROVE  Typed' /\ Owned'
  <1>1. CASE UNCHANGED ipfixVars
    BY <1>1 DEF ipfixVars, vars, mirrorVars, Typed, ReaderHolds, Owned, ExclusiveBuffers, MirrorExclusive
  <1>2. CASE CommonNext
    BY Zenon, <1>2, ReaderTyped, ReaderOwnership, WorkerTyped, WorkerOwnership, MirrorTypedOwned,
       OthersTypedOwned DEF CommonNext
  <1>3. QED
    BY Zenon, <1>1, <1>2
-----------------------------------------------------------------------------
(* The rest of the types: the channels never hold more than their capacity. *)
Bounded ==
    /\ proc \in {"up", "panic", "exit"} /\ down \in {"no", "stopping", "closed"}
    /\ told \subseteq Workers
    /\ ipfixMirrorEnabled \in BOOLEAN
    /\ DecodedCount \in Nat
    /\ Len(udpCh) <= UDPCap /\ Len(mqCh) <= MQCap /\ Len(mCh) <= MCap

(* A channel after a send and after a receive. *)
LEMMA ChannelLengths ==
    ASSUME NEW S, NEW s \in Seq(S), NEW e \in S
    PROVE  Len(Append(s, e)) = Len(s) + 1 /\ (s # <<>> => Len(Tail(s)) = Len(s) - 1) /\ Len(s) \in Nat
  OBVIOUS

(* The channels start empty. *)
LEMMA BoundedInit == CollectorsInit => Bounded
  <1> SUFFICES ASSUME CollectorsInit
               PROVE  Bounded
    OBVIOUS
  <1>1. Init /\ NoMirror
    BY Zenon, StartsEmpty
  <1>2. Len(udpCh) = 0 /\ Len(mqCh) = 0 /\ Len(mCh) = 0 /\ DecodedCount \in Nat
    BY Zenon, <1>1 DEF Init, NoMirror
  <1>3. Len(udpCh) <= UDPCap /\ Len(mqCh) <= MQCap /\ Len(mCh) <= MCap
    BY <1>2, CollectorAssumption, MirrorAssumption
  <1>4. QED
    BY Zenon, <1>1, <1>2, <1>3 DEF Init, NoMirror, Bounded

(* A send to the producer or to the mirror takes place only with room. *)
LEMMA WorkerBounded ==
    ASSUME Typed, Bounded, NEW w \in Workers, CommonWorker(w)
    PROVE  Bounded'
  <1> USE DEF mirrorVars, procVars, bufVars, workVars
  <1>1. DecodedCount + 1 \in Nat
    BY DEF Bounded
  <1>2. DecodedCount' \in Nat
    BY ZenonT(60), <1>1 DEF Bounded, CommonWorker, WorkerStart, MirrorCopy, PutStep, LeaveStep, SelectQuit,
             SelectClosed, Leave, MsgStep, SelectMsg, WorkStep, EmitStep, Counts
  <1>3. CASE PutStep(w) \/ LeaveStep(w) \/ WorkStep(w) \/ \E b \in Buffers : WorkerStart(w, b)
    <2>1. UNCHANGED <<proc, down, ipfixMirrorEnabled, udpCh, mqCh, mCh>> /\ told' \subseteq Workers
      BY ZenonT(60), <1>3 DEF Bounded, PutStep, Put, LeaveStep, SelectQuit, SelectClosed, Leave,
             WorkStep, Proceed, WorkerStart
    <2>2. QED
      BY Zenon, <1>2, <2>1 DEF Bounded
  <1>4. CASE MsgStep(w)
    <2>1. UNCHANGED <<proc, down, ipfixMirrorEnabled, told, mqCh, mCh>> /\ udpCh' = Tail(udpCh) /\ udpCh # <<>>
      BY ZenonT(60), <1>4 DEF MsgStep, SelectMsg
    <2>2. Len(udpCh') <= UDPCap
      BY <2>1, CollectorAssumption DEF Typed, Bounded
    <2>3. QED
      BY Zenon, <1>2, <2>1, <2>2 DEF Bounded
  <1>5. ASSUME NEW b \in Buffers, MirrorCopy(w, b)
        PROVE  Bounded'
    <2>1. /\ UNCHANGED <<proc, down, ipfixMirrorEnabled, told, udpCh, mqCh>>
          /\ \/ Len(mCh) < MCap /\ mCh' = Append(mCh, [id |-> wmsg[w].id, body |-> b])
             \/ mCh' = mCh
          /\ wmsg[w] \in Msgs /\ mCh \in Seq(Msgs)
      BY ZenonT(60), <1>5 DEF MirrorCopy, Typed, Held
    <2>2. [id |-> wmsg[w].id, body |-> b] \in Msgs
      BY ZenonT(60), <2>1 DEF Msgs
    <2>3. Len(mCh') <= MCap
      BY <2>1, <2>2, ChannelLengths, MirrorAssumption DEF Bounded
    <2>4. QED
      BY Zenon, <1>2, <2>1, <2>3 DEF Bounded
  <1>6. CASE EmitStep(w)
    <2>1. /\ UNCHANGED <<proc, down, ipfixMirrorEnabled, told, udpCh, mCh>>
          /\ \/ Len(mqCh) < MQCap /\ mqCh' = Append(mqCh, [id |-> wmsg[w].id, data |-> mem[wmsg[w].body]])
             \/ mqCh' = mqCh
          /\ wmsg[w] \in Msgs /\ mqCh \in Seq(Produced) /\ mem \in [Buffers -> 0..MaxDatagrams]
      BY ZenonT(60), <1>6 DEF EmitStep, Emit, Typed, Held
    <2>2. [id |-> wmsg[w].id, data |-> mem[wmsg[w].body]] \in Produced
      BY Zenon, <2>1 DEF Msgs, Produced
    <2>3. Len(mqCh') <= MQCap
      BY <2>1, <2>2, ChannelLengths, CollectorAssumption DEF Bounded
    <2>4. QED
      BY Zenon, <1>2, <2>1, <2>3 DEF Bounded
  <1>7. QED
    BY Zenon, <1>3, <1>4, <1>5, <1>6 DEF CommonWorker

(* The reader waits for room in the UDP channel. *)
LEMMA BoundedStep ==
    ASSUME Typed, Bounded, CommonNext \/ UNCHANGED ipfixVars
    PROVE  Bounded'
  <1> USE DEF mirrorVars, procVars, bufVars, workVars
  <1>1. CASE IPFIXReader
    <2>1. CASE ReaderSend
      <3>1. UNCHANGED <<proc, down, ipfixMirrorEnabled, told, DecodedCount, mqCh, mCh>>
        BY Zenon, <1>1, <2>1 DEF IPFIXReader, ReaderSend
      <3>2. [id |-> UDPCount, body |-> reader.body] \in Msgs
        BY Zenon, <2>1 DEF ReaderSend, Typed, ReaderHolds, Msgs
      <3>3. Len(udpCh') <= UDPCap
        BY <2>1, <3>2, ChannelLengths, CollectorAssumption DEF ReaderSend, Typed
      <3>4. QED
        BY Zenon, <3>1, <3>3 DEF Bounded
    <2>2. CASE ReaderStop \/ ReadError \/ ReadFromUDP \/ SendOnClosed \/ \E b \in Buffers : ReaderGet(b)
      <3>1. /\ UNCHANGED <<down, ipfixMirrorEnabled, told, DecodedCount, udpCh, mqCh, mCh>>
            /\ proc' = proc \/ proc' = "panic"
        BY Zenon, <1>1, <2>2 DEF IPFIXReader, ReaderStop, ReadError, ReadFromUDP, SendOnClosed, ReaderGet
      <3>2. QED
        BY Zenon, <3>1 DEF Bounded
    <2>3. QED
      BY Zenon, <1>1, <2>1, <2>2 DEF IPFIXReader, Reader
  <1>2. CASE IPFIXShutdown \/ \E w \in Workers : IPFIXPool(w)
    <2>1. /\ UNCHANGED <<ipfixMirrorEnabled, DecodedCount, udpCh, mqCh, mCh>>
          /\ proc' = proc \/ proc' = "exit"
          /\ down' = down \/ down' = "stopping" \/ down' = "closed"
          /\ told' = told \/ \E w \in Workers : told' = told \cup {w}
      BY ZenonT(60), <1>2 DEF IPFIXShutdown, Shutdown, Stop, Close, Exit, IPFIXPool, Spawn, Retire
    <2>2. QED
      BY Zenon, <2>1 DEF Bounded
  <1>3. CASE IPFIXProduce
    <2>1. /\ UNCHANGED <<proc, down, ipfixMirrorEnabled, told, DecodedCount, udpCh, mCh>>
          /\ mqCh # <<>> /\ mqCh' = Tail(mqCh)
      BY Zenon, <1>3 DEF IPFIXProduce, Produce
    <2>2. Len(mqCh') <= MQCap
      BY <2>1, CollectorAssumption DEF Typed, Bounded
    <2>3. QED
      BY Zenon, <2>1, <2>2 DEF Bounded
  <1>4. CASE MirrorSide
    <2>1. /\ UNCHANGED <<proc, down, told, DecodedCount, udpCh, mqCh>>
          /\ ipfixMirrorEnabled' = ipfixMirrorEnabled \/ ipfixMirrorEnabled' = TRUE
          /\ mCh' = mCh \/ (mCh # <<>> /\ mCh' = Tail(mCh))
      BY ZenonT(60), <1>4 DEF MirrorSide, MirrorEnable, MirrorTake, MirrorPut, vars
    <2>2. Len(mCh') <= MCap
      BY <2>1, MirrorAssumption DEF Typed, Bounded
    <2>3. QED
      BY Zenon, <2>1, <2>2 DEF Bounded
  <1>5. CASE UNCHANGED ipfixVars
    BY Zenon, <1>5 DEF ipfixVars, vars, Bounded
  <1>6. QED
    BY Zenon, <1>1, <1>2, <1>3, <1>4, <1>5, WorkerBounded DEF CommonNext
-----------------------------------------------------------------------------
(* The states of each of the three loops, where a worker stays. *)
IPFIXPlaces == {"off", "start", "top", "select", "mirror", "decode", "marshal"}
NF9Places == {"off", "start", "top", "select", "decode", "marshal"}
SFPlaces == {"off", "start", "select", "decode", "marshal", "put"}

InLoop ==
    /\ proto = "ipfix" => wpc \in [Workers -> IPFIXPlaces]
    /\ proto = "netflow9" => wpc \in [Workers -> NF9Places]
    /\ proto = "sflow" => wpc \in [Workers -> SFPlaces]

(* A worker is started by run or by dynWorkers. *)
LEMMA LoopInit == CollectorsInit => InLoop
  BY Zenon, StartsEmpty DEF Init, InLoop, IPFIXPlaces, NF9Places, SFPlaces

(* A worker that is moved to a state of its loop. *)
LEMMA Moved ==
    ASSUME NEW S, wpc \in [Workers -> S], NEW w \in Workers, NEW p \in S, wpc' = [wpc EXCEPT ![w] = p]
    PROVE  wpc' \in [Workers -> S]
  OBVIOUS

(* Nobody else moves a worker, except to start it. *)
LEMMA OthersInLoop ==
    ASSUME NEW S, wpc \in [Workers -> S], "start" \in S,
           Reader \/ Shutdown \/ Produce \/ MirrorSide \/ \E w \in Workers : Spawn(w) \/ Retire(w)
    PROVE  wpc' \in [Workers -> S]
  <1> USE DEF procVars, bufVars, workVars, vars
  <1>1. CASE \E w \in Workers : Spawn(w) \/ Retire(w)
    BY Zenon, <1>1, Moved DEF Spawn, Retire
  <1>2. CASE Reader \/ Shutdown
    BY Zenon, <1>2 DEF Reader, ReaderStop, ReaderGet, ReadError, ReadFromUDP, ReaderSend, SendOnClosed, Shutdown,
                       Stop, Close, Exit
  <1>3. CASE Produce \/ MirrorSide
    BY Zenon, <1>3 DEF Produce, MirrorSide, MirrorEnable, MirrorTake, MirrorPut
  <1>4. QED
    BY Zenon, <1>1, <1>2, <1>3

(* Every worker stays in the loop of its collector. *)
LEMMA LoopStep ==
    ASSUME InLoop, [CollectorsNext]_collectorsVars
    PROVE  InLoop'
  <1> USE DEF procVars, bufVars, workVars
  <1>1. CASE proto = "ipfix" /\ IPFIXNext /\ UNCHANGED proto
    <2>1. wpc \in [Workers -> IPFIXPlaces] /\ "start" \in IPFIXPlaces
      BY Zenon, <1>1 DEF InLoop, IPFIXPlaces
    <2>2. ASSUME NEW w \in Workers, ipfixWorker(w)
          PROVE  \E p \in IPFIXPlaces : wpc' = [wpc EXCEPT ![w] = p]
      BY ZenonT(60), <2>2 DEF ipfixWorker, WorkerStart, LoopTop, Put, LoopSelect, Select, SelectQuit, SelectClosed,
             SelectMsg, Leave, MirrorCopy, MirrorSkip, DecodeFail, DecodeEmpty, DecodeData, MarshalFail,
             MarshalSend, Proceed, Emit, IPFIXPlaces
    <2>3. wpc' \in [Workers -> IPFIXPlaces]
      BY Zenon, <1>1, <2>1, <2>2, Moved, OthersInLoop
         DEF IPFIXNext, IPFIXReader, IPFIXShutdown, IPFIXProduce, IPFIXPool
    <2>4. QED
      BY Zenon, <1>1, <2>3 DEF InLoop
  <1>2. CASE proto = "netflow9" /\ NF9Next /\ UNCHANGED proto
    <2>1. wpc \in [Workers -> NF9Places] /\ "start" \in NF9Places
      BY Zenon, <1>2 DEF InLoop, NF9Places
    <2>2. ASSUME NEW w \in Workers, netflowV9Worker(w)
          PROVE  \E p \in NF9Places : wpc' = [wpc EXCEPT ![w] = p]
      BY ZenonT(60), <2>2 DEF netflowV9Worker, NF9Start, NF9Top, Put, NF9Select, Select, SelectQuit, SelectClosed,
             SelectMsg, Leave, NF9DecodeFail, NF9DecodeEmpty, NF9DecodeData, NF9MarshalFail,
             NF9MarshalSend, Proceed, Emit, NF9Places
    <2>3. wpc' \in [Workers -> NF9Places]
      BY Zenon, <1>2, <2>1, <2>2, Moved, OthersInLoop DEF NF9Next, NF9Run, NF9Shutdown, NF9DynWorkers
    <2>4. QED
      BY Zenon, <1>2, <2>3 DEF InLoop
  <1>3. CASE proto = "sflow" /\ SFNext /\ UNCHANGED proto
    <2>1. wpc \in [Workers -> SFPlaces] /\ "start" \in SFPlaces
      BY Zenon, <1>3 DEF InLoop, SFPlaces
    <2>2. ASSUME NEW w \in Workers, sFlowWorker(w)
          PROVE  \E p \in SFPlaces : wpc' = [wpc EXCEPT ![w] = p]
      BY ZenonT(60), <2>2 DEF sFlowWorker, SFStart, SFSelect, Put, Select, SelectQuit, SelectClosed,
             SelectMsg, Leave, SFDecodeFail, SFDecode, SFMarshalFail, SFMarshalSend, SFPut, Proceed,
             Emit, SFPlaces
    <2>3. wpc' \in [Workers -> SFPlaces]
      BY Zenon, <1>3, <2>1, <2>2, Moved, OthersInLoop DEF SFNext, SFRun, SFShutdown, SFDynWorkers
    <2>4. QED
      BY Zenon, <1>3, <2>3 DEF InLoop
  <1>4. CASE UNCHANGED collectorsVars
    BY Zenon, <1>4 DEF collectorsVars, ipfixVars, vars, InLoop
  <1>5. QED
    BY Zenon, <1>1, <1>2, <1>3, <1>4 DEF CollectorsNext

(* The inductive invariant of the buffers. *)
Safe == Typed /\ Owned /\ Bounded /\ InLoop

(* It holds at the start ... *)
LEMMA SafeInit == CollectorsInit => Safe
  BY Zenon, StartsEmpty, TypedInit, OwnershipInit, BoundedInit, LoopInit DEF Safe

(* ... and every step of a collector keeps it. *)
LEMMA SafeStep == Safe /\ [CollectorsNext]_collectorsVars => Safe'
  <1> SUFFICES ASSUME Safe, [CollectorsNext]_collectorsVars
               PROVE  Safe'
    OBVIOUS
  <1>1. CommonNext \/ UNCHANGED ipfixVars
    BY Zenon, CollectorsCommon
  <1>2. Typed' /\ Owned' /\ Bounded'
    BY Zenon, <1>1, OwnershipStep, BoundedStep DEF Safe
  <1>3. InLoop'
    BY Zenon, LoopStep DEF Safe
  <1>4. QED
    BY Zenon, <1>2, <1>3 DEF Safe

(* A collector's own types and owners are among the common ones. *)
LEMMA SafeOwned ==
    ASSUME Safe
    PROVE  SlicesOwned
  <1>1. ASSUME NEW S, wpc \in [Workers -> S]
        PROVE  CollectorTypeOK(S)
    BY Zenon, <1>1 DEF Safe, Typed, Bounded, CollectorTypeOK, Produced
  <1>2. ASSUME NEW S, S \subseteq Held
        PROVE  ExclusiveBuffers(S)
    <2>1. \A w \in Workers : wpc[w] \in S => wpc[w] \in Held
      BY Zenon, <1>2
    <2>2. QED
      BY Zenon, <2>1 DEF Safe, Owned, ExclusiveBuffers
  <1>3. MirrorExclusive(Holding)
    <2>1. \A w \in Workers : wpc[w] \in Holding => wpc[w] \in Held
      BY Zenon DEF Holding, Held
    <2>2. QED
      BY Zenon, <2>1 DEF Safe, Owned, MirrorExclusive
  <1>4. Holding \subseteq Held /\ NF9Holding \subseteq Held /\ SFHolding \subseteq Held
    BY Zenon DEF Holding, NF9Holding, SFHolding, Held
  <1>5. proto = "ipfix" => IPFIXTypeOK /\ BufferOwnership
    BY Zenon, <1>1, <1>2, <1>3, <1>4
       DEF Safe, Typed, Bounded, InLoop, IPFIXPlaces, IPFIXTypeOK, BufferOwnership
  <1>6. proto = "netflow9" => NF9TypeOK /\ NF9BufferOwnership
    BY Zenon, <1>1, <1>2, <1>4 DEF Safe, InLoop, NF9Places, NF9TypeOK, NF9BufferOwnership
  <1>7. proto = "sflow" => SFTypeOK /\ SFBufferOwnership
    BY Zenon, <1>1, <1>2, <1>4 DEF Safe, InLoop, SFPlaces, SFTypeOK, SFBufferOwnership
  <1>8. QED
    BY Zenon, <1>5, <1>6, <1>7 DEF SlicesOwned

(* In no state of the IPFIX, the NetFlow v9 and the sFlow collector does a *)
(* byte slice have two users.  Get and Put are balanced along every path   *)
(* of run, of the worker loops and of the mirror, however many workers     *)
(* there are, and no channel holds more than its capacity.                 *)
THEOREM CollectorsOwnSlices == CollectorsSpec => []SlicesOwned
  BY SafeInit, SafeStep, SafeOwned, PTL DEF CollectorsSpec

-----------------------------------------------------------------------------
(* The bytes and the fate of the datagrams. *)

(* What PayloadIntact depends on, apart from the messages for the producer. *)
SameBytes ==
    /\ reader'.pc = "send" => reader.pc = "send" /\ reader'.body = reader.body
    /\ UNCHANGED <<udpCh, mem, wmsg, mCh, mirrorHeld, UDPCount>>
    /\ \A w \in Workers : wpc'[w] \in Busy => wpc[w] \in Busy

(* Steps that neither write to a buffer nor hand one on. *)
LEMMA BytesStay ==
    ASSUME PayloadIntact, SameBytes, \A i \in DOMAIN mqCh' : mqCh'[i].data = mqCh'[i].id
    PROVE  PayloadIntact'
  BY DEF PayloadIntact, FaithfulBytes, SameBytes

(* Whoever has a message has the buffer of the message. *)
LEMMA BodiesAreBuffers ==
    ASSUME Typed
    PROVE  /\ \A i \in DOMAIN udpCh : udpCh[i].body \in Buffers
           /\ \A i \in DOMAIN mCh : mCh[i].body \in Buffers
           /\ \A m \in mirrorHeld : m.body \in Buffers
           /\ \A w \in Workers : wpc[w] \in Busy => wmsg[w].body \in Buffers /\ wpc[w] \in Held
  <1>1. \A m \in Msgs : m.body \in Buffers
    BY DEF Msgs
  <1>2. \A i \in DOMAIN udpCh : udpCh[i] \in Msgs
    BY DEF Typed
  <1>3. \A i \in DOMAIN mCh : mCh[i] \in Msgs
    BY DEF Typed
  <1>4. \A w \in Workers : wpc[w] \in Busy => wmsg[w] \in Msgs /\ wpc[w] \in Held
    BY DEF Typed, Busy, Held
  <1>5. mirrorHeld \subseteq Msgs
    BY DEF Typed
  <1>6. QED
    BY <1>1, <1>2, <1>3, <1>4, <1>5

(* The reader writes to a buffer nobody else has. *)
LEMMA ReaderPayload ==
    ASSUME Typed, Owned, PayloadIntact, IPFIXReader
    PROVE  PayloadIntact'
  <1> USE DEF IPFIXReader, mirrorVars, procVars, bufVars, workVars
  <1>0. mqCh' = mqCh
    BY DEF Reader, ReaderStop, ReaderGet, ReadError, ReadFromUDP, ReaderSend, SendOnClosed
  <1>1. ASSUME ReaderStop \/ SendOnClosed \/ ReadError \/ \E b \in Buffers : ReaderGet(b)
        PROVE  PayloadIntact'
    <2>1. SameBytes
      BY <1>1 DEF ReaderStop, ReadError, ReaderGet, SendOnClosed, SameBytes, Typed
    <2>2. QED
      BY ZenonT(60), <1>0, <2>1, BytesStay DEF PayloadIntact, FaithfulBytes
  <1>2. CASE ReadFromUDP
    <2>1. /\ ReaderHolds /\ reader.body \in Buffers /\ mem'[reader.body] = UDPCount'
          /\ \A b \in Buffers : b # reader.body => mem'[b] = mem[b]
          /\ reader'.body = reader.body
          /\ UNCHANGED <<udpCh, wpc, wmsg, mCh, mirrorHeld>>
      BY <1>2 DEF ReadFromUDP, ReaderHolds, Typed
    <2>2. FaithfulBytes(Busy)'
      BY ZenonT(60), <1>0, <2>1, BodiesAreBuffers DEF PayloadIntact, FaithfulBytes, Owned, ExclusiveBuffers
    <2>3. QED
      BY <2>1, <2>2, BodiesAreBuffers DEF PayloadIntact, Owned, MirrorExclusive
  <1>3. CASE ReaderSend
    <2> DEFINE m == [id |-> UDPCount, body |-> reader.body]
               n == Len(udpCh) + 1
    <2>1. udpCh \in Seq(Msgs) /\ m \in Msgs /\ udpCh' = Append(udpCh, m)
      BY Zenon, <1>3 DEF ReaderSend, Typed, ReaderHolds, Msgs
    <2>2. \A i \in DOMAIN udpCh' : \/ i \in DOMAIN udpCh /\ udpCh'[i] = udpCh[i]
                                   \/ i = n /\ udpCh'[i] = m
      BY <2>1
    <2>3. m.id = UDPCount /\ m.body = reader.body
      BY Zenon
    <2> HIDE DEF m, n
    <2>4. /\ reader'.pc # "send" /\ reader.pc = "send"
          /\ UNCHANGED <<mem, wpc, wmsg, mCh, mirrorHeld, UDPCount>>
      BY Zenon, <1>3 DEF ReaderSend
    <2>5. QED
      BY ZenonT(60), <1>0, <2>2, <2>3, <2>4 DEF PayloadIntact, FaithfulBytes
  <1>4. QED
    BY <1>1, <1>2, <1>3 DEF Reader

(* A worker writes to a buffer only for the mirror, and to a new one. *)
LEMMA WorkerPayload ==
    ASSUME Typed, Owned, PayloadIntact, NEW w \in Workers, CommonWorker(w)
    PROVE  PayloadIntact'
  <1> USE DEF mirrorVars, procVars, bufVars, workVars
  <1>1. CASE WorkStep(w)
    <2>1. SameBytes /\ mqCh' = mqCh
      BY ZenonT(60), <1>1 DEF WorkStep, Proceed, SameBytes, Typed
    <2>2. QED
      BY Zenon, <2>1, BytesStay DEF PayloadIntact, FaithfulBytes
  <1>2. CASE LeaveStep(w)
    <2>1. SameBytes /\ mqCh' = mqCh
      BY Zenon, <1>2 DEF LeaveStep, SelectQuit, SelectClosed, Leave, SameBytes, Typed, Busy
    <2>2. QED
      BY Zenon, <2>1, BytesStay DEF PayloadIntact, FaithfulBytes
  <1>3. CASE EmitStep(w)
    <2> DEFINE m == [id |-> wmsg[w].id, data |-> mem[wmsg[w].body]]
               n == Len(mqCh) + 1
    <2>1. SameBytes /\ wpc[w] \in Busy /\ mqCh \in Seq(Produced) /\ wmsg[w] \in Msgs
      BY ZenonT(60), <1>3 DEF EmitStep, Emit, SameBytes, Typed, Busy, Held
    <2>2. m \in Produced /\ m.data = m.id
      BY Zenon, <2>1 DEF Produced, Msgs, Typed, PayloadIntact, FaithfulBytes
    <2>3. mqCh' = mqCh \/ mqCh' = Append(mqCh, m)
      BY Zenon, <1>3 DEF EmitStep, Emit
    <2> HIDE DEF m, n
    <2>4. \A i \in DOMAIN mqCh' : mqCh'[i].data = mqCh'[i].id
      <3>1. CASE mqCh' = mqCh
        BY Zenon, <3>1 DEF PayloadIntact, FaithfulBytes
      <3>2. CASE mqCh' = Append(mqCh, m)
        <4>1. \A i \in DOMAIN mqCh' : \/ i \in DOMAIN mqCh /\ mqCh'[i] = mqCh[i]
                                      \/ i = Len(mqCh) + 1 /\ mqCh'[i] = m
          BY <2>1, <2>2, <3>2
        <4>2. QED
          BY Zenon, <2>2, <4>1 DEF PayloadIntact, FaithfulBytes
      <3>3. QED
        BY Zenon, <2>3, <3>1, <3>2
    <2>5. QED
      BY Zenon, <2>1, <2>4, BytesStay
  <1>4. ASSUME PutStep(w) \/ \E b \in Buffers : WorkerStart(w, b)
        PROVE  PayloadIntact'
    <2>1. /\ wpc'[w] \notin Busy
          /\ \A v \in Workers : v # w => wmsg'[v] = wmsg[v] /\ wpc'[v] = wpc[v]
          /\ UNCHANGED <<reader, udpCh, mem, mCh, mirrorHeld, mqCh, UDPCount>>
      BY ZenonT(60), <1>4 DEF PutStep, Put, WorkerStart, Typed, Busy
    <2>2. QED
      BY ZenonT(60), <2>1 DEF PayloadIntact, FaithfulBytes
  <1>5. CASE MsgStep(w)
    <2>1. /\ udpCh \in Seq(Msgs) /\ udpCh # <<>> /\ udpCh' = Tail(udpCh)
          /\ wmsg'[w] = Head(udpCh)
          /\ \A v \in Workers : v # w => wmsg'[v] = wmsg[v] /\ wpc'[v] = wpc[v]
          /\ UNCHANGED <<reader, mem, mCh, mirrorHeld, mqCh, UDPCount>>
      BY ZenonT(60), <1>5 DEF MsgStep, SelectMsg, Typed
    <2>2. /\ \A i \in DOMAIN udpCh' : i + 1 \in DOMAIN udpCh /\ udpCh'[i] = udpCh[i + 1]
          /\ Head(udpCh) = udpCh[1] /\ 1 \in DOMAIN udpCh
      BY <2>1
    <2>3. QED
      BY <2>1, <2>2 DEF PayloadIntact, FaithfulBytes
  <1>6. ASSUME NEW b \in Buffers, MirrorCopy(w, b)
        PROVE  PayloadIntact'
    <2>1. /\ b \in avail /\ wpc[w] \in Busy
          /\ mem'[b] = mem[wmsg[w].body] /\ \A c \in Buffers : c # b => mem'[c] = mem[c]
          /\ \A v \in Workers : wpc'[v] \in Busy => wpc[v] \in Busy
          /\ UNCHANGED <<reader, udpCh, wmsg, mirrorHeld, mqCh, UDPCount>>
      BY Zenon, <1>6 DEF MirrorCopy, Typed, Busy
    <2>2. reader.pc = "send" => ReaderHolds /\ reader.body \in Buffers
      BY ZenonT(60) DEF Typed, ReaderHolds
    <2>3. FaithfulBytes(Busy)'
      BY <2>1, <2>2, BodiesAreBuffers
         DEF PayloadIntact, FaithfulBytes, Owned, ExclusiveBuffers
    <2>4. \A m \in mirrorHeld' : mem'[m.body] = m.id
      BY ZenonT(60), <2>1, BodiesAreBuffers DEF PayloadIntact, Owned, MirrorExclusive
    <2>5. \A i \in DOMAIN mCh' : mem'[mCh'[i].body] = mCh'[i].id
      <3> DEFINE m == [id |-> wmsg[w].id, body |-> b]
      <3>1. mCh \in Seq(Msgs) /\ m \in Msgs /\ m.id = wmsg[w].id /\ m.body = b
        BY Zenon, <2>1 DEF Typed, Msgs, Busy, Held
      <3>2. mCh' = mCh \/ mCh' = Append(mCh, m)
        BY Zenon, <1>6 DEF MirrorCopy
      <3> HIDE DEF m
      <3>3. \A i \in DOMAIN mCh' : \/ i \in DOMAIN mCh /\ mCh'[i] = mCh[i]
                                   \/ i = Len(mCh) + 1 /\ mCh'[i] = m
        <4>1. CASE mCh' = mCh
          BY ZenonT(60), <4>1
        <4>2. CASE mCh' = Append(mCh, m)
          BY <3>1, <4>2
        <4>3. QED
          BY Zenon, <3>2, <4>1, <4>2
      <3>4. mem'[b] = wmsg[w].id
        BY Zenon, <2>1 DEF PayloadIntact, FaithfulBytes
      <3>5. QED
        BY <2>1, <3>1, <3>3, <3>4, BodiesAreBuffers DEF PayloadIntact, Owned, MirrorExclusive
    <2>6. QED
      BY Zenon, <2>3, <2>4, <2>5 DEF PayloadIntact
  <1>7. QED
    BY Zenon, <1>1, <1>2, <1>3, <1>4, <1>5, <1>6 DEF CommonWorker

(* The others write to no buffer. *)
LEMMA OthersPayload ==
    ASSUME Typed, PayloadIntact,
           MirrorSide \/ IPFIXShutdown \/ IPFIXProduce \/ \E w \in Workers : IPFIXPool(w)
    PROVE  PayloadIntact'
  <1> USE DEF vars, mirrorVars, procVars, bufVars, workVars
  <1>1. CASE IPFIXShutdown \/ MirrorEnable \/ \E w \in Workers : IPFIXPool(w)
    <2>1. SameBytes /\ mqCh' = mqCh
      BY ZenonT(60), <1>1 DEF IPFIXShutdown, Shutdown, Stop, Close, Exit, MirrorEnable, IPFIXPool, Spawn,
                  Retire, SameBytes, Typed, Busy
    <2>2. QED
      BY Zenon, <2>1, BytesStay DEF PayloadIntact, FaithfulBytes
  <1>2. CASE IPFIXProduce
    <2>1. SameBytes
      BY Zenon, <1>2 DEF IPFIXProduce, Produce, SameBytes
    <2>2. mqCh \in Seq(Produced) /\ mqCh # <<>> /\ mqCh' = Tail(mqCh)
      BY Zenon, <1>2 DEF IPFIXProduce, Produce, Typed
    <2>3. \A i \in DOMAIN mqCh' : i + 1 \in DOMAIN mqCh /\ mqCh'[i] = mqCh[i + 1]
      BY <2>2
    <2>4. \A i \in DOMAIN mqCh' : mqCh'[i].data = mqCh'[i].id
      BY ZenonT(60), <2>3 DEF PayloadIntact, FaithfulBytes
    <2>5. QED
      BY Zenon, <2>1, <2>4, BytesStay
  <1>3. CASE MirrorTake
    <2>1. /\ mCh \in Seq(Msgs) /\ mCh # <<>> /\ mCh' = Tail(mCh) /\ 1 \in DOMAIN mCh
          /\ mirrorHeld' = mirrorHeld \cup {mCh[1]}
          /\ UNCHANGED <<reader, udpCh, mem, wpc, wmsg, mqCh, UDPCount>>
      BY <1>3 DEF MirrorTake, Typed
    <2>2. \A i \in DOMAIN mCh' : i + 1 \in DOMAIN mCh /\ mCh'[i] = mCh[i + 1]
      BY <2>1
    <2>3. QED
      BY ZenonT(60), <2>1, <2>2 DEF PayloadIntact, FaithfulBytes
  <1>4. ASSUME NEW m \in mirrorHeld, MirrorPut(m)
        PROVE  PayloadIntact'
    BY <1>4 DEF MirrorPut, PayloadIntact, FaithfulBytes
  <1>5. QED
    BY Zenon, <1>1, <1>2, <1>3, <1>4 DEF MirrorSide

(* PayloadIntact is inductive with Typed and Owned. *)
LEMMA PayloadStep ==
    ASSUME Typed, Owned, PayloadIntact, CommonNext \/ UNCHANGED ipfixVars
    PROVE  PayloadIntact'
  <1>1. CASE UNCHANGED ipfixVars
    BY Zenon, <1>1 DEF ipfixVars, vars, mirrorVars, PayloadIntact, FaithfulBytes
  <1>2. QED
    BY Zenon, <1>1, ReaderPayload, WorkerPayload, OthersPayload DEF CommonNext

(* What the collectors decode, send to the producer and mirror is the      *)
(* datagram that arrived with the address and the length it goes with.     *)
THEOREM CollectorsKeepBytes == CollectorsSpec => []BytesIntact
  <1> DEFINE Inv == Safe /\ PayloadIntact
  <1>1. CollectorsInit => Inv
    <2>1. Init /\ NoMirror => PayloadIntact
      BY DEF Init, NoMirror, PayloadIntact, FaithfulBytes, Busy
    <2>2. QED
      BY Zenon, <2>1, SafeInit, StartsEmpty
  <1>2. Inv /\ [CollectorsNext]_collectorsVars => Inv'
    BY Zenon, SafeStep, PayloadStep, CollectorsCommon DEF Safe
  <1>3. Inv => BytesIntact
    <2>1. ASSUME NEW S, S \subseteq Busy, FaithfulBytes(Busy)
          PROVE  FaithfulBytes(S)
      BY Zenon, <2>1 DEF FaithfulBytes
    <2>2. NF9Busy \subseteq Busy /\ SFBusy \subseteq Busy
      BY Zenon DEF NF9Busy, SFBusy, Busy
    <2>3. QED
      BY Zenon, <2>1, <2>2 DEF BytesIntact, PayloadIntact, NF9PayloadIntact, SFPayloadIntact
  <1>4. QED
    BY <1>1, <1>2, <1>3, PTL DEF CollectorsSpec
-----------------------------------------------------------------------------
(* DatagramConserved with what makes it inductive: no worker has finished  *)
(* a datagram that has not been read.                                      *)
Conserved ==
    /\ DatagramConserved
    /\ \A d \in Datagrams : d > UDPCount => fate[d] = "none"

(* Nothing was read yet. *)
LEMMA ConservedInit == Init => Conserved
  <1> SUFFICES ASSUME Init
               PROVE  Conserved
    OBVIOUS
  <1>1. /\ reader.pc # "send"
        /\ DOMAIN udpCh = {}
        /\ \A w \in Workers : wpc[w] \notin Busy
        /\ \A d \in Datagrams : fate[d] = "none"
    BY DEF Init, Busy
  <1>2. 1..UDPCount = {}
    BY DEF Init
  <1>3. QED
    BY Zenon, <1>1, <1>2 DEF Conserved, DatagramConserved, HandledOnce, NoneLost

(* What Conserved depends on. *)
SameDatagrams ==
    /\ reader'.pc = "send" <=> reader.pc = "send"
    /\ UNCHANGED <<udpCh, UDPCount, fate>>
    /\ \A w \in Workers : /\ wpc'[w] \in Busy <=> wpc[w] \in Busy
                          /\ wpc[w] \in Busy => wmsg'[w] = wmsg[w]

(* Steps that neither read, receive nor finish a datagram. *)
LEMMA DatagramsStay ==
    ASSUME Conserved, SameDatagrams
    PROVE  Conserved'
  BY DEF Conserved, DatagramConserved, HandledOnce, NoneLost, SameDatagrams

(* Worker w finishes the datagram of its message. *)
Finishes(w) ==
    /\ wpc[w] \in Busy /\ wpc'[w] \notin Busy
    /\ fate'[wmsg[w].id] # "none"
    /\ \A d \in Datagrams : d # wmsg[w].id => fate'[d] = fate[d]
    /\ \A v \in Workers : v # w => wpc'[v] = wpc[v] /\ wmsg'[v] = wmsg[v]
    /\ UNCHANGED <<reader, udpCh, UDPCount>>

(* A datagram that is finished is nowhere else. *)
LEMMA FinishedOnce ==
    ASSUME Typed, Conserved, NEW w \in Workers, Finishes(w)
    PROVE  Conserved'
  <1>1. \A d \in 1..UDPCount : d \in Datagrams
    BY CollectorAssumption DEF Typed, Datagrams
  <1>2. UDPCount > 0 => UDPCount \in 1..UDPCount
    BY DEF Typed
  <1>3. HandledOnce(Busy)'
    BY <1>1, <1>2 DEF Conserved, DatagramConserved, HandledOnce, Finishes
  <1>4. NoneLost(Busy)'
    <2>1. \A d \in 1..UDPCount : fate'[d] = "none" => d # wmsg[w].id /\ fate[d] = "none"
      BY Zenon, <1>1 DEF Finishes
    <2>2. QED
      BY <2>1 DEF Conserved, DatagramConserved, NoneLost, Finishes
  <1>5. \A d \in Datagrams : d > UDPCount => d # wmsg[w].id
    BY DEF Conserved, DatagramConserved, HandledOnce, Finishes, Datagrams, Typed
  <1>6. QED
    BY Zenon, <1>3, <1>4, <1>5 DEF Conserved, DatagramConserved, Finishes

(* The reader counts a new datagram and hands it to the channel. *)
LEMMA ReaderConserved ==
    ASSUME Typed, Conserved, IPFIXReader
    PROVE  Conserved'
  <1> USE DEF IPFIXReader, mirrorVars, procVars, bufVars, workVars
  <1>1. ASSUME ReaderStop \/ SendOnClosed \/ ReadError \/ \E b \in Buffers : ReaderGet(b)
        PROVE  Conserved'
    <2>1. SameDatagrams
      BY <1>1 DEF ReaderStop, ReadError, ReaderGet, SendOnClosed, SameDatagrams, Typed
    <2>2. QED
      BY Zenon, <2>1, DatagramsStay
  <1>2. CASE ReadFromUDP
    <2>1. /\ reader.pc # "send" /\ reader'.pc = "send" /\ UDPCount' = UDPCount + 1
          /\ UDPCount \in Nat /\ UDPCount' \in Datagrams
          /\ UNCHANGED <<udpCh, wpc, wmsg, fate>>
      BY <1>2, CollectorAssumption DEF ReadFromUDP, Typed, Datagrams
    <2>2. /\ \A d \in 1..UDPCount : d \in 1..UDPCount' /\ d # UDPCount'
          /\ \A d \in 1..UDPCount' : d = UDPCount' \/ d \in 1..UDPCount
          /\ UDPCount' > 0 /\ fate[UDPCount'] = "none"
          /\ \A d \in Datagrams : d > UDPCount' => d > UDPCount
      BY <2>1 DEF Conserved, Datagrams
    <2>3. HandledOnce(Busy)'
      BY ZenonT(60), <2>1, <2>2 DEF Conserved, DatagramConserved, HandledOnce
    <2>4. NoneLost(Busy)'
      BY <2>1, <2>2 DEF Conserved, DatagramConserved, NoneLost
    <2>5. QED
      BY Zenon, <2>1, <2>2, <2>3, <2>4 DEF Conserved, DatagramConserved
  <1>3. CASE ReaderSend
    <2> DEFINE m == [id |-> UDPCount, body |-> reader.body]
               n == Len(udpCh) + 1
    <2>1. udpCh \in Seq(Msgs) /\ m \in Msgs /\ udpCh' = Append(udpCh, m)
      BY ZenonT(60), <1>3 DEF ReaderSend, Typed, ReaderHolds, Msgs
    <2>2. /\ \A i \in DOMAIN udpCh' : \/ i \in DOMAIN udpCh /\ udpCh'[i] = udpCh[i]
                                      \/ i = n /\ udpCh'[i] = m
          /\ \A i \in DOMAIN udpCh : i \in DOMAIN udpCh' /\ udpCh'[i] = udpCh[i]
          /\ n \in DOMAIN udpCh' /\ udpCh'[n] = m
      BY <2>1
    <2>3. m.id = UDPCount
      BY ZenonT(60)
    <2> HIDE DEF m, n
    <2>4. /\ reader'.pc # "send" /\ reader.pc = "send"
          /\ UDPCount > 0 => UDPCount \in 1..UDPCount
          /\ UNCHANGED <<wpc, wmsg, UDPCount, fate>>
      BY <1>3 DEF ReaderSend, Typed
    <2>5. HandledOnce(Busy)'
      BY <2>2, <2>3, <2>4 DEF Conserved, DatagramConserved, HandledOnce
    <2>6. NoneLost(Busy)'
      BY <2>2, <2>3, <2>4 DEF Conserved, DatagramConserved, NoneLost
    <2>7. QED
      BY <2>4, <2>5, <2>6 DEF Conserved, DatagramConserved
  <1>4. QED
    BY <1>1, <1>2, <1>3 DEF Reader

(* What a worker works on has been counted and is not finished. *)
LEMMA BusyUnfinished ==
    ASSUME Typed, Conserved, NEW w \in Workers, wpc[w] \in Busy
    PROVE  wmsg[w].id \in Datagrams /\ fate[wmsg[w].id] = "none"
  BY CollectorAssumption DEF Conserved, DatagramConserved, HandledOnce, Datagrams, Typed

(* A worker receives datagrams and finishes them. *)
LEMMA WorkerConserved ==
    ASSUME Typed, Conserved, NEW w \in Workers, CommonWorker(w)
    PROVE  Conserved'
  <1> USE DEF mirrorVars, procVars, bufVars, workVars
  <1>1. ASSUME \E b \in Buffers : MirrorCopy(w, b) \/ WorkerStart(w, b)
        PROVE  Conserved'
    <2>1. SameDatagrams
      BY ZenonT(60), <1>1 DEF MirrorCopy, WorkerStart, SameDatagrams, Typed, Busy
    <2>2. QED
      BY Zenon, <2>1, DatagramsStay
  <1>2. CASE LeaveStep(w)
    <2>1. SameDatagrams
      BY ZenonT(60), <1>2 DEF LeaveStep, SelectQuit, SelectClosed, Leave, SameDatagrams, Typed, Busy
    <2>2. QED
      BY Zenon, <2>1, DatagramsStay
  <1>3. ASSUME WorkStep(w) \/ PutStep(w) \/ EmitStep(w)
        PROVE  Conserved'
    <2>1. /\ \A v \in Workers : v # w => wpc'[v] = wpc[v] /\ wmsg'[v] = wmsg[v]
          /\ UNCHANGED <<reader, udpCh, UDPCount>>
      BY ZenonT(60), <1>3 DEF WorkStep, Proceed, PutStep, Put, EmitStep, Emit, Typed
    <2>2. CASE WorkStep(w)
      <3>1. PICK from, to \in Places : /\ to \in Busy => from \in Busy
                                       /\ Proceed(w, from, to) /\ Finish(w, from, to)
        BY Zenon, <2>2 DEF WorkStep
      <3>2. wpc[w] = from /\ wpc'[w] = to /\ wmsg' = wmsg
        BY Zenon, <3>1 DEF Proceed, Typed
      <3>3. CASE from \in Busy /\ to \notin Busy
        BY ZenonT(60), <2>1, <3>1, <3>2, <3>3, BusyUnfinished, FinishedOnce DEF Finish, Finishes, Typed
      <3>4. CASE from \in Busy <=> to \in Busy
        BY Zenon, <2>1, <3>1, <3>2, <3>4, DatagramsStay DEF Finish, SameDatagrams
      <3>5. QED
        BY Zenon, <3>1, <3>3, <3>4
    <2>3. CASE PutStep(w)
      <3>1. PICK from \in Held : Put(w, from, "select") /\ Finish(w, from, "select")
        BY Zenon, <2>3 DEF PutStep
      <3>2. wpc[w] = from /\ wpc'[w] \notin Busy /\ "select" \notin Busy
        BY Zenon, <3>1 DEF Put, Typed, Busy
      <3>3. CASE from \in Busy
        BY ZenonT(60), <2>1, <3>1, <3>2, <3>3, BusyUnfinished, FinishedOnce DEF Finish, Finishes, Typed
      <3>4. CASE from \notin Busy
        BY Zenon, <2>1, <3>1, <3>2, <3>4, DatagramsStay DEF Finish, SameDatagrams
      <3>5. QED
        BY Zenon, <3>3, <3>4
    <2>4. CASE EmitStep(w)
      <3>1. wpc[w] \in Busy /\ wpc'[w] \notin Busy /\ fate' = [fate EXCEPT ![wmsg[w].id] = "decoded"]
        BY ZenonT(60), <2>4 DEF EmitStep, Emit, Typed, Busy
      <3>2. QED
        BY ZenonT(60), <2>1, <3>1, BusyUnfinished, FinishedOnce DEF Finishes, Typed
    <2>5. QED
      BY Zenon, <1>3, <2>2, <2>3, <2>4
  <1>4. CASE MsgStep(w)
    <2>1. /\ udpCh \in Seq(Msgs) /\ udpCh # <<>> /\ udpCh' = Tail(udpCh)
          /\ wmsg'[w] = Head(udpCh)
          /\ wpc[w] \notin Busy /\ wpc'[w] \in Busy
          /\ \A v \in Workers : v # w => wmsg'[v] = wmsg[v] /\ wpc'[v] = wpc[v]
          /\ UNCHANGED <<reader, UDPCount, fate>>
      BY ZenonT(60), <1>4 DEF MsgStep, SelectMsg, Typed, Busy
    <2>2. /\ \A i \in DOMAIN udpCh' : i + 1 \in DOMAIN udpCh /\ i + 1 # 1 /\ udpCh'[i] = udpCh[i + 1]
          /\ \A i, j \in DOMAIN udpCh' : i # j => i + 1 # j + 1
          /\ \A i \in DOMAIN udpCh : i = 1 \/ (i - 1 \in DOMAIN udpCh' /\ udpCh'[i - 1] = udpCh[i])
          /\ Head(udpCh) = udpCh[1] /\ 1 \in DOMAIN udpCh
      BY <2>1
    <2>3. HandledOnce(Busy)'
      <3>1. HandledOnce(Busy)
        BY ZenonT(60) DEF Conserved, DatagramConserved
      <3>2. (reader.pc = "send" =>
               /\ UDPCount > 0 /\ fate[UDPCount] = "none"
               /\ \A i \in DOMAIN udpCh : udpCh[i].id # UDPCount
               /\ \A v \in Workers : wpc[v] \in Busy => wmsg[v].id # UDPCount)'
        BY <2>1, <2>2, <3>1 DEF HandledOnce
      <3>3. (\A i \in DOMAIN udpCh :
               /\ udpCh[i].id \in 1..UDPCount /\ fate[udpCh[i].id] = "none"
               /\ \A j \in DOMAIN udpCh : i # j => udpCh[i].id # udpCh[j].id
               /\ \A v \in Workers : wpc[v] \in Busy => wmsg[v].id # udpCh[i].id)'
        <4> SUFFICES ASSUME NEW i \in DOMAIN udpCh'
                     PROVE  /\ udpCh'[i].id \in 1..UDPCount /\ fate[udpCh'[i].id] = "none"
                            /\ \A j \in DOMAIN udpCh' : i # j => udpCh'[i].id # udpCh'[j].id
                            /\ \A v \in Workers : wpc'[v] \in Busy => wmsg'[v].id # udpCh'[i].id
          BY ZenonT(60), <2>1
        <4>1. udpCh'[i].id \in 1..UDPCount /\ fate[udpCh'[i].id] = "none"
          BY <2>2, <3>1 DEF HandledOnce
        <4>2. \A j \in DOMAIN udpCh' : i # j => udpCh'[i].id # udpCh'[j].id
          BY <2>2, <3>1 DEF HandledOnce
        <4>3. wmsg'[w].id # udpCh'[i].id
          BY <2>1, <2>2, <3>1 DEF HandledOnce
        <4>4. \A v \in Workers : v # w /\ wpc[v] \in Busy => wmsg[v].id # udpCh'[i].id
          BY <2>2, <3>1 DEF HandledOnce
        <4>5. QED
          BY Zenon, <2>1, <4>1, <4>2, <4>3, <4>4
      <3>4. (\A v \in Workers : wpc[v] \in Busy =>
               /\ wmsg[v].id \in 1..UDPCount /\ fate[wmsg[v].id] = "none"
               /\ \A u \in Workers \ {v} : wpc[u] \in Busy => wmsg[u].id # wmsg[v].id)'
        <4>1. /\ udpCh[1].id \in 1..UDPCount /\ fate[udpCh[1].id] = "none"
              /\ \A u \in Workers : wpc[u] \in Busy => wmsg[u].id # udpCh[1].id
          BY Zenon, <2>2, <3>1 DEF HandledOnce
        <4>2. \A v \in Workers : wpc[v] \in Busy =>
                 /\ wmsg[v].id \in 1..UDPCount /\ fate[wmsg[v].id] = "none"
                 /\ \A u \in Workers \ {v} : wpc[u] \in Busy => wmsg[u].id # wmsg[v].id
          BY Zenon, <3>1 DEF HandledOnce
        <4>3. ASSUME NEW v \in Workers, wpc'[v] \in Busy
              PROVE  /\ wmsg'[v].id \in 1..UDPCount /\ fate[wmsg'[v].id] = "none"
                     /\ \A u \in Workers \ {v} : wpc'[u] \in Busy => wmsg'[u].id # wmsg'[v].id
          <5>1. CASE v = w
            BY Zenon, <2>1, <2>2, <4>1, <5>1
          <5>2. CASE v # w
            <6>1. wmsg'[v] = wmsg[v] /\ wpc[v] \in Busy
              BY Zenon, <2>1, <4>3, <5>2
            <6>2. ASSUME NEW u \in Workers \ {v}, wpc'[u] \in Busy
                  PROVE  wmsg'[u].id # wmsg[v].id
              <7>1. CASE u = w
                BY ZenonT(60), <2>1, <2>2, <4>1, <6>1, <7>1
              <7>2. CASE u # w
                BY Zenon, <2>1, <4>2, <6>1, <6>2, <7>2
              <7>3. QED
                BY Zenon, <7>1, <7>2
            <6>3. QED
              BY Zenon, <4>2, <6>1, <6>2
          <5>3. QED
            BY Zenon, <5>1, <5>2
        <4>4. QED
          BY Zenon, <2>1, <4>3
      <3>5. QED
        BY Zenon, <3>2, <3>3, <3>4 DEF HandledOnce
    <2>4. NoneLost(Busy)'
      <3> SUFFICES ASSUME NEW d \in 1..UDPCount, fate[d] = "none"
                   PROVE  \/ reader.pc = "send" /\ d = UDPCount
                          \/ \E i \in DOMAIN udpCh' : udpCh'[i].id = d
                          \/ \E v \in Workers : wpc'[v] \in Busy /\ wmsg'[v].id = d
        BY Zenon, <2>1 DEF NoneLost
      <3>1. ASSUME NEW i \in DOMAIN udpCh, udpCh[i].id = d
            PROVE  \/ \E j \in DOMAIN udpCh' : udpCh'[j].id = d
                   \/ \E v \in Workers : wpc'[v] \in Busy /\ wmsg'[v].id = d
        <4>1. CASE i = 1
          BY Zenon, <2>1, <2>2, <3>1, <4>1
        <4>2. CASE i # 1
          BY ZenonT(60), <2>2, <3>1, <4>2
        <4>3. QED
          BY Zenon, <4>1, <4>2
      <3>2. CASE \E v \in Workers : wpc[v] \in Busy /\ wmsg[v].id = d
        BY <2>1, <3>2
      <3>3. QED
        BY Zenon, <3>1, <3>2 DEF Conserved, DatagramConserved, NoneLost
    <2>5. QED
      BY Zenon, <2>1, <2>3, <2>4 DEF Conserved, DatagramConserved
  <1>5. QED
    BY Zenon, <1>1, <1>2, <1>3, <1>4 DEF CommonWorker

(* Shutdown, producer, dynWorkers and mirror leave the datagrams alone. *)
LEMMA OthersConserved ==
    ASSUME Typed, Conserved,
           MirrorSide \/ IPFIXShutdown \/ IPFIXProduce \/ \E w \in Workers : IPFIXPool(w)
    PROVE  Conserved'
  <1> USE DEF mirrorVars, procVars, bufVars, workVars
  <1>1. CASE MirrorSide
    <2>1. UNCHANGED <<reader, udpCh, wpc, wmsg, UDPCount, fate>>
      BY <1>1 DEF MirrorSide, MirrorEnable, MirrorTake, MirrorPut, vars
    <2>2. QED
      BY ZenonT(60), <2>1, DatagramsStay DEF SameDatagrams
  <1>2. CASE IPFIXShutdown
    <2>1. UNCHANGED <<reader, udpCh, wpc, wmsg, UDPCount, fate>>
      BY <1>2 DEF IPFIXShutdown, Shutdown, Stop, Close, Exit
    <2>2. QED
      BY Zenon, <2>1, DatagramsStay DEF SameDatagrams
  <1>3. CASE IPFIXProduce
    <2>1. UNCHANGED <<reader, udpCh, wpc, wmsg, UDPCount, fate>>
      BY <1>3 DEF IPFIXProduce, Produce
    <2>2. QED
      BY Zenon, <2>1, DatagramsStay DEF SameDatagrams
  <1>4. ASSUME NEW w \in Workers, IPFIXPool(w)
        PROVE  Conserved'
    <2>1. UNCHANGED <<reader, udpCh, wmsg, UDPCount, fate>>
      BY <1>4 DEF IPFIXPool, Spawn, Retire
    <2>2. \A v \in Workers : wpc'[v] \in Busy <=> wpc[v] \in Busy
      BY <1>4 DEF IPFIXPool, Spawn, Retire, Typed, Busy
    <2>3. QED
      BY ZenonT(60), <2>1, <2>2, DatagramsStay DEF SameDatagrams
  <1>5. QED
    BY Zenon, <1>1, <1>2, <1>3, <1>4

(* Conserved is inductive with Typed. *)
LEMMA ConservedStep ==
    ASSUME Typed, Conserved, CommonNext \/ UNCHANGED ipfixVars
    PROVE  Conserved'
  <1>1. CASE UNCHANGED ipfixVars
    BY Zenon, <1>1, DatagramsStay DEF ipfixVars, vars, SameDatagrams
  <1>2. QED
    BY Zenon, <1>1, ReaderConserved, WorkerConserved, OthersConserved DEF CommonNext

(* Every datagram counted in UDPCount by the IPFIX collector is in one     *)
(* place or finished: workers that dynWorkers starts and retires, a slow   *)
(* producer and a slow mirror neither lose nor double one.                 *)
THEOREM CollectorConservesDatagrams == IPFIXSafety => []DatagramConserved
  <1> DEFINE Inv == Typed /\ Owned /\ Conserved
  <1>1. IPFIXInit => Inv
    BY Zenon, ConservedInit, TypedInit, OwnershipInit DEF IPFIXInit, NoMirror
  <1>2. Inv /\ [IPFIXNext]_ipfixVars => Inv'
    <2>1. IPFIXNext => CommonNext
      BY Zenon, IPFIXCommon DEF IPFIXNext, CommonNext
    <2>2. QED
      BY Zenon, <2>1, OwnershipStep, ConservedStep
  <1>3. Inv => DatagramConserved
    BY DEF Conserved
  <1>4. QED
    BY <1>1, <1>2, <1>3, PTL DEF IPFIXSafety

-----------------------------------------------------------------------------
(* Counting. *)
F == INSTANCE FiniteSetTheorems

(* The facts about finite sets that the counts need. *)
LEMMA FiniteIntervals == \A a, b \in Int : IsFiniteSet(a..b)
  BY Zenon, F!FS_Interval DEF IsFiniteSet, F!IsFiniteSet

(* Fewer elements. *)
LEMMA FiniteSubsets ==
    ASSUME NEW S, NEW T \in SUBSET S, IsFiniteSet(S)
    PROVE  IsFiniteSet(T)
  BY Zenon, F!FS_Subset DEF IsFiniteSet, F!IsFiniteSet

(* How many there are, with one more and one fewer. *)
LEMMA OneMoreOrFewer ==
    ASSUME NEW S, IsFiniteSet(S)
    PROVE  /\ Cardinality({}) = 0 /\ Cardinality(S) \in Nat
           /\ \A x : x \notin S => Cardinality(S \cup {x}) = Cardinality(S) + 1
           /\ \A x : x \in S => Cardinality(S \ {x}) = Cardinality(S) - 1
  <1>1. \A T : Cardinality(T) = F!Cardinality(T)
    BY DEF Cardinality, F!Cardinality
  <1>2. F!IsFiniteSet(S)
    BY Zenon DEF IsFiniteSet, F!IsFiniteSet
  <1>3. F!Cardinality({}) = 0 /\ F!Cardinality(S) \in Nat
    BY Zenon, <1>2, F!FS_EmptySet, F!FS_CardinalityType
  <1>4. \A x : x \notin S => F!Cardinality(S \cup {x}) = F!Cardinality(S) + 1
    BY Zenon, <1>2, F!FS_AddElement
  <1>5. \A x : x \in S => F!Cardinality(S \ {x}) = F!Cardinality(S) - 1
    BY Zenon, <1>2, F!FS_RemoveElement
  <1>6. QED
    BY Zenon, <1>1, <1>3, <1>4, <1>5

(* DecodedCount: what it counts. *)
Decoded == {d \in Datagrams : fate[d] = "decoded"}
Marshalling == {w \in Workers : wpc[w] = "marshal"}

(* The number of datagrams and workers is finite. *)
LEMMA FiniteCounts == IsFiniteSet(Decoded) /\ IsFiniteSet(Marshalling)
  <1>1. IsFiniteSet(Datagrams)
    BY FiniteIntervals, CollectorAssumption DEF Datagrams
  <1>2. Decoded \subseteq Datagrams /\ Marshalling \subseteq Workers
    BY Zenon DEF Decoded, Marshalling
  <1>3. QED
    BY Zenon, <1>1, <1>2, FiniteSubsets, CollectorAssumption

(* Worker w, working on a datagram, is done with it in one of two ways. *)
LEMMA FateDecoded ==
    ASSUME Typed, Conserved, NEW w \in Workers, wpc[w] \in Busy,
           fate' = [fate EXCEPT ![wmsg[w].id] = "decoded"]
    PROVE  Cardinality(Decoded') = Cardinality(Decoded) + 1
  <1>1. wmsg[w].id \in Datagrams /\ fate[wmsg[w].id] = "none" /\ fate \in [Datagrams -> Fates]
    BY Zenon, BusyUnfinished DEF Typed
  <1>2. Decoded' = Decoded \cup {wmsg[w].id} /\ wmsg[w].id \notin Decoded
    BY <1>1 DEF Decoded
  <1>3. QED
    BY Zenon, <1>2, FiniteCounts, OneMoreOrFewer

(* A datagram that is not decoded leaves the number of the decoded ones. *)
LEMMA FateUndecoded ==
    ASSUME Typed, Conserved, NEW w \in Workers, wpc[w] \in Busy,
           fate' = [fate EXCEPT ![wmsg[w].id] = "undecoded"]
    PROVE  Decoded' = Decoded
  <1>1. wmsg[w].id \in Datagrams /\ fate[wmsg[w].id] = "none" /\ fate \in [Datagrams -> Fates]
    BY Zenon, BusyUnfinished DEF Typed
  <1>2. QED
    BY <1>1 DEF Decoded

(* Worker w comes to marshal, or leaves. *)
LEMMA MarshalEnter ==
    ASSUME Typed, NEW w \in Workers, wpc[w] # "marshal", wpc' = [wpc EXCEPT ![w] = "marshal"]
    PROVE  Cardinality(Marshalling') = Cardinality(Marshalling) + 1
  <1>1. Marshalling' = Marshalling \cup {w} /\ w \notin Marshalling
    BY Zenon DEF Marshalling, Typed
  <1>2. QED
    BY Zenon, <1>1, FiniteCounts, OneMoreOrFewer

(* Worker w is done with marshalling. *)
LEMMA MarshalLeave ==
    ASSUME Typed, NEW w \in Workers, wpc[w] = "marshal", NEW p \in Places \ {"marshal"},
           wpc' = [wpc EXCEPT ![w] = p]
    PROVE  Cardinality(Marshalling') = Cardinality(Marshalling) - 1
  <1>1. Marshalling' = Marshalling \ {w} /\ w \in Marshalling
    BY Zenon DEF Marshalling, Typed
  <1>2. QED
    BY Zenon, <1>1, FiniteCounts, OneMoreOrFewer

(* Steps between other states change nothing. *)
LEMMA MarshalSame ==
    ASSUME Typed, NEW w \in Workers, wpc[w] # "marshal", NEW p \in Places \ {"marshal"},
           wpc' = [wpc EXCEPT ![w] = p]
    PROVE  Marshalling' = Marshalling
  BY Zenon DEF Marshalling, Typed

(* What a step of the IPFIX and the NetFlow v9 worker does to the count. *)
Tally(w) ==
    \/ /\ UNCHANGED <<DecodedCount, fate>>
       /\ wpc[w] # "marshal" /\ \E p \in Places \ {"marshal"} : wpc' = [wpc EXCEPT ![w] = p]
    \/ /\ UNCHANGED DecodedCount /\ fate' = [fate EXCEPT ![wmsg[w].id] = "undecoded"]
       /\ wpc[w] = "decode" /\ wpc' = [wpc EXCEPT ![w] = "top"]
    \/ /\ DecodedCount' = DecodedCount + 1 /\ fate' = [fate EXCEPT ![wmsg[w].id] = "decoded"]
       /\ wpc[w] = "decode" /\ wpc' = [wpc EXCEPT ![w] = "top"]
    \/ /\ DecodedCount' = DecodedCount + 1 /\ UNCHANGED fate
       /\ wpc[w] = "decode" /\ wpc' = [wpc EXCEPT ![w] = "marshal"]
    \/ /\ UNCHANGED DecodedCount /\ fate' = [fate EXCEPT ![wmsg[w].id] = "decoded"]
       /\ wpc[w] = "marshal" /\ wpc' = [wpc EXCEPT ![w] = "top"]

Tallied == DecodedCount = Cardinality(Decoded) + Cardinality(Marshalling)

(* The count keeps up with the datagrams. *)
LEMMA TallyStep ==
    ASSUME Typed, Conserved, Tallied, NEW w \in Workers, Tally(w)
    PROVE  Tallied'
  <1>0. Cardinality(Decoded) \in Nat /\ Cardinality(Marshalling) \in Nat
    BY Zenon, FiniteCounts, OneMoreOrFewer
  <1>1. UNCHANGED fate => Decoded' = Decoded
    BY Zenon DEF Decoded
  <1>2. "decode" \in Busy /\ "marshal" \in Busy /\ "top" \in Places \ {"marshal"} /\ "decode" # "marshal"
    BY Zenon DEF Busy, Places
  <1>3. CASE /\ UNCHANGED <<DecodedCount, fate>>
             /\ wpc[w] # "marshal" /\ \E p \in Places \ {"marshal"} : wpc' = [wpc EXCEPT ![w] = p]
    BY Zenon, <1>1, <1>3, MarshalSame DEF Tallied
  <1>4. CASE /\ UNCHANGED DecodedCount /\ fate' = [fate EXCEPT ![wmsg[w].id] = "undecoded"]
             /\ wpc[w] = "decode" /\ wpc' = [wpc EXCEPT ![w] = "top"]
    <2>1. Decoded' = Decoded /\ Marshalling' = Marshalling
      BY Zenon, <1>2, <1>4, FateUndecoded, MarshalSame
    <2>2. QED
      BY Zenon, <1>4, <2>1 DEF Tallied
  <1>5. CASE /\ DecodedCount' = DecodedCount + 1 /\ fate' = [fate EXCEPT ![wmsg[w].id] = "decoded"]
             /\ wpc[w] = "decode" /\ wpc' = [wpc EXCEPT ![w] = "top"]
    <2>1. Cardinality(Decoded') = Cardinality(Decoded) + 1 /\ Marshalling' = Marshalling
      BY Zenon, <1>2, <1>5, FateDecoded, MarshalSame
    <2>2. QED
      BY <1>0, <1>5, <2>1 DEF Tallied
  <1>6. CASE /\ DecodedCount' = DecodedCount + 1 /\ UNCHANGED fate
             /\ wpc[w] = "decode" /\ wpc' = [wpc EXCEPT ![w] = "marshal"]
    <2>1. Cardinality(Marshalling') = Cardinality(Marshalling) + 1 /\ Decoded' = Decoded
      BY Zenon, <1>1, <1>2, <1>6, MarshalEnter
    <2>2. QED
      BY <1>0, <1>6, <2>1 DEF Tallied
  <1>7. CASE /\ UNCHANGED DecodedCount /\ fate' = [fate EXCEPT ![wmsg[w].id] = "decoded"]
             /\ wpc[w] = "marshal" /\ wpc' = [wpc EXCEPT ![w] = "top"]
    <2>1. /\ Cardinality(Decoded') = Cardinality(Decoded) + 1
          /\ Cardinality(Marshalling') = Cardinality(Marshalling) - 1
      BY Zenon, <1>2, <1>7, FateDecoded, MarshalLeave
    <2>2. QED
      BY <1>0, <1>7, <2>1 DEF Tallied
  <1>8. QED
    BY Zenon, <1>3, <1>4, <1>5, <1>6, <1>7 DEF Tally
(* The IPFIX worker takes such steps ... *)
LEMMA IPFIXTally ==
    ASSUME Typed, NEW w \in Workers, ipfixWorker(w) \/ Spawn(w)
    PROVE  Tally(w)
  <1> USE DEF mirrorVars, procVars, bufVars, workVars, Tally, Places
  <1>1. CASE Spawn(w) \/ LoopTop(w) \/ MirrorSkip(w)
    BY ZenonT(60), <1>1 DEF Spawn, LoopTop, Put, MirrorSkip, Proceed
  <1>2. CASE LoopSelect(w)
    BY ZenonT(60), <1>2 DEF LoopSelect, Select, SelectQuit, SelectClosed, SelectMsg, Leave
  <1>3. CASE \E b \in Buffers : WorkerStart(w, b) \/ MirrorCopy(w, b)
    BY ZenonT(60), <1>3 DEF WorkerStart, MirrorCopy
  <1>4. CASE DecodeFail(w) \/ DecodeEmpty(w) \/ DecodeData(w)
    BY ZenonT(60), <1>4 DEF DecodeFail, DecodeEmpty, DecodeData, Proceed
  <1>5. CASE MarshalFail(w) \/ MarshalSend(w)
    BY ZenonT(60), <1>5 DEF MarshalFail, MarshalSend, Proceed, Emit
  <1>6. QED
    BY Zenon, <1>1, <1>2, <1>3, <1>4, <1>5 DEF ipfixWorker

(* ... and so does the one of NetFlow v9. *)
LEMMA NF9Tally ==
    ASSUME Typed, NEW w \in Workers, netflowV9Worker(w)
    PROVE  Tally(w)
  <1> USE DEF procVars, bufVars, workVars, Tally, Places
  <1>1. CASE NF9Top(w) \/ \E b \in Buffers : NF9Start(w, b)
    BY ZenonT(60), <1>1 DEF NF9Top, Put, NF9Start
  <1>2. CASE NF9Select(w)
    BY ZenonT(60), <1>2 DEF NF9Select, Select, SelectQuit, SelectClosed, SelectMsg, Leave
  <1>3. CASE NF9DecodeFail(w) \/ NF9DecodeEmpty(w) \/ NF9DecodeData(w)
    BY ZenonT(60), <1>3 DEF NF9DecodeFail, NF9DecodeEmpty, NF9DecodeData, Proceed
  <1>4. CASE NF9MarshalFail(w) \/ NF9MarshalSend(w)
    BY ZenonT(60), <1>4 DEF NF9MarshalFail, NF9MarshalSend, Proceed, Emit
  <1>5. QED
    BY Zenon, <1>1, <1>2, <1>3, <1>4 DEF netflowV9Worker

(* The others count nothing. *)
LEMMA OthersTally ==
    ASSUME Reader \/ Shutdown \/ Produce \/ MirrorSide \/ \E w \in Workers : Retire(w)
    PROVE  UNCHANGED <<DecodedCount, fate, wpc>>
  <1> USE DEF procVars, bufVars, workVars, vars
  <1>1. CASE Reader
    BY Zenon, <1>1 DEF Reader, ReaderStop, ReaderGet, ReadError, ReadFromUDP, ReaderSend, SendOnClosed
  <1>2. CASE Shutdown \/ Produce \/ \E w \in Workers : Retire(w)
    BY Zenon, <1>2 DEF Shutdown, Stop, Close, Exit, Produce, Retire
  <1>3. CASE MirrorSide
    BY Zenon, <1>3 DEF MirrorSide, MirrorEnable, MirrorTake, MirrorPut
  <1>4. QED
    BY Zenon, <1>1, <1>2, <1>3

(* What sFlow counts: the datagrams marshalled for the producer. *)
SFTallied == DecodedCount = Cardinality(Decoded)

(* A worker of sFlow counts the datagram it has marshalled. *)
LEMMA SFTallyStep ==
    ASSUME Typed, Conserved, SFTallied, NEW w \in Workers, sFlowWorker(w) \/ Spawn(w)
    PROVE  SFTallied'
  <1> USE DEF procVars, bufVars, workVars
  <1>1. CASE SFStart(w) \/ SFSelect(w) \/ SFDecode(w) \/ SFPut(w) \/ Spawn(w)
    <2>1. UNCHANGED <<DecodedCount, fate>>
      BY Zenon, <1>1 DEF SFStart, SFSelect, Select, SelectQuit, SelectClosed, SelectMsg, Leave, SFDecode, SFPut, Spawn
    <2>2. QED
      BY Zenon, <2>1 DEF SFTallied, Decoded
  <1>2. CASE SFDecodeFail(w) \/ SFMarshalFail(w)
    <2>1. /\ UNCHANGED DecodedCount /\ fate' = [fate EXCEPT ![wmsg[w].id] = "undecoded"]
          /\ wpc[w] \in Busy
      BY Zenon, <1>2 DEF SFDecodeFail, SFMarshalFail, Put, Busy
    <2>2. QED
      BY Zenon, <2>1, FateUndecoded DEF SFTallied
  <1>3. CASE SFMarshalSend(w)
    <2>1. /\ DecodedCount' = DecodedCount + 1 /\ fate' = [fate EXCEPT ![wmsg[w].id] = "decoded"]
          /\ wpc[w] \in Busy
      BY Zenon, <1>3 DEF SFMarshalSend, Emit, Busy
    <2>2. QED
      BY Zenon, <2>1, FateDecoded DEF SFTallied
  <1>4. QED
    BY Zenon, <1>1, <1>2, <1>3 DEF sFlowWorker

(* The count of each collector. *)
Counted ==
    /\ proto \in {"ipfix", "netflow9"} => Tallied
    /\ proto = "sflow" => SFTallied

(* Nothing is counted at the start ... *)
LEMMA CountedInit == CollectorsInit => Counted
  <1> SUFFICES ASSUME Init
               PROVE  Counted
    BY Zenon, StartsEmpty
  <1>1. Decoded = {} /\ Marshalling = {} /\ DecodedCount = 0
    BY DEF Decoded, Marshalling, Init
  <1>2. Cardinality({}) = 0
    BY Zenon, <1>1, FiniteCounts, OneMoreOrFewer
  <1>3. QED
    BY <1>1, <1>2 DEF Counted, Tallied, SFTallied

(* ... and the counts stay right. *)
LEMMA CountedStep ==
    ASSUME Typed, Conserved, Counted, [CollectorsNext]_collectorsVars
    PROVE  Counted'
  <1>1. ASSUME UNCHANGED <<DecodedCount, fate, wpc, proto>>
        PROVE  Counted'
    BY Zenon, <1>1 DEF Counted, Tallied, SFTallied, Decoded, Marshalling
  <1>2. CASE proto = "ipfix" /\ IPFIXNext /\ UNCHANGED proto
    <2>1. ASSUME NEW w \in Workers, ipfixWorker(w) \/ Spawn(w)
          PROVE  Tallied'
      BY Zenon, <1>2, <2>1, IPFIXTally, TallyStep DEF Counted
    <2>2. QED
      BY Zenon, <1>1, <1>2, <2>1, OthersTally
         DEF IPFIXNext, IPFIXReader, IPFIXShutdown, IPFIXProduce, IPFIXPool, Counted
  <1>3. CASE proto = "netflow9" /\ NF9Next /\ UNCHANGED proto
    <2>1. ASSUME NEW w \in Workers, netflowV9Worker(w) \/ Spawn(w)
          PROVE  Tallied'
      BY Zenon, <1>3, <2>1, IPFIXTally, NF9Tally, TallyStep DEF Counted
    <2>2. QED
      BY Zenon, <1>1, <1>3, <2>1, OthersTally DEF NF9Next, NF9Run, NF9Shutdown, NF9DynWorkers, Counted
  <1>4. CASE proto = "sflow" /\ SFNext /\ UNCHANGED proto
    <2>1. ASSUME NEW w \in Workers, sFlowWorker(w) \/ Spawn(w)
          PROVE  SFTallied'
      BY Zenon, <1>4, <2>1, SFTallyStep DEF Counted
    <2>2. QED
      BY Zenon, <1>1, <1>4, <2>1, OthersTally DEF SFNext, SFRun, SFShutdown, SFDynWorkers, Counted
  <1>5. CASE UNCHANGED collectorsVars
    BY Zenon, <1>1, <1>5 DEF collectorsVars, ipfixVars, vars
  <1>6. QED
    BY Zenon, <1>2, <1>3, <1>4, <1>5 DEF CollectorsNext

(* A collector whose workers are busy only in S. *)
LEMMA ConservedIn ==
    ASSUME Conserved, NEW S, NEW P, wpc \in [Workers -> P], S = Busy \cap P
    PROVE  HandledOnce(S) /\ NoneLost(S)
  <1>1. \A w \in Workers : wpc[w] \in S <=> wpc[w] \in Busy
    BY Zenon
  <1>2. HandledOnce(Busy) /\ NoneLost(Busy)
    BY Zenon DEF Conserved, DatagramConserved
  <1>3. QED
    BY Zenon, <1>1, <1>2 DEF HandledOnce, NoneLost

(* Every datagram counted in UDPCount is in one place or finished, and     *)
(* DecodedCount is the number of those decoded, for the three collectors:  *)
(* workers that dynWorkers starts and retires, a slow producer and a slow  *)
(* mirror neither lose nor double a datagram or its count.                 *)
THEOREM CollectorsLoseNothing == CollectorsSpec => []NoDatagramLost
  <1> DEFINE Inv == Safe /\ Conserved /\ Counted
  <1>1. CollectorsInit => Inv
    BY Zenon, SafeInit, StartsEmpty, ConservedInit, CountedInit
  <1>2. Inv /\ [CollectorsNext]_collectorsVars => Inv'
    BY Zenon, SafeStep, ConservedStep, CountedStep, CollectorsCommon DEF Safe
  <1>3. Inv => NoDatagramLost
    <2> SUFFICES ASSUME Inv
                 PROVE  NoDatagramLost
      BY Zenon
    <2>1. NF9Busy = Busy \cap NF9Places /\ SFBusy = Busy \cap SFPlaces
      BY DEF NF9Busy, SFBusy, Busy, NF9Places, SFPlaces
    <2>2. proto = "ipfix" => DatagramConserved /\ DecodedCounted
      BY Zenon DEF Conserved, Counted, Tallied, Decoded, Marshalling, DecodedCounted
    <2>3. proto = "netflow9" => NF9DatagramConserved /\ NF9DecodedCounted
      BY Zenon, <2>1, ConservedIn DEF Safe, InLoop, Counted, Tallied, Decoded, Marshalling, NF9DatagramConserved,
                                      NF9DecodedCounted
    <2>4. proto = "sflow" => SFDatagramConserved /\ SFDecodedCounted
      BY Zenon, <2>1, ConservedIn DEF Safe, InLoop, Counted, SFTallied, Decoded, SFDatagramConserved, SFDecodedCounted
    <2>5. QED
      BY Zenon, <2>2, <2>3, <2>4 DEF NoDatagramLost
  <1>4. QED
    BY <1>1, <1>2, <1>3, PTL DEF CollectorsSpec
=============================================================================
