----------------------------- MODULE TemplateRPC -----------------------------
(***************************************************************************)
(* How a vFlow node asks other nodes for an IPFIX template it misses:      *)
(* ipfix/memcache_rpc.go, with the request that decodeSet makes            *)
(* (ipfix/decoder.go).  Exporters send their templates to any node; nodes  *)
(* stop, start again, and may fall silent.                                 *)
(***************************************************************************)
EXTENDS Discovery, FiniteSets, Sequences

CONSTANT Keys   \* pairs of exporter address and template id

VARIABLES
    mem,      \* mem[n][k]: the template for k in the cache of node n
    state,    \* state[p]: "up", "down" or "silent"
    recv,     \* the receiver: "new", "ready", or "fatal" with the process
    rpcChan,  \* requests, at most one
    pc, req, servers, target, answer   \* the RPC goroutine

rpcVars == <<pc, req, servers, target, answer>>
vars == <<age, mem, state, recv, rpcChan, rpcVars>>

Nobody == "nobody"
NoTemplate == <<>>

(* What the exporter of k sends. *)
Template(k) == <<k>>
Templates == {Template(k) : k \in Keys}

Init ==
    /\ EmptyTable
    /\ mem = [n \in Peers \cup {Self} |-> [k \in Keys |-> NoTemplate]]
    /\ state = [p \in Peers |-> "up"]
    /\ recv = "new"
    /\ rpcChan = <<>>
    /\ pc = "start" /\ req = Nobody /\ servers = {} /\ target = Nobody /\ answer = NoTemplate

Running == recv # "fatal"
-----------------------------------------------------------------------------
(* RPC without a multicast interface or without its port is disabled. *)
Start ==
    /\ pc = "start" /\ Running
    /\ pc' \in {"wait", "disabled"}
    /\ UNCHANGED <<age, mem, state, recv, rpcChan, req, servers, target, answer>>

(* receiverV4 makes the table, after RPC may have read it as nil.  Without *)
(* the local addresses it ends the process.                                *)
MakeTable ==
    /\ pc \notin {"start", "disabled"} /\ recv = "new"
    /\ recv' \in {"ready", "fatal"}
    /\ UNCHANGED <<age, mem, state, rpcChan, rpcVars>>

receiverV4(n) ==
    /\ recv = "ready"
    /\ n \in Peers => state[n] = "up"
    /\ Listen(n)
    /\ UNCHANGED <<mem, state, recv, rpcChan, rpcVars>>

(* decodeSet without the template asks for it, unless a request is waiting.*)
Request(k) ==
    /\ Running /\ mem[Self][k] = NoTemplate
    /\ rpcChan = <<>>
    /\ rpcChan' = <<k>>
    /\ UNCHANGED <<age, mem, state, recv, rpcVars>>

(* The loop of RPC. *)
TakeRequest ==
    /\ pc = "wait" /\ Running /\ rpcChan # <<>>
    /\ req' = Head(rpcChan) /\ rpcChan' = Tail(rpcChan)
    /\ pc' = "servers"
    /\ UNCHANGED <<age, mem, state, recv, servers, target, answer>>

rpcServers ==
    /\ pc = "servers" /\ Running
    /\ Nodes(servers')
    /\ pc' = "next"
    /\ UNCHANGED <<mem, state, recv, rpcChan, req, target, answer>>

(* The next server, in the order of the map: the dial succeeds only at one *)
(* that listens, this node itself included, and may time out at any.       *)
NewRPCClient(p) ==
    /\ pc = "next" /\ Running /\ p \in servers
    /\ p \in Peers => state[p] # "down"
    /\ servers' = servers \ {p}
    /\ target' = p /\ pc' = "call"
    /\ UNCHANGED <<age, mem, state, recv, rpcChan, req, answer>>

DialFails(p) ==
    /\ pc = "next" /\ Running /\ p \in servers
    /\ servers' = servers \ {p}
    /\ UNCHANGED <<age, mem, state, recv, rpcChan, pc, req, target, answer>>

NoMoreServers ==
    /\ pc = "next" /\ Running /\ servers = {}
    /\ pc' = "throttle"
    /\ UNCHANGED <<age, mem, state, recv, rpcChan, req, servers, target, answer>>

(* IRPC.Get at the server. *)
Get ==
    /\ pc = "call" /\ Running
    /\ target \in Peers => state[target] = "up"
    /\ answer' = mem[target][req]
    /\ pc' = "answer"
    /\ UNCHANGED <<age, mem, state, recv, rpcChan, req, servers, target>>

(* The client's Call returns an error: errNotAvail, or the connection was  *)
(* closed.  There is no timeout.                                           *)
GetFails ==
    /\ Running
    /\ \/ pc = "call" /\ target \in Peers /\ state[target] = "down"
       \/ pc = "answer" /\ answer = NoTemplate
    /\ target' = Nobody /\ pc' = "next"
    /\ UNCHANGED <<age, mem, state, recv, rpcChan, req, servers, answer>>

(* Mutant: the template is stored for the request that waits now. *)
InsertAnswerLate ==
    /\ pc = "answer" /\ Running /\ answer # NoTemplate
    /\ mem' = [mem EXCEPT ![Self][IF rpcChan = <<>> THEN req ELSE Head(rpcChan)] = answer]
    /\ servers' = {} /\ target' = Nobody /\ answer' = NoTemplate
    /\ pc' = "throttle"
    /\ UNCHANGED <<age, state, recv, rpcChan, req>>

InsertAnswer ==
    /\ pc = "answer" /\ Running /\ answer # NoTemplate
    /\ mem' = [mem EXCEPT ![Self][req] = answer]
    /\ servers' = {} /\ target' = Nobody /\ answer' = NoTemplate
    /\ pc' = "throttle"
    /\ UNCHANGED <<age, state, recv, rpcChan, req>>

Throttle ==
    /\ pc = "throttle" /\ Running
    /\ pc' = "wait" /\ req' = Nobody
    /\ UNCHANGED <<age, mem, state, recv, rpcChan, servers, target, answer>>
-----------------------------------------------------------------------------
(* The environment.  A template reaches a node from its exporter. *)
TemplateSet(n, k) ==
    /\ IF n = Self THEN Running ELSE state[n] = "up"
    /\ mem' = [mem EXCEPT ![n][k] = Template(k)]
    /\ UNCHANGED <<age, state, recv, rpcChan, rpcVars>>

(* A peer stops, starts again with the templates it had saved or without,  *)
(* or falls silent for good.                                               *)
PeerStops(p) ==
    /\ state[p] = "up" /\ state' = [state EXCEPT ![p] = "down"]
    /\ UNCHANGED <<age, mem, recv, rpcChan, rpcVars>>

PeerStarts(p) ==
    /\ state[p] = "down" /\ state' = [state EXCEPT ![p] = "up"]
    /\ mem' \in {mem, [mem EXCEPT ![p] = [k \in Keys |-> NoTemplate]]}
    /\ UNCHANGED <<age, recv, rpcChan, rpcVars>>

PeerSilent(p) ==
    /\ state[p] = "up" /\ state' = [state EXCEPT ![p] = "silent"]
    /\ UNCHANGED <<age, mem, recv, rpcChan, rpcVars>>

(* Time passes; the hellos of a running peer may all be lost. *)
Tick ==
    /\ Second
    /\ UNCHANGED <<mem, state, recv, rpcChan, rpcVars>>

rpcStep ==
    \/ Start \/ TakeRequest \/ rpcServers
    \/ \E p \in servers : NewRPCClient(p) \/ DialFails(p)
    \/ NoMoreServers \/ Get \/ GetFails \/ InsertAnswer \/ Throttle

Next ==
    \/ rpcStep
    \/ MakeTable
    \/ \E n \in Peers \cup {Self} : receiverV4(n)
    \/ \E k \in Keys : Request(k)
    \/ \E n \in Peers \cup {Self}, k \in Keys : TemplateSet(n, k)
    \/ \E p \in Peers : PeerStops(p) \/ PeerStarts(p) \/ PeerSilent(p)
    \/ Tick

Safety == Init /\ [][Next]_vars

(* The goroutines run, data sets keep coming, and not every dial to a      *)
(* running peer fails.  The clock is not held up by peers that come and go.*)
Spec ==
    /\ Safety
    /\ WF_vars(rpcStep) /\ WF_vars(MakeTable)
    /\ \A k \in Keys : WF_vars(Request(k))
    /\ \A p \in Peers : SF_vars(NewRPCClient(p))
    /\ SF_vars(Tick)
-----------------------------------------------------------------------------
(* The caches, the table and the RPC goroutine are of their types. *)
TypeOK ==
    /\ age \in [Peers \cup {Self} -> {NotHeard} \cup 0..Expiry]
    /\ mem \in [Peers \cup {Self} -> [Keys -> Templates \cup {NoTemplate}]]
    /\ state \in [Peers -> {"up", "down", "silent"}]
    /\ recv \in {"new", "ready", "fatal"}
    /\ rpcChan \in {<<>>} \cup {<<k>> : k \in Keys}
    /\ pc \in {"start", "disabled", "wait", "servers", "next", "call", "answer", "throttle"}
    /\ req \in Keys \cup {Nobody}
    /\ servers \subseteq Peers \cup {Self}
    /\ target \in Peers \cup {Self, Nobody}
    /\ answer \in Templates \cup {NoTemplate}

(* Whatever way it came, over RPC or from the exporter, a template in a    *)
(* cache is one that the exporter of its key has sent; the answer of a     *)
(* peer, or of the node itself, is never stored for another request.       *)
FromItsExporter ==
    \A n \in Peers \cup {Self}, k \in Keys :
        mem[n][k] \in {NoTemplate, Template(k)}

(* A template that this node misses is found as long as data sets that     *)
(* need it come, RPC is enabled, some peer has it and was heard lately     *)
(* whenever the servers are listed, requests for other templates do not    *)
(* keep taking the one place of rpcChan, and no peer fell silent in the    *)
(* middle of a call, which has no timeout ("each node can talk through RPC *)
(* to find out any missed IPFIX template", docs/design.md:4-5).            *)
Reachable(p, k) ==
    /\ state[p] = "up" /\ mem[p][k] # NoTemplate
    /\ pc = "servers" => age[p] \in 0..(Expiry - 1)
    /\ rpcChan \in {<<>>, <<k>>}
    /\ \A q \in Peers : state[q] # "silent"
MissedTemplateFound ==
    \A p \in Peers, k \in Keys :
        <>[]Reachable(p, k) => <>(mem[Self][k] # NoTemplate \/ pc = "disabled" \/ ~Running)

(* A peer that has stopped for good is not dialled for ever, unless the    *)
(* RPC hangs in a call to a silent one: its entry expires.                 *)
StoppedPeerForgotten ==
    \A p \in Peers :
        <>[](state[p] = "down" /\ \A q \in Peers : state[q] # "silent") => <>[](p \notin servers)
=============================================================================
