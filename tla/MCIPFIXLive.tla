---------------------------- MODULE MCIPFIXLive ----------------------------
(* Liveness and shutdown of the IPFIX collector, with a producer that      *)
(* receives nothing.  Two instances in one, told apart by mode: "dyn" has  *)
(* no mirror and a second worker that dynWorkers starts and retires,       *)
(* "mirror" has the mirror and one worker.  Each has as many buffers as    *)
(* can be in use at once.                                                  *)
EXTENDS IPFIXCollector

CONSTANTS b1, b2, b3, b4, w1, w2

MCBuffers == {b1, b2, b3, b4}
MCWorkers == {w1, w2}
MCInitial == {w1}

VARIABLE mode

liveVars == <<ipfixVars, mode>>

Mode ==
    /\ mode = "dyn" => ~ipfixMirrorEnabled /\ b4 \in avail
    /\ mode = "mirror" => wpc[w2] = "off"

LiveInit == IPFIXInit /\ mode \in {"dyn", "mirror"}

LiveNext == IPFIXNext /\ UNCHANGED mode /\ Mode'

(* IPFIXFairness within an instance. *)
LiveFairness ==
    LET Inside(A) == proc = "up" /\ A /\ UNCHANGED mode /\ Mode'
    IN /\ WF_liveVars(Inside(IPFIXReader))
       /\ WF_liveVars(Inside((Close \/ Exit) /\ UNCHANGED mirrorVars))
       /\ \A w \in Workers : WF_liveVars(Inside(ipfixWorker(w)))
       /\ SF_liveVars(Inside(\E w \in Workers : SelectMsg(w, "mirror") /\ UNCHANGED mirrorVars))

LiveSpec ==
    /\ LiveInit /\ [][LiveNext]_liveVars
    /\ LiveFairness
=============================================================================
