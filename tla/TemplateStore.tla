--------------------------- MODULE TemplateStore ---------------------------
(***************************************************************************)
(* What a template cache promises its users: a retrieve returns the        *)
(* template inserted last for that exporter and template id.  A restart    *)
(* may forget templates and may bring back older ones, but it never        *)
(* invents one nor gives one exporter the template of another.             *)
(***************************************************************************)
CONSTANTS Keys, Templates, NoTemplate, Clients

VARIABLES
    store,  \* store[k]: the template of k, or NoTemplate
    ever,   \* ever[k]: the templates that were inserted for k
    got     \* got[c]: what the last retrieve of client c returned

storeVars == <<store, ever, got>>

StoreInit ==
    /\ store = [k \in Keys |-> NoTemplate]
    /\ ever = [k \in Keys |-> {}]
    /\ got = [c \in Clients |-> NoTemplate]

StoreInsert(k, t) ==
    /\ store' = [store EXCEPT ![k] = t]
    /\ ever' = [ever EXCEPT ![k] = @ \cup {t}]
    /\ UNCHANGED got

StoreRetrieve(c, k) ==
    /\ got' = [got EXCEPT ![c] = store[k]]
    /\ UNCHANGED <<store, ever>>

(* The process ends or starts: the templates are some that once were there.*)
StoreRestart ==
    /\ store' \in [Keys -> Templates \cup {NoTemplate}]
    /\ \A k \in Keys : store'[k] \in ever[k] \cup {NoTemplate}
    /\ got' = [c \in Clients |-> NoTemplate]
    /\ UNCHANGED ever

StoreNext ==
    \/ \E k \in Keys, t \in Templates : StoreInsert(k, t)
    \/ \E c \in Clients, k \in Keys : StoreRetrieve(c, k)
    \/ StoreRestart

StoreSpec == StoreInit /\ [][StoreNext]_storeVars
=============================================================================
