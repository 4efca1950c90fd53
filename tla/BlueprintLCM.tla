---------------------------- MODULE BlueprintLCM ----------------------------
(***************************************************************************)
(* BlueprintManager (src/blueprints_ng/lcm/blueprint_manager.py) composed  *)
(* with the BlueprintWorkers it creates.  REST request threads (Callers)   *)
(* run the manager's methods concurrently: FastAPI runs synchronous        *)
(* endpoints in a thread pool and worker_collection is a plain dict with   *)
(* no lock.  Each request is split where another thread can observe it:   *)
(*   get_worker   lookup in the dict | load from the store and start a    *)
(*                new worker, then insert it                              *)
(*   day2         get_worker, then put_message(_sync)                     *)
(*   delete       get_worker, destroy_blueprint (put STOP), dict.pop      *)
(* create_blueprint and delete_all_blueprints are single steps: the id of *)
(* a new blueprint is unknown to other threads until it is returned.     *)
(***************************************************************************)
EXTENDS BlueprintWorker

CONSTANT NoWorker   \* sentinel: no worker cached for an id

VARIABLES
    collection, \* collection[b]: BlueprintManager.worker_collection
    rop,        \* rop[c]: request in progress on thread c: "none", "day2", "delete"
    rblue,      \* rblue[c]: blueprint id of the request
    rstep,      \* rstep[c]: "lookup", "load", "put", "pop"
    rwork,      \* rwork[c]: worker returned by get_worker
    rsnap,      \* rsnap[c]: status read from the store by _load_blue_from_db
    created,    \* ids returned by create_blueprint so far
    destroyed   \* ids whose blueprint.destroy() completed (history)

mgrVars == <<collection, rop, rblue, rstep, rwork, rsnap, created, destroyed>>
lcmVars == <<vars, mgrVars>>

LCMTypeOK ==
    /\ TypeOK
    /\ collection \in [Blues -> Workers \cup {NoWorker}]
    /\ rop   \in [Callers -> {"none", "day2", "delete"}]
    /\ rblue \in [Callers -> Blues \cup {NoBlue}]
    /\ rstep \in [Callers -> {"lookup", "load", "put", "pop"}]
    /\ rwork \in [Callers -> Workers \cup {NoWorker}]
    /\ rsnap \in [Callers -> Statuses \cup {Absent}]
    /\ created \subseteq Blues /\ destroyed \subseteq Blues

Alive(w) == wpc[w] \in {"listen", "run", "finish"}

\* A STOP is waiting in w's queue or being handled by w.
StopPending(w) ==
    \/ \E i \in 1..Len(queue[w]) : queue[w][i].type = "STOP"
    \/ Handling(w, "STOP")

-----------------------------------------------------------------------------
(* BlueprintManager methods.                                               *)

\* BlueprintWorker(blueprint) + start_listening(): a fresh object whose
\* blueprint has status s and whose thread waits on an empty queue.
StartWorker(w, b, s) ==
    /\ wpc[w] = "unborn"
    /\ wpc'   = [wpc EXCEPT ![w] = "listen"]
    /\ wblue' = [wblue EXCEPT ![w] = b]
    /\ mem'   = [mem EXCEPT ![w] = s]

\* create_blueprint: new id, not in the store, a new blueprint object in a
\* started worker, cached, DAY0 enqueued; the id is returned at once.
CreateBlueprint(c, b, w) ==
    /\ rop[c] = "none" /\ cpc[c] = "idle"
    /\ b \notin created
    /\ db[b] = Absent
    /\ sent < MaxMsgs
    /\ StartWorker(w, b, Status("IDLE"))
    /\ collection' = [collection EXCEPT ![b] = w]
    /\ queue' = [queue EXCEPT ![w] = <<NewMsg("DAY0", FALSE)>>]
    /\ sent' = sent + 1
    /\ created' = created \cup {b}
    /\ UNCHANGED <<cur, db, reply, callerVars, rop, rblue, rstep, rwork, rsnap, destroyed>>

\* A REST thread starts a DAY2 or delete request on a known id.
StartRequest(c, op, b) ==
    /\ rop[c] = "none" /\ cpc[c] = "idle"
    /\ b \in created
    /\ rop'   = [rop EXCEPT ![c] = op]
    /\ rblue' = [rblue EXCEPT ![c] = b]
    /\ rstep' = [rstep EXCEPT ![c] = "lookup"]
    /\ UNCHANGED <<vars, collection, rwork, rsnap, created, destroyed>>

EndRequest(c) == rop' = [rop EXCEPT ![c] = "none"]

\* get_worker, cached case: the worker in the dict is returned.
GetWorkerCached(c) ==
    /\ rop[c] # "none" /\ rstep[c] = "lookup"
    /\ collection[rblue[c]] # NoWorker
    /\ rwork' = [rwork EXCEPT ![c] = collection[rblue[c]]]
    /\ rstep' = [rstep EXCEPT ![c] = "put"]
    /\ UNCHANGED <<vars, collection, rop, rblue, rsnap, created, destroyed>>

\* get_worker, not cached and not in the store: BlueprintNotFoundException.
GetWorkerNotFound(c) ==
    /\ rop[c] # "none" /\ rstep[c] = "lookup"
    /\ collection[rblue[c]] = NoWorker
    /\ db[rblue[c]] = Absent
    /\ EndRequest(c)
    /\ UNCHANGED <<vars, collection, rblue, rstep, rwork, rsnap, created, destroyed>>

\* get_worker, not cached: _load_blue_from_db finds the document.
GetWorkerLoad(c) ==
    /\ rop[c] # "none" /\ rstep[c] = "lookup"
    /\ collection[rblue[c]] = NoWorker
    /\ db[rblue[c]] # Absent
    /\ rsnap' = [rsnap EXCEPT ![c] = db[rblue[c]]]
    /\ rstep' = [rstep EXCEPT ![c] = "load"]
    /\ UNCHANGED <<vars, collection, rop, rblue, rwork, created, destroyed>>

\* get_worker, continued: a worker for the loaded blueprint is started and
\* stored in the dict, replacing whatever another thread put there.
GetWorkerStart(c, w) ==
    /\ rop[c] # "none" /\ rstep[c] = "load"
    /\ StartWorker(w, rblue[c], rsnap[c])
    /\ collection' = [collection EXCEPT ![rblue[c]] = w]
    /\ rwork' = [rwork EXCEPT ![c] = w]
    /\ rstep' = [rstep EXCEPT ![c] = "put"]
    /\ UNCHANGED <<queue, cur, db, reply, callerVars, sent, rop, rblue, rsnap, created, destroyed>>

\* The DAY2 endpoint enqueues on the worker, blocking or not.
PutDay2(c) ==
    /\ rop[c] = "day2" /\ rstep[c] = "put"
    /\ \/ PutMessageSync(c, rwork[c], "DAY2")
       \/ PutMessage(rwork[c], "DAY2", FALSE) /\ UNCHANGED callerVars
    /\ EndRequest(c)
    /\ UNCHANGED <<collection, rblue, rstep, rwork, rsnap, created, destroyed>>

\* delete_blueprint: worker.destroy_blueprint() puts a STOP ...
PutStop(c) ==
    /\ rop[c] = "delete" /\ rstep[c] = "put"
    /\ PutMessage(rwork[c], "STOP", FALSE)
    /\ rstep' = [rstep EXCEPT ![c] = "pop"]
    /\ UNCHANGED <<callerVars, collection, rop, rblue, rwork, rsnap, created, destroyed>>

\* ... then worker_collection.pop(id): whatever worker is cached under the
\* id now is dropped; a missing key raises KeyError (nothing changes).
PopWorker(c) ==
    /\ rop[c] = "delete" /\ rstep[c] = "pop"
    /\ collection' = [collection EXCEPT ![rblue[c]] = NoWorker]
    /\ EndRequest(c)
    /\ UNCHANGED <<vars, rblue, rstep, rwork, rsnap, created, destroyed>>

\* delete_all_blueprints: the loop pops from the dict it iterates over, so
\* the iterator raises RuntimeError ("dictionary changed size during
\* iteration") after the first entry: one worker gets its STOP and is
\* dropped, the others are left running.
DeleteAllBlueprints(c, b) ==
    /\ rop[c] = "none" /\ cpc[c] = "idle"
    /\ collection[b] # NoWorker
    /\ PutMessage(collection[b], "STOP", FALSE)
    /\ collection' = [collection EXCEPT ![b] = NoWorker]
    /\ UNCHANGED <<callerVars, rop, rblue, rstep, rwork, rsnap, created, destroyed>>

\* A worker step; a completed destroy is recorded in the history.
LCMWorkerStep(w) ==
    /\ WorkerStep(w)
    /\ destroyed' = IF wpc'[w] = "stopped" /\ wpc[w] # "stopped"
                    THEN destroyed \cup {wblue[w]} ELSE destroyed
    /\ UNCHANGED <<collection, rop, rblue, rstep, rwork, rsnap, created>>

RequestStep(c) ==
    \/ GetWorkerCached(c)
    \/ GetWorkerNotFound(c)
    \/ GetWorkerLoad(c)
    \/ \E w \in Workers : GetWorkerStart(c, w)
    \/ PutDay2(c)
    \/ PutStop(c)
    \/ PopWorker(c)

Init ==
    /\ queue = [w \in Workers |-> <<>>]
    /\ wpc   = [w \in Workers |-> "unborn"]
    /\ wblue = [w \in Workers |-> NoBlue]
    /\ cur   = [w \in Workers |-> NoMsg]
    /\ mem   = [w \in Workers |-> Status("IDLE")]
    /\ db    = [b \in Blues |-> Absent]
    /\ reply = [i \in MsgIds |-> "none"]
    /\ cpc   = [c \in Callers |-> "idle"]
    /\ cmsg  = [c \in Callers |-> NoMsg]
    /\ sent  = 0
    /\ collection = [b \in Blues |-> NoWorker]
    /\ rop   = [c \in Callers |-> "none"]
    /\ rblue = [c \in Callers |-> NoBlue]
    /\ rstep = [c \in Callers |-> "lookup"]
    /\ rwork = [c \in Callers |-> NoWorker]
    /\ rsnap = [c \in Callers |-> Absent]
    /\ created = {} /\ destroyed = {}

Next ==
    \/ \E c \in Callers, b \in Blues, w \in Workers : CreateBlueprint(c, b, w)
    \/ \E c \in Callers, op \in {"day2", "delete"}, b \in Blues : StartRequest(c, op, b)
    \/ \E c \in Callers, b \in Blues : DeleteAllBlueprints(c, b)
    \/ \E c \in Callers : RequestStep(c)
    \/ \E c \in Callers : SyncReturn(c) /\ UNCHANGED mgrVars
    \/ \E w \in Workers : LCMWorkerStep(w)

\* Worker threads and request threads that have started never stop for
\* good; clients need not send new requests.
Spec ==
    /\ Init /\ [][Next]_lcmVars
    /\ \A w \in Workers : WF_lcmVars(LCMWorkerStep(w))
    /\ \A c \in Callers : WF_lcmVars(RequestStep(c))
    /\ \A c \in Callers : WF_lcmVars(SyncReturn(c) /\ UNCHANGED mgrVars)

-----------------------------------------------------------------------------
(* Properties of the composition.                                          *)

\* Every live worker thread is either the one the manager hands out for its
\* id, or already has a STOP to handle: no thread is left listening on a
\* queue nobody can reach (a leaked thread and a blueprint object that no
\* request will ever stop).  With two REST threads, get_worker's unlocked
\* check of worker_collection (line 48) and its insert (line 56), and
\* delete_blueprint's pop by id (line 129), can each overwrite or drop the
\* entry of a worker another thread has just started.
NoOrphanWorker ==
    \A w \in Workers :
        Alive(w) => collection[wblue[w]] = w \/ StopPending(w)

\* Once blueprint.destroy() has removed a blueprint's document, no later
\* to_db() brings it back.
DeletedStaysDeleted ==
    \A b \in destroyed : db[b] = Absent

\* Under concurrent requests, every synchronous DAY2 caller is released.
LCMDay2CallReturns == Day2CallReturns
=============================================================================
