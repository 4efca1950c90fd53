-------------------------- MODULE BlueprintWorker --------------------------
(***************************************************************************)
(* The per-blueprint actor of the lifecycle engine: BlueprintWorker in     *)
(* src/src/nfvcl/blueprints_ng/lcm/blueprint_worker.py.                    *)
(*                                                                         *)
(* A worker owns a FIFO queue.Queue and one consumer thread (_listen).     *)
(* Callers enqueue WorkerMessages (put_message); synchronous callers       *)
(* (put_message_sync, call_function_sync) pass a callback that sets a     *)
(* threading.Event and then block on it with no timeout.  The consumer     *)
(* thread handles DAY0, DAY2 (and DAY2_BY_NAME, which only differs in how *)
(* the method is looked up) and STOP; STOP ends the thread.               *)
(*                                                                         *)
(* The blueprint object held by a worker has an in-memory status (mem)    *)
(* that to_db() copies to the document store (db).  Several workers may  *)
(* hold different in-memory copies of the same blueprint id: that is what *)
(* the BlueprintManager composition (BlueprintLCM) explores.              *)
(*                                                                         *)
(* The blueprint's own create/day2/destroy routines are not part of the   *)
(* sources: each ends in success or in an exception, chosen               *)
(* nondeterministically.                                                   *)
(***************************************************************************)
EXTENDS Naturals, Sequences, FiniteSets

CONSTANTS
    Blues,          \* blueprint ids
    Workers,        \* BlueprintWorker objects (one per start_listening)
    Callers,        \* threads that block in put_message_sync / call_function_sync
    MaxMsgs,        \* bound on the number of WorkerMessages ever created
    DestroyMayFail, \* TRUE: blueprint.destroy() may raise
    NoBlue, NoMsg,  \* sentinels (model values)
    Absent          \* the store has no document for an id (model value)

ASSUME MaxMsgs \in Nat /\ DestroyMayFail \in BOOLEAN

MsgIds   == 1..MaxMsgs
MsgTypes == {"DAY0", "DAY2", "STOP"}
\* WorkerMessage: message_type, and whether a callback was given.
Msgs     == [id : MsgIds, type : MsgTypes, cb : BOOLEAN]

\* BlueprintNGStatus: current_operation plus the error flag.
Ops      == {"IDLE", "DEPLOYING", "DAY2", "DESTROYING"}
Statuses == [op : Ops, error : BOOLEAN]
Status(o) == [op |-> o, error |-> FALSE]

\* Callback outcomes: BlueprintOperationCallbackModel status, or none yet.
Replies  == {"none", "OK", "ERROR"}

\* Consumer-thread program counter.
\*  unborn: object not built yet; listen: blocked in message_queue.get();
\*  run: inside the blueprint routine; finish: callback done, final
\*  to_db() pending; stopped: left the loop after STOP; dead: the thread
\*  ended with an uncaught exception.
WPcs == {"unborn", "listen", "run", "finish", "stopped", "dead"}

VARIABLES
    queue,  \* queue[w]: the worker's message_queue
    wpc,    \* wpc[w]: where the consumer thread of w is
    wblue,  \* wblue[w]: id of the blueprint object w wraps
    cur,    \* cur[w]: the message being handled
    mem,    \* mem[w]: w's in-memory blueprint.base_model.status
    db,     \* db[b]: persisted status of blueprint b
    reply,  \* reply[i]: what the callback of message i delivered
    cpc,    \* cpc[c]: "idle" or "wait" (blocked in event.wait())
    cmsg,   \* cmsg[c]: the message caller c waits for
    sent    \* number of WorkerMessages created so far

workerVars == <<queue, wpc, wblue, cur, mem, db, reply>>
callerVars == <<cpc, cmsg>>
vars       == <<workerVars, callerVars, sent>>

TypeOK ==
    /\ queue \in [Workers -> Seq(Msgs)]
    /\ wpc   \in [Workers -> WPcs]
    /\ wblue \in [Workers -> Blues \cup {NoBlue}]
    /\ cur   \in [Workers -> Msgs \cup {NoMsg}]
    /\ mem   \in [Workers -> Statuses]
    /\ db    \in [Blues -> Statuses \cup {Absent}]
    /\ reply \in [MsgIds -> Replies]
    /\ cpc   \in [Callers -> {"idle", "wait"}]
    /\ cmsg  \in [Callers -> Msgs \cup {NoMsg}]
    /\ sent  \in 0..MaxMsgs

-----------------------------------------------------------------------------
(* Producer side: put_message and its wrappers.                            *)

NewMsg(t, hasCb) == [id |-> sent + 1, type |-> t, cb |-> hasCb]

\* Variant with a LIFO queue (queue.LifoQueue instead of queue.Queue).
PutMessageLifo(w, t, hasCb) ==
    /\ sent < MaxMsgs
    /\ wpc[w] # "unborn"
    /\ queue' = [queue EXCEPT ![w] = <<NewMsg(t, hasCb)>> \o @]
    /\ sent'  = sent + 1
    /\ UNCHANGED <<wpc, wblue, cur, mem, db, reply>>

\* put_message: build a WorkerMessage and put it on the queue (thread safe).
\* destroy_blueprint is put_message of a STOP without callback.
PutMessage(w, t, hasCb) ==
    /\ sent < MaxMsgs
    /\ wpc[w] # "unborn"
    /\ queue' = [queue EXCEPT ![w] = Append(@, NewMsg(t, hasCb))]
    /\ sent'  = sent + 1
    /\ UNCHANGED <<wpc, wblue, cur, mem, db, reply>>

\* put_message_sync / call_function_sync / destroy_blueprint_sync: enqueue
\* with a callback that sets the event, then block on event.wait().
PutMessageSync(c, w, t) ==
    /\ cpc[c] = "idle"
    /\ PutMessage(w, t, TRUE)
    /\ cpc'  = [cpc EXCEPT ![c] = "wait"]
    /\ cmsg' = [cmsg EXCEPT ![c] = NewMsg(t, TRUE)]

\* Variant whose event is set only for successful results.
SyncReturnOnlyOk(c) ==
    /\ cpc[c] = "wait"
    /\ reply[cmsg[c].id] = "OK"
    /\ cpc' = [cpc EXCEPT ![c] = "idle"]
    /\ UNCHANGED <<workerVars, cmsg, sent>>

\* event.wait() returns once callback_function has set the event; the
\* caller then returns namespace["msg"].
SyncReturn(c) ==
    /\ cpc[c] = "wait"
    /\ reply[cmsg[c].id] # "none"
    /\ cpc' = [cpc EXCEPT ![c] = "idle"]
    /\ UNCHANGED <<workerVars, cmsg, sent>>

-----------------------------------------------------------------------------
(* Consumer side: the _listen loop.                                        *)

\* w is handling a message of type t.
Handling(w, t) == cur[w] # NoMsg /\ cur[w].type = t

\* to_db(): the blueprint document of w now holds status s.
Save(w, s) == db' = [db EXCEPT ![wblue[w]] = s]

Callback(m, outcome) ==
    reply' = IF m.cb THEN [reply EXCEPT ![m.id] = outcome] ELSE reply

\* message_queue.get(), then the head of the matching case: DAY0 sets
\* "deploying" and saves, DAY2 sets RUNNING_DAY2_OP and saves, STOP sets
\* "destroying" without saving.
Receive(w) ==
    /\ wpc[w] = "listen"
    /\ queue[w] # <<>>
    /\ LET m == Head(queue[w])
           o == CASE m.type = "DAY0" -> "DEPLOYING"
                  [] m.type = "DAY2" -> "DAY2"
                  [] m.type = "STOP" -> "DESTROYING"
       IN /\ cur'   = [cur EXCEPT ![w] = m]
          /\ queue' = [queue EXCEPT ![w] = Tail(@)]
          /\ mem'   = [mem EXCEPT ![w] = Status(o)]
          /\ IF m.type = "STOP" THEN UNCHANGED db ELSE Save(w, Status(o))
    /\ wpc' = [wpc EXCEPT ![w] = "run"]
    /\ UNCHANGED <<wblue, reply>>

\* blueprint.create / the DAY2 method returned: the callback gets OK,
\* then the status becomes IDLE (the to_db() comes after, in SaveStatus).
OperationSucceeded(w) ==
    /\ wpc[w] = "run"
    /\ cur[w].type \in {"DAY0", "DAY2"}
    /\ Callback(cur[w], "OK")
    /\ mem' = [mem EXCEPT ![w] = Status("IDLE")]
    /\ wpc' = [wpc EXCEPT ![w] = "finish"]
    /\ UNCHANGED <<queue, wblue, cur, db>>

\* Variant recording the failure as a current_operation value of its own
\* instead of the error flag.
OperationFailedWrongField(w) ==
    /\ wpc[w] = "run"
    /\ cur[w].type \in {"DAY0", "DAY2"}
    /\ mem'  = [mem EXCEPT ![w].op = "ERROR"]
    /\ Callback(cur[w], "ERROR")
    /\ wpc' = [wpc EXCEPT ![w] = "finish"]
    /\ UNCHANGED <<queue, wblue, cur, db>>

\* The routine raised: status.error = True, the callback gets ERROR.
OperationFailed(w) ==
    /\ wpc[w] = "run"
    /\ cur[w].type \in {"DAY0", "DAY2"}
    /\ mem'  = [mem EXCEPT ![w].error = TRUE]
    /\ Callback(cur[w], "ERROR")
    /\ wpc' = [wpc EXCEPT ![w] = "finish"]
    /\ UNCHANGED <<queue, wblue, cur, db>>

\* Variant without the closing to_db().
SaveStatusSkipped(w) ==
    /\ wpc[w] = "finish"
    /\ UNCHANGED db
    /\ wpc' = [wpc EXCEPT ![w] = "listen"]
    /\ cur' = [cur EXCEPT ![w] = NoMsg]
    /\ UNCHANGED <<queue, wblue, mem, reply>>

\* The self.blueprint.to_db() closing the DAY0 and DAY2 cases.
SaveStatus(w) ==
    /\ wpc[w] = "finish"
    /\ Save(w, mem[w])
    /\ wpc' = [wpc EXCEPT ![w] = "listen"]
    /\ cur' = [cur EXCEPT ![w] = NoMsg]
    /\ UNCHANGED <<queue, wblue, mem, reply>>

\* blueprint.destroy() returned: the blueprint document is removed, the
\* callback (if any) is called and the loop is left.
Destroyed(w) ==
    /\ wpc[w] = "run"
    /\ cur[w].type = "STOP"
    /\ db' = [db EXCEPT ![wblue[w]] = Absent]
    /\ Callback(cur[w], "OK")
    /\ wpc' = [wpc EXCEPT ![w] = "stopped"]
    /\ UNCHANGED <<queue, wblue, cur, mem>>

\* blueprint.destroy() raised: the STOP case has no try, so the exception
\* leaves _listen and ends the thread; the callback is never called.
DestroyRaised(w) ==
    /\ DestroyMayFail
    /\ wpc[w] = "run"
    /\ cur[w].type = "STOP"
    /\ wpc' = [wpc EXCEPT ![w] = "dead"]
    /\ UNCHANGED <<queue, wblue, cur, mem, db, reply>>

WorkerStep(w) ==
    /\ \/ Receive(w)
       \/ OperationSucceeded(w)
       \/ OperationFailed(w)
       \/ SaveStatus(w)
       \/ Destroyed(w)
       \/ DestroyRaised(w)
    /\ UNCHANGED <<callerVars, sent>>

-----------------------------------------------------------------------------
(* Properties shared by every composition.                                 *)

\* A persisted status that says an operation is under way.
InProgress(s) == s # Absent /\ s.op \in {"DEPLOYING", "DAY2"} /\ ~s.error

Busy(w) == wpc[w] \in {"run", "finish"}

\* The store shows DEPLOYING or RUNNING_DAY2 (without error) for a
\* blueprint only while some worker thread of that blueprint is actually
\* handling a message: the status written when a DAY0/DAY2 starts is always
\* overwritten by the closing to_db() of the same case.  A missing save on
\* any path, or a thread that dies mid-operation, leaves a blueprint that
\* looks busy forever.
PersistedInProgressOnlyWhileBusy ==
    \A b \in Blues :
        InProgress(db[b]) => \E w \in Workers : wblue[w] = b /\ Busy(w)

\* The message whose result has been delivered but whose final status is
\* not saved yet.
Unsaved(i) == \E w \in Workers : wpc[w] = "finish" /\ cur[w].id = i

\* A synchronous caller is released only once the final status of its
\* operation is in the store: a caller that reads the blueprint back
\* (get_blueprint_summary_by_id reads the store) right after its call
\* returned must not see the operation still running.
ReleasedAfterSave ==
    [][\A c \in Callers :
          (cpc[c] = "wait" /\ cpc'[c] = "idle") => ~Unsaved(cmsg[c].id)]_vars

\* Every synchronous caller is eventually released, including one blocked
\* in destroy_blueprint_sync: its message is handled even when earlier
\* messages failed, and the callback is called even when the teardown
\* raised (spec section 4.4: the STOP callback fires "even if destroy
\* raised").
SyncCallReturns ==
    \A c \in Callers : cpc[c] = "wait" ~> cpc[c] = "idle"

\* Every synchronous DAY2 caller (call_function_sync, put_message_sync of a
\* DAY2) is eventually released: a failed DAY0 or DAY2 before it does not
\* stop the loop, and its callback is called on success and on error.
Day2CallReturns ==
    \A c \in Callers :
        (cpc[c] = "wait" /\ cmsg[c].type = "DAY2") ~> cpc[c] = "idle"
=============================================================================
