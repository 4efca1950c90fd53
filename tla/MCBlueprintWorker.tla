------------------------- MODULE MCBlueprintWorker -------------------------
(***************************************************************************)
(* One BlueprintWorker and its callers.  The worker is either freshly      *)
(* built by BlueprintManager.create_blueprint (queue holds the DAY0, no    *)
(* document yet) or re-built by get_worker from a stored IDLE blueprint.   *)
(* Callers enqueue DAY2 messages with or without callback and finally one  *)
(* STOP, with or without callback; as BlueprintManager.delete_blueprint    *)
(* does, nothing is enqueued after the STOP (BlueprintLCM drops that       *)
(* assumption).                                                            *)
(***************************************************************************)
EXTENDS BlueprintWorker

CONSTANTS w1, b1

\* The worker still takes messages: no STOP enqueued or being handled.
Accepting(w) ==
    /\ wpc[w] \in {"listen", "run", "finish"}
    /\ \A i \in 1..Len(queue[w]) : queue[w][i].type # "STOP"
    /\ ~Handling(w, "STOP")

Init ==
    /\ wpc   = [w \in Workers |-> "listen"]
    /\ wblue = [w \in Workers |-> b1]
    /\ cur   = [w \in Workers |-> NoMsg]
    /\ mem   = [w \in Workers |-> Status("IDLE")]
    /\ reply = [i \in MsgIds |-> "none"]
    /\ cpc   = [c \in Callers |-> "idle"]
    /\ cmsg  = [c \in Callers |-> NoMsg]
    /\ \/ \* create_blueprint: worker started, DAY0 enqueued, nothing stored
          /\ queue = [w \in Workers |-> <<[id |-> 1, type |-> "DAY0", cb |-> FALSE]>>]
          /\ db    = [b \in Blues |-> Absent]
          /\ sent  = 1
       \/ \* get_worker: blueprint loaded from the store
          /\ queue = [w \in Workers |-> <<>>]
          /\ db    = [b \in Blues |-> Status("IDLE")]
          /\ sent  = 0

Env ==
    \/ \E w \in Workers, t \in {"DAY2", "STOP"} :
          /\ Accepting(w)
          /\ PutMessage(w, t, FALSE)
          /\ UNCHANGED callerVars
    \/ \E c \in Callers, w \in Workers, t \in {"DAY2", "STOP"} :
          /\ Accepting(w)
          /\ PutMessageSync(c, w, t)

Next ==
    \/ Env
    \/ \E w \in Workers : WorkerStep(w)
    \/ \E c \in Callers : SyncReturn(c)

\* The consumer thread never stops forever while it has work; a released
\* event always wakes its waiter.
Spec ==
    /\ Init /\ [][Next]_vars
    /\ \A w \in Workers : WF_vars(WorkerStep(w))
    /\ \A c \in Callers : WF_vars(SyncReturn(c))
-----------------------------------------------------------------------------
(* The worker implements the serialized actor of BlueprintActor.  The      *)
(* message being handled still belongs to the abstract inbox until its    *)
(* routine has finished; the final to_db() is invisible to the actor.     *)
Actor == INSTANCE BlueprintActor WITH
    inbox    <- [w \in Workers |-> IF wpc[w] = "run"
                                   THEN <<cur[w]>> \o queue[w]
                                   ELSE queue[w]],
    open     <- [w \in Workers |-> wpc[w] \notin {"stopped", "dead"}],
    answered <- reply

\* FIFO order, one message at a time, one answer per callback, STOP last,
\* and progress while the worker is open.
ActorSpec == Actor!Spec
=============================================================================
