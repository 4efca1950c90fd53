--------------------------- MODULE BlueprintActor ---------------------------
(***************************************************************************)
(* What a blueprint worker promises its callers (spec section 4.4 and 5):  *)
(* each worker is a serialized actor.  Messages are handled one at a time, *)
(* whole, in the order they were put; a message with a callback gets       *)
(* exactly one answer, when it is handled; STOP is the last message a      *)
(* worker handles.  Nothing here says how the handling is split into      *)
(* steps, nor what is persisted: BlueprintWorker refines this module.     *)
(***************************************************************************)
EXTENDS Naturals, Sequences

CONSTANTS Workers, MaxMsgs, DestroyMayFail

MsgIds   == 1..MaxMsgs
MsgTypes == {"DAY0", "DAY2", "STOP"}
Msgs     == [id : MsgIds, type : MsgTypes, cb : BOOLEAN]

VARIABLES
    inbox,     \* inbox[w]: messages accepted by w and not yet handled
    open,      \* open[w]: w still handles messages
    answered,  \* answered[i]: the answer given to message i, or "none"
    sent       \* number of messages ever created

avars == <<inbox, open, answered, sent>>

Init ==
    /\ inbox    \in [Workers -> Seq(Msgs)]
    /\ open     = [w \in Workers |-> TRUE]
    /\ answered = [i \in MsgIds |-> "none"]
    /\ sent     \in 0..MaxMsgs

\* A new message, numbered after every earlier one, joins the end of the
\* inbox of w.
Put(w, t, hasCb) ==
    /\ sent < MaxMsgs
    /\ inbox' = [inbox EXCEPT ![w] = Append(@, [id |-> sent + 1, type |-> t, cb |-> hasCb])]
    /\ sent'  = sent + 1
    /\ UNCHANGED <<open, answered>>

Outcomes(m) == IF m.type = "STOP" THEN {"OK"} ELSE {"OK", "ERROR"}

\* The oldest message of an open worker is handled at once; its callback,
\* if any, gets the outcome; a STOP closes the worker.
Complete(w) ==
    /\ open[w]
    /\ inbox[w] # <<>>
    /\ LET m == Head(inbox[w]) IN
         /\ inbox' = [inbox EXCEPT ![w] = Tail(@)]
         /\ \E o \in Outcomes(m) :
              answered' = IF m.cb THEN [answered EXCEPT ![m.id] = o] ELSE answered
         /\ open' = [open EXCEPT ![w] = (m.type # "STOP")]
    /\ UNCHANGED sent

\* Where the teardown may fail: the STOP closes the worker unanswered.
Abort(w) ==
    /\ DestroyMayFail
    /\ open[w]
    /\ inbox[w] # <<>>
    /\ Head(inbox[w]).type = "STOP"
    /\ inbox' = [inbox EXCEPT ![w] = Tail(@)]
    /\ open'  = [open EXCEPT ![w] = FALSE]
    /\ UNCHANGED <<answered, sent>>

Next ==
    \/ \E w \in Workers, t \in MsgTypes, cb \in BOOLEAN : Put(w, t, cb)
    \/ \E w \in Workers : Complete(w) \/ Abort(w)

\* An open worker with pending messages keeps handling them.
Spec == Init /\ [][Next]_avars /\ \A w \in Workers : WF_avars(Complete(w) \/ Abort(w))
=============================================================================
