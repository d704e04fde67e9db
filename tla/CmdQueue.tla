------------------------------ MODULE CmdQueue ------------------------------
(***************************************************************************)
(* The command queue of ipacm, src/IPACM_CmdQueue.cpp: two linked lists of *)
(* messages, one mutex and one condition variable for both.  Any thread    *)
(* posts; the command-queue thread runs Process for ever.                  *)
(*                                                                         *)
(* Head and Tail are touched only with the mutex held, so the code between *)
(* a lock and the next unlock or wait is one step.  A message is deleted   *)
(* after its callback and its memory may serve the next one: Tail is never *)
(* cleared and may point to such a message.                                *)
(***************************************************************************)
EXTENDS Naturals, Sequences, SequencesExt

CONSTANTS Node, NoNode,    \* memory for messages
          Event, NoEvent,  \* events with their data
          Internal         \* those past IPA_EXTERNAL_EVENT_MAX

ASSUME NothingIsNoNode == NoNode \notin Node /\ NoEvent \notin Event
ASSUME MemoryIsFinite == IsFiniteSet(Node)
ASSUME InternalAreEvents == Internal \subseteq Event

(* A definition marked "mistake" is a plausible error in the one after it.  *)

Queue == {"internal", "external"}
QueueOf(e) == IF e \in Internal THEN "internal" ELSE "external"

VARIABLES head, tail,  \* Head and Tail of each queue
          next,        \* m_next of each message
          evt,         \* its event; NoEvent while the memory is free
          pc,          \* where the command-queue thread is
          item,        \* the message it processes
          woken        \* cond_var was signalled since the thread waits

vars == <<head, tail, next, evt, pc, item, woken>>

TypeOK == /\ head \in [Queue -> Node \cup {NoNode}]
          /\ tail \in [Queue -> Node \cup {NoNode}]
          /\ next \in [Node -> Node \cup {NoNode}]
          /\ evt \in [Node -> Event \cup {NoEvent}]
          /\ pc \in {"loop", "wait", "process"}
          /\ item \in Node \cup {NoNode}
          /\ woken \in BOOLEAN
          /\ pc = "process" <=> item # NoNode
          /\ item # NoNode => evt[item] # NoEvent

Init == /\ head = [q \in Queue |-> NoNode]
        /\ tail = [q \in Queue |-> NoNode]
        /\ next = [n \in Node |-> NoNode]
        /\ evt = [n \in Node |-> NoEvent]
        /\ pc = "loop"
        /\ item = NoNode
        /\ woken = FALSE

-----------------------------------------------------------------------------
Enqueue(q, n) ==
    /\ head' = IF head[q] = NoNode THEN [head EXCEPT ![q] = n] ELSE head
    /\ next' = IF head[q] = NoNode THEN [next EXCEPT ![n] = NoNode]
               ELSE [next EXCEPT ![n] = NoNode,
                                 ![IF tail[q] = NoNode THEN head[q] ELSE tail[q]] = n]
    /\ tail' = [tail EXCEPT ![q] = n]

SignalExternal(q) == woken' = (woken \/ (pc = "wait" /\ q = "external"))  \* mistake
Signal(q) == woken' = (woken \/ pc = "wait")

PostEvt(e) ==
    \E n \in Node :
        /\ evt[n] = NoEvent
        /\ evt' = [evt EXCEPT ![n] = e]
        /\ Enqueue(QueueOf(e), n)
        /\ Signal(QueueOf(e))
        /\ UNCHANGED <<pc, item>>

First == IF head["external"] # NoNode THEN "external" ELSE "internal"  \* mistake
Served == IF head["internal"] # NoNode THEN "internal" ELSE "external"

\* One pass of Process up to the callback or the wait.
Dequeue ==
    /\ pc = "loop"
    /\ IF head[Served] # NoNode
       THEN /\ item' = head[Served]
            /\ head' = [head EXCEPT ![Served] = next[head[Served]]]
            /\ pc' = "process"
            /\ UNCHANGED woken
       ELSE /\ pc' = "wait"
            /\ woken' = FALSE
            /\ UNCHANGED <<item, head>>
    /\ UNCHANGED <<tail, next, evt>>

\* pthread_cond_wait returns, when signalled or of its own accord.
Leave == pc = "wait" /\ pc' = "loop" /\ UNCHANGED <<head, tail, next, evt, item, woken>>
WakeUp == woken /\ Leave

ProcessKeepingItem ==                       \* mistake: item is not reset
    /\ pc = "process"
    /\ evt' = [evt EXCEPT ![item] = NoEvent]
    /\ pc' = "loop"
    /\ UNCHANGED <<head, tail, next, item, woken>>

\* The callback returns: delete item.
Process ==
    /\ pc = "process"
    /\ evt' = [evt EXCEPT ![item] = NoEvent]
    /\ item' = NoNode
    /\ pc' = "loop"
    /\ UNCHANGED <<head, tail, next, woken>>

Next == \/ \E e \in Event : PostEvt(e)
        \/ Dequeue \/ Leave \/ Process

\* The command-queue thread gets the mutex and the processor, and callbacks
\* return.  Spurious wake-ups are possible but not owed.
Fairness == WF_vars(Dequeue) /\ WF_vars(WakeUp) /\ WF_vars(Process)

Spec == Init /\ [][Next]_vars /\ Fairness

-----------------------------------------------------------------------------
(* Properties.                                                             *)

\* The messages s are those from the message first along the links nxt to one
\* without a next message.
Linked(first, nxt, s) ==
    /\ first = IF s = << >> THEN NoNode ELSE s[1]
    /\ \A k \in 1 .. Len(s) : nxt[s[k]] = IF k = Len(s) THEN NoNode ELSE s[k + 1]

\* The messages of queue q and their events, oldest first.
Messages(first, nxt) ==
    CHOOSE s \in BoundedSeq(Node, Cardinality(Node)) : Linked(first, nxt, s)
Events(q) == LET s == Messages(head[q], next) IN [k \in 1 .. Len(s) |-> evt[s[k]]]

\* The linked lists, signals and wake-ups implement EventQueue: no event is
\* lost or overtaken, and none waits for ever while the thread sleeps.
Abs == INSTANCE EventQueue WITH
           Message <- Event, NoMessage <- NoEvent,
           internal <- Events("internal"), external <- Events("external"),
           handled <- IF item = NoNode THEN NoEvent ELSE evt[item]
ImplementsEventQueue == Abs!Spec
=============================================================================
