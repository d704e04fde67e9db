----------------------------- MODULE EventQueue -----------------------------
(***************************************************************************)
(* What the event queue of ipacm promises to the threads that post events  *)
(* (IPACM_EvtDispatcher::PostEvt) and to the callbacks that handle them:   *)
(* two first-in first-out queues, the internal one served first, and one   *)
(* event handled at a time.  CmdQueue implements it.                       *)
(***************************************************************************)
EXTENDS Sequences

CONSTANTS Message,   \* events with their data
          Internal,  \* those past IPA_EXTERNAL_EVENT_MAX
          NoMessage

VARIABLES internal,  \* events posted and not taken, oldest first
          external,
          handled    \* the event in ProcessEvt

vars == <<internal, external, handled>>

QueueTypeOK == /\ internal \in Seq(Internal)
               /\ external \in Seq(Message \ Internal)
               /\ handled \in Message \cup {NoMessage}

Init == internal = << >> /\ external = << >> /\ handled = NoMessage

(* A definition marked "mistake" is a plausible error in the one after it.  *)

PostToOne(m) == external' = Append(external, m) /\ UNCHANGED internal  \* mistake

Post(m) ==
    IF m \in Internal THEN internal' = Append(internal, m) /\ UNCHANGED external
                      ELSE external' = Append(external, m) /\ UNCHANGED internal

TakeExternalFirst ==                        \* mistake
    IF external # << >>
    THEN /\ handled' = Head(external)
         /\ external' = Tail(external)
         /\ UNCHANGED internal
    ELSE /\ internal # << >>
         /\ handled' = Head(internal)
         /\ internal' = Tail(internal)
         /\ UNCHANGED external

TakeInternalFirst ==
    IF internal # << >>
    THEN /\ handled' = Head(internal)
         /\ internal' = Tail(internal)
         /\ UNCHANGED external
    ELSE /\ external # << >>
         /\ handled' = Head(external)
         /\ external' = Tail(external)
         /\ UNCHANGED internal

Take == handled = NoMessage /\ TakeInternalFirst
Finish == handled # NoMessage /\ handled' = NoMessage /\ UNCHANGED <<internal, external>>

Next == \/ (\E m \in Message : Post(m)) /\ UNCHANGED handled
        \/ Take
        \/ Finish

\* The command-queue thread is never stopped; nobody is obliged to post.
Spec == Init /\ [][Next]_vars /\ WF_vars(Take) /\ WF_vars(Finish)
=============================================================================
