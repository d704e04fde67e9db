-------------------------------- MODULE Agps --------------------------------
(***************************************************************************)
(* The AGPS state machines of the GNSS HAL: src/gps/gnss/Agps.cpp and the  *)
(* messages with which GnssAdapter.cpp drives them.                        *)
(*                                                                         *)
(* The modem asks for a data connection with requestATL and gives it back  *)
(* with releaseATL, each request under a connection handle of its own.     *)
(* One AgpsStateMachine per network interface (SUPL, WWAN) gathers the     *)
(* requesters as subscribers of a single connection, which it asks of the  *)
(* Android framework and releases when the last of them leaves.  Everything*)
(* except one error path runs in the thread of the adapter's message queue;*)
(* what the modem and the framework post reaches the queue in any order,   *)
(* so an answer may belong to a connection that was released meanwhile.    *)
(*                                                                         *)
(* The modem and the framework are external.  The framework is what the    *)
(* state machine relies on: it takes the calls in order, answers a request *)
(* open or failed, closes on a release, and may lose a connection.         *)
(***************************************************************************)
EXTENDS Integers, Sequences, FiniteSets

CONSTANTS Handles,        \* connection handles of the modem
          Nifs,           \* interfaces whose state machine exists
          WaitForClose,   \* handles subscribed with mWaitForCloseComplete
          MaxBacklog      \* bound: work outstanding when the modem asks

Kinds == {"agnss", "internet"}

ASSUME HandlesAssumption == Handles # {}
ASSUME NifsAssumption == Nifs \subseteq Kinds
ASSUME WaitAssumption == WaitForClose \subseteq Handles
ASSUME BacklogAssumption == MaxBacklog \in Nat

VARIABLES sm,        \* AgpsStateMachine objects: mState, mSubscriberList
          queue,     \* messages of the adapter's MsgTask
          calls,     \* calls of mFrameworkStatusV4Cb not acted on yet
          net,       \* the framework's connection on each interface
          modem,     \* what the modem last did or heard of each handle
          said,      \* ATL statuses the last step reported to the modem
          spoilt,    \* interfaces on which an APN was refused by the adapter
          overtaken  \* interfaces requested again with an answer outstanding

vars == <<sm, queue, calls, net, modem, said, spoilt, overtaken>>

States == {"RELEASED", "PENDING", "ACQUIRED", "RELEASING"}

\* The list as a set: addSubscriber refuses a second entry of a handle, and
\* nothing depends on the order.  idle are the subscribers with mIsInactive.
Machine(state, subs, idle) == [state |-> state, subs |-> subs, idle |-> idle]

Message(what, h, n) == [what |-> what, h |-> h, n |-> n]
AnyHandle == CHOOSE h \in Handles : TRUE
Answers == {"granted", "denied", "closed"}

-----------------------------------------------------------------------------
(* The event handlers of one state machine: the new machine, the calls made *)
(* to the framework and the statuses reported to the modem.                 *)

Result(s, toNet, told) == [sm |-> s, toNet |-> toNet, told |-> told]
Say(what, handles) == {[what |-> what, h |-> h] : h \in handles}

\* mistake: a subscriber of an acquired connection waits for the next GRANTED
SubscribeUntold(s, h) ==
    Result(Machine(IF s.state = "RELEASED" THEN "PENDING" ELSE s.state,
                   s.subs \cup {h}, s.idle),
           IF s.state = "RELEASED" THEN <<"request">> ELSE <<>>, {})

processAgpsEventSubscribe(s, h) ==
    Result(Machine(IF s.state = "RELEASED" THEN "PENDING" ELSE s.state,
                   s.subs \cup {h}, s.idle),
           IF s.state = "RELEASED" THEN <<"request">> ELSE <<>>,
           IF s.state = "ACQUIRED" THEN Say("open", {h}) ELSE {})

\* mistake: the list is examined before the subscriber is removed from it
UnsubscribeLate(s, h) ==
    LET unused == s.state \in {"PENDING", "ACQUIRED"} /\ s.subs \subseteq s.idle
    IN Result(Machine(IF unused THEN "RELEASED" ELSE s.state, s.subs \ {h}, s.idle),
              IF unused THEN <<"release">> ELSE <<>>, Say("closed", {h}))

\* mistake: a connection that is still pending is not released
UnsubscribePending(s, h) ==
    LET last == s.subs = {h}
    IN Result(Machine(IF last THEN "RELEASED" ELSE s.state, s.subs \ {h}, s.idle),
              IF last /\ s.state = "ACQUIRED" THEN <<"release">> ELSE <<>>,
              Say("closed", {h}))

\* The subscriber leaves, or waits inactive for the connection to close; a
\* machine without active subscribers releases the connection.
processAgpsEventUnsubscribe(s, h) ==
    LET waits == h \in WaitForClose
        subs  == IF waits THEN s.subs ELSE s.subs \ {h}
        idle  == IF waits THEN s.idle \cup {h} ELSE s.idle \ {h}
        told  == IF waits THEN {} ELSE Say("closed", {h})
        unused == s.state \in {"PENDING", "ACQUIRED"} /\ subs \subseteq idle
        state == IF subs = {} THEN "RELEASED"
                 ELSE IF unused THEN "RELEASING" ELSE s.state
    IN IF s.state = "RELEASED"
       THEN Result(s, <<>>, Say("closed", {h}))
       ELSE Result(Machine(state, subs, idle),
                   IF unused THEN <<"release">> ELSE <<>>, told)

\* mistake: GRANTED is taken in any state
GrantedAnyState(s) ==
    Result(Machine("ACQUIRED", s.subs, s.idle), <<>>, Say("open", s.subs \ s.idle))

processAgpsEventGranted(s) ==
    IF s.state = "PENDING"
    THEN Result(Machine("ACQUIRED", s.subs, s.idle), <<>>,
                Say("open", s.subs \ s.idle))
    ELSE Result(s, <<>>, {})

\* In RELEASING, RELEASED and DENIED do the same: the inactive subscribers
\* are told and removed, the active ones wait for a new connection.
Reopened(s) ==
    LET active == s.subs \ s.idle
    IN Result(Machine(IF active # {} THEN "PENDING" ELSE "RELEASED", active, {}),
              IF active # {} THEN <<"request">> ELSE <<>>,
              Say("closed", s.idle))

processAgpsEventReleased(s) ==
    CASE s.state = "ACQUIRED"  -> Result(Machine("RELEASED", {}, {}), <<>>,
                                         Say("closed", s.subs))
      [] s.state = "RELEASING" -> Reopened(s)
      [] OTHER                 -> Result(s, <<>>, {})

\* mistake: the event is passed on in place of the open status
DeniedRaw(s) ==
    IF s.state = "PENDING"
    THEN Result(Machine("RELEASED", {}, {}), <<>>, Say("denied", s.subs))
    ELSE Result(s, <<>>, {})

processAgpsEventDenied(s) ==
    CASE s.state = "PENDING"   -> Result(Machine("RELEASED", {}, {}), <<>>,
                                         Say("fail", s.subs))
      [] s.state = "RELEASING" -> Reopened(s)
      [] OTHER                 -> Result(s, <<>>, {})

-----------------------------------------------------------------------------
(* What the modem makes of the statuses reported in one step. *)

Told(what, told, h) == [what |-> what, h |-> h] \in told

Heard(told) ==
    [h \in Handles |->
        IF Told("closed", told, h) \/ Told("fail", told, h) THEN "none"
        ELSE IF ~Told("open", told, h) THEN modem[h]
        ELSE IF modem[h] = "asking" THEN "open"
        ELSE IF modem[h] = "leaving" THEN "closing" ELSE modem[h]]

\* Calls or answers of interface n that have not run their course, the rest
\* of the queue being q.
Outstanding(n, q) ==
    \/ calls[n] # <<>>
    \/ net[n] # "down"
    \/ \E i \in 1..Len(q) : q[i].what \in Answers /\ q[i].n = n

\* Machine n takes the outcome r of an event.
Apply(n, r) ==
    /\ sm' = [sm EXCEPT ![n] = r.sm]
    /\ calls' = [calls EXCEPT ![n] = @ \o r.toNet]
    /\ said' = r.told
    /\ modem' = Heard(r.told)

Nothing(told) ==
    /\ said' = told
    /\ modem' = Heard(told)
    /\ UNCHANGED <<sm, calls, overtaken>>

-----------------------------------------------------------------------------
(* The message loop: AgpsManager's operations on the first message. *)

Receive(what) ==
    /\ queue # <<>>
    /\ Head(queue).what = what
    /\ queue' = Tail(queue)
    /\ UNCHANGED <<net, spoilt>>

requestATL ==
    /\ Receive("request")
    /\ LET m == Head(queue)
       IN IF m.n \notin Nifs
          THEN Nothing(Say("fail", {m.h}))
          ELSE LET r == processAgpsEventSubscribe(sm[m.n], m.h)
               IN /\ Apply(m.n, r)
                  /\ overtaken' = IF r.toNet # <<>> /\ Outstanding(m.n, Tail(queue))
                                  THEN overtaken \cup {m.n} ELSE overtaken

\* The manager looks for the handle in the AGNSS machine first.
Owners(h) == {n \in Nifs : h \in sm[n].subs}

releaseATL ==
    /\ Receive("release")
    /\ LET h == Head(queue).h
           n == IF "agnss" \in Owners(h) THEN "agnss" ELSE "internet"
       IN IF Owners(h) = {}
          THEN Nothing({})
          ELSE /\ Apply(n, processAgpsEventUnsubscribe(sm[n], h))
               /\ UNCHANGED overtaken

reportAtlOpenSuccess ==
    /\ Receive("granted")
    /\ LET n == Head(queue).n IN Apply(n, processAgpsEventGranted(sm[n]))
    /\ UNCHANGED overtaken

reportAtlOpenFailed ==
    /\ Receive("denied")
    /\ LET n == Head(queue).n IN Apply(n, processAgpsEventDenied(sm[n]))
    /\ UNCHANGED overtaken

reportAtlClosed ==
    /\ Receive("closed")
    /\ LET n == Head(queue).n IN Apply(n, processAgpsEventReleased(sm[n]))
    /\ UNCHANGED overtaken

Loop == \/ requestATL \/ releaseATL
        \/ reportAtlOpenSuccess \/ reportAtlOpenFailed \/ reportAtlClosed

-----------------------------------------------------------------------------
(* The modem: a handle asks when it has no request of its own under way, and *)
(* may give up before it is answered.                                        *)

Backlog == Len(queue) + (IF "agnss" \in Nifs THEN Len(calls["agnss"]) ELSE 0)
                      + (IF "internet" \in Nifs THEN Len(calls["internet"]) ELSE 0)

Post(m) == queue' = Append(queue, m)

AskATL(h, n) ==
    /\ modem[h] = "none"
    /\ Backlog < MaxBacklog
    /\ Post(Message("request", h, n))
    /\ modem' = [modem EXCEPT ![h] = "asking"]
    /\ said' = {}
    /\ UNCHANGED <<sm, calls, net, spoilt, overtaken>>

GiveBackATL(h) ==
    /\ modem[h] \in {"asking", "open"}
    /\ Post(Message("release", h, "agnss"))
    /\ modem' = [modem EXCEPT ![h] = IF @ = "asking" THEN "leaving" ELSE "closing"]
    /\ said' = {}
    /\ UNCHANGED <<sm, calls, net, spoilt, overtaken>>

-----------------------------------------------------------------------------
(* The framework. *)

Answer(what, n) == Post(Message(what, AnyHandle, n))

\* It takes a request: it starts to connect, or is connected already.
TakeRequest(n) ==
    /\ calls[n] # <<>>
    /\ Head(calls[n]) = "request"
    /\ calls' = [calls EXCEPT ![n] = Tail(@)]
    /\ net' = [net EXCEPT ![n] = IF @ = "down" THEN "opening" ELSE @]
    /\ IF net[n] = "up" THEN Answer("granted", n) ELSE UNCHANGED queue
    /\ said' = {}
    /\ UNCHANGED <<sm, modem, spoilt, overtaken>>

TakeRelease(n) ==
    /\ calls[n] # <<>>
    /\ Head(calls[n]) = "release"
    /\ calls' = [calls EXCEPT ![n] = Tail(@)]
    /\ net' = [net EXCEPT ![n] = "down"]
    /\ Answer("closed", n)
    /\ said' = {}
    /\ UNCHANGED <<sm, modem, spoilt, overtaken>>

Opened(n) ==
    /\ net[n] = "opening"
    /\ net' = [net EXCEPT ![n] = "up"]
    /\ Answer("granted", n)
    /\ said' = {}
    /\ UNCHANGED <<sm, calls, modem, spoilt, overtaken>>

Refused(n) ==
    /\ net[n] = "opening"
    /\ net' = [net EXCEPT ![n] = "down"]
    /\ Answer("denied", n)
    /\ said' = {}
    /\ UNCHANGED <<sm, calls, modem, spoilt, overtaken>>

Lost(n) ==
    /\ net[n] = "up"
    /\ net' = [net EXCEPT ![n] = "down"]
    /\ Answer("closed", n)
    /\ said' = {}
    /\ UNCHANGED <<sm, calls, modem, spoilt, overtaken>>

\* dataConnOpenCommand refuses the APN the framework connected with: it calls
\* reportAtlClosed at once, in the framework's thread and ahead of the queue.
OpenedBadApn(n) ==
    /\ net[n] = "opening"
    /\ net' = [net EXCEPT ![n] = "up"]
    /\ Apply(n, processAgpsEventReleased(sm[n]))
    /\ spoilt' = spoilt \cup {n}
    /\ UNCHANGED <<queue, overtaken>>

Framework(n) == \/ TakeRequest(n) \/ TakeRelease(n)
                \/ Opened(n) \/ Refused(n) \/ Lost(n) \/ OpenedBadApn(n)

-----------------------------------------------------------------------------
Init ==
    /\ sm = [n \in Nifs |-> Machine("RELEASED", {}, {})]
    /\ queue = <<>>
    /\ calls = [n \in Nifs |-> <<>>]
    /\ net = [n \in Nifs |-> "down"]
    /\ modem = [h \in Handles |-> "none"]
    /\ said = {}
    /\ spoilt = {}
    /\ overtaken = {}

Next ==
    \/ Loop
    \/ \E h \in Handles, n \in Kinds : AskATL(h, n)
    \/ \E h \in Handles : GiveBackATL(h)
    \/ \E n \in Nifs : Framework(n)

\* The thread of the message queue runs, the framework takes its calls and
\* settles a connection it is opening.
Fairness ==
    /\ WF_vars(Loop)
    /\ \A n \in Nifs : /\ WF_vars(TakeRequest(n) \/ TakeRelease(n))
                       /\ WF_vars(Opened(n) \/ Refused(n) \/ OpenedBadApn(n))

Spec == Init /\ [][Next]_vars /\ Fairness

-----------------------------------------------------------------------------
(* Properties. *)

Messages == [what : {"request", "release"} \cup Answers, h : Handles, n : Kinds]
Statuses == [what : {"open", "fail", "closed"}, h : Handles]

\* Type invariant: the answers in the queue name an interface that exists.
TypeOK ==
    /\ sm \in [Nifs -> [state : States, subs : SUBSET Handles, idle : SUBSET Handles]]
    /\ queue \in Seq(Messages)
    /\ \A i \in 1..Len(queue) : queue[i].what \in Answers => queue[i].n \in Nifs
    /\ calls \in [Nifs -> Seq({"request", "release"})]
    /\ net \in [Nifs -> {"down", "opening", "up"}]
    /\ modem \in [Handles -> {"none", "asking", "leaving", "open", "closing"}]
    /\ said \in SUBSET Statuses
    /\ spoilt \subseteq Nifs
    /\ overtaken \subseteq Nifs

\* A state machine that asks for or holds a connection does so for an active
\* subscriber, and one that is released has none ("Subscriber list should be
\* empty if we are in released state", Agps.cpp:201): whatever order requests,
\* releases and the framework's answers come in.
HeldForSomeone ==
    \A n \in Nifs :
        /\ sm[n].state = "RELEASED" => sm[n].subs = {}
        /\ sm[n].state \in {"PENDING", "ACQUIRED"} => sm[n].subs \ sm[n].idle # {}

\* The modem hears an open or fail status only while a request of that handle is
\* unanswered, and a close status only after one was granted or given up, in
\* whatever order answers and requests meet (Agps.cpp:173-283, the guards on the
\* state).  The status need not stem from the answer to that very request:
\* GRANTED names none, and that of a connection released meanwhile will do.
AnswersAreDue ==
    [][\A a \in said' :
          /\ a.what \in {"open", "fail"} => modem[a.h] \in {"asking", "leaving"}
          /\ a.what = "closed" => modem[a.h] \in {"open", "leaving", "closing"}]_vars

\* Every request is answered and every release ends, unless an APN was
\* refused: dataConnOpenCommand reports that as a closed connection, which a
\* pending state machine ignores.
RequestsAnswered ==
    \A h \in Handles :
        /\ modem[h] = "asking" ~> (modem[h] # "asking" \/ spoilt # {})
        /\ modem[h] \in {"leaving", "closing"} ~> modem[h] = "none"

\* When nothing is under way and nobody subscribes, the framework has its
\* connection back, unless a request had overtaken the answers to an earlier
\* one: then the second GRANTED may find the machine released and be ignored.
\* Nor is an interface meant on which the adapter refused an APN: the framework
\* is not told to close that connection (GnssAdapter.cpp:4378-4387).
ConnectionsReturned ==
    \A n \in Nifs :
        (/\ sm[n].state = "RELEASED"
         /\ calls[n] = <<>>
         /\ net[n] # "opening"
         /\ ~\E i \in 1..Len(queue) : queue[i].what \in Answers /\ queue[i].n = n
         /\ n \notin overtaken \cup spoilt) => net[n] = "down"
=============================================================================
