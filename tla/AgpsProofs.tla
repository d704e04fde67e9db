----------------------------- MODULE AgpsProofs -----------------------------
(***************************************************************************)
(* Proofs about Agps, for every set of handles, whichever state machines   *)
(* exist, whichever subscribers wait for the close (so that the state      *)
(* RELEASING, which requestATL never leads to, is covered too), and any    *)
(* backlog: type correctness, that a connection is held for someone, and   *)
(* that a subscriber is only told what it is due.  That connections are    *)
(* returned is proved if nobody waits for the close, as in the code.       *)
(***************************************************************************)
EXTENDS Agps, SequenceTheorems, TLAPS

(* The invariant of one machine, and what every event handler returns. *)
Machines == [state : States, subs : SUBSET Handles, idle : SUBSET Handles]
Used(s) == /\ s.idle \subseteq s.subs
           /\ s.state = "RELEASED" => s.subs = {}
           /\ s.state \in {"PENDING", "ACQUIRED"} => s.subs \ s.idle # {}
Good(s) == s \in Machines /\ Used(s)
Calls == Seq({"request", "release"})
GoodResult(r) == Good(r.sm) /\ r.toNet \in Calls /\ r.told \in SUBSET Statuses

LEMMA MachineIsGood ==
    ASSUME NEW state \in States, NEW subs \in SUBSET Handles,
           NEW idle \in SUBSET Handles,
           idle \subseteq subs, state = "RELEASED" => subs = {},
           state \in {"PENDING", "ACQUIRED"} => subs \ idle # {}
    PROVE  Good(Machine(state, subs, idle))
  BY DEF Good, Used, Machine, Machines

LEMMA SayIsStatuses ==
    ASSUME NEW what \in {"open", "fail", "closed"}, NEW S \in SUBSET Handles
    PROVE  Say(what, S) \in SUBSET Statuses
  BY DEF Say, Statuses

LEMMA CallsAreShort == /\ << >> \in Calls
                       /\ <<"request">> \in Calls
                       /\ <<"release">> \in Calls
  BY DEF Calls

LEMMA ResultIsGood ==
    ASSUME NEW s, NEW c, NEW t, Good(s), c \in Calls, t \in SUBSET Statuses
    PROVE  GoodResult(Result(s, c, t))
  BY DEF Result, GoodResult

LEMMA SubscribeIsGood ==
    ASSUME NEW s, NEW h \in Handles, Good(s)
    PROVE  GoodResult(processAgpsEventSubscribe(s, h))
<1> DEFINE state == IF s.state = "RELEASED" THEN "PENDING" ELSE s.state
           toNet == IF s.state = "RELEASED" THEN <<"request">> ELSE << >>
           told  == IF s.state = "ACQUIRED" THEN Say("open", {h}) ELSE {}
           subs  == s.subs \cup {h}
<1>0. s \in Machines /\ Used(s)
  BY DEF Good
<1>1. /\ state \in States /\ subs \in SUBSET Handles
      /\ s.idle \in SUBSET Handles /\ s.idle \subseteq subs
  BY <1>0 DEF Machines, States, Used
<1>2. state # "RELEASED"
  OBVIOUS
<1>3. ASSUME state \in {"PENDING", "ACQUIRED"}
      PROVE  subs \ s.idle # {}
  <2>1. CASE s.state = "RELEASED"
    BY <1>0, <2>1 DEF Used
  <2>2. CASE s.state # "RELEASED"
    BY <1>0, <1>3, <2>2 DEF Used
  <2> QED
    BY <2>1, <2>2
<1>4. Good(Machine(state, subs, s.idle))
  <2> HIDE DEF state, subs
  <2> QED
    BY <1>1, <1>2, <1>3, MachineIsGood
<1>5. toNet \in Calls
  BY CallsAreShort
<1>6. told \in SUBSET Statuses
  BY SayIsStatuses
<1>7. processAgpsEventSubscribe(s, h) = Result(Machine(state, subs, s.idle), toNet, told)
  BY DEF processAgpsEventSubscribe
<1> QED
  <2> HIDE DEF state, subs, toNet, told
  <2> QED
    BY <1>4, <1>5, <1>6, <1>7, ResultIsGood

LEMMA UnsubscribeIsGood ==
    ASSUME NEW s, Good(s), NEW h \in s.subs
    PROVE  GoodResult(processAgpsEventUnsubscribe(s, h))
<1> DEFINE waits == h \in WaitForClose
           subs  == IF waits THEN s.subs ELSE s.subs \ {h}
           idle  == IF waits THEN s.idle \cup {h} ELSE s.idle \ {h}
           told  == IF waits THEN {} ELSE Say("closed", {h})
           unused == s.state \in {"PENDING", "ACQUIRED"} /\ subs \subseteq idle
           state == IF subs = {} THEN "RELEASED"
                    ELSE IF unused THEN "RELEASING" ELSE s.state
           toNet == IF unused THEN <<"release">> ELSE << >>
<1>0. s \in Machines /\ Used(s) /\ h \in Handles
  BY DEF Good, Machines
<1>1. s.state # "RELEASED" /\ s.state \in States
  BY <1>0 DEF Used, Machines
<1>2. subs \in SUBSET Handles /\ idle \in SUBSET Handles /\ idle \subseteq subs
  BY <1>0 DEF Machines, Used
<1>3. state \in States /\ (state = "RELEASED" => subs = {})
  BY <1>1 DEF States
<1>4. state \in {"PENDING", "ACQUIRED"} => subs \ idle # {}
  <2> HIDE DEF subs, idle
  <2> QED
    OBVIOUS
<1>5. Good(Machine(state, subs, idle))
  <2> HIDE DEF state, subs, idle
  <2> QED
    BY <1>2, <1>3, <1>4, MachineIsGood
<1>6. toNet \in Calls
  BY CallsAreShort
<1>7. told \in SUBSET Statuses
  BY <1>0, SayIsStatuses
<1>8. processAgpsEventUnsubscribe(s, h) = Result(Machine(state, subs, idle), toNet, told)
  BY <1>1 DEF processAgpsEventUnsubscribe
<1> QED
  <2> HIDE DEF state, subs, idle, toNet, told
  <2> QED
    BY <1>5, <1>6, <1>7, <1>8, ResultIsGood

LEMMA GrantedIsGood ==
    ASSUME NEW s, Good(s)
    PROVE  GoodResult(processAgpsEventGranted(s))
<1>0. s \in Machines /\ Used(s)
  BY DEF Good
<1>1. s.subs \in SUBSET Handles /\ s.idle \in SUBSET Handles
  BY <1>0 DEF Machines
<1>2. Say("open", s.subs \ s.idle) \in SUBSET Statuses
  BY <1>1, SayIsStatuses
<1>3. CASE s.state = "PENDING"
  <2>1. Good(Machine("ACQUIRED", s.subs, s.idle))
    BY <1>0, <1>1, <1>3, MachineIsGood DEF Used, States
  <2> QED
    BY <1>2, <1>3, <2>1, CallsAreShort, ResultIsGood DEF processAgpsEventGranted
<1>4. CASE s.state # "PENDING"
  BY <1>4, CallsAreShort, ResultIsGood DEF processAgpsEventGranted
<1> QED
  BY <1>3, <1>4

LEMMA EmptyIsGood == Good(Machine("RELEASED", {}, {}))
  BY MachineIsGood DEF States

LEMMA ReopenedIsGood ==
    ASSUME NEW s, Good(s)
    PROVE  GoodResult(Reopened(s))
<1> DEFINE active == s.subs \ s.idle
<1>1. active \in SUBSET Handles /\ s.idle \in SUBSET Handles
  BY DEF Good, Machines
<1>2. Say("closed", s.idle) \in SUBSET Statuses
  BY <1>1, SayIsStatuses
<1> HIDE DEF active
<1>3. CASE active # {}
  <2>1. Good(Machine("PENDING", active, {}))
    BY <1>1, <1>3, MachineIsGood DEF States
  <2> QED
    BY <1>2, <1>3, <2>1, CallsAreShort, ResultIsGood DEF Reopened, active
<1>4. CASE active = {}
  BY <1>2, <1>4, EmptyIsGood, CallsAreShort, ResultIsGood DEF Reopened, active
<1> QED
  BY <1>3, <1>4

LEMMA ReleasedIsGood ==
    ASSUME NEW s, Good(s)
    PROVE  GoodResult(processAgpsEventReleased(s))
<1>1. CASE s.state = "ACQUIRED"
  <2>1. Say("closed", s.subs) \in SUBSET Statuses
    BY SayIsStatuses DEF Good, Machines
  <2> QED
    BY <1>1, <2>1, EmptyIsGood, CallsAreShort, ResultIsGood
       DEF processAgpsEventReleased
<1>2. CASE s.state = "RELEASING"
  BY <1>2, ReopenedIsGood DEF processAgpsEventReleased
<1>3. CASE s.state \notin {"ACQUIRED", "RELEASING"}
  BY <1>3, CallsAreShort, ResultIsGood DEF processAgpsEventReleased
<1> QED
  BY <1>1, <1>2, <1>3

LEMMA DeniedIsGood ==
    ASSUME NEW s, Good(s)
    PROVE  GoodResult(processAgpsEventDenied(s))
<1>1. CASE s.state = "PENDING"
  <2>1. Say("fail", s.subs) \in SUBSET Statuses
    BY SayIsStatuses DEF Good, Machines
  <2> QED
    BY <1>1, <2>1, EmptyIsGood, CallsAreShort, ResultIsGood
       DEF processAgpsEventDenied
<1>2. CASE s.state = "RELEASING"
  BY <1>2, ReopenedIsGood DEF processAgpsEventDenied
<1>3. CASE s.state \notin {"PENDING", "RELEASING"}
  BY <1>3, CallsAreShort, ResultIsGood DEF processAgpsEventDenied
<1> QED
  BY <1>1, <1>2, <1>3

-----------------------------------------------------------------------------
(* The invariant of the specification, and that applying a good result keeps *)
(* what it says of the variables a handler changes.                          *)

MachinesGood == sm \in [Nifs -> Machines] /\ \A n \in Nifs : Used(sm[n])
QueueShape ==
    /\ queue \in Seq(Messages)
    /\ \A i \in 1..Len(queue) : queue[i].what \in Answers => queue[i].n \in Nifs
NetShape == /\ calls \in [Nifs -> Calls]
            /\ net \in [Nifs -> {"down", "opening", "up"}]
ModemShape == /\ modem \in [Handles -> {"none", "asking", "leaving", "open", "closing"}]
              /\ said \in SUBSET Statuses
NotesShape == spoilt \subseteq Nifs /\ overtaken \subseteq Nifs
IInv == MachinesGood /\ QueueShape /\ NetShape /\ ModemShape /\ NotesShape

LEMMA IInvImplies == IInv => TypeOK /\ HeldForSomeone
  BY DEF IInv, MachinesGood, QueueShape, NetShape, ModemShape, NotesShape,
         Machines, Used, Calls, TypeOK, HeldForSomeone

LEMMA InitIInv == Init => IInv
<1> SUFFICES ASSUME Init PROVE IInv
  OBVIOUS
<1>1. MachinesGood
  <2>1. Machine("RELEASED", {}, {}) \in Machines /\ Used(Machine("RELEASED", {}, {}))
    BY EmptyIsGood DEF Good
  <2> QED
    BY <2>1 DEF Init, MachinesGood
<1>2. QueueShape
  BY DEF Init, QueueShape
<1>3. NetShape
  BY CallsAreShort DEF Init, NetShape
<1>4. ModemShape /\ NotesShape
  BY DEF Init, ModemShape, NotesShape
<1> QED
  BY <1>1, <1>2, <1>3, <1>4 DEF IInv

LEMMA HeardIsTyped ==
    ASSUME ModemShape, NEW told
    PROVE  Heard(told) \in [Handles -> {"none", "asking", "leaving", "open", "closing"}]
  BY DEF Heard, ModemShape

LEMMA ApplyKeeps ==
    ASSUME IInv, NEW n \in Nifs, NEW r, GoodResult(r), Apply(n, r)
    PROVE  MachinesGood' /\ calls' \in [Nifs -> Calls] /\ ModemShape'
<1>1. r.sm \in Machines /\ Used(r.sm) /\ r.toNet \in Calls /\ r.told \in SUBSET Statuses
  BY DEF GoodResult, Good
<1>2. MachinesGood'
  BY <1>1 DEF Apply, IInv, MachinesGood
<1>3. calls[n] \o r.toNet \in Calls
  BY <1>1 DEF IInv, NetShape, Calls
<1>4. calls' \in [Nifs -> Calls]
  BY <1>3 DEF Apply, IInv, NetShape
<1>5. ModemShape'
  BY <1>1, HeardIsTyped DEF Apply, IInv, ModemShape
<1> QED
  BY <1>2, <1>4, <1>5

LEMMA NothingKeeps ==
    ASSUME IInv, NEW told \in SUBSET Statuses, Nothing(told)
    PROVE  MachinesGood' /\ calls' \in [Nifs -> Calls] /\ ModemShape'
<1>1. MachinesGood' /\ calls' \in [Nifs -> Calls]
  BY DEF Nothing, IInv, MachinesGood, NetShape
<1>2. ModemShape'
  BY HeardIsTyped DEF Nothing, IInv, ModemShape
<1> QED
  BY <1>1, <1>2

LEMMA ReceiveKeeps ==
    ASSUME IInv, NEW what, Receive(what)
    PROVE  /\ QueueShape'
           /\ net' = net /\ spoilt' = spoilt
           /\ Head(queue) \in Messages /\ Head(queue).what = what
           /\ what \in Answers => Head(queue).n \in Nifs
<1>1. queue \in Seq(Messages) /\ queue # << >> /\ queue' = Tail(queue)
  BY DEF Receive, IInv, QueueShape
<1>2. Head(queue) = queue[1] /\ 1 \in 1..Len(queue) /\ Head(queue) \in Messages
  BY <1>1
<1>3. queue' \in Seq(Messages) /\ Len(queue') = Len(queue) - 1
  BY <1>1
<1>4. \A i \in 1..Len(queue') : queue'[i] = queue[i + 1] /\ i + 1 \in 1..Len(queue)
  BY <1>1, <1>3
<1>5. QueueShape'
  BY <1>3, <1>4 DEF QueueShape, IInv
<1> QED
  BY <1>2, <1>5 DEF Receive, IInv, QueueShape

LEMMA PostKeeps ==
    ASSUME IInv, NEW m \in Messages, m.what \in Answers => m.n \in Nifs, Post(m)
    PROVE  QueueShape'
<1>1. queue \in Seq(Messages) /\ queue' = Append(queue, m)
  BY DEF Post, IInv, QueueShape
<1>2. queue' \in Seq(Messages) /\ Len(queue') = Len(queue) + 1
  BY <1>1
<1>3. \A i \in 1..Len(queue') :
          queue'[i] = (IF i \in 1..Len(queue) THEN queue[i] ELSE m)
  BY <1>1, <1>2
<1> QED
  BY <1>2, <1>3 DEF QueueShape, IInv

LEMMA AnswerKeeps ==
    ASSUME IInv, NEW what \in Answers, NEW n \in Nifs, Answer(what, n)
    PROVE  QueueShape'
<1>1. AnyHandle \in Handles
  BY HandlesAssumption DEF AnyHandle
<1>2. Message(what, AnyHandle, n) \in Messages
  BY <1>1, NifsAssumption DEF Message, Messages
<1>3. Message(what, AnyHandle, n).n \in Nifs
  BY DEF Message
<1> QED
  BY <1>2, <1>3, PostKeeps DEF Answer

-----------------------------------------------------------------------------
(* One step per action. *)

LEMMA LoopKeeps == IInv /\ Loop => IInv'
<1> SUFFICES ASSUME IInv, Loop PROVE IInv'
  OBVIOUS
<1>0. \A n \in Nifs : Good(sm[n])
  BY DEF IInv, MachinesGood, Good
<1>1. CASE requestATL
  <2> DEFINE m == Head(queue)
             r == processAgpsEventSubscribe(sm[m.n], m.h)
  <2>1. QueueShape' /\ net' = net /\ spoilt' = spoilt /\ m.h \in Handles
    BY <1>1, ReceiveKeeps DEF requestATL, Messages
  <2>2. CASE m.n \notin Nifs
    <3>1. Say("fail", {m.h}) \in SUBSET Statuses
      BY <2>1, SayIsStatuses
    <3>2. Nothing(Say("fail", {m.h})) /\ overtaken' = overtaken
      BY <1>1, <2>2 DEF requestATL, Nothing
    <3> QED
      BY <2>1, <3>1, <3>2, NothingKeeps DEF IInv, NetShape, NotesShape
  <2>3. CASE m.n \in Nifs
    <3>1. GoodResult(r)
      BY <1>0, <2>1, <2>3, SubscribeIsGood
    <3>2. Apply(m.n, r) /\ overtaken' \subseteq overtaken \cup {m.n}
      BY <1>1, <2>3 DEF requestATL
    <3> HIDE DEF r
    <3> QED
      BY <2>1, <2>3, <3>1, <3>2, ApplyKeeps DEF IInv, NetShape, NotesShape
  <2> QED
    BY <2>2, <2>3
<1>2. CASE releaseATL
  <2> DEFINE h == Head(queue).h
             n == IF "agnss" \in Owners(h) THEN "agnss" ELSE "internet"
  <2>1. QueueShape' /\ net' = net /\ spoilt' = spoilt
    BY <1>2, ReceiveKeeps DEF releaseATL
  <2>2. CASE Owners(h) = {}
    <3>1. Nothing({}) /\ overtaken' = overtaken
      BY <1>2, <2>2 DEF releaseATL, Nothing
    <3> QED
      BY <2>1, <3>1, NothingKeeps DEF IInv, NetShape, NotesShape
  <2>3. CASE Owners(h) # {}
    <3>1. n \in Owners(h)
      BY <2>3, NifsAssumption DEF Owners, Kinds
    <3>2. n \in Nifs /\ h \in sm[n].subs
      BY <3>1 DEF Owners
    <3>3. Apply(n, processAgpsEventUnsubscribe(sm[n], h)) /\ overtaken' = overtaken
      BY <1>2, <2>3 DEF releaseATL
    <3> HIDE DEF n, h
    <3>4. GoodResult(processAgpsEventUnsubscribe(sm[n], h))
      BY <1>0, <3>2, UnsubscribeIsGood
    <3> QED
      BY <2>1, <3>2, <3>3, <3>4, ApplyKeeps DEF IInv, NetShape, NotesShape
  <2> QED
    BY <2>2, <2>3
<1>3. CASE reportAtlOpenSuccess
  <2>1. PICK n \in Nifs : Apply(n, processAgpsEventGranted(sm[n]))
    BY <1>3, ReceiveKeeps DEF reportAtlOpenSuccess, Answers
  <2>2. QueueShape' /\ net' = net /\ spoilt' = spoilt /\ overtaken' = overtaken
    BY <1>3, ReceiveKeeps DEF reportAtlOpenSuccess
  <2> QED
    BY <1>0, <2>1, <2>2, GrantedIsGood, ApplyKeeps DEF IInv, NetShape, NotesShape
<1>4. CASE reportAtlOpenFailed
  <2>1. PICK n \in Nifs : Apply(n, processAgpsEventDenied(sm[n]))
    BY <1>4, ReceiveKeeps DEF reportAtlOpenFailed, Answers
  <2>2. QueueShape' /\ net' = net /\ spoilt' = spoilt /\ overtaken' = overtaken
    BY <1>4, ReceiveKeeps DEF reportAtlOpenFailed
  <2> QED
    BY <1>0, <2>1, <2>2, DeniedIsGood, ApplyKeeps DEF IInv, NetShape, NotesShape
<1>5. CASE reportAtlClosed
  <2>1. PICK n \in Nifs : Apply(n, processAgpsEventReleased(sm[n]))
    BY <1>5, ReceiveKeeps DEF reportAtlClosed, Answers
  <2>2. QueueShape' /\ net' = net /\ spoilt' = spoilt /\ overtaken' = overtaken
    BY <1>5, ReceiveKeeps DEF reportAtlClosed
  <2> QED
    BY <1>0, <2>1, <2>2, ReleasedIsGood, ApplyKeeps DEF IInv, NetShape, NotesShape
<1> QED
  BY <1>1, <1>2, <1>3, <1>4, <1>5 DEF Loop

LEMMA ModemKeeps ==
    ASSUME IInv, NEW h \in Handles,
           (\E n \in Kinds : AskATL(h, n)) \/ GiveBackATL(h)
    PROVE  IInv'
<1>1. /\ UNCHANGED <<sm, calls, net, spoilt, overtaken>> /\ said' = {}
      /\ \E to \in {"asking", "leaving", "closing"} : modem' = [modem EXCEPT ![h] = to]
  BY DEF AskATL, GiveBackATL
<1>2. MachinesGood' /\ NetShape' /\ NotesShape' /\ ModemShape'
  BY <1>1 DEF IInv, MachinesGood, NetShape, NotesShape, ModemShape
<1>3. QueueShape'
  <2>1. CASE GiveBackATL(h)
    <3>1. Message("release", h, "agnss") \in Messages
      BY DEF Message, Messages, Kinds
    <3>2. Message("release", h, "agnss").what \notin Answers
      BY DEF Message, Answers
    <3> QED
      BY <2>1, <3>1, <3>2, PostKeeps DEF GiveBackATL
  <2>2. ASSUME NEW n \in Kinds, AskATL(h, n)
        PROVE  QueueShape'
    <3>1. Message("request", h, n) \in Messages
      BY DEF Message, Messages
    <3>2. Message("request", h, n).what \notin Answers
      BY DEF Message, Answers
    <3> QED
      BY <2>2, <3>1, <3>2, PostKeeps DEF AskATL
  <2> QED
    BY <2>1, <2>2
<1> QED
  BY <1>2, <1>3 DEF IInv

LEMMA FrameworkKeeps ==
    ASSUME IInv, NEW n \in Nifs, Framework(n)
    PROVE  IInv'
<1>0. IInv /\ calls[n] \in Calls
  BY DEF IInv, NetShape
<1>1. CASE TakeRequest(n) \/ TakeRelease(n)
  <2>1. Tail(calls[n]) \in Calls
    BY <1>0, <1>1 DEF TakeRequest, TakeRelease, Calls
  <2>2. NetShape'
    BY <1>0, <1>1, <2>1 DEF TakeRequest, TakeRelease, IInv, NetShape
  <2>3. QueueShape'
    <3>1. CASE Answer("granted", n) \/ Answer("closed", n)
      BY <3>1, AnswerKeeps DEF Answers
    <3>2. CASE queue' = queue
      BY <3>2 DEF IInv, QueueShape
    <3> QED
      BY <1>1, <3>1, <3>2 DEF TakeRequest, TakeRelease
  <2>4. UNCHANGED <<sm, modem, spoilt, overtaken>> /\ said' = {}
    BY <1>1 DEF TakeRequest, TakeRelease
  <2> QED
    BY <2>2, <2>3, <2>4 DEF IInv, MachinesGood, ModemShape, NotesShape
<1>2. CASE Opened(n) \/ Refused(n) \/ Lost(n)
  <2>1. NetShape'
    BY <1>2 DEF Opened, Refused, Lost, IInv, NetShape
  <2>2. QueueShape'
    BY <1>2, AnswerKeeps DEF Opened, Refused, Lost, Answers
  <2>3. UNCHANGED <<sm, modem, spoilt, overtaken>> /\ said' = {}
    BY <1>2 DEF Opened, Refused, Lost
  <2> QED
    BY <2>1, <2>2, <2>3 DEF IInv, MachinesGood, ModemShape, NotesShape
<1>3. CASE OpenedBadApn(n)
  <2>1. GoodResult(processAgpsEventReleased(sm[n]))
    BY ReleasedIsGood DEF IInv, MachinesGood, Good
  <2>2. MachinesGood' /\ calls' \in [Nifs -> Calls] /\ ModemShape'
    BY <1>3, <2>1, ApplyKeeps DEF OpenedBadApn
  <2>3. NetShape' /\ NotesShape' /\ QueueShape'
    BY <1>3, <2>2 DEF OpenedBadApn, IInv, NetShape, NotesShape, QueueShape
  <2> QED
    BY <2>2, <2>3 DEF IInv
<1> QED
  BY <1>1, <1>2, <1>3 DEF Framework

LEMMA NextKeeps == IInv /\ [Next]_vars => IInv'
<1> SUFFICES ASSUME IInv, [Next]_vars PROVE IInv'
  OBVIOUS
<1>1. CASE Loop
  BY <1>1, LoopKeeps
<1>2. CASE \E h \in Handles : (\E n \in Kinds : AskATL(h, n)) \/ GiveBackATL(h)
  BY <1>2, ModemKeeps
<1>3. CASE \E n \in Nifs : Framework(n)
  BY <1>3, FrameworkKeeps
<1>4. CASE UNCHANGED vars
  BY <1>4 DEF vars, IInv, MachinesGood, QueueShape, NetShape, ModemShape, NotesShape
<1> QED
  BY <1>1, <1>2, <1>3, <1>4 DEF Next

\* Whatever the modem asks and the framework answers, in whatever order, the
\* queue, the machines and the notes keep their shapes; in particular every
\* answer in the queue names an interface whose machine exists.
THEOREM TypeCorrect == Spec => []TypeOK
<1>1. Init => IInv
  BY InitIInv
<1>2. IInv /\ [Next]_vars => IInv'
  BY NextKeeps
<1>3. IInv => TypeOK
  BY IInvImplies
<1> QED
  BY <1>1, <1>2, <1>3, PTL DEF Spec

\* A machine asks for or holds a connection for an active subscriber only, and
\* has none when released (the list handling of processAgpsEventUnsubscribe,
\* Released and Denied), also with subscribers that wait for the close.
THEOREM AlwaysHeldForSomeone == Spec => []HeldForSomeone
<1>1. Init => IInv
  BY InitIInv
<1>2. IInv /\ [Next]_vars => IInv'
  BY NextKeeps
<1>3. IInv => HeldForSomeone
  BY IInvImplies
<1> QED
  BY <1>1, <1>2, <1>3, PTL DEF Spec

-----------------------------------------------------------------------------
(* Where nobody waits for the close, a connection is given back.           *)

Ordinary == \A n \in Nifs : sm[n].idle = {} /\ sm[n].state # "RELEASING"

Answering(what, n, q) == \E i \in 1 .. Len(q) : q[i].what \in what /\ q[i].n = n

\* Interface n, as long as no request overtook an answer.  A machine that wants
\* its connection has asked for it once, and hears of its end when it has ended; a
\* released machine has asked for the end of what there is.
Returning(n) ==
    /\ sm[n].state \in {"PENDING", "ACQUIRED"} =>
         /\ calls[n] = << >> \/ (sm[n].state = "PENDING" /\ calls[n] = <<"request">>)
         /\ calls[n] # << >> => net[n] = "down"
         /\ calls[n] # << >> \/ net[n] = "opening" => ~Answering(Answers, n, queue)
         /\ net[n] = "up" => ~Answering({"denied", "closed"}, n, queue)
    /\ sm[n].state = "RELEASED" =>
         \/ calls[n] = << >> /\ net[n] = "down"
         \/ calls[n] \in {<<"release">>, <<"request", "release">>}

ReturnInv == IInv /\ Ordinary /\ \A n \in Nifs \ (overtaken \cup spoilt) : Returning(n)

LEMMA EmptyLen == ASSUME NEW t, t = << >> PROVE Len(t) = 0
  OBVIOUS

LEMMA AnsweringLater ==
    ASSUME IInv, NEW what, NEW n
    PROVE  /\ \A w : Receive(w) /\ Answering(what, n, queue') => Answering(what, n, queue)
           /\ \A w : Receive(w) /\ w \in what /\ Head(queue).n = n => Answering(what, n, queue)
           /\ \A m : Post(m) /\ Answering(what, n, queue') =>
                  Answering(what, n, queue) \/ (m.what \in what /\ m.n = n)
<1>1. queue \in Seq(Messages)
  BY DEF IInv, QueueShape
<1>2. ASSUME NEW w, Receive(w)
      PROVE  /\ 1 \in 1 .. Len(queue) /\ queue[1] = Head(queue) /\ Head(queue).what = w
             /\ \A i \in 1 .. Len(queue') : i + 1 \in 1 .. Len(queue) /\ queue'[i] = queue[i + 1]
  <2>1. queue # << >> /\ queue' = Tail(queue) /\ Head(queue).what = w
    BY <1>2 DEF Receive
  <2>2. Len(queue') = Len(queue) - 1
    BY <1>1, <2>1
  <2> QED
    BY <1>1, <2>1, <2>2
<1>3. ASSUME NEW m, Post(m)
      PROVE  \A i \in 1 .. Len(queue') : queue'[i] = (IF i \in 1 .. Len(queue) THEN queue[i] ELSE m)
  BY <1>1, <1>3 DEF Post
<1>4. ASSUME NEW w, Receive(w), Answering(what, n, queue') PROVE Answering(what, n, queue)
  BY <1>2, <1>4 DEF Answering
<1>5. ASSUME NEW w, Receive(w), w \in what, Head(queue).n = n PROVE Answering(what, n, queue)
  BY <1>2, <1>5 DEF Answering
<1>6. ASSUME NEW m, Post(m), Answering(what, n, queue')
      PROVE  Answering(what, n, queue) \/ (m.what \in what /\ m.n = n)
  BY <1>3, <1>6 DEF Answering
<1> QED
  BY <1>4, <1>5, <1>6

\* Interface n when another one moves, or its machine stays in its state.
LEMMA ElsewhereReturns ==
    ASSUME NEW n, Returning(n), sm'[n].state = sm[n].state, calls'[n] = calls[n],
           net'[n] = net[n],
           \A what : Answering(what, n, queue') => Answering(what, n, queue)
    PROVE  Returning(n)'
  BY DEF Returning

LEMMA AskedOnce ==
    ASSUME NEW n, ~Outstanding(n, Tail(queue))
    PROVE  calls[n] = << >> /\ net[n] = "down" /\ ~Answering(Answers, n, Tail(queue))
  BY DEF Outstanding, Answering

LEMMA CallsJoined ==
    /\ << >> \o <<"request">> = <<"request">> /\ << >> \o <<"release">> = <<"release">>
    /\ << >> \o << >> = << >>
    /\ <<"request">> \o <<"release">> = <<"request", "release">>
    /\ <<"request">> \o << >> = <<"request">>
<1>1. << >> \o <<"request">> = <<"request">>
  OBVIOUS
<1>2. << >> \o <<"release">> = <<"release">>
  OBVIOUS
<1>3. << >> \o << >> = << >>
  OBVIOUS
<1>4. <<"request">> \o <<"release">> = <<"request", "release">>
  <2> DEFINE s == <<"request">> \o <<"release">>
             t == <<"request", "release">>
  <2>1. s \in Calls /\ t \in Calls /\ Len(s) = 2 /\ Len(t) = 2
    BY DEF Calls
  <2>2. s[1] = t[1] /\ s[2] = t[2]
    OBVIOUS
  <2> HIDE DEF s, t
  <2>3. s = t
    BY <2>1, <2>2, SeqEqual DEF Calls
  <2> QED
    BY <2>3 DEF s, t
<1>5. <<"request">> \o << >> = <<"request">>
  OBVIOUS
<1> QED
  BY <1>1, <1>2, <1>3, <1>4, <1>5

LEMMA CallsTaken ==
    /\ Tail(<<"release">>) = << >> /\ Tail(<<"request">>) = << >>
    /\ Tail(<<"request", "release">>) = <<"release">>
    /\ Head(<<"request", "release">>) = "request"
    /\ Head(<<"request">>) = "request" /\ Head(<<"release">>) = "release"
    /\ <<"release">> # << >> /\ <<"request">> # << >> /\ <<"request", "release">> # << >>
<1>1. Head(<<"request">>) = "request" /\ Head(<<"release">>) = "release"
  OBVIOUS
<1>2. Head(<<"request", "release">>) = "request" /\ Tail(<<"request", "release">>) = <<"release">>
  OBVIOUS
<1>3. Tail(<<"release">>) = << >> /\ Tail(<<"request">>) = << >>
  OBVIOUS
<1>4. <<"release">> # << >> /\ <<"request">> # << >> /\ <<"request", "release">> # << >>
  OBVIOUS
<1> QED
  BY <1>1, <1>2, <1>3, <1>4

\* What the handlers make of a machine nobody waits for.
Plain(s) == s.idle = {} /\ s.state # "RELEASING"
Becomes(r, state, toNet) == Plain(r.sm) /\ r.sm.state = state /\ r.toNet = toNet

LEMMA PlainSubscribe ==
    ASSUME NEW s, NEW h, Plain(s)
    PROVE  LET r == processAgpsEventSubscribe(s, h)
           IN IF s.state = "RELEASED" THEN Becomes(r, "PENDING", <<"request">>)
                                      ELSE Becomes(r, s.state, << >>)
  BY DEF Plain, Becomes, processAgpsEventSubscribe, Result, Machine

LEMMA PlainUnsubscribe ==
    ASSUME WaitForClose = {}, NEW s, Good(s), Plain(s), NEW h \in s.subs
    PROVE  LET r == processAgpsEventUnsubscribe(s, h)
           IN /\ s.state \in {"PENDING", "ACQUIRED"}
              /\ Becomes(r, "RELEASED", <<"release">>) \/ Becomes(r, s.state, << >>)
<1>1. s.state \in {"PENDING", "ACQUIRED"}
  BY DEF Plain, Good, Used, Machines, States
<1>2. h \notin WaitForClose /\ s.idle \ {h} = {}
  BY DEF Plain
<1> DEFINE subs == s.subs \ {h}
<1>3. CASE subs = {}
  <2>1. processAgpsEventUnsubscribe(s, h)
          = Result(Machine("RELEASED", subs, {}), <<"release">>, Say("closed", {h}))
    BY <1>1, <1>2, <1>3 DEF processAgpsEventUnsubscribe
  <2> QED
    BY <1>1, <2>1 DEF Becomes, Plain, Result, Machine
<1>4. CASE subs # {}
  <2>1. processAgpsEventUnsubscribe(s, h)
          = Result(Machine(s.state, subs, {}), << >>, Say("closed", {h}))
    BY <1>1, <1>2, <1>4 DEF processAgpsEventUnsubscribe
  <2> QED
    BY <1>1, <2>1 DEF Becomes, Plain, Result, Machine
<1> QED
  BY <1>3, <1>4

LEMMA PlainAnswer ==
    ASSUME NEW s, Plain(s)
    PROVE  /\ LET r == processAgpsEventGranted(s)
              IN IF s.state = "PENDING" THEN Becomes(r, "ACQUIRED", << >>)
                                        ELSE Becomes(r, s.state, << >>)
           /\ LET r == processAgpsEventDenied(s)
              IN IF s.state = "PENDING" THEN Becomes(r, "RELEASED", << >>)
                                        ELSE Becomes(r, s.state, << >>)
           /\ LET r == processAgpsEventReleased(s)
              IN IF s.state = "ACQUIRED" THEN Becomes(r, "RELEASED", << >>)
                                         ELSE Becomes(r, s.state, << >>)
<1> USE DEF Plain, Becomes, Result, Machine
<1>1. LET r == processAgpsEventGranted(s)
      IN IF s.state = "PENDING" THEN Becomes(r, "ACQUIRED", << >>)
                                ELSE Becomes(r, s.state, << >>)
  BY DEF processAgpsEventGranted
<1>2. LET r == processAgpsEventDenied(s)
      IN IF s.state = "PENDING" THEN Becomes(r, "RELEASED", << >>)
                                ELSE Becomes(r, s.state, << >>)
  <2>1. CASE s.state = "PENDING"
    BY <2>1 DEF processAgpsEventDenied
  <2>2. CASE s.state # "PENDING"
    BY <2>2 DEF processAgpsEventDenied
  <2> QED
    BY <2>1, <2>2
<1>3. LET r == processAgpsEventReleased(s)
      IN IF s.state = "ACQUIRED" THEN Becomes(r, "RELEASED", << >>)
                                 ELSE Becomes(r, s.state, << >>)
  <2>1. CASE s.state = "ACQUIRED"
    BY <2>1 DEF processAgpsEventReleased
  <2>2. CASE s.state # "ACQUIRED"
    BY <2>2 DEF processAgpsEventReleased
  <2> QED
    BY <2>1, <2>2
<1> QED
  BY <1>1, <1>2, <1>3

\* Machine n takes an outcome: what of the invariant changes is Returning(n).
LEMMA ApplyReturns ==
    ASSUME ReturnInv, NEW n \in Nifs, NEW r, GoodResult(r), Plain(r.sm), Apply(n, r),
           \A k \in Nifs \ {n} : net'[k] = net[k],
           overtaken \subseteq overtaken', spoilt \subseteq spoilt',
           \A k, what : Answering(what, k, queue') => Answering(what, k, queue),
           n \notin overtaken' \cup spoilt' /\ Returning(n) => Returning(n)'
    PROVE  Ordinary' /\ \A k \in Nifs \ (overtaken \cup spoilt)' : Returning(k)'
<1>1. /\ sm' = [sm EXCEPT ![n] = r.sm] /\ sm \in [Nifs -> Machines]
      /\ calls' = [calls EXCEPT ![n] = @ \o r.toNet] /\ calls \in [Nifs -> Calls]
  BY DEF Apply, ReturnInv, IInv, MachinesGood, NetShape
<1>2. Ordinary'
  BY <1>1 DEF Ordinary, Plain, ReturnInv
<1>3. ASSUME NEW k \in Nifs \ (overtaken \cup spoilt)'
      PROVE  Returning(k)'
  <2>1. Returning(k)
    BY <1>3 DEF ReturnInv
  <2>2. CASE k = n
    BY <1>3, <2>1, <2>2
  <2>3. CASE k # n
    <3>1. sm'[k].state = sm[k].state /\ calls'[k] = calls[k] /\ net'[k] = net[k]
      BY <1>1, <2>3
    <3> QED
      BY <2>1, <3>1, ElsewhereReturns
  <2> QED
    BY <2>2, <2>3
<1> QED
  BY <1>2, <1>3

\* Machine n keeps its state and calls nobody.
LEMMA StaysReturning ==
    ASSUME ReturnInv, NEW n \in Nifs, NEW r, GoodResult(r), Apply(n, r), net' = net,
           Becomes(r, sm[n].state, << >>), Returning(n),
           \A what : Answering(what, n, queue') => Answering(what, n, queue)
    PROVE  Returning(n)'
<1>1. /\ sm' = [sm EXCEPT ![n] = r.sm] /\ sm \in [Nifs -> Machines]
      /\ calls' = [calls EXCEPT ![n] = @ \o << >>] /\ calls \in [Nifs -> Calls]
  BY DEF Apply, Becomes, ReturnInv, IInv, MachinesGood, NetShape
<1>2. calls[n] \in Calls /\ calls[n] \o << >> = calls[n]
  BY <1>1 DEF Calls
<1>3. sm'[n].state = sm[n].state /\ calls'[n] = calls[n] /\ net'[n] = net[n]
  BY <1>1, <1>2 DEF Becomes
<1> QED
  BY <1>3, ElsewhereReturns

\* Machine n moves to another state, with the calls this takes.
LEMMA MovesReturning ==
    ASSUME ReturnInv, NEW n \in Nifs, NEW r, NEW state, NEW toNet,
           Apply(n, r), net' = net, Becomes(r, state, toNet)
    PROVE  /\ sm'[n].state = state /\ calls'[n] = calls[n] \o toNet
           /\ net'[n] = net[n] /\ net[n] \in {"down", "opening", "up"}
  BY DEF Apply, Becomes, ReturnInv, IInv, MachinesGood, NetShape

LEMMA LoopReturns ==
    ASSUME WaitForClose = {}, ReturnInv, Loop
    PROVE  Ordinary' /\ \A k \in Nifs \ (overtaken \cup spoilt)' : Returning(k)'
<1>0. /\ IInv /\ \A n \in Nifs : Good(sm[n]) /\ Plain(sm[n])
      /\ \A n \in Nifs \ (overtaken \cup spoilt) : Returning(n)
  BY DEF ReturnInv, IInv, MachinesGood, Good, Ordinary, Plain
<1>1. PICK w : Receive(w)
  BY DEF Loop, requestATL, releaseATL, reportAtlOpenSuccess, reportAtlOpenFailed,
         reportAtlClosed
<1>2. /\ \A k, what : Answering(what, k, queue') => Answering(what, k, queue)
      /\ net' = net /\ spoilt' = spoilt /\ queue' = Tail(queue)
  BY <1>0, <1>1, AnsweringLater DEF Receive
<1>3. CASE sm' = sm /\ calls' = calls /\ overtaken' = overtaken
  <2>1. Ordinary'
    BY <1>3 DEF Ordinary, ReturnInv
  <2>2. ASSUME NEW k \in Nifs \ (overtaken \cup spoilt)'
        PROVE  Returning(k)'
    <3>1. Returning(k)
      BY <1>0, <1>2, <1>3, <2>2
    <3> QED
      BY <1>2, <1>3, <3>1, ElsewhereReturns
  <2> QED
    BY <2>1, <2>2
<1>4. CASE requestATL
  <2>0. PICK n, h : n = Head(queue).n /\ h = Head(queue).h
    OBVIOUS
  <2> DEFINE r == processAgpsEventSubscribe(sm[n], h)
  <2>1. CASE n \notin Nifs
    BY <1>3, <1>4, <2>0, <2>1 DEF requestATL, Nothing
  <2>2. CASE n \in Nifs
    <3>1. GoodResult(r)
      <4>1. h \in Handles
        BY <1>0, <1>4, <2>0, ReceiveKeeps DEF requestATL, Messages
      <4> QED
        BY <1>0, <2>2, <4>1, SubscribeIsGood
    <3>2. Apply(n, r)
      BY <1>4, <2>0, <2>2 DEF requestATL
    <3>3. overtaken' = IF r.toNet # << >> /\ Outstanding(n, Tail(queue))
                       THEN overtaken \cup {n} ELSE overtaken
      BY <1>4, <2>0, <2>2 DEF requestATL
    <3>4. IF sm[n].state = "RELEASED" THEN Becomes(r, "PENDING", <<"request">>)
                                        ELSE Becomes(r, sm[n].state, << >>)
      BY <1>0, <2>2, PlainSubscribe
    <3> HIDE DEF r
    <3>5. Plain(r.sm)
      BY <3>4 DEF Becomes
    <3>6. ASSUME n \notin overtaken' \cup spoilt', Returning(n)
          PROVE  Returning(n)'
      <4>1. CASE sm[n].state # "RELEASED"
        BY <1>2, <2>2, <3>1, <3>2, <3>4, <3>6, <4>1, StaysReturning
      <4>2. CASE sm[n].state = "RELEASED"
        <5>1. Becomes(r, "PENDING", <<"request">>) /\ r.toNet # << >>
          BY <3>4, <4>2, CallsTaken DEF Becomes
        <5>2. ~Outstanding(n, Tail(queue))
          BY <3>3, <3>6, <5>1
        <5>3. calls[n] = << >> /\ net[n] = "down" /\ ~Answering(Answers, n, queue')
          BY <1>2, <5>2, AskedOnce
        <5>4. /\ sm'[n].state = "PENDING" /\ calls'[n] = calls[n] \o <<"request">>
              /\ net'[n] = net[n]
          BY ZenonT(60), <1>2, <2>2, <3>2, <5>1, MovesReturning
        <5>5. calls'[n] = <<"request">>
          BY <5>3, <5>4, CallsJoined
        <5> QED
          BY <5>3, <5>4, <5>5 DEF Returning
      <4> QED
        BY <4>1, <4>2
    <3>7. overtaken \subseteq overtaken' /\ spoilt \subseteq spoilt'
      BY <1>2, <3>3
    <3> QED
      BY <1>2, <2>2, <3>1, <3>2, <3>5, <3>6, <3>7, ApplyReturns
  <2> QED
    BY <2>1, <2>2
<1>5. CASE releaseATL
  <2>0. PICK n, h : /\ h = Head(queue).h
                    /\ n = IF "agnss" \in Owners(h) THEN "agnss" ELSE "internet"
    OBVIOUS
  <2> DEFINE r == processAgpsEventUnsubscribe(sm[n], h)
  <2>1. CASE Owners(h) = {}
    BY <1>3, <1>5, <2>0, <2>1 DEF releaseATL, Nothing
  <2>2. CASE Owners(h) # {}
    <3>1. n \in Owners(h)
      BY <2>0, <2>2, NifsAssumption DEF Owners, Kinds
    <3>2. n \in Nifs /\ h \in sm[n].subs
      BY <3>1 DEF Owners
    <3>3. Apply(n, r) /\ overtaken' = overtaken
      BY <1>5, <2>0, <2>2 DEF releaseATL
    <3>4. GoodResult(r)
      BY <1>0, <3>2, UnsubscribeIsGood
    <3>5. /\ sm[n].state \in {"PENDING", "ACQUIRED"}
          /\ Becomes(r, "RELEASED", <<"release">>) \/ Becomes(r, sm[n].state, << >>)
      BY <1>0, <3>2, PlainUnsubscribe
    <3> HIDE DEF r
    <3>6. Plain(r.sm)
      BY <3>5 DEF Becomes
    <3>7. ASSUME Returning(n)
          PROVE  Returning(n)'
      <4>1. CASE Becomes(r, sm[n].state, << >>)
        BY <1>2, <3>2, <3>3, <3>4, <3>7, <4>1, StaysReturning
      <4>2. CASE Becomes(r, "RELEASED", <<"release">>)
        <5>1. calls[n] = << >> \/ calls[n] = <<"request">>
          BY <3>5, <3>7 DEF Returning
        <5>2. /\ sm'[n].state = "RELEASED" /\ calls'[n] = calls[n] \o <<"release">>
          BY <1>2, <3>2, <3>3, <4>2, MovesReturning
        <5>3. calls'[n] \in {<<"release">>, <<"request", "release">>}
          BY <5>1, <5>2, CallsJoined
        <5> QED
          BY <5>2, <5>3 DEF Returning
      <4> QED
        BY <3>5, <4>1, <4>2
    <3> QED
      BY <1>2, <3>2, <3>3, <3>4, <3>6, <3>7, ApplyReturns
  <2> QED
    BY <2>1, <2>2
<1>6. CASE reportAtlOpenSuccess
  <2>0. PICK n : n = Head(queue).n
    OBVIOUS
  <2> DEFINE r == processAgpsEventGranted(sm[n])
  <2>1. n \in Nifs /\ Answering(Answers, n, queue)
    BY <1>0, <1>6, <2>0, ReceiveKeeps, AnsweringLater DEF reportAtlOpenSuccess, Answers
  <2>2. Apply(n, r) /\ overtaken' = overtaken
    BY <1>6, <2>0 DEF reportAtlOpenSuccess
  <2>3. GoodResult(r) /\ IF sm[n].state = "PENDING" THEN Becomes(r, "ACQUIRED", << >>)
                                                    ELSE Becomes(r, sm[n].state, << >>)
    BY <1>0, <2>1, PlainAnswer, GrantedIsGood
  <2> HIDE DEF r
  <2>4. Plain(r.sm)
    BY <2>3 DEF Becomes
  <2>5. ASSUME Returning(n)
        PROVE  Returning(n)'
    <3>1. CASE sm[n].state # "PENDING"
      BY <1>2, <2>1, <2>2, <2>3, <2>5, <3>1, StaysReturning
    <3>2. CASE sm[n].state = "PENDING"
      <4>1. calls[n] = << >> /\ net[n] # "opening"
        BY <2>1, <2>5, <3>2 DEF Returning
      <4>2. /\ sm'[n].state = "ACQUIRED" /\ calls'[n] = calls[n] \o << >>
            /\ net'[n] = net[n]
        BY <1>2, <2>1, <2>2, <2>3, <3>2, MovesReturning
      <4>3. calls'[n] = << >>
        BY <4>1, <4>2, CallsJoined
      <4>4. net[n] = "up" => ~Answering({"denied", "closed"}, n, queue')
        BY <1>2, <2>5, <3>2 DEF Returning
      <4> QED
        BY <4>1, <4>2, <4>3, <4>4 DEF Returning
    <3> QED
      BY <3>1, <3>2
  <2> QED
    BY <1>2, <2>1, <2>2, <2>3, <2>4, <2>5, ApplyReturns
<1>7. ASSUME NEW n \in Nifs, NEW r, NEW state, state \in {"PENDING", "ACQUIRED"},
             Answering({"denied", "closed"}, n, queue), Answering(Answers, n, queue),
             GoodResult(r), Apply(n, r), overtaken' = overtaken,
             IF sm[n].state = state THEN Becomes(r, "RELEASED", << >>)
                                    ELSE Becomes(r, sm[n].state, << >>)
      PROVE  Ordinary' /\ \A k \in Nifs \ (overtaken \cup spoilt)' : Returning(k)'
  <2>1. Plain(r.sm)
    BY <1>7 DEF Becomes
  <2>2. ASSUME Returning(n)
        PROVE  Returning(n)'
    <3>1. CASE sm[n].state # state
      BY <1>2, <1>7, <2>2, <3>1, StaysReturning
    <3>2. CASE sm[n].state = state
      <4>1. calls[n] = << >> /\ net[n] # "opening" /\ net[n] # "up"
        BY <1>7, <2>2, <3>2 DEF Returning
      <4>2. /\ sm'[n].state = "RELEASED" /\ calls'[n] = calls[n] \o << >>
            /\ net'[n] = net[n] /\ net[n] \in {"down", "opening", "up"}
        BY <1>2, <1>7, <3>2, MovesReturning
      <4>3. calls'[n] = << >>
        BY <4>1, <4>2, CallsJoined
      <4> QED
        BY <4>1, <4>2, <4>3 DEF Returning
    <3> QED
      BY <3>1, <3>2
  <2> QED
    BY <1>2, <1>7, <2>1, <2>2, ApplyReturns
<1>8. CASE reportAtlOpenFailed
  <2>0. PICK n : n = Head(queue).n
    OBVIOUS
  <2> DEFINE r == processAgpsEventDenied(sm[n])
  <2>1. /\ n \in Nifs /\ Answering(Answers, n, queue)
        /\ Answering({"denied", "closed"}, n, queue)
    BY <1>0, <1>8, <2>0, ReceiveKeeps, AnsweringLater DEF reportAtlOpenFailed, Answers
  <2>2. Apply(n, r) /\ overtaken' = overtaken
    BY <1>8, <2>0 DEF reportAtlOpenFailed
  <2>3. GoodResult(r) /\ IF sm[n].state = "PENDING" THEN Becomes(r, "RELEASED", << >>)
                                                    ELSE Becomes(r, sm[n].state, << >>)
    BY <1>0, <2>1, PlainAnswer, DeniedIsGood
  <2> HIDE DEF r
  <2> QED
    BY <1>7, <2>1, <2>2, <2>3
<1>9. CASE reportAtlClosed
  <2>0. PICK n : n = Head(queue).n
    OBVIOUS
  <2> DEFINE r == processAgpsEventReleased(sm[n])
  <2>1. /\ n \in Nifs /\ Answering(Answers, n, queue)
        /\ Answering({"denied", "closed"}, n, queue)
    BY <1>0, <1>9, <2>0, ReceiveKeeps, AnsweringLater DEF reportAtlClosed, Answers
  <2>2. Apply(n, r) /\ overtaken' = overtaken
    BY <1>9, <2>0 DEF reportAtlClosed
  <2>3. GoodResult(r) /\ IF sm[n].state = "ACQUIRED" THEN Becomes(r, "RELEASED", << >>)
                                                     ELSE Becomes(r, sm[n].state, << >>)
    BY <1>0, <2>1, PlainAnswer, ReleasedIsGood
  <2> HIDE DEF r
  <2> QED
    BY <1>7, <2>1, <2>2, <2>3
<1> QED
  BY <1>4, <1>5, <1>6, <1>8, <1>9 DEF Loop

LEMMA ModemReturns ==
    ASSUME ReturnInv, NEW h \in Handles,
           (\E n \in Kinds : AskATL(h, n)) \/ GiveBackATL(h)
    PROVE  Ordinary' /\ \A k \in Nifs \ (overtaken \cup spoilt)' : Returning(k)'
<1>1. UNCHANGED <<sm, calls, net, spoilt, overtaken>>
  BY DEF AskATL, GiveBackATL
<1>2. PICK m : Post(m) /\ m.what \notin Answers
  <2>1. CASE GiveBackATL(h)
    BY <2>1 DEF GiveBackATL, Message, Answers
  <2>2. ASSUME NEW n \in Kinds, AskATL(h, n)
        PROVE  \E m : Post(m) /\ m.what \notin Answers
    BY <2>2 DEF AskATL, Message, Answers
  <2> QED
    BY <2>1, <2>2
<1>3. \A k, what : what \subseteq Answers /\ Answering(what, k, queue')
                     => Answering(what, k, queue)
  BY <1>2, AnsweringLater DEF ReturnInv
<1>4. Ordinary'
  BY <1>1 DEF Ordinary, ReturnInv
<1>5. ASSUME NEW k \in Nifs \ (overtaken \cup spoilt)'
      PROVE  Returning(k)'
  <2>1. Returning(k)
    BY <1>1, <1>5 DEF ReturnInv
  <2>2. /\ Answering(Answers, k, queue') => Answering(Answers, k, queue)
        /\ Answering({"denied", "closed"}, k, queue')
             => Answering({"denied", "closed"}, k, queue)
    BY <1>3 DEF Answers
  <2> QED
    BY <1>1, <2>1, <2>2 DEF Returning
<1> QED
  BY <1>4, <1>5

LEMMA FrameworkReturns ==
    ASSUME ReturnInv, NEW n \in Nifs, Framework(n)
    PROVE  Ordinary' /\ \A k \in Nifs \ (overtaken \cup spoilt)' : Returning(k)'
<1>0. /\ IInv /\ \A k \in Nifs : Good(sm[k]) /\ Plain(sm[k])
      /\ \A k \in Nifs \ (overtaken \cup spoilt) : Returning(k)
  BY DEF ReturnInv, IInv, MachinesGood, Good, Ordinary, Plain
<1>1. CASE OpenedBadApn(n)
  <2> DEFINE r == processAgpsEventReleased(sm[n])
  <2>1. GoodResult(r)
    BY <1>0, ReleasedIsGood
  <2>2. Plain(r.sm)
    BY <1>0, PlainAnswer DEF Becomes
  <2>3. /\ Apply(n, r) /\ queue' = queue /\ overtaken' = overtaken
        /\ spoilt' = spoilt \cup {n}
    BY <1>1 DEF OpenedBadApn
  <2>4. \A k \in Nifs \ {n} : net'[k] = net[k]
    BY <1>0, <1>1 DEF OpenedBadApn, IInv, NetShape
  <2> HIDE DEF r
  <2>5. \A k, what : Answering(what, k, queue') => Answering(what, k, queue)
    BY <2>3
  <2>6. overtaken \subseteq overtaken' /\ spoilt \subseteq spoilt' /\ n \in spoilt'
    BY <2>3
  <2> QED
    BY <2>1, <2>2, <2>3, <2>4, <2>5, <2>6, ApplyReturns
<1>2. CASE ~OpenedBadApn(n)
  <2>1. UNCHANGED <<sm, spoilt, overtaken>>
    BY <1>2 DEF Framework, TakeRequest, TakeRelease, Opened, Refused, Lost
  <2>2. PICK a, to : /\ calls' = [calls EXCEPT ![n] = a]
                     /\ net' = [net EXCEPT ![n] = to]
    <3>1. CASE TakeRequest(n)
      BY <3>1 DEF TakeRequest
    <3>2. CASE TakeRelease(n)
      BY <3>2 DEF TakeRelease
    <3>3. CASE Opened(n) \/ Refused(n) \/ Lost(n)
      <4>1. calls' = [calls EXCEPT ![n] = calls[n]]
        BY <1>0, <3>3 DEF Opened, Refused, Lost, IInv, NetShape
      <4>2. \E to : net' = [net EXCEPT ![n] = to]
        BY <3>3 DEF Opened, Refused, Lost
      <4> QED
        BY <4>1, <4>2
    <3> QED
      BY <1>2, <3>1, <3>2, <3>3 DEF Framework
  <2>3. /\ calls'[n] = a /\ net'[n] = to
        /\ \A k \in Nifs \ {n} : calls'[k] = calls[k] /\ net'[k] = net[k]
    BY <1>0, <2>2 DEF IInv, NetShape
  <2>4. \/ queue' = queue
        \/ \E w : Post(Message(w, AnyHandle, n))
    BY <1>2 DEF Framework, TakeRequest, TakeRelease, Opened, Refused, Lost, Answer
  <2>5. \A k, what : k # n /\ Answering(what, k, queue') => Answering(what, k, queue)
    <3>1. CASE queue' = queue
      BY <3>1
    <3>2. ASSUME NEW w, Post(Message(w, AnyHandle, n))
          PROVE  \A k, what : k # n /\ Answering(what, k, queue') => Answering(what, k, queue)
      <4>1. Message(w, AnyHandle, n).n = n
        BY DEF Message
      <4> QED
        BY <1>0, <3>2, <4>1, AnsweringLater
    <3> QED
      BY <2>4, <3>1, <3>2
  <2>6. Ordinary'
    BY <2>1 DEF Ordinary, ReturnInv
  <2>7. ASSUME NEW k \in Nifs \ (overtaken \cup spoilt)', k # n
        PROVE  Returning(k)'
    <3>1. Returning(k)
      BY <1>0, <2>1, <2>7
    <3> QED
      BY <2>1, <2>3, <2>5, <2>7, <3>1, ElsewhereReturns
  <2>8. ASSUME n \notin overtaken \cup spoilt
        PROVE  Returning(n)'
    <3>1. Returning(n) /\ sm'[n].state = sm[n].state
      BY <1>0, <2>1, <2>8
    <3>2. \/ sm[n].state \in {"PENDING", "ACQUIRED"}
          \/ sm[n].state = "RELEASED"
      BY <1>0 DEF Plain, Good, Machines, States
    <3>3. CASE TakeRequest(n)
      <4>1. /\ calls[n] # << >> /\ Head(calls[n]) = "request"
            /\ calls'[n] = Tail(calls[n])
            /\ net'[n] = (IF net[n] = "down" THEN "opening" ELSE net[n])
            /\ net[n] = "up" \/ queue' = queue
        BY <1>0, <3>3 DEF TakeRequest, IInv, NetShape
      <4>2. CASE sm[n].state = "RELEASED"
        <5>1. calls[n] \in {<<"release">>, <<"request", "release">>}
          BY <3>1, <4>1, <4>2 DEF Returning
        <5>2. calls'[n] = <<"release">>
          BY <4>1, <5>1, CallsTaken
        <5> QED
          BY <3>1, <4>2, <5>2 DEF Returning
      <4>3. CASE sm[n].state \in {"PENDING", "ACQUIRED"}
        <5>1. /\ calls[n] = <<"request">> /\ net[n] = "down"
              /\ ~Answering(Answers, n, queue)
          BY <3>1, <4>1, <4>3 DEF Returning
        <5>2. calls'[n] = << >> /\ net'[n] = "opening" /\ queue' = queue
          BY <4>1, <5>1, CallsTaken
        <5>3. ~Answering(Answers, n, queue')
          BY <5>1, <5>2
        <5> QED
          BY <3>1, <4>3, <5>2, <5>3 DEF Returning
      <4> QED
        BY <3>2, <4>2, <4>3
    <3>4. CASE TakeRelease(n)
      <4>1. /\ calls[n] # << >> /\ Head(calls[n]) = "release"
            /\ calls'[n] = Tail(calls[n]) /\ net'[n] = "down"
        BY <1>0, <3>4 DEF TakeRelease, IInv, NetShape
      <4>2. sm[n].state = "RELEASED"
        BY <3>1, <3>2, <4>1, CallsTaken DEF Returning
      <4>3. calls[n] = <<"release">>
        BY <3>1, <4>1, <4>2, CallsTaken DEF Returning
      <4>4. calls'[n] = << >>
        BY <4>1, <4>3, CallsTaken
      <4> QED
        BY <3>1, <4>1, <4>2, <4>4 DEF Returning
    <3>5. CASE Opened(n) \/ Refused(n) \/ Lost(n)
      <4>1. calls'[n] = calls[n] /\ net[n] # "down"
        BY <3>5 DEF Opened, Refused, Lost
      <4>2. CASE sm[n].state = "RELEASED"
        BY <3>1, <4>1, <4>2 DEF Returning
      <4>3. CASE sm[n].state \in {"PENDING", "ACQUIRED"}
        <5>1. calls[n] = << >>
          BY <3>1, <4>1, <4>3 DEF Returning
        <5>2. CASE Opened(n)
          <6>1. net[n] = "opening" /\ net'[n] = "up"
            BY <1>0, <5>2 DEF Opened, IInv, NetShape
          <6>2. ~Answering(Answers, n, queue)
            BY <3>1, <4>3, <6>1 DEF Returning
          <6>3. ~Answering({"denied", "closed"}, n, queue)
            BY <6>2 DEF Answering, Answers
          <6>4. ~Answering({"denied", "closed"}, n, queue')
            <7>1. /\ Post(Message("granted", AnyHandle, n))
                  /\ Message("granted", AnyHandle, n).what \notin {"denied", "closed"}
              BY <5>2 DEF Opened, Answer, Message
            <7> QED
              BY <1>0, <6>3, <7>1, AnsweringLater
          <6> QED
            BY <3>1, <4>1, <4>3, <5>1, <6>1, <6>4 DEF Returning
        <5>3. CASE Refused(n) \/ Lost(n)
          <6>1. net'[n] = "down"
            BY <1>0, <5>3 DEF Refused, Lost, IInv, NetShape
          <6> QED
            BY <3>1, <4>1, <4>3, <5>1, <6>1 DEF Returning
        <5> QED
          BY <3>5, <5>2, <5>3
      <4> QED
        BY <3>2, <4>2, <4>3
    <3> QED
      BY <1>2, <3>3, <3>4, <3>5 DEF Framework
  <2> QED
    BY <2>1, <2>6, <2>7, <2>8
<1> QED
  BY <1>1, <1>2

LEMMA NextReturns ==
    ASSUME WaitForClose = {}
    PROVE  ReturnInv /\ [Next]_vars => ReturnInv'
<1> SUFFICES ASSUME ReturnInv, [Next]_vars PROVE ReturnInv'
  OBVIOUS
<1>0. IInv'
  BY NextKeeps DEF ReturnInv
<1>1. CASE Loop
  BY <1>0, <1>1, LoopReturns DEF ReturnInv
<1>2. CASE \E h \in Handles : (\E n \in Kinds : AskATL(h, n)) \/ GiveBackATL(h)
  BY <1>0, <1>2, ModemReturns DEF ReturnInv
<1>3. CASE \E n \in Nifs : Framework(n)
  BY <1>0, <1>3, FrameworkReturns DEF ReturnInv
<1>4. CASE UNCHANGED vars
  <2>1. Ordinary'
    BY <1>4 DEF vars, ReturnInv, Ordinary
  <2>2. \A n \in Nifs \ (overtaken \cup spoilt)' : Returning(n)'
    BY <1>4 DEF vars, ReturnInv, Returning
  <2> QED
    BY <1>0, <2>1, <2>2 DEF ReturnInv
<1> QED
  BY <1>1, <1>2, <1>3, <1>4 DEF Next

\* When nothing is under way and nobody subscribes, the framework has its
\* connection back, unless a request had overtaken the answers to an earlier one
\* or an APN was refused.  The assumption is that nobody waits for the close:
\* requestATL (Agps.cpp:593) subscribes everyone without mWaitForCloseComplete.
\* With such subscribers a machine asks again as soon as its connection closes,
\* and answers to two requests may be under way with no request overtaking.
THEOREM ConnectionsAlwaysReturned ==
    ASSUME WaitForClose = {}
    PROVE  Spec => []ConnectionsReturned
<1>1. Init => ReturnInv
  <2>1. Init => IInv
    BY InitIInv
  <2>2. Init => Ordinary /\ \A n \in Nifs : Returning(n)
    BY DEF Init, Machine, Ordinary, Returning
  <2> QED
    BY <2>1, <2>2 DEF ReturnInv
<1>2. ReturnInv /\ [Next]_vars => ReturnInv'
  BY NextReturns
<1>3. ReturnInv => ConnectionsReturned
  <2> SUFFICES ASSUME ReturnInv, NEW n \in Nifs \ (overtaken \cup spoilt),
                      sm[n].state = "RELEASED", calls[n] = << >>
               PROVE  net[n] = "down"
    BY DEF ConnectionsReturned
  <2>1. Returning(n)
    BY DEF ReturnInv
  <2> QED
    BY <2>1, CallsTaken DEF Returning
<1> QED
  BY <1>1, <1>2, <1>3, PTL DEF Spec

-----------------------------------------------------------------------------
(* What the modem is told is due to it: for each handle the statuses a machine *)
(* may still report follow from where the handle stands in it, and a request  *)
(* in the queue is the only trace of its handle but for releases.             *)

Asks(k, i) == i \in 1 .. Len(queue) /\ queue[i].what = "request" /\ queue[i].h = k
Leaves(k, i) == i \in 1 .. Len(queue) /\ queue[i].what = "release" /\ queue[i].h = k

\* What the modem may think of a subscriber k of machine s.
Place(s, k, m) ==
    k \in s.subs =>
        CASE s.state = "ACQUIRED" -> m \in (IF k \in s.idle THEN {"leaving", "closing"}
                                                            ELSE {"open", "closing"})
          [] s.state = "PENDING"  -> m \in (IF k \in s.idle THEN {"leaving"}
                                                            ELSE {"asking", "leaving"})
          [] OTHER                -> m \in (IF k \in s.idle THEN {"leaving", "closing"}
                                                            ELSE {"asking", "leaving"})

AskedOf(k) ==
    \A i \in 1 .. Len(queue) : Asks(k, i) =>
        /\ \A j \in 1 .. Len(queue) : Asks(k, j) => i = j
        /\ modem[k] \in {"asking", "leaving"}
        /\ \A n \in Nifs : k \notin sm[n].subs
        /\ \A j \in 1 .. Len(queue) : Leaves(k, j) /\ i < j => modem[k] = "leaving"

SubscribedOnce(k, n) ==
    k \in sm[n].subs =>
        /\ \A j \in Nifs : k \in sm[j].subs => j = n
        /\ \A j \in 1 .. Len(queue) : Leaves(k, j) => modem[k] \in {"leaving", "closing"}
        /\ Place(sm[n], k, modem[k])

DueInv == IInv /\ \A k \in Handles : AskedOf(k) /\ \A n \in Nifs : SubscribedOnce(k, n)

DueTo(what, m) ==
    /\ what \in {"open", "fail"} => m \in {"asking", "leaving"}
    /\ what = "closed" => m \in {"open", "leaving", "closing"}

AllDue == \A a \in said' : DueTo(a.what, modem[a.h])

-----------------------------------------------------------------------------
(* The handlers, for one handle k of which the modem thinks m. *)

HeardBy(told, k, m) ==
    IF Told("closed", told, k) \/ Told("fail", told, k) THEN "none"
    ELSE IF ~Told("open", told, k) THEN m
    ELSE IF m = "asking" THEN "open"
    ELSE IF m = "leaving" THEN "closing" ELSE m

LEMMA HeardEach ==
    ASSUME NEW told, NEW k \in Handles
    PROVE  Heard(told)[k] = HeardBy(told, k, modem[k])
  BY DEF Heard, HeardBy

LEMMA SaidOf ==
    ASSUME NEW w, NEW S
    PROVE  /\ \A v, k : Told(v, Say(w, S), k) <=> v = w /\ k \in S
           /\ \A a \in Say(w, S) : a.what = w /\ a.h \in S
<1>1. \A a \in Say(w, S) : a.what = w /\ a.h \in S
  BY DEF Say
<1>2. ASSUME NEW v, NEW k PROVE Told(v, Say(w, S), k) <=> v = w /\ k \in S
  <2>1. ASSUME Told(v, Say(w, S), k) PROVE v = w /\ k \in S
    <3>1. PICK x \in S : [what |-> v, h |-> k] = [what |-> w, h |-> x]
      BY <2>1 DEF Told, Say
    <3>2. [what |-> v, h |-> k].what = [what |-> w, h |-> x].what
          /\ [what |-> v, h |-> k].h = [what |-> w, h |-> x].h
      BY <3>1
    <3> QED
      BY <3>2
  <2>2. ASSUME v = w, k \in S PROVE Told(v, Say(w, S), k)
    BY <2>2 DEF Told, Say
  <2> QED
    BY <2>1, <2>2
<1> QED
  BY <1>1, <1>2

LEMMA HeardSaid ==
    ASSUME NEW w \in {"open", "fail", "closed"}, NEW S, NEW k, NEW m
    PROVE  HeardBy(Say(w, S), k, m) =
             (IF k \notin S THEN m
              ELSE IF w # "open" THEN "none"
              ELSE IF m = "asking" THEN "open"
              ELSE IF m = "leaving" THEN "closing" ELSE m)
  BY SaidOf DEF HeardBy

LEMMA HeardNothing ==
    ASSUME NEW k, NEW m
    PROVE  HeardBy({}, k, m) = m
  BY DEF HeardBy, Told

\* Outcome r of an event in which no subscriber is added.
Outcome(s, r, k, m) ==
    /\ \A a \in r.told : a.h = k => DueTo(a.what, m)
    /\ r.sm.subs \subseteq s.subs
    /\ Place(r.sm, k, HeardBy(r.told, k, m))
    /\ k \notin s.subs => HeardBy(r.told, k, m) = m
    /\ m \in {"leaving", "closing"} /\ k \in r.sm.subs =>
         HeardBy(r.told, k, m) \in {"leaving", "closing"}

LEMMA SilentOutcome ==
    ASSUME NEW s, NEW k, NEW m, NEW c, Place(s, k, m)
    PROVE  Outcome(s, Result(s, c, {}), k, m)
  BY HeardNothing DEF Outcome, Result

LEMMA ClosedOutcome ==
    ASSUME NEW s, NEW k, NEW m, NEW c, NEW S, NEW w \in {"fail", "closed"}, NEW t,
           t.subs \subseteq s.subs, S \cap t.subs = {}, S \subseteq s.subs,
           k \in S => DueTo(w, m), Place(t, k, m)
    PROVE  Outcome(s, Result(t, c, Say(w, S)), k, m)
<1> DEFINE r == Result(t, c, Say(w, S))
<1>1. r.sm = t /\ r.told = Say(w, S)
  BY DEF Result
<1>2. HeardBy(r.told, k, m) = IF k \in S THEN "none" ELSE m
  BY <1>1, HeardSaid
<1>3. \A a \in r.told : a.h = k => DueTo(a.what, m)
  BY <1>1, SaidOf
<1> HIDE DEF r
<1>4. Place(r.sm, k, HeardBy(r.told, k, m))
  BY <1>1, <1>2 DEF Place
<1> QED
  BY <1>1, <1>2, <1>3, <1>4 DEF Outcome, r

LEMMA UnsubscribeOutcome ==
    ASSUME NEW s, Good(s), NEW h \in s.subs, NEW k \in Handles, NEW m, Place(s, k, m),
           k = h => m \in {"leaving", "closing"}
    PROVE  Outcome(s, processAgpsEventUnsubscribe(s, h), k, m)
<1> DEFINE waits == h \in WaitForClose
           subs  == IF waits THEN s.subs ELSE s.subs \ {h}
           idle  == IF waits THEN s.idle \cup {h} ELSE s.idle \ {h}
           told  == IF waits THEN {} ELSE Say("closed", {h})
           unused == s.state \in {"PENDING", "ACQUIRED"} /\ subs \subseteq idle
           state == IF subs = {} THEN "RELEASED"
                    ELSE IF unused THEN "RELEASING" ELSE s.state
           toNet == IF unused THEN <<"release">> ELSE << >>
           t == Machine(state, subs, idle)
<1>0. s.state # "RELEASED" /\ s.state \in States /\ s.subs \in SUBSET Handles
  BY DEF Good, Used, Machines
<1>1. processAgpsEventUnsubscribe(s, h) = Result(t, toNet, told)
  BY <1>0 DEF processAgpsEventUnsubscribe
<1>2. t.state = state /\ t.subs = subs /\ t.idle = idle
  BY DEF Machine
<1>3. Place(t, k, m)
  <2> SUFFICES ASSUME k \in subs PROVE Place(t, k, m)
    BY <1>2 DEF Place
  <2>1. k \in s.subs /\ subs # {} /\ (k \in idle <=> k \in s.idle \/ (waits /\ k = h))
    OBVIOUS
  <2>2. state = IF unused THEN "RELEASING" ELSE s.state
    BY <2>1
  <2>3. CASE unused
    <3>1. k \in idle /\ state = "RELEASING"
      BY <2>2, <2>3
    <3>2. m \in {"leaving", "closing"}
      <4>1. s.state \in {"PENDING", "ACQUIRED"}
        BY <2>3
      <4> QED
        BY <2>1, <3>1, <4>1 DEF Place
    <3> HIDE DEF t, subs, idle, state
    <3> QED
      BY <1>2, <3>1, <3>2 DEF Place
  <2>4. CASE ~unused
    <3>1. state = s.state
      BY <2>2, <2>4
    <3> HIDE DEF t, subs, idle, state, waits, unused
    <3>2. CASE k \in s.idle \/ k # h
      BY <1>2, <2>1, <3>1, <3>2 DEF Place
    <3>3. CASE k \notin s.idle /\ k = h
      BY <1>0, <1>2, <2>1, <3>1, <3>3 DEF Place, States
    <3> QED
      BY <3>2, <3>3
  <2> QED
    BY <2>3, <2>4
<1>4. CASE waits
  <2>1. told = {} /\ t.subs = s.subs
    BY <1>2, <1>4
  <2> HIDE DEF t, told, toNet
  <2> QED
    BY <1>1, <1>3, <2>1, HeardNothing DEF Outcome, Result
<1>5. CASE ~waits
  <2>1. told = Say("closed", {h}) /\ t.subs = s.subs \ {h}
    BY <1>2, <1>5
  <2>2. k \in {h} => DueTo("closed", m)
    BY DEF DueTo
  <2>3. /\ t.subs \subseteq s.subs /\ {h} \cap t.subs = {} /\ {h} \subseteq s.subs
    BY <2>1
  <2> HIDE DEF t, told, toNet
  <2>4. Outcome(s, Result(t, toNet, Say("closed", {h})), k, m)
    BY <1>3, <2>2, <2>3, ClosedOutcome
  <2> QED
    BY <1>1, <2>1, <2>4
<1> QED
  BY <1>4, <1>5

LEMMA GrantedOutcome ==
    ASSUME NEW s, Good(s), NEW k \in Handles, NEW m, Place(s, k, m)
    PROVE  Outcome(s, processAgpsEventGranted(s), k, m)
<1>1. CASE s.state # "PENDING"
  BY <1>1, SilentOutcome DEF processAgpsEventGranted
<1>2. CASE s.state = "PENDING"
  <2> DEFINE S == s.subs \ s.idle
             r == processAgpsEventGranted(s)
  <2>1. /\ r.told = Say("open", S) /\ r.sm.subs = s.subs /\ r.sm.idle = s.idle
        /\ r.sm.state = "ACQUIRED"
    BY <1>2 DEF processAgpsEventGranted, Result, Machine
  <2>2. HeardBy(r.told, k, m) = (IF k \notin S THEN m
                                 ELSE IF m = "asking" THEN "open"
                                 ELSE IF m = "leaving" THEN "closing" ELSE m)
    BY <2>1, HeardSaid
  <2>3. k \in S => m \in {"asking", "leaving"}
    BY <1>2 DEF Place
  <2>4. \A a \in r.told : a.h = k => DueTo(a.what, m)
    BY <2>1, <2>3, SaidOf DEF DueTo
  <2> HIDE DEF r
  <2>5. Place(r.sm, k, HeardBy(r.told, k, m))
    <3>1. CASE k \in S
      BY <2>1, <2>2, <2>3, <3>1 DEF Place
    <3>2. CASE k \notin S
      BY <1>2, <2>1, <2>2, <3>2 DEF Place
    <3> QED
      BY <3>1, <3>2
  <2>6. m \in {"leaving", "closing"} => HeardBy(r.told, k, m) \in {"leaving", "closing"}
    BY <2>2
  <2> QED
    BY <2>1, <2>2, <2>4, <2>5, <2>6 DEF Outcome, r
<1> QED
  BY <1>1, <1>2

LEMMA ReopenedOutcome ==
    ASSUME NEW s, Good(s), s.state = "RELEASING", NEW k \in Handles, NEW m,
           Place(s, k, m)
    PROVE  Outcome(s, Reopened(s), k, m)
<1> DEFINE active == s.subs \ s.idle
           t == Machine(IF active # {} THEN "PENDING" ELSE "RELEASED", active, {})
           c == IF active # {} THEN <<"request">> ELSE << >>
<1>1. Reopened(s) = Result(t, c, Say("closed", s.idle))
  BY DEF Reopened
<1>2. t.subs = active /\ t.idle = {} /\ (t.state = "RELEASED" => active = {})
      /\ t.state \in {"PENDING", "RELEASED"}
  BY DEF Machine
<1>3. s.idle \subseteq s.subs
  BY DEF Good, Used
<1>4. Place(t, k, m)
  BY <1>2 DEF Place
<1>5. k \in s.idle => DueTo("closed", m)
  BY <1>3 DEF Place, DueTo
<1>6. t.subs \subseteq s.subs /\ s.idle \cap t.subs = {}
  BY <1>2
<1> HIDE DEF t, c
<1> QED
  BY <1>1, <1>3, <1>4, <1>5, <1>6, ClosedOutcome

LEMMA EndedOutcome ==
    ASSUME NEW s, NEW w \in {"fail", "closed"}, NEW c, NEW k \in Handles, NEW m,
           k \in s.subs => DueTo(w, m)
    PROVE  Outcome(s, Result(Machine("RELEASED", {}, {}), c, Say(w, s.subs)), k, m)
<1> DEFINE t == Machine("RELEASED", {}, {})
<1>1. t.subs = {} /\ Place(t, k, m)
  BY DEF Machine, Place
<1> HIDE DEF t
<1>2. Outcome(s, Result(t, c, Say(w, s.subs)), k, m)
  BY <1>1, ClosedOutcome
<1> QED
  BY <1>2 DEF t

LEMMA ReleasedOutcome ==
    ASSUME NEW s, Good(s), NEW k \in Handles, NEW m, Place(s, k, m)
    PROVE  Outcome(s, processAgpsEventReleased(s), k, m)
<1>1. CASE s.state = "ACQUIRED"
  <2>1. k \in s.subs => DueTo("closed", m)
    BY <1>1 DEF Place, DueTo
  <2> QED
    BY <1>1, <2>1, EndedOutcome DEF processAgpsEventReleased
<1>2. CASE s.state = "RELEASING"
  BY <1>2, ReopenedOutcome DEF processAgpsEventReleased
<1>3. CASE s.state \notin {"ACQUIRED", "RELEASING"}
  BY <1>3, SilentOutcome DEF processAgpsEventReleased
<1> QED
  BY <1>1, <1>2, <1>3

LEMMA DeniedOutcome ==
    ASSUME NEW s, Good(s), NEW k \in Handles, NEW m, Place(s, k, m)
    PROVE  Outcome(s, processAgpsEventDenied(s), k, m)
<1>1. CASE s.state = "PENDING"
  <2>1. k \in s.subs => DueTo("fail", m)
    BY <1>1 DEF Place, DueTo
  <2> QED
    BY <1>1, <2>1, EndedOutcome DEF processAgpsEventDenied
<1>2. CASE s.state = "RELEASING"
  BY <1>2, ReopenedOutcome DEF processAgpsEventDenied
<1>3. CASE s.state \notin {"PENDING", "RELEASING"}
  BY <1>3, SilentOutcome DEF processAgpsEventDenied
<1> QED
  BY <1>1, <1>2, <1>3

-----------------------------------------------------------------------------
(* The steps. *)

\* The queue loses its first d messages and gains none that asks or leaves.
Shifted(d) ==
    \A k \in Handles, i \in 1 .. Len(queue') :
        /\ Asks(k, i)' => Asks(k, i + d)
        /\ Leaves(k, i)' => Leaves(k, i + d)

LEMMA ReceiveShifts ==
    ASSUME IInv, NEW w, Receive(w)
    PROVE  /\ Shifted(1)
           /\ w = "request" => Asks(Head(queue).h, 1)
           /\ w = "release" => Leaves(Head(queue).h, 1)
<1>1. queue \in Seq(Messages) /\ queue # << >> /\ queue' = Tail(queue) /\ Head(queue).what = w
  BY DEF Receive, IInv, QueueShape
<1>2. 1 \in 1 .. Len(queue) /\ queue[1] = Head(queue)
  BY <1>1
<1>3. \A i \in 1 .. Len(queue') : i + 1 \in 1 .. Len(queue) /\ queue'[i] = queue[i + 1]
  <2>1. Len(queue') = Len(queue) - 1
    BY <1>1
  <2> QED
    BY <1>1, <2>1
<1> QED
  BY <1>1, <1>2, <1>3 DEF Shifted, Asks, Leaves

\* Nothing is taken, and at most an answer is added.
LEMMA AnswerShifts ==
    ASSUME IInv, queue' = queue \/ \E n : \E w \in Answers : Answer(w, n)
    PROVE  Shifted(0)
<1>1. CASE queue' = queue
  <2>1. \A i \in 1 .. Len(queue') : i + 0 = i
    BY <1>1 DEF IInv, QueueShape
  <2> QED
    BY <1>1, <2>1 DEF Shifted, Asks, Leaves
<1>2. ASSUME NEW n, NEW w \in Answers, Answer(w, n)
      PROVE  Shifted(0)
  <2> DEFINE m == Message(w, AnyHandle, n)
  <2>1. m.what \notin {"request", "release"}
    BY DEF Message, Answers
  <2>2. queue' = Append(queue, m) /\ queue \in Seq(Messages)
    BY <1>2 DEF Answer, Post, IInv, QueueShape
  <2> HIDE DEF m
  <2>3. \A i \in 1 .. Len(queue') :
            queue'[i] = (IF i \in 1 .. Len(queue) THEN queue[i] ELSE m) /\ i + 0 = i
    BY <2>2
  <2> QED
    BY <2>1, <2>3 DEF Shifted, Asks, Leaves
<1> QED
  BY <1>1, <1>2

KeepsDue == AllDue /\ \A k \in Handles : AskedOf(k)' /\ \A n \in Nifs : SubscribedOnce(k, n)'

\* The request of k moves up, and what the modem thinks of k is unchanged.
LEMMA AskedMovesUp ==
    ASSUME NEW k \in Handles, AskedOf(k), NEW d \in Nat, Shifted(d),
           QueueShape, QueueShape', \E i \in 1 .. Len(queue') : Asks(k, i)',
           modem'[k] = modem[k], \A n \in Nifs : k \notin sm'[n].subs
    PROVE  AskedOf(k)'
<1>1. Len(queue) \in Nat /\ Len(queue') \in Nat
  BY DEF QueueShape
<1>2. ASSUME NEW i \in 1 .. Len(queue'), Asks(k, i)'
      PROVE  /\ i + d \in 1 .. Len(queue) /\ Asks(k, i + d)
             /\ \A j \in 1 .. Len(queue') : Asks(k, j)' => i = j
             /\ modem'[k] \in {"asking", "leaving"}
             /\ \A j \in 1 .. Len(queue') : Leaves(k, j)' /\ i < j => modem'[k] = "leaving"
  <2>1. Asks(k, i + d) /\ i + d \in 1 .. Len(queue)
    BY <1>2 DEF Shifted, Asks
  <2>2. ASSUME NEW j \in 1 .. Len(queue'), Asks(k, j)' PROVE i = j
    <3>1. Asks(k, j + d) /\ j + d \in 1 .. Len(queue)
      BY <2>2 DEF Shifted, Asks
    <3>2. i + d = j + d
      BY <2>1, <3>1 DEF AskedOf
    <3> QED
      BY <1>1, <3>2
  <2>3. ASSUME NEW j \in 1 .. Len(queue'), Leaves(k, j)', i < j
        PROVE  modem'[k] = "leaving"
    <3>1. Leaves(k, j + d) /\ j + d \in 1 .. Len(queue)
      BY <2>3 DEF Shifted, Leaves
    <3>2. i + d < j + d
      BY <1>1, <2>3
    <3> QED
      BY <2>1, <3>1, <3>2 DEF AskedOf
  <2> QED
    BY <2>1, <2>2, <2>3 DEF AskedOf
<1> QED
  BY <1>2 DEF AskedOf

\* A machine takes an event in which no subscriber is added.
LEMMA ApplyDue ==
    ASSUME DueInv, QueueShape', NEW n \in Nifs, NEW r, Apply(n, r),
           \A k \in Handles : Outcome(sm[n], r, k, modem[k]),
           r.told \in SUBSET Statuses, NEW d \in Nat, Shifted(d)
    PROVE  KeepsDue
<1>1. /\ sm' = [sm EXCEPT ![n] = r.sm] /\ sm \in [Nifs -> Machines] /\ QueueShape
      /\ said' = r.told /\ \A k \in Handles : AskedOf(k) /\ \A j \in Nifs : SubscribedOnce(k, j)
  BY DEF Apply, DueInv, IInv, MachinesGood
<1>2. \A k \in Handles : modem'[k] = HeardBy(r.told, k, modem[k])
  BY HeardEach DEF Apply
<1>3. sm'[n] = r.sm /\ \A j \in Nifs \ {n} : sm'[j] = sm[j]
  BY <1>1
<1>4. AllDue
  BY <1>1 DEF AllDue, Statuses, Outcome
<1>5. ASSUME NEW k \in Handles
      PROVE  \A j \in Nifs : k \in sm'[j].subs => k \in sm[j].subs
  BY <1>3 DEF Outcome
<1>6. ASSUME NEW k \in Handles
      PROVE  AskedOf(k)'
  <2>1. CASE \A i \in 1 .. Len(queue') : ~Asks(k, i)'
    BY <2>1 DEF AskedOf
  <2>2. CASE \E i \in 1 .. Len(queue') : Asks(k, i)'
    <3>1. \A j \in Nifs : k \notin sm[j].subs
      BY <1>1, <2>2 DEF Shifted, AskedOf, Asks
    <3>2. modem'[k] = modem[k]
      BY <1>2, <3>1 DEF Outcome
    <3>3. \A j \in Nifs : k \notin sm'[j].subs
      BY <1>5, <3>1
    <3> QED
      BY <1>1, <2>2, <3>2, <3>3, AskedMovesUp
  <2> QED
    BY <2>1, <2>2
<1>7. ASSUME NEW k \in Handles, NEW j \in Nifs, k \in sm'[j].subs
      PROVE  SubscribedOnce(k, j)'
  <2>1. k \in sm[j].subs
    BY <1>5, <1>7
  <2>2. \A i \in Nifs : k \in sm'[i].subs => i = j
    BY <1>1, <1>5, <2>1 DEF SubscribedOnce
  <2>3. /\ Place(sm'[j], k, modem'[k])
        /\ modem[k] \in {"leaving", "closing"} => modem'[k] \in {"leaving", "closing"}
    <3>1. CASE j = n
      BY <1>2, <1>3, <1>7, <3>1 DEF Outcome
    <3>2. CASE j # n
      <4>1. k \notin sm[n].subs
        BY <1>1, <2>1, <3>2 DEF SubscribedOnce
      <4>2. modem'[k] = modem[k]
        BY <1>2, <4>1 DEF Outcome
      <4> QED
        BY <1>1, <1>3, <2>1, <3>2, <4>2 DEF SubscribedOnce
    <3> QED
      BY <3>1, <3>2
  <2>4. ASSUME NEW i \in 1 .. Len(queue'), Leaves(k, i)'
        PROVE  modem'[k] \in {"leaving", "closing"}
    <3>1. Leaves(k, i + d) /\ i + d \in 1 .. Len(queue)
      BY <2>4 DEF Shifted, Leaves
    <3> QED
      BY <1>1, <2>1, <2>3, <3>1 DEF SubscribedOnce
  <2> QED
    BY <2>2, <2>3, <2>4 DEF SubscribedOnce
<1>8. \A k \in Handles, j \in Nifs : SubscribedOnce(k, j)'
  BY <1>7 DEF SubscribedOnce
<1> QED
  BY <1>4, <1>6, <1>8 DEF KeepsDue

\* Handle k when nothing but the queue concerns it.
LEMMA StillDue ==
    ASSUME DueInv, QueueShape', NEW k \in Handles, modem'[k] = modem[k],
           \A n \in Nifs : /\ k \in sm'[n].subs => k \in sm[n].subs
                           /\ k \in sm[n].subs =>
                                /\ sm'[n].state = sm[n].state
                                /\ (k \in sm'[n].idle <=> k \in sm[n].idle),
           NEW d \in Nat, Shifted(d)
    PROVE  AskedOf(k)' /\ \A n \in Nifs : SubscribedOnce(k, n)'
<1>1. QueueShape /\ AskedOf(k) /\ \A n \in Nifs : SubscribedOnce(k, n)
  BY DEF DueInv, IInv
<1>2. AskedOf(k)'
  <2>1. CASE \A i \in 1 .. Len(queue') : ~Asks(k, i)'
    BY <2>1 DEF AskedOf
  <2>2. CASE \E i \in 1 .. Len(queue') : Asks(k, i)'
    <3>1. \A n \in Nifs : k \notin sm[n].subs
      BY <1>1, <2>2 DEF Shifted, AskedOf, Asks
    <3>2. \A n \in Nifs : k \notin sm'[n].subs
      BY <3>1
    <3> QED
      BY <1>1, <2>2, <3>2, AskedMovesUp
  <2> QED
    BY <2>1, <2>2
<1>3. ASSUME NEW n \in Nifs, k \in sm'[n].subs
      PROVE  SubscribedOnce(k, n)'
  <2>1. /\ k \in sm[n].subs /\ sm'[n].state = sm[n].state
        /\ (k \in sm'[n].idle <=> k \in sm[n].idle)
    BY <1>3
  <2>2. \A j \in Nifs : k \in sm'[j].subs => j = n
    BY <1>1, <2>1 DEF SubscribedOnce
  <2>3. ASSUME NEW i \in 1 .. Len(queue'), Leaves(k, i)'
        PROVE  modem'[k] \in {"leaving", "closing"}
    <3>1. Leaves(k, i + d) /\ i + d \in 1 .. Len(queue)
      BY <2>3 DEF Shifted, Leaves
    <3> QED
      BY <1>1, <2>1, <3>1 DEF SubscribedOnce
  <2>4. Place(sm'[n], k, modem'[k])
    BY <1>1, <2>1 DEF SubscribedOnce, Place
  <2> QED
    BY <2>2, <2>3, <2>4 DEF SubscribedOnce
<1>4. \A n \in Nifs : SubscribedOnce(k, n)'
  BY <1>3 DEF SubscribedOnce
<1> QED
  BY <1>2, <1>4

\* Nobody is told anything.
LEMMA QuietDue ==
    ASSUME DueInv, QueueShape', modem' = modem, sm' = sm, said' = {},
           NEW d \in Nat, Shifted(d)
    PROVE  KeepsDue
<1>1. AllDue
  BY DEF AllDue
<1> QED
  BY <1>1, StillDue DEF KeepsDue

\* The request at the head of the queue, the only one of its handle h.
LEMMA HeadAsks ==
    ASSUME DueInv, QueueShape', Receive("request"), NEW h, h = Head(queue).h
    PROVE  /\ h \in Handles /\ Shifted(1) /\ modem[h] \in {"asking", "leaving"}
           /\ \A n \in Nifs : h \notin sm[n].subs
           /\ \A i \in 1 .. Len(queue') :
                ~Asks(h, i)' /\ (Leaves(h, i)' => modem[h] = "leaving")
<1>1. Shifted(1) /\ Asks(h, 1) /\ h \in Handles
  BY ReceiveShifts, ReceiveKeeps DEF DueInv, Messages
<1>2. AskedOf(h) /\ 1 \in 1 .. Len(queue)
  BY <1>1 DEF DueInv, Asks
<1>3. ASSUME NEW i \in 1 .. Len(queue')
      PROVE  ~Asks(h, i)' /\ (Leaves(h, i)' => modem[h] = "leaving")
  <2>1. i \in Nat /\ i + 1 # 1 /\ 1 < i + 1
    BY DEF QueueShape
  <2>2. Asks(h, i)' => Asks(h, i + 1) /\ i + 1 \in 1 .. Len(queue)
    BY <1>1 DEF Shifted, Asks
  <2>3. Leaves(h, i)' => Leaves(h, i + 1) /\ i + 1 \in 1 .. Len(queue)
    BY <1>1 DEF Shifted, Leaves
  <2> QED
    BY <1>1, <1>2, <2>1, <2>2, <2>3 DEF AskedOf
<1> QED
  BY <1>1, <1>2, <1>3 DEF AskedOf

LEMMA RequestDue ==
    ASSUME DueInv, QueueShape', requestATL
    PROVE  KeepsDue
<1>0. PICK n, h : n = Head(queue).n /\ h = Head(queue).h
  OBVIOUS
<1>1. /\ Receive("request") /\ IInv
      /\ \A k \in Handles : AskedOf(k) /\ \A j \in Nifs : SubscribedOnce(k, j)
  BY DEF requestATL, DueInv
<1>2. /\ h \in Handles /\ Shifted(1) /\ modem[h] \in {"asking", "leaving"}
      /\ \A j \in Nifs : h \notin sm[j].subs
      /\ \A i \in 1 .. Len(queue') :
            ~Asks(h, i)' /\ (Leaves(h, i)' => modem[h] = "leaving")
  BY <1>0, <1>1, HeadAsks
<1>3. AskedOf(h)'
  BY <1>2 DEF AskedOf
<1>4. CASE n \notin Nifs
  <2>1. sm' = sm /\ said' = Say("fail", {h}) /\ modem' = Heard(Say("fail", {h}))
    BY <1>0, <1>4 DEF requestATL, Nothing
  <2>2. ASSUME NEW k \in Handles, k # h PROVE modem'[k] = modem[k]
    <3>1. modem'[k] = HeardBy(Say("fail", {h}), k, modem[k])
      BY <2>1, HeardEach
    <3> QED
      BY <2>2, <3>1, HeardSaid
  <2>3. AllDue
    BY <1>2, <2>1, SaidOf DEF AllDue, DueTo
  <2>4. \A j \in Nifs : SubscribedOnce(h, j)'
    BY <1>2, <2>1 DEF SubscribedOnce
  <2>5. ASSUME NEW k \in Handles, k # h
        PROVE  AskedOf(k)' /\ \A j \in Nifs : SubscribedOnce(k, j)'
    BY <1>2, <2>1, <2>2, <2>5, StillDue
  <2> QED
    BY <1>3, <2>3, <2>4, <2>5 DEF KeepsDue
<1>5. CASE n \in Nifs
  <2> DEFINE r == processAgpsEventSubscribe(sm[n], h)
             told == IF sm[n].state = "ACQUIRED" THEN Say("open", {h}) ELSE {}
             state == IF sm[n].state = "RELEASED" THEN "PENDING" ELSE sm[n].state
  <2>1. /\ r.told = told /\ r.sm.state = state /\ r.sm.idle = sm[n].idle
        /\ r.sm.subs = sm[n].subs \cup {h}
    BY DEF processAgpsEventSubscribe, Result, Machine
  <2>2. /\ sm' = [sm EXCEPT ![n] = r.sm] /\ sm \in [Nifs -> Machines]
        /\ Used(sm[n]) /\ said' = r.told /\ modem' = Heard(r.told)
    BY <1>0, <1>1, <1>5 DEF requestATL, Apply, IInv, MachinesGood
  <2> HIDE DEF r
  <2>3. sm'[n] = r.sm /\ \A j \in Nifs \ {n} : sm'[j] = sm[j]
    BY <1>5, <2>2
  <2>4. \A k \in Handles : modem'[k] = HeardBy(told, k, modem[k])
    BY <2>1, <2>2, HeardEach
  <2>5. ASSUME NEW k \in Handles, k # h PROVE modem'[k] = modem[k]
    BY <2>4, <2>5, HeardSaid, HeardNothing
  <2>6. IF sm[n].state = "ACQUIRED"
        THEN modem'[h] = (IF modem[h] = "asking" THEN "open" ELSE "closing")
        ELSE modem'[h] = modem[h]
    BY <1>2, <2>4, HeardSaid, HeardNothing
  <2>7. AllDue
    BY <1>2, <2>1, <2>2, SaidOf DEF AllDue, DueTo
  <2>8. AskedOf(h)' /\ \A j \in Nifs : SubscribedOnce(h, j)'
    <3>1. \A j \in Nifs : h \in sm'[j].subs => j = n
      BY <1>2, <2>3
    <3>2. h \notin sm'[n].idle
      BY <1>2, <1>5, <2>1, <2>2, <2>3 DEF Used
    <3>3. Place(sm'[n], h, modem'[h])
      <4>1. CASE sm[n].state = "ACQUIRED"
        BY <1>2, <2>1, <2>3, <2>6, <3>2, <4>1 DEF Place
      <4>2. CASE sm[n].state # "ACQUIRED"
        BY <1>2, <2>1, <2>3, <2>6, <3>2, <4>2 DEF Place
      <4> QED
        BY <4>1, <4>2
    <3>4. modem[h] = "leaving" => modem'[h] \in {"leaving", "closing"}
      BY <2>6
    <3>5. \A i \in 1 .. Len(queue') : Leaves(h, i)' => modem'[h] \in {"leaving", "closing"}
      BY <1>2, <3>4
    <3>6. \A j \in Nifs : SubscribedOnce(h, j)'
      BY <3>1, <3>3, <3>5 DEF SubscribedOnce
    <3> QED
      BY <1>3, <3>6
  <2>9. ASSUME NEW k \in Handles, k # h
        PROVE  AskedOf(k)' /\ \A j \in Nifs : SubscribedOnce(k, j)'
    <3>1. k \in sm'[n].subs => k \in sm[n].subs
      BY <2>1, <2>3, <2>9
    <3>2. k \in sm[n].subs =>
            /\ sm'[n].state = sm[n].state
            /\ (k \in sm'[n].idle <=> k \in sm[n].idle)
      BY <2>1, <2>2, <2>3 DEF Used
    <3> QED
      BY <1>2, <2>3, <2>5, <2>9, <3>1, <3>2, StillDue
  <2> QED
    BY <2>7, <2>8, <2>9 DEF KeepsDue
<1> QED
  BY <1>4, <1>5

LEMMA ReleaseDue ==
    ASSUME DueInv, QueueShape', releaseATL
    PROVE  KeepsDue
<1>0. PICK n, h : /\ h = Head(queue).h
                  /\ n = IF "agnss" \in Owners(h) THEN "agnss" ELSE "internet"
  OBVIOUS
<1>1. /\ Receive("release") /\ IInv
      /\ \A k \in Handles : AskedOf(k) /\ \A j \in Nifs : SubscribedOnce(k, j)
      /\ \A j \in Nifs : Good(sm[j])
  BY DEF releaseATL, DueInv, IInv, MachinesGood, Good
<1>2. Shifted(1) /\ Leaves(h, 1) /\ h \in Handles
  BY <1>0, <1>1, ReceiveShifts, ReceiveKeeps DEF Messages
<1>3. CASE Owners(h) = {}
  <2>1. sm' = sm /\ said' = {} /\ modem' = Heard({})
    BY <1>0, <1>3 DEF releaseATL, Nothing
  <2>2. \A k \in Handles : modem'[k] = modem[k]
    BY <2>1, HeardEach, HeardNothing
  <2>3. AllDue
    BY <2>1 DEF AllDue
  <2> QED
    BY <1>2, <2>1, <2>2, <2>3, StillDue DEF KeepsDue
<1>4. CASE Owners(h) # {}
  <2> DEFINE r == processAgpsEventUnsubscribe(sm[n], h)
  <2>1. n \in Owners(h)
    BY <1>0, <1>4, NifsAssumption DEF Owners, Kinds
  <2>2. n \in Nifs /\ h \in sm[n].subs /\ Apply(n, r)
    BY <1>0, <1>4, <2>1 DEF Owners, releaseATL
  <2>3. r.told \in SUBSET Statuses
    BY <1>1, <2>2, UnsubscribeIsGood DEF GoodResult
  <2>4. modem[h] \in {"leaving", "closing"}
    BY <1>1, <1>2, <2>2 DEF SubscribedOnce, Leaves
  <2>5. ASSUME NEW k \in Handles PROVE Outcome(sm[n], r, k, modem[k])
    <3>1. CASE k \notin sm[n].subs
      <4>1. Place(sm[n], k, modem[k])
        BY <3>1 DEF Place
      <4>2. Good(sm[n]) /\ (k = h => modem[k] \in {"leaving", "closing"})
        BY <1>1, <2>2, <2>4
      <4> QED
        BY <2>2, <2>5, <4>1, <4>2, UnsubscribeOutcome
    <3>2. CASE k \in sm[n].subs
      <4>1. Place(sm[n], k, modem[k])
        BY <1>1, <2>2, <3>2 DEF SubscribedOnce
      <4>2. Good(sm[n]) /\ (k = h => modem[k] \in {"leaving", "closing"})
        BY <1>1, <2>2, <2>4
      <4> QED
        BY <2>2, <2>5, <4>1, <4>2, UnsubscribeOutcome
    <3> QED
      BY <3>1, <3>2
  <2> HIDE DEF r
  <2> QED
    BY <1>2, <2>2, <2>3, <2>5, ApplyDue
<1> QED
  BY <1>3, <1>4

\* Where every handle stands, for the handlers of the answers.
LEMMA Placed ==
    ASSUME DueInv, NEW n \in Nifs
    PROVE  Good(sm[n]) /\ \A k \in Handles : Place(sm[n], k, modem[k])
<1>1. Good(sm[n])
  BY DEF DueInv, IInv, MachinesGood, Good
<1>2. ASSUME NEW k \in Handles PROVE Place(sm[n], k, modem[k])
  <2>1. CASE k \in sm[n].subs
    BY <2>1 DEF DueInv, SubscribedOnce
  <2>2. CASE k \notin sm[n].subs
    BY <2>2 DEF Place
  <2> QED
    BY <2>1, <2>2
<1> QED
  BY <1>1, <1>2

LEMMA AnswerDue ==
    ASSUME DueInv, QueueShape',
           reportAtlOpenSuccess \/ reportAtlOpenFailed \/ reportAtlClosed
    PROVE  KeepsDue
<1>0. PICK n : n = Head(queue).n
  OBVIOUS
<1>1. IInv
  BY DEF DueInv
<1>2. n \in Nifs /\ Shifted(1)
  <2>1. PICK w \in Answers : Receive(w)
    BY DEF reportAtlOpenSuccess, reportAtlOpenFailed, reportAtlClosed, Answers
  <2> QED
    BY <1>0, <1>1, <2>1, ReceiveKeeps, ReceiveShifts
<1>3. Good(sm[n]) /\ \A k \in Handles : Place(sm[n], k, modem[k])
  BY <1>2, Placed
<1>4. CASE reportAtlOpenSuccess
  <2> DEFINE r == processAgpsEventGranted(sm[n])
  <2>1. /\ r.told \in SUBSET Statuses
        /\ \A k \in Handles : Outcome(sm[n], r, k, modem[k])
    BY <1>3, GrantedIsGood, GrantedOutcome DEF GoodResult
  <2>2. Apply(n, r)
    BY <1>0, <1>4 DEF reportAtlOpenSuccess
  <2> HIDE DEF r
  <2> QED
    BY <1>2, <2>1, <2>2, ApplyDue
<1>5. CASE reportAtlOpenFailed
  <2> DEFINE r == processAgpsEventDenied(sm[n])
  <2>1. /\ r.told \in SUBSET Statuses
        /\ \A k \in Handles : Outcome(sm[n], r, k, modem[k])
    BY <1>3, DeniedIsGood, DeniedOutcome DEF GoodResult
  <2>2. Apply(n, r)
    BY <1>0, <1>5 DEF reportAtlOpenFailed
  <2> HIDE DEF r
  <2> QED
    BY <1>2, <2>1, <2>2, ApplyDue
<1>6. CASE reportAtlClosed
  <2> DEFINE r == processAgpsEventReleased(sm[n])
  <2>1. /\ r.told \in SUBSET Statuses
        /\ \A k \in Handles : Outcome(sm[n], r, k, modem[k])
    BY <1>3, ReleasedIsGood, ReleasedOutcome DEF GoodResult
  <2>2. Apply(n, r)
    BY <1>0, <1>6 DEF reportAtlClosed
  <2> HIDE DEF r
  <2> QED
    BY <1>2, <2>1, <2>2, ApplyDue
<1> QED
  BY <1>4, <1>5, <1>6

LEMMA FrameworkDue ==
    ASSUME DueInv, QueueShape', NEW n \in Nifs, Framework(n)
    PROVE  KeepsDue
<1>0. IInv
  BY DEF DueInv
<1>1. CASE OpenedBadApn(n)
  <2> DEFINE r == processAgpsEventReleased(sm[n])
  <2>1. Good(sm[n]) /\ \A k \in Handles : Place(sm[n], k, modem[k])
    BY Placed
  <2>2. /\ r.told \in SUBSET Statuses
        /\ \A k \in Handles : Outcome(sm[n], r, k, modem[k])
    BY <2>1, ReleasedIsGood, ReleasedOutcome DEF GoodResult
  <2>3. Apply(n, r) /\ queue' = queue
    BY <1>1 DEF OpenedBadApn
  <2> HIDE DEF r
  <2>4. Shifted(0)
    BY <1>0, <2>3, AnswerShifts
  <2> QED
    BY <2>2, <2>3, <2>4, ApplyDue
<1>2. CASE ~OpenedBadApn(n)
  <2>1. sm' = sm /\ modem' = modem /\ said' = {}
    BY <1>2 DEF Framework, TakeRequest, TakeRelease, Opened, Refused, Lost
  <2>2. queue' = queue \/ \E i : \E w \in Answers : Answer(w, i)
    BY <1>2 DEF Framework, TakeRequest, TakeRelease, Opened, Refused, Lost, Answers
  <2>3. Shifted(0)
    BY <1>0, <2>2, AnswerShifts
  <2> QED
    BY <2>1, <2>3, QuietDue
<1> QED
  BY <1>1, <1>2

LEMMA ModemDue ==
    ASSUME DueInv, QueueShape', NEW h \in Handles,
           (\E n \in Kinds : AskATL(h, n)) \/ GiveBackATL(h)
    PROVE  KeepsDue
<1>0. /\ queue \in Seq(Messages) /\ modem \in [Handles -> {"none", "asking", "leaving", "open", "closing"}]
      /\ \A k \in Handles : AskedOf(k) /\ \A n \in Nifs : SubscribedOnce(k, n)
      /\ \A n \in Nifs : Good(sm[n]) /\ \A k \in Handles : Place(sm[n], k, modem[k])
  BY Placed DEF DueInv, IInv, QueueShape, ModemShape
<1>1. PICK m, to : /\ queue' = Append(queue, m) /\ modem' = [modem EXCEPT ![h] = to]
                   /\ m.h = h
                   /\ \/ m.what = "request" /\ modem[h] = "none" /\ to = "asking"
                      \/ m.what = "release" /\ modem[h] = "asking" /\ to = "leaving"
                      \/ m.what = "release" /\ modem[h] = "open" /\ to = "closing"
  <2>1. ASSUME NEW n \in Kinds, AskATL(h, n)
        PROVE  /\ queue' = Append(queue, Message("request", h, n))
               /\ modem' = [modem EXCEPT ![h] = "asking"] /\ modem[h] = "none"
               /\ Message("request", h, n).h = h
               /\ Message("request", h, n).what = "request"
    BY <2>1 DEF AskATL, Post, Message
  <2>2. ASSUME GiveBackATL(h)
        PROVE  /\ queue' = Append(queue, Message("release", h, "agnss"))
               /\ modem' = [modem EXCEPT ![h] =
                                IF modem[h] = "asking" THEN "leaving" ELSE "closing"]
               /\ modem[h] \in {"asking", "open"}
               /\ Message("release", h, "agnss").h = h
               /\ Message("release", h, "agnss").what = "release"
    BY <2>2 DEF GiveBackATL, Post, Message
  <2> QED
    BY <2>1, <2>2
<1>2. sm' = sm /\ said' = {}
  BY DEF AskATL, GiveBackATL
<1>3. /\ Len(queue) \in Nat /\ Len(queue') = Len(queue) + 1
      /\ \A i \in 1 .. Len(queue') : queue'[i] = (IF i \in 1 .. Len(queue) THEN queue[i] ELSE m)
  BY <1>0, <1>1
<1>4. modem'[h] = to /\ \A k \in Handles \ {h} : modem'[k] = modem[k]
  BY <1>0, <1>1
<1>5. AllDue
  BY <1>2 DEF AllDue
<1>6. ASSUME NEW k \in Handles, k # h
      PROVE  AskedOf(k)' /\ \A n \in Nifs : SubscribedOnce(k, n)'
  <2>1. \A i \in 1 .. Len(queue') : /\ Asks(k, i)' => Asks(k, i) /\ i \in 1 .. Len(queue)
                                    /\ Leaves(k, i)' => Leaves(k, i) /\ i \in 1 .. Len(queue)
    BY <1>1, <1>3, <1>6 DEF Asks, Leaves
  <2>2. AskedOf(k)'
    BY <1>0, <1>2, <1>4, <1>6, <2>1 DEF AskedOf
  <2>3. \A n \in Nifs : SubscribedOnce(k, n)'
    BY <1>0, <1>2, <1>4, <1>6, <2>1 DEF SubscribedOnce
  <2> QED
    BY <2>2, <2>3
<1>7. CASE m.what = "request"
  <2>1. modem[h] = "none" /\ modem'[h] = "asking"
    BY <1>1, <1>4, <1>7
  <2>2. \A n \in Nifs : h \notin sm[n].subs
    BY <1>0, <2>1 DEF Place
  <2>3. \A i \in 1 .. Len(queue) : ~Asks(h, i)
    BY <1>0, <2>1 DEF AskedOf
  <2>4. \A i \in 1 .. Len(queue') :
            /\ Asks(h, i)' => i = Len(queue')
            /\ Leaves(h, i)' => i # Len(queue')
    BY <1>1, <1>3, <1>7, <2>3 DEF Asks, Leaves
  <2>5. \A i, j \in 1 .. Len(queue') : ~(Asks(h, i)' /\ Leaves(h, j)' /\ i < j)
    BY <1>3, <2>4
  <2>6. AskedOf(h)'
    BY <1>2, <2>1, <2>2, <2>4, <2>5 DEF AskedOf
  <2>7. \A n \in Nifs : SubscribedOnce(h, n)'
    BY <1>2, <2>2 DEF SubscribedOnce
  <2> QED
    BY <1>5, <1>6, <2>6, <2>7 DEF KeepsDue
<1>8. CASE m.what = "release"
  <2>1. \/ modem[h] = "asking" /\ modem'[h] = "leaving"
        \/ modem[h] = "open" /\ modem'[h] = "closing"
    BY <1>1, <1>4, <1>8
  <2>2. \A i \in 1 .. Len(queue') : Asks(h, i)' => Asks(h, i) /\ i \in 1 .. Len(queue)
    BY <1>1, <1>3, <1>8 DEF Asks
  <2>3. AskedOf(h)'
    BY <1>0, <1>2, <2>1, <2>2 DEF AskedOf
  <2>4. ASSUME NEW n \in Nifs PROVE Place(sm[n], h, modem'[h])
    BY <1>0, <2>1 DEF Place
  <2>5. \A n \in Nifs : SubscribedOnce(h, n)'
    BY <1>0, <1>2, <2>1, <2>4 DEF SubscribedOnce
  <2> QED
    BY <1>5, <1>6, <2>3, <2>5 DEF KeepsDue
<1> QED
  BY <1>1, <1>7, <1>8

LEMMA NextDue == DueInv /\ [Next]_vars => DueInv' /\ (AllDue \/ UNCHANGED vars)
<1> SUFFICES ASSUME DueInv, [Next]_vars
             PROVE  DueInv' /\ (AllDue \/ UNCHANGED vars)
  OBVIOUS
<1>0. IInv' /\ QueueShape'
  BY NextKeeps DEF DueInv, IInv
<1>1. CASE Loop
  BY <1>0, <1>1, RequestDue, ReleaseDue, AnswerDue DEF Loop, DueInv, KeepsDue
<1>2. CASE \E h \in Handles : (\E n \in Kinds : AskATL(h, n)) \/ GiveBackATL(h)
  BY <1>0, <1>2, ModemDue DEF DueInv, KeepsDue
<1>3. CASE \E n \in Nifs : Framework(n)
  BY <1>0, <1>3, FrameworkDue DEF DueInv, KeepsDue
<1>4. CASE UNCHANGED vars
  BY <1>0, <1>4 DEF vars, DueInv, AskedOf, SubscribedOnce, Asks, Leaves
<1> QED
  BY <1>1, <1>2, <1>3, <1>4 DEF Next

\* The modem hears an open status, or a failure, only of a request it still waits
\* for, and a close status only of a connection it has or has given up: whatever
\* the order of answers and requests, and also with subscribers that wait for the
\* close (notifyEventToSubscriber, Agps.cpp:345).
THEOREM AnswersAlwaysDue == Spec => AnswersAreDue
<1>1. Init => DueInv
  <2>1. Init => IInv
    BY InitIInv
  <2>2. Init => \A k \in Handles : AskedOf(k) /\ \A n \in Nifs : SubscribedOnce(k, n)
    <3> SUFFICES ASSUME Init, NEW k \in Handles
                 PROVE  AskedOf(k) /\ \A n \in Nifs : SubscribedOnce(k, n)
      OBVIOUS
    <3>1. AskedOf(k)
      BY DEF Init, AskedOf
    <3>2. \A n \in Nifs : SubscribedOnce(k, n)
      BY DEF Init, Machine, SubscribedOnce
    <3> QED
      BY <3>1, <3>2
  <2> QED
    BY <2>1, <2>2 DEF DueInv
<1>2. DueInv /\ [Next]_vars
        => DueInv' /\ [\A a \in said' :
              /\ a.what \in {"open", "fail"} => modem[a.h] \in {"asking", "leaving"}
              /\ a.what = "closed" => modem[a.h] \in {"open", "leaving", "closing"}]_vars
  BY NextDue DEF AllDue, DueTo
<1> QED
  BY <1>1, <1>2, PTL DEF Spec, AnswersAreDue
=============================================================================
