---------------------------- MODULE GnssTracking ----------------------------
(***************************************************************************)
(* The tracking sessions of the GNSS HAL: GnssAdapter.cpp with the client  *)
(* side of LocationAPIClientBase.cpp.                                      *)
(*                                                                         *)
(* Clients start, update and stop sessions.  The engine of the modem runs  *)
(* one time-based fix and any number of distance-based ones, so the adapter*)
(* keeps the sessions in two maps and multiplexes the time-based ones: the *)
(* engine is told only when the shortest interval or the best power mode   *)
(* changes, and a client is answered either at once or by the continuation *)
(* of the engine's answer.  Commands, answers of the engine and the news   *)
(* that it is up all arrive through the queue of one thread, in any order; *)
(* opening the engine is the work of another, LocApiBase's.                *)
(*                                                                         *)
(* The engine behind LocApiBase is external: it takes the requests in the  *)
(* order they were made, carries each out or fails it, and answers through *)
(* the queue.  After a restart it runs nothing.                            *)
(***************************************************************************)
EXTENDS Integers, Sequences, FiniteSets, FiniteSetsExt, SequencesExt, TLC

CONSTANTS Clients,
          Mute,               \* clients that may be registered without callbacks
          Leavers,            \* bound: clients that may leave
          Options,            \* TrackingOptions: interval, distance and power mode
          DistanceSupported,  \* LOC_API_ADAPTER_MESSAGE_DISTANCE_BASE_TRACKING
          Faults,             \* the engine may fail a request or to open
          MaxStarts,          \* bound: sessions of one client
          MaxCommands,        \* bound: commands of all clients together
          MaxRestarts,        \* bound: restarts of the engine
          MaxBacklog          \* bound: work outstanding when more is posted

ASSUME OptionsAssumption ==
    /\ Options \subseteq [int : Nat, dist : Nat, pow : Nat, size : {0, 1}]
    /\ \A o \in Options : o.size > 0 => o.int > 0 /\ o.pow > 0
ASSUME ClientsAssumption == Mute \subseteq Clients /\ Leavers \subseteq Clients
ASSUME FlagsAssumption == DistanceSupported \in BOOLEAN /\ Faults \in BOOLEAN
ASSUME BoundsAssumption ==
    {MaxStarts, MaxCommands, MaxRestarts, MaxBacklog} \subseteq Nat

\* A session is known by its client and a number of its own; generateSessionId
\* hands out one number after the other to all clients alike.
Ids == Clients \X (1 .. MaxStarts)
Owner(id) == id[1]

VARIABLES client,    \* LocationAPIClientBase: last session, mTracking, mLocationAPI,
                     \* and whether it has a tracking or measurement callback
          reg,       \* clients in mClientData
          opens,     \* LocOpenMsg and LocSsrMsg in the queue of LocApiBase's thread
          queue,     \* messages of the adapter's MsgTask
          pend,      \* mPendingMsgs
          known,     \* mIsEngineCapabilitiesKnown
          sess,      \* mTimeBasedTrackingSessions, mDistanceBasedTrackingSessions
          api,       \* requests the engine has not carried out yet
          engine,    \* the fix and the distance-based sessions it runs
          owed,      \* commands of each session not answered yet
          sent,      \* commands sent so far
          dropped,   \* commands of each session whose restart failed
          refused,   \* sessions whose start was refused without an answer
          upset,     \* a request or an opening failed, or a request was overtaken
          restarts

vars == <<client, reg, opens, queue, pend, known, sess, api, engine, owed, sent,
          dropped, refused, upset, restarts>>

\* A TrackingOptions whose size is zero was never filled in.
Nothing == [int |-> 0, dist |-> 0, pow |-> 0, size |-> 0]
Opt(int, pow) == [int |-> int, dist |-> 0, pow |-> pow, size |-> 1]

Command(what, id, o) == [what |-> what, id |-> id, opt |-> o]
AnyId == CHOOSE id \in Ids : TRUE
News(what) == Command(what, AnyId, Nothing)
Reply(ask, ok) == [what |-> "answer", id |-> ask.id, opt |-> ask.with,
                   then |-> ask.then, ok |-> ok]

\* A request to the engine, and what the adapter does with its answer.
Request(do, id, o, then, with) ==
    [do |-> do, id |-> id, opt |-> o, then |-> then, with |-> with]
StartFix(id, o, then, with) == Request("startFix", id, o, then, with)
StopFix(id) == Request("stopFix", id, Nothing, "report", Nothing)
StartFar(id, then, with) == Request("startFar", id, Nothing, then, with)
StopFar(id, then, with) == Request("stopFar", id, Nothing, then, with)

-----------------------------------------------------------------------------
(* The two maps and the multiplexing of the time-based sessions. *)

Put(f, id, o) == (id :> o) @@ f
Without(f, id) == [i \in DOMAIN f \ {id} |-> f[i]]
Empty(f) == DOMAIN f = {}

saveTrackingSession(s, id, o) ==
    IF o.dist > 0 /\ DistanceSupported
    THEN [s EXCEPT !.dist = Put(@, id, o)]
    ELSE [s EXCEPT !.time = Put(@, id, o)]

eraseTrackingSession(s, id) ==
    IF id \in DOMAIN s.time THEN [s EXCEPT !.time = Without(@, id)]
    ELSE [s EXCEPT !.dist = Without(@, id)]

\* What the handler of a message does: the maps it leaves, the requests it
\* makes and whether it answers the command.
Done(s, asks, told) == [sess |-> s, asks |-> asks, told |-> told]

\* The session of the shortest interval, and the best power mode of all.
\* Among equal intervals the map's order decides.
Shortest(time) ==
    time[CHOOSE i \in DOMAIN time : \A j \in DOMAIN time : time[i].int <= time[j].int]
BestPower(time) == Min({time[i].pow : i \in DOMAIN time})
Betters(o, time) == o.int < Shortest(time).int \/ o.pow < BestPower(time)
Merged(o, time) ==
    Opt(Min({o.int, Shortest(time).int}),
        IF o.pow < BestPower(time) THEN o.pow ELSE Shortest(time).pow)

\* mistake: a session that joins others is answered without a look at its interval
JoinAlways(s, id, o) ==
    IF Empty(s.time) THEN Done(s, <<StartFix(id, o, "started", Nothing)>>, FALSE)
    ELSE Done(s, <<>>, TRUE)

startTimeBasedTrackingMultiplex(s, id, o) ==
    IF Empty(s.time)
    THEN Done(s, <<StartFix(id, Opt(o.int, o.pow), "started", Nothing)>>, FALSE)
    ELSE IF Betters(o, s.time)
    THEN Done(s, <<StartFix(id, Merged(o, s.time), "started", Nothing)>>, FALSE)
    ELSE Done(s, <<>>, TRUE)

updateTrackingMultiplex(s, id, o) ==
    LET old    == s.time[id]
        others == Without(s.time, id)
        ask(new) == Done(s, <<StartFix(id, new, "updated", old)>>, FALSE)
    IN IF o.int = old.int /\ o.pow = old.pow THEN Done(s, <<>>, TRUE)
       ELSE IF Empty(others) THEN ask(Opt(o.int, o.pow))
       ELSE IF Betters(o, others) THEN ask(Merged(o, others))
       ELSE Done(s, <<>>, TRUE)

\* mistake: the last session's stop is answered at once, and by the engine again
StopToldTwice(s, id) ==
    LET others == Without(s.time, id)
    IN IF Empty(others) THEN Done(s, <<StopFix(id)>>, TRUE)
       ELSE IF Betters(s.time[id], others)
       THEN Done(s, <<StartFix(id, Opt(Shortest(others).int, BestPower(others)),
                               "started", Nothing)>>, FALSE)
       ELSE Done(s, <<>>, TRUE)

stopTimeBasedTrackingMultiplex(s, id) ==
    LET others == Without(s.time, id)
    IN IF Cardinality(DOMAIN s.time) = 1 THEN Done(s, <<StopFix(id)>>, FALSE)
       ELSE IF Betters(s.time[id], others)
       THEN Done(s, <<StartFix(id, Opt(Shortest(others).int, BestPower(others)),
                               "started", Nothing)>>, FALSE)
       ELSE Done(s, <<>>, TRUE)

-----------------------------------------------------------------------------
(* The messages of the three commands. *)

Far(o) == o.dist > 0 /\ DistanceSupported

\* A client that has left meanwhile has no callback either.
Refuses(id, o) == Owner(id) \notin reg \/ ~client[Owner(id)].callback \/ o.size = 0

\* A start that is refused is not answered.
startTracking(s, id, o) ==
    IF Refuses(id, o) THEN Done(s, <<>>, FALSE)
    ELSE IF Far(o)
    THEN Done(saveTrackingSession(s, id, o), <<StartFar(id, "started", Nothing)>>, FALSE)
    ELSE LET r == startTimeBasedTrackingMultiplex(s, id, o)
         IN Done(saveTrackingSession(s, id, o), r.asks, r.told)

Sessions(s) == DOMAIN s.time \cup DOMAIN s.dist

\* The switch to distance-based tracking is answered by what stops the time-
\* based session, the switch back by what starts it.  A session is in both maps
\* when its switch overtook an update: it is taken for distance-based then.
updateTracking(s, id, o) ==
    IF id \notin Sessions(s) \/ o.size = 0 THEN Done(s, <<>>, TRUE)
    ELSE CASE o.dist > 0 /\ id \in DOMAIN s.time ->
           LET r == stopTimeBasedTrackingMultiplex(s, id)
           IN Done(saveTrackingSession(eraseTrackingSession(s, id), id, o),
                   Append(r.asks, StartFar(id, "ignore", Nothing)), r.told)
      [] o.dist = 0 /\ id \in DOMAIN s.dist ->
           Done(eraseTrackingSession(s, id), <<StopFar(id, "toTime", o)>>, FALSE)
      [] o.dist = 0 /\ id \notin DOMAIN s.dist ->
           LET r == updateTrackingMultiplex(s, id, o)
           IN Done(saveTrackingSession(s, id, o), r.asks, r.told)
      [] o.dist > 0 /\ id \notin DOMAIN s.time ->
           Done(s, <<StopFar(id, "again", o)>>, FALSE)

\* mistake: a session whose stop needs no word to the engine is not erased
StopErasesLate(s, id) ==
    IF id \in DOMAIN s.time
    THEN LET r == stopTimeBasedTrackingMultiplex(s, id)
         IN Done(IF r.told THEN s ELSE eraseTrackingSession(s, id), r.asks, r.told)
    ELSE IF id \in DOMAIN s.dist THEN Done(s, <<StopFar(id, "stopped", Nothing)>>, FALSE)
    ELSE Done(s, <<>>, TRUE)

stopTracking(s, id) ==
    IF id \in DOMAIN s.time
    THEN LET r == stopTimeBasedTrackingMultiplex(s, id)
         IN Done(eraseTrackingSession(s, id), r.asks, r.told)
    ELSE IF id \in DOMAIN s.dist THEN Done(s, <<StopFar(id, "stopped", Nothing)>>, FALSE)
    ELSE Done(s, <<>>, TRUE)

\* The sessions of a client that leaves: the engine is told, the time-based
\* ones stay in their map.
stopClientSessions(s, c) ==
    LET mine(f) == SetToSeq({id \in DOMAIN f : Owner(id) = c})
        fixes   == [n \in DOMAIN mine(s.time) |->
                       stopTimeBasedTrackingMultiplex(s, mine(s.time)[n]).asks]
        fars    == [n \in DOMAIN mine(s.dist) |->
                       StopFar(mine(s.dist)[n], "closed", Nothing)]
    IN FlattenSeq(fixes) \o fars

restartSessions(s) ==
    (IF Empty(s.time) THEN <<>>
     ELSE <<StartFix(AnyId, Opt(Shortest(s.time).int, BestPower(s.time)), "none", Nothing)>>)
    \o LET fars == SetToSeq(DOMAIN s.dist)
       IN [n \in DOMAIN fars |-> StartFar(fars[n], "ignore", Nothing)]

\* What the adapter does with the answer to one of its requests.
Continue(s, a) ==
    LET id == a.id
        later == startTimeBasedTrackingMultiplex(s, id, a.opt)
    IN CASE a.then = "report"  -> Done(s, <<>>, TRUE)
         [] a.then = "started" -> Done(IF a.ok THEN s ELSE eraseTrackingSession(s, id),
                                       <<>>, TRUE)
         [] a.then = "updated" -> Done(IF a.ok THEN s
                                       ELSE saveTrackingSession(s, id, a.opt), <<>>, TRUE)
         [] a.then = "saved"   -> Done(IF a.ok THEN saveTrackingSession(s, id, a.opt)
                                       ELSE s, <<>>, TRUE)
         [] a.then = "stopped" -> Done(IF a.ok THEN eraseTrackingSession(s, id) ELSE s,
                                       <<>>, TRUE)
         [] a.then = "closed"  -> Done(IF a.ok THEN eraseTrackingSession(s, id) ELSE s,
                                       <<>>, FALSE)
         [] a.then = "toTime"  -> Done(saveTrackingSession(s, id, a.opt), later.asks,
                                       later.told)
         [] a.then = "again"   -> Done(s, IF a.ok THEN <<StartFar(id, "saved", a.opt)>>
                                          ELSE <<>>, FALSE)
         [] a.then = "ignore"  -> Done(s, <<>>, FALSE)

-----------------------------------------------------------------------------
(* The message thread. *)

Receive(what) ==
    /\ queue # <<>>
    /\ Head(queue).what = what

\* What a handler did takes effect; an answer to a client that has left is lost.
Apply(id, r) ==
    /\ sess' = r.sess
    /\ api' = api \o r.asks
    /\ owed' = [owed EXCEPT ![id] = IF r.told /\ Owner(id) \in reg THEN @ - 1 ELSE @]

\* Commands of a session that wait for the engine to be known, or whose answer
\* the adapter awaits to change the maps.
Awaits(m) == m.then \in {"again", "saved", "toTime", "stopped"}
InProgress(id) ==
    \/ \E n \in DOMAIN pend : pend[n].id = id
    \/ \E n \in DOMAIN api : api[n].id = id /\ Awaits(api[n])
    \/ \E n \in DOMAIN queue :
          queue[n].what = "answer" /\ queue[n].id = id /\ Awaits(queue[n])

\* Distance-based tracking waits until the engine is known.
Deferred(m) == m.opt.dist > 0 /\ ~known

Defer ==
    /\ queue # <<>>
    /\ Head(queue).what \in {"start", "update"}
    /\ Deferred(Head(queue))
    /\ pend' = Append(pend, Head(queue))
    /\ queue' = Tail(queue)
    /\ UNCHANGED <<client, reg, opens, known, sess, api, engine, owed, sent, dropped,
                   refused, upset, restarts>>

Handle(what, r) ==
    /\ Receive(what)
    /\ ~Deferred(Head(queue))
    /\ Apply(Head(queue).id, r)
    /\ upset' = (upset \/ InProgress(Head(queue).id))
    /\ queue' = Tail(queue)
    /\ UNCHANGED <<client, reg, opens, pend, known, engine, sent, dropped, restarts>>

MsgStartTracking ==
    /\ Handle("start", startTracking(sess, Head(queue).id, Head(queue).opt))
    /\ refused' = IF Refuses(Head(queue).id, Head(queue).opt)
                  THEN refused \cup {Head(queue).id} ELSE refused
MsgUpdateTracking ==
    /\ Handle("update", updateTracking(sess, Head(queue).id, Head(queue).opt))
    /\ UNCHANGED refused
MsgStopTracking ==
    /\ Handle("stop", stopTracking(sess, Head(queue).id))
    /\ UNCHANGED refused

MsgRemoveClient ==
    /\ Receive("remove")
    /\ LET c == Owner(Head(queue).id)
       IN /\ api' = api \o stopClientSessions(sess, c)
          /\ reg' = reg \ {c}
    /\ queue' = Tail(queue)
    /\ UNCHANGED <<client, opens, pend, known, sess, engine, owed, sent, dropped,
                   refused, upset, restarts>>

\* mistake: the deferred commands are forgotten
UpForgets ==
    /\ Receive("up")
    /\ known' = TRUE
    /\ api' = api \o restartSessions(sess)
    /\ queue' = Tail(queue)
    /\ pend' = <<>>
    /\ upset' = (upset \/ api # <<>> \/ \E n \in DOMAIN queue :
                     queue[n].what = "answer" \/ \E k \in DOMAIN pend : pend[k].id = queue[n].id)
    /\ UNCHANGED <<client, reg, opens, sess, engine, owed, sent, dropped, refused,
                   restarts>>

MsgHandleEngineUpEvent ==
    /\ Receive("up")
    /\ known' = TRUE
    /\ api' = api \o restartSessions(sess)
    /\ queue' = Tail(queue) \o pend
    /\ pend' = <<>>
    /\ upset' = (upset \/ api # <<>> \/ \E n \in DOMAIN queue :
                     queue[n].what = "answer" \/ \E k \in DOMAIN pend : pend[k].id = queue[n].id)
    /\ UNCHANGED <<client, reg, opens, sess, engine, owed, sent, dropped, refused,
                   restarts>>

LocApiResponse ==
    /\ Receive("answer")
    /\ Apply(Head(queue).id, Continue(sess, Head(queue)))
    /\ dropped' = IF Head(queue).then = "again" /\ ~Head(queue).ok
                  THEN [dropped EXCEPT ![Head(queue).id] = @ + 1] ELSE dropped
    /\ queue' = Tail(queue)
    /\ UNCHANGED <<client, reg, opens, pend, known, engine, sent, refused, upset,
                   restarts>>

Loop ==
    \/ Defer \/ MsgStartTracking \/ MsgUpdateTracking \/ MsgStopTracking
    \/ MsgRemoveClient \/ MsgHandleEngineUpEvent \/ LocApiResponse

-----------------------------------------------------------------------------
(* The clients. *)

Post(m) ==
    /\ Len(queue) + Len(api) + opens < MaxBacklog
    /\ queue' = Append(queue, m)

\* A command of a session is sent, perhaps before the last one is answered.
Send(what, id, o) ==
    /\ sent < MaxCommands
    /\ Post(Command(what, id, o))
    /\ owed' = [owed EXCEPT ![id] = @ + 1]
    /\ sent' = sent + 1
    /\ UNCHANGED <<reg, opens, pend, known, sess, api, engine, dropped, refused, upset,
                   restarts>>

locAPIStartTracking(c, o) ==
    /\ client[c].here /\ ~client[c].tracking /\ client[c].session < MaxStarts
    /\ Send("start", <<c, client[c].session + 1>>, o)
    /\ client' = [client EXCEPT ![c].session = @ + 1, ![c].tracking = TRUE]

locAPIUpdateTrackingOptions(c, o) ==
    /\ client[c].here /\ client[c].session > 0
    /\ Send("update", <<c, client[c].session>>, o)
    /\ UNCHANGED client

\* The session keeps its number, so that it may be stopped again.
locAPIStopTracking(c) ==
    /\ client[c].here /\ client[c].session > 0
    /\ Send("stop", <<c, client[c].session>>, Nothing)
    /\ client' = [client EXCEPT ![c].tracking = FALSE]

removeClientCommand(c) ==
    /\ client[c].here /\ c \in Leavers
    /\ client' = [client EXCEPT ![c].here = FALSE]
    /\ Post(Command("remove", <<c, 1>>, Nothing))
    /\ UNCHANGED <<reg, opens, pend, known, sess, api, engine, owed, sent, dropped,
                   refused, upset, restarts>>

(* The engine. *)

Carry(e, ask) ==
    CASE ask.do = "startFix" -> [e EXCEPT !.fix = ask.opt]
      [] ask.do = "stopFix"  -> [e EXCEPT !.fix = Nothing]
      [] ask.do = "startFar" -> [e EXCEPT !.far = @ \cup {ask.id}]
      [] ask.do = "stopFar"  -> [e EXCEPT !.far = @ \ {ask.id}]

CarryOut(ok) ==
    /\ api # <<>>
    /\ ok \/ Faults
    /\ engine' = IF ok THEN Carry(engine, Head(api)) ELSE engine
    /\ upset' = (upset \/ ~ok)
    /\ api' = Tail(api)
    /\ queue' = IF Head(api).then = "none" THEN queue
                ELSE Append(queue, Reply(Head(api), ok))
    /\ UNCHANGED <<client, reg, opens, pend, known, sess, owed, sent, dropped, refused,
                   restarts>>

Off == [fix |-> Nothing, far |-> {}]

handleEngineDownEvent ==
    /\ restarts < MaxRestarts
    /\ opens = 0
    /\ Len(queue) + Len(api) < MaxBacklog
    /\ restarts' = restarts + 1
    /\ engine' = Off
    /\ opens' = opens + 1
    /\ UNCHANGED <<client, reg, queue, pend, known, sess, api, owed, sent, dropped,
                   refused, upset>>

\* The thread of LocApiBase opens the engine, for the first time or again after
\* a restart; only an engine that opens is announced to the adapter.
LocSsrMsg(ok) ==
    /\ opens > 0
    /\ ok \/ Faults
    /\ opens' = opens - 1
    /\ queue' = IF ok THEN Append(queue, News("up")) ELSE queue
    /\ upset' = (upset \/ ~ok)
    /\ UNCHANGED <<client, reg, pend, known, sess, api, engine, owed, sent, dropped,
                   refused, restarts>>

-----------------------------------------------------------------------------

Init ==
    /\ \E mute \in SUBSET Mute :
          client = [c \in Clients |-> [session |-> 0, tracking |-> FALSE, here |-> TRUE,
                                       callback |-> c \notin mute]]
    /\ reg = Clients
    /\ opens = 1
    /\ queue = <<>>
    /\ pend = <<>>
    /\ known = FALSE
    /\ sess = [time |-> [id \in {} |-> Nothing], dist |-> [id \in {} |-> Nothing]]
    /\ api = <<>>
    /\ engine = Off
    /\ owed = [id \in Ids |-> 0]
    /\ sent = 0
    /\ dropped = [id \in Ids |-> 0]
    /\ refused = {}
    /\ upset = FALSE
    /\ restarts = 0

Next ==
    \/ \E c \in Clients :
          \/ \E o \in Options :
                locAPIStartTracking(c, o) \/ locAPIUpdateTrackingOptions(c, o)
          \/ locAPIStopTracking(c)
          \/ removeClientCommand(c)
    \/ Loop
    \/ \E ok \in BOOLEAN : CarryOut(ok)
    \/ handleEngineDownEvent
    \/ \E ok \in BOOLEAN : LocSsrMsg(ok)

\* The two threads run, and the engine answers what it is asked.
Spec ==
    /\ Init /\ [][Next]_vars
    /\ WF_vars(Loop)
    /\ WF_vars(\E ok \in BOOLEAN : CarryOut(ok))
    /\ WF_vars(\E ok \in BOOLEAN : LocSsrMsg(ok))

-----------------------------------------------------------------------------

IsMap(f) == DOMAIN f \subseteq Ids /\ \A id \in DOMAIN f : f[id] \in Options

\* Commands of a session that nobody will answer: a start that was refused, and
\* updates whose restart failed.
Lost(id) == dropped[id] + (IF id \in refused THEN 1 ELSE 0)

\* Every part keeps its shape; in particular no session owes fewer answers
\* than it has lost commands: none is answered twice.
TypeOK ==
    /\ client \in [Clients -> [session : 0 .. MaxStarts, tracking : BOOLEAN,
                               here : BOOLEAN, callback : BOOLEAN]]
    /\ reg \subseteq Clients
    /\ opens \in 0 .. 1
    /\ \A n \in DOMAIN queue : queue[n].what \in
          {"start", "update", "stop", "remove", "up", "answer"}
    /\ \A n \in DOMAIN pend : pend[n].what \in {"start", "update"}
    /\ known \in BOOLEAN
    /\ IsMap(sess.time) /\ IsMap(sess.dist)
    /\ engine.fix \in {Nothing} \cup {Opt(o.int, p.pow) : o \in Options, p \in Options}
    /\ engine.far \subseteq Ids
    /\ dropped \in [Ids -> Nat]
    /\ refused \subseteq Ids
    /\ DOMAIN owed = Ids /\ \A id \in Ids : owed[id] \in Lost(id) .. MaxCommands
    /\ sent \in 0 .. MaxCommands
    /\ upset \in BOOLEAN
    /\ restarts \in 0 .. MaxRestarts

\* All is handled, the engine opened whenever it was asked to, no request failed,
\* no restart of the engine overtook a request, and no command of a session an
\* earlier one that was in progress: the continuations of 2622-2665 then bring
\* back what was stopped.
Settled == queue = <<>> /\ api = <<>> /\ opens = 0 /\ ~upset
Listed == Sessions(sess)

\* The engine serves what the maps list: it has a fix if and only if a time-
\* based session is listed, at least as often as every one of them asks, and
\* runs the distance-based sessions listed and no other.  A session listed for
\* a client that has left voids it: stopClientSessions leaves those behind.
Served ==
    (\A id \in Listed : Owner(id) \in reg) =>
        /\ engine.fix = Nothing <=> Empty(sess.time)
        /\ \A id \in DOMAIN sess.time : engine.fix.int <= sess.time[id].int
        /\ engine.far = DOMAIN sess.dist

\* The sessions listed for a client are those it started and did not stop,
\* but for starts that were refused.
Wanted ==
    \A id \in Ids :
        LET c == client[Owner(id)]
        IN c.here /\ (\A n \in DOMAIN pend : pend[n].id # id) =>
              (id \in Listed <=> c.session = id[2] /\ c.tracking /\ id \notin refused)

\* When all is handled the client, the maps and the engine agree on which
\* sessions there are, and the engine is as fast as the fastest of them: no
\* stop, switch, merge or late answer loses a session or leaves one behind
\* (GnssAdapter.cpp:2285-2312, 2456-2505, 2606-2665, 2677-2842).  Void after a
\* failure, and after a command that overtook one of its own session.
SessionsAgree == Settled => Served /\ Wanted

\* A deferred command waits for an engine that failed to open.
Stranded(id) ==
    /\ ~known /\ opens = 0
    /\ \A n \in DOMAIN queue : queue[n].what # "up"
    /\ \E n \in DOMAIN pend : pend[n].id = id

\* Every command is answered, whatever continuation its answer waits for, but
\* for the cases in which the code has no answer: a start that is refused for
\* want of a callback or of options (GnssAdapter.cpp:2408-2412), an update whose
\* session the engine refuses to stop (2650), commands deferred until the engine
\* is up when it fails to open (LocApiBase.cpp:99, 121), and clients that left.
CommandsAnswered ==
    \A id \in Ids : owed[id] > Lost(id) ~>
        (owed[id] = Lost(id) \/ Stranded(id) \/ Owner(id) \notin reg)

=============================================================================
