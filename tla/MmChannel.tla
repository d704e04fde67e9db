------------------------------ MODULE MmChannel ------------------------------
(***************************************************************************)
(* One channel of the camera stack: mm_camera_channel.c with the streams   *)
(* of mm_camera_stream.c and the threads of mm_camera_thread.c.            *)
(*                                                                         *)
(* The kernel fills the buffers of every stream.  The channel's poll thread *)
(* takes each filled buffer and hands it to the channel's command thread,  *)
(* which puts the buffers of one frame together into a superbuffer, and to *)
(* the stream's own thread, which hands it to the stream's callback.  Each *)
(* of them, and the HAL behind them, holds a reference; the last reference *)
(* given up returns the buffer to the kernel.  The HAL starts, stops and   *)
(* flushes the channel and asks it for superbuffers meanwhile.             *)
(*                                                                         *)
(* A buffer outside the kernel is named by its stream and the frame in it. *)
(* The kernel and the HAL are external.  The HAL gives up what it holds    *)
(* before the channel is fully stopped, as mm_camera.c:568 assumes.        *)
(***************************************************************************)
EXTENDS Integers, Sequences, FiniteSets, FiniteSetsExt, SequencesExt

CONSTANTS Meta,        \* the metadata stream
          Streams,     \* all streams
          Attrs,       \* the channels the HAL adds
          Infos,       \* what a metadata buffer may announce
          Requests,    \* superbuffers asked for at once, and how many of them past ones
          NumBufs,     \* buffers of a stream
          MaxFrame,    \* bound: frames of a stream between a start and a stop
          MaxRequests, \* bound: requests and flushes of a channel
          MaxStarts    \* bound: starts of a channel

None == "none"
Absent == -1  \* the metadata has no such entry
Past == -2    \* its entry names an earlier frame

ASSUME StreamsAssumption == IsFiniteSet(Streams)
ASSUME AttrsAssumption ==
    Attrs \subseteq [streams : (SUBSET Streams) \ {{}}, data_cb : SUBSET Streams,
                     notify_cb : BOOLEAN, notify_mode : {"burst", "continuous"},
                     water_mark : Nat, look_back : Nat, post_frame_skip : Nat,
                     max_unmatched : Nat, low : BOOLEAN]
\* Every stream has a callback (QCameraStream.cpp:2553) or is of a channel with one,
\* so that no frame comes to nobody.
ASSUME UsersAssumption ==
    \A a \in Attrs : a.notify_cb \/ a.streams \subseteq a.data_cb
\* The one channel of low priority, addSnapshotChannel, has one stream
\* (QCamera2HWI.cpp:6621).
ASSUME PriorityAssumption ==
    \A a \in Attrs : a.low => \E s \in Streams : a.streams = {s}
ASSUME InfosAssumption ==
    Infos \subseteq [done : {None, "now", "future"},
                     good : Nat \cup {Absent}, divert : Nat \cup {Absent, Past}]
ASSUME RequestsAssumption == Requests \subseteq Nat \X Nat
ASSUME BoundsAssumption ==
    {NumBufs, MaxFrame, MaxRequests, MaxStarts} \subseteq Nat /\ NumBufs > 0

VARIABLES attr,    \* mm_camera_channel_attr_t and the callbacks of the channel
          call,    \* where the HAL's call is, and the streams it has left
          st,      \* state of each stream: none, active, or off (being stopped)
          queued,  \* queued_buffer_count
          refs,    \* buf_refcnt
          next,    \* the kernel's next frame of each stream
          poll,    \* the frame the poll thread is handing on
          cmds,    \* cmd_queue of the channel's command thread
          frames,  \* cmd_queue of each stream's thread
          ch,      \* mm_channel_t with its superbuf_queue
          using,   \* frames the streams' callbacks hold
          out,     \* superbuffers the HAL holds
          asked,   \* requests and flushes of this channel so far
          starts   \* starts of this channel so far

vars == <<attr, call, st, queued, refs, next, poll, cmds, frames, ch, using, out,
          asked, starts>>
streamVars == <<st, queued, refs, next, poll, frames, using>>

Frames == 1 .. MaxFrame
Idle == <<None, 0>>
At(pc, todo) == [pc |-> pc, todo |-> todo]

\* The channel as memset leaves it.
Fresh == [q |-> <<>>, match_cnt |-> 0, expected_id |-> 0, nomatch_id |-> 0,
          diverted_id |-> 0, pending |-> 0, retro |-> 0, wait |-> FALSE,
          spins |-> FALSE, back |-> {}, sent |-> <<>>]
NoAttr == [streams |-> {}, data_cb |-> {}, notify_cb |-> FALSE,
           notify_mode |-> "burst", water_mark |-> 0, look_back |-> 0,
           post_frame_skip |-> 0, max_unmatched |-> 0, low |-> FALSE]

-----------------------------------------------------------------------------
(* References to buffers. *)

\* mm_stream_buf_done for each buffer of bufs: nothing for a stream stopped or
\* a buffer without references.
Held(s, f) == st[s] # "none" /\ refs[s][f] > 0
BufDone(bufs) ==
    LET done(s) == {f \in Frames : <<s, f>> \in bufs /\ Held(s, f)}
    IN  /\ refs' = [s \in Streams |-> [f \in Frames |->
                       refs[s][f] - IF f \in done(s) THEN 1 ELSE 0]]
        /\ queued' = [s \in Streams |-> queued[s]
                       + Cardinality({f \in done(s) : refs[s][f] = 1})]

Bufs(x) == {<<s, x.slot[s]>> : s \in {t \in DOMAIN x.slot : x.slot[t] # 0}}
AllBufs(xs) == UNION {Bufs(x) : x \in xs}

-----------------------------------------------------------------------------
(* The superbuffer queue.  Each operator takes and returns the channel C;    *)
(* C.back collects the buffers given up and C.sent the superbuffers for the  *)
(* HAL, both empty between two steps.                                        *)

GiveBack(C, bufs) == [C EXCEPT !.back = @ \cup bufs]

\* mm_channel_superbuf_dequeue_internal, n times, of matched superbuffers.
Leading(C) == Cardinality({i \in DOMAIN C.q : \A j \in 1 .. i : C.q[j].matched})
Pop(C, n) == [C EXCEPT !.q = SubSeq(@, n + 1, Len(@)), !.match_cnt = @ - n]

\* mm_channel_superbuf_skip and mm_channel_superbuf_bufdone_overflow dequeue
\* until match_cnt has reached the limit, however long that takes.
DropTo(C, limit) ==
    LET n == C.match_cnt - limit
    IN  IF attr.notify_mode = "continuous" \/ n <= 0 THEN C
        ELSE IF n > Leading(C) THEN [C EXCEPT !.spins = TRUE]
        ELSE GiveBack(Pop(C, n), AllBufs({C.q[i] : i \in 1 .. n}))

\* mistake: the buffers of what a flush takes out are not given back.
FlushKeeping(C) ==
    [C EXCEPT !.q = <<>>,
              !.match_cnt = @ - Cardinality({i \in DOMAIN C.q : C.q[i].matched})]

\* mm_channel_superbuf_flush
FlushAll(C) ==
    GiveBack([C EXCEPT !.q = <<>>,
                       !.match_cnt = @ - Cardinality({i \in DOMAIN C.q : C.q[i].matched})],
             AllBufs(ToSet(C.q)))

\* mm_channel_handle_metadata
FutureOffset == 100
HandleMetadata(C, f, info) ==
    LET diverted == IF info.divert = Absent THEN C
                    ELSE [C EXCEPT !.diverted_id =
                             IF info.divert = Past THEN 0 ELSE f + info.divert]
        snapshot == CASE info.done = None -> diverted
                      [] info.done = "now" -> [diverted EXCEPT !.wait = FALSE]
                      [] info.done = "future" ->
                           FlushAll([diverted EXCEPT !.wait = FALSE,
                                                     !.expected_id = @ + FutureOffset])
    IN  IF info.good = Absent THEN snapshot
        ELSE [snapshot EXCEPT !.expected_id = f + info.good]

\* mistake: the closest metadata will do in every channel.
TakesClosest(C, s, f, x) ==
    ~x.matched /\ (x.idx = f \/ (s # Meta /\ x.slot[s] = 0 /\ x.idx > f))

\* The first superbuffer not matched that takes frame f of stream s, or 0.
Takes(C, s, f, x) ==
    /\ ~x.matched
    /\ \/ x.idx = f
       \/ C.nomatch_id # 0 /\ C.nomatch_id <= f /\ x.slot[s] = 0 /\ s = Meta
       \/ attr.low /\ s # Meta /\ x.slot[s] = 0 /\ x.idx > f
First(S) == IF S = {} THEN 0 ELSE Min(S)
Taker(C, s, f) == First({i \in DOMAIN C.q : Takes(C, s, f, C.q[i])})

\* mistake: the older incomplete superbuffers stay.
JoinKeeping(C, s, f, hit) ==
    LET x == [C.q[hit] EXCEPT !.slot[s] = f]
        whole == \A t \in DOMAIN x.slot : x.slot[t] # 0
    IN  IF C.q[hit].slot[s] # 0 THEN GiveBack(C, {<<s, f>>})
        ELSE [C EXCEPT !.q[hit] = [x EXCEPT !.matched = whole],
                       !.match_cnt = IF whole THEN @ + 1 ELSE @,
                       !.expected_id = IF whole THEN f + attr.post_frame_skip ELSE @]

\* A superbuffer found: complete, it discards the older incomplete ones.
Join(C, s, f, hit) ==
    LET x == [C.q[hit] EXCEPT !.slot[s] = f]
        older == First({i \in 1 .. hit - 1 : ~C.q[i].matched /\ C.q[i].idx < f})
        from == IF older = 0 THEN hit ELSE older
        found == [C EXCEPT !.nomatch_id = 0]
    IN  IF C.q[hit].slot[s] # 0 THEN GiveBack(found, {<<s, f>>})
        ELSE IF \A t \in DOMAIN x.slot : x.slot[t] # 0 THEN
            GiveBack([found EXCEPT !.q = SubSeq(@, 1, from - 1)
                                         \o <<[x EXCEPT !.matched = TRUE, !.expected = FALSE]>>
                                         \o SubSeq(@, hit + 1, Len(@)),
                                   !.match_cnt = @ + 1,
                                   !.expected_id = f + attr.post_frame_skip],
                     AllBufs({C.q[i] : i \in from .. hit - 1}))
        ELSE [found EXCEPT !.q[hit] = [x EXCEPT !.expected = @ \/ C.diverted_id = f],
                           !.diverted_id = IF @ = f THEN 0 ELSE @]

\* None found: a superbuffer of its own, in its place by number, if need be
\* instead of an older one.  One removal is enough (QueueSound).
Insert(C, s, f) ==
    LET loose == {i \in DOMAIN C.q : ~C.q[i].matched}
        older == First({i \in loose : C.q[i].idx < f})
        newer == First({i \in loose : C.q[i].idx > f})
        at == IF newer = 0 THEN Len(C.q) + 1 ELSE newer
        full == Cardinality(loose) > attr.max_unmatched
        spare == {i \in older .. Len(C.q) : ~C.q[i].expected /\ i # newer}
        victim == IF spare = {} THEN older ELSE Min(spare)
        alone == attr.streams = {s}
        x == [idx |-> f, slot |-> [t \in attr.streams |-> IF t = s THEN f ELSE 0],
              matched |-> alone, expected |-> ~alone /\ C.diverted_id = f]
        placed == [C EXCEPT
            !.q = InsertAt(@, at, x),
            !.diverted_id = IF @ = f THEN 0 ELSE @,
            !.match_cnt = IF alone THEN @ + 1 ELSE @,
            !.expected_id = IF alone THEN f + attr.post_frame_skip ELSE @,
            !.nomatch_id = IF attr.low /\ s # Meta THEN f ELSE @]
    IN  IF ~full THEN placed
        ELSE IF older = 0 THEN GiveBack(C, {<<s, f>>})
        ELSE GiveBack([placed EXCEPT
                          !.q = RemoveAt(@, IF victim < at THEN victim ELSE victim + 1)],
                      Bufs(C.q[victim]))

\* mm_channel_superbuf_comp_and_enqueue, once the metadata is seen to.
Enqueue(C, s, f) ==
    LET hit == Taker(C, s, f)
    IN  IF f < C.expected_id \/ (s = Meta /\ C.nomatch_id > f)
        THEN GiveBack(C, {<<s, f>>})
        ELSE IF hit # 0 THEN Join(C, s, f, hit)
        ELSE Insert(C, s, f)

\* A request for n superbuffers, retro of them from the past.
Requested(C, n, retro) ==
    DropTo([C EXCEPT !.pending = n,
                     !.retro = IF n = 0 \/ retro > n THEN n ELSE retro,
                     !.wait = FALSE], attr.look_back)

\* mistake: superbuffers sent unasked count as asked for.
DispatchCounting(C) ==
    LET n == IF C.wait THEN 0
             ELSE IF attr.notify_mode = "burst" THEN Min({C.pending, Leading(C)})
             ELSE Leading(C)
    IN  [Pop(C, n) EXCEPT !.sent = SubSeq(C.q, 1, n), !.pending = @ - n]

\* The loop that sends matched superbuffers to the HAL: all of them in
\* continuous mode, those asked for in burst mode, the past ones first.
Dispatch(C) ==
    LET burst == attr.notify_mode = "burst"
        limit == IF C.retro > 0 THEN Min({C.retro, C.pending}) ELSE C.pending
        n == IF C.wait THEN 0
             ELSE IF burst THEN Min({limit, Leading(C)}) ELSE Leading(C)
        left == [Pop(C, n) EXCEPT !.sent = SubSeq(C.q, 1, n)]
    IN  IF ~burst THEN left
        ELSE [left EXCEPT !.pending = @ - n,
                          !.retro = @ - Min({@, n}),
                          !.wait = @ \/ (n > 0 /\ C.retro = n)]

-----------------------------------------------------------------------------
(* The threads. *)

\* mm_stream_data_notify in the poll thread: a buffer leaves the kernel, is
\* counted once for each of its users, and goes to the channel.
PollRead(s) ==
    /\ poll = Idle /\ st[s] = "active" /\ queued[s] > 0
    /\ \E f \in next[s] .. MaxFrame :
         /\ next' = [next EXCEPT ![s] = f + 1]
         /\ refs' = [refs EXCEPT ![s][f] = (IF attr.notify_cb THEN 1 ELSE 0)
                                         + (IF s \in attr.data_cb THEN 1 ELSE 0)]
         /\ poll' = IF s \in attr.data_cb THEN <<s, f>> ELSE Idle
         /\ cmds' = IF attr.notify_cb
                    THEN Append(cmds, [type |-> "data", s |-> s, f |-> f]) ELSE cmds
    /\ queued' = [queued EXCEPT ![s] = @ - 1]
    /\ UNCHANGED <<attr, call, st, frames, ch, using, out, asked, starts>>

\* ... and to the stream's own thread.
PollApp ==
    /\ poll # Idle
    /\ frames' = [frames EXCEPT ![poll[1]] = Append(@, poll[2])]
    /\ poll' = Idle
    /\ UNCHANGED <<attr, call, st, queued, refs, next, cmds, ch, using, out, asked, starts>>

\* mistake: the callback's reference is not counted.
AppDispatchUncounted(s) ==
    /\ frames[s] # <<>>
    /\ frames' = [frames EXCEPT ![s] = Tail(@)]
    /\ using' = [using EXCEPT ![s] = @ \cup {Head(frames[s])}]
    /\ BufDone({<<s, Head(frames[s])>>})
    /\ UNCHANGED <<attr, call, st, next, poll, cmds, ch, out, asked, starts>>

\* mm_stream_dispatch_app_data: the callback's reference is counted, then the
\* thread gives up its own.
AppDispatch(s) ==
    /\ frames[s] # <<>>
    /\ frames' = [frames EXCEPT ![s] = Tail(@)]
    /\ using' = [using EXCEPT ![s] = @ \cup {Head(frames[s])}]
    /\ UNCHANGED <<attr, call, st, queued, refs, next, poll, cmds, ch, out, asked, starts>>

\* mm_channel_process_stream_buf: the channel's thread takes a command;
\* metadata may change what is expected first.  A flush wakes the caller and ends
\* there; otherwise superfluous matches are dropped and due ones are sent.
Announced(n) == IF n.type = "data" /\ n.s = Meta
                THEN {HandleMetadata(ch, n.f, info) : info \in Infos} ELSE {ch}
Handled(C, n) ==
    CASE n.type = "data"  -> Enqueue(C, n.s, n.f)
      [] n.type = "req"   -> Requested(C, n.n, n.retro)
      [] n.type = "flush" -> FlushAll([C EXCEPT !.expected_id = n.f])
ChannelStep ==
    /\ cmds # <<>> /\ ~ch.spins
    /\ LET n == Head(cmds)
       IN  \E C \in {Handled(B, n) : B \in Announced(n)} :
           \E T \in {IF n.type = "flush" THEN C ELSE DropTo(C, attr.water_mark)} :
           \E D \in {IF n.type = "flush" THEN T ELSE Dispatch(T)} :
             /\ ch' = [D EXCEPT !.back = {}, !.sent = <<>>]
             /\ out' = out \cup ToSet(D.sent)
             /\ BufDone(D.back)
             /\ call' = IF n.type = "flush" THEN At("active", {}) ELSE call
    /\ cmds' = Tail(cmds)
    /\ UNCHANGED <<attr, st, next, poll, frames, using, asked, starts>>

\* mm_camera_qbuf: a stream's callback or the HAL gives up what it holds, from a
\* thread of its own and without the channel's lock.
ReturnFrame(s) ==
    /\ \E f \in using[s] :
         /\ using' = [using EXCEPT ![s] = @ \ {f}]
         /\ BufDone({<<s, f>>})
    /\ UNCHANGED <<attr, call, st, next, poll, cmds, frames, ch, out, asked, starts>>
ReturnSuper ==
    /\ \E x \in out :
         /\ out' = out \ {x}
         /\ BufDone(Bufs(x))
    /\ UNCHANGED <<attr, call, st, next, poll, cmds, frames, ch, using, asked, starts>>

-----------------------------------------------------------------------------
(* The HAL's calls.  The channel's lock admits one at a time. *)

\* mm_camera_add_channel
AddChannel ==
    /\ call.pc = "none"
    /\ attr' \in Attrs
    /\ call' = At("added", {})
    /\ asked' = 0 /\ starts' = 0
    /\ UNCHANGED <<streamVars, cmds, ch, out>>

\* mm_channel_start: the superbuffer queue and the threads first.  A channel with a
\* callback is deleted before the HAL starts its like again.
StartChannel ==
    /\ call.pc = "added" \/ (call.pc = "stopped" /\ ~attr.notify_cb)
    /\ starts < MaxStarts
    /\ starts' = starts + 1
    /\ ch' = [ch EXCEPT !.q = <<>>, !.expected_id = 0]
    /\ call' = At("starting", attr.streams)
    /\ UNCHANGED <<attr, streamVars, cmds, out, asked>>

\* ... then each stream, the metadata first: every buffer goes to the kernel.
Starts(s) == s \in call.todo /\ (Meta \in call.todo => s = Meta)
StartStream(s) ==
    /\ call.pc = "starting" /\ Starts(s)
    /\ st' = [st EXCEPT ![s] = "active"]
    /\ refs' = [refs EXCEPT ![s] = [f \in Frames |-> 0]]
    /\ queued' = [queued EXCEPT ![s] = NumBufs]
    /\ next' = [next EXCEPT ![s] = 1]
    /\ call' = At("starting", call.todo \ {s})
    /\ UNCHANGED <<attr, poll, cmds, frames, ch, using, out, asked, starts>>
\* A stream that cannot be started: those started are stopped again.
StartFails ==
    /\ call.pc = "starting" /\ call.todo # {}
    /\ call' = At("undoing", attr.streams \ call.todo)
    /\ UNCHANGED <<attr, streamVars, cmds, ch, out, asked, starts>>
StartDone ==
    /\ call.pc = "starting" /\ call.todo = {}
    /\ ch' = [ch EXCEPT !.wait = FALSE]
    /\ call' = At("active", {})
    /\ UNCHANGED <<attr, streamVars, cmds, out, asked, starts>>

\* mm_channel_stop, streams first, the metadata last.
StopChannel ==
    /\ call.pc = "active"
    /\ call' = At("stopping", attr.streams)
    /\ UNCHANGED <<attr, streamVars, cmds, ch, out, asked, starts>>

\* MM_STREAM_EVT_STOP and UNREG_BUF: the poll thread has let go of the stream, ...
Stops(s) == /\ call.pc \in {"stopping", "undoing"} /\ s \in call.todo
            /\ s = Meta => call.todo = {Meta}
StreamOff(s) ==
    /\ Stops(s) /\ st[s] = "active" /\ poll = Idle
    /\ st' = [st EXCEPT ![s] = "off"]
    /\ UNCHANGED <<attr, call, queued, refs, next, poll, cmds, frames, ch, using, out,
                   asked, starts>>
\* ... then its own thread has emptied its queue, and the references are reset.
StreamJoin(s) ==
    /\ Stops(s) /\ st[s] = "off" /\ frames[s] = <<>>
    /\ st' = [st EXCEPT ![s] = "none"]
    /\ refs' = [refs EXCEPT ![s] = [f \in Frames |-> 0]]
    /\ queued' = [queued EXCEPT ![s] = 0]
    /\ using' = [using EXCEPT ![s] = {}]
    /\ call' = At(call.pc, call.todo \ {s})
    /\ UNCHANGED <<attr, next, poll, cmds, frames, ch, out, asked, starts>>

\* The channel's threads empty their queues and end, the superbuffer queue goes.
\* A failed start clears the bundle too; the HAL then deletes the channel.
ThreadsJoin ==
    /\ call.pc \in {"stopping", "undoing"} /\ call.todo = {} /\ cmds = <<>>
    /\ ~ch.spins
    /\ ch' = [ch EXCEPT !.q = <<>>]
    /\ out' = {}
    /\ call' = At(IF call.pc = "stopping" THEN "stopped" ELSE "failed", {})
    /\ UNCHANGED <<attr, streamVars, cmds, asked, starts>>

\* mm_camera_del_channel
DeleteChannel ==
    /\ call.pc \in {"added", "stopped", "failed"}
    /\ call' = At("none", {})
    /\ attr' = NoAttr
    /\ ch' = Fresh
    /\ UNCHANGED <<streamVars, cmds, out, asked, starts>>

\* mm_channel_request_super_buf; zero superbuffers cancel the request.  The HAL
\* asks burst channels only.
RequestSuperBuf ==
    /\ call.pc = "active" /\ attr.notify_cb /\ attr.notify_mode = "burst"
    /\ asked < MaxRequests
    /\ \E r \in Requests : cmds' = Append(cmds, [type |-> "req", n |-> r[1], retro |-> r[2]])
    /\ asked' = asked + 1
    /\ UNCHANGED <<attr, call, streamVars, ch, out, starts>>

\* mm_channel_flush_super_buf_queue waits until the thread has flushed.
FlushQueue ==
    /\ call.pc = "active" /\ attr.notify_cb /\ asked < MaxRequests
    /\ cmds' = Append(cmds, [type |-> "flush", f |-> 0])
    /\ call' = At("flushing", {})
    /\ asked' = asked + 1
    /\ UNCHANGED <<attr, streamVars, ch, out, starts>>

Init ==
    /\ attr = NoAttr
    /\ call = At("none", {})
    /\ st = [s \in Streams |-> "none"]
    /\ queued = [s \in Streams |-> 0]
    /\ refs = [s \in Streams |-> [f \in Frames |-> 0]]
    /\ next = [s \in Streams |-> 1]
    /\ poll = Idle
    /\ cmds = <<>>
    /\ frames = [s \in Streams |-> <<>>]
    /\ ch = Fresh
    /\ using = [s \in Streams |-> {}]
    /\ out = {}
    /\ asked = 0
    /\ starts = 0

Calls == \/ AddChannel \/ StartChannel \/ StartFails \/ StopChannel
         \/ DeleteChannel \/ RequestSuperBuf \/ FlushQueue
CallSteps == \/ StartDone \/ ThreadsJoin
             \/ \E s \in Streams : StartStream(s) \/ StreamOff(s) \/ StreamJoin(s)
Threads == \/ PollApp \/ ChannelStep \/ \E s \in Streams : AppDispatch(s)
Returns == ReturnSuper \/ \E s \in Streams : ReturnFrame(s)
Next == \/ Calls \/ CallSteps \/ Threads \/ Returns \/ \E s \in Streams : PollRead(s)

\* Threads run, calls that have begun go on and the HAL gives back what it holds;
\* the kernel need not deliver and the HAL need not call.  Each of them has a thread
\* of its own; as each comes to an end of its work, fairness to all together is enough.
Spec == Init /\ [][Next]_vars /\ WF_vars(CallSteps \/ Threads \/ Returns)

-----------------------------------------------------------------------------
(* Properties. *)

SuperBufs == [idx : 1 .. MaxFrame, slot : UNION {[S -> 0 .. MaxFrame] : S \in SUBSET Streams},
              matched : BOOLEAN, expected : BOOLEAN]

\* Every variable has its shape; counts stay within the buffers there are.
TypeOK ==
    /\ attr \in Attrs \cup {NoAttr}
    /\ call.pc \in {"none", "added", "stopped", "starting", "undoing", "active", "flushing",
                    "stopping", "failed"}
    /\ call.todo \subseteq attr.streams
    /\ st \in [Streams -> {"none", "active", "off"}]
    /\ queued \in [Streams -> 0 .. NumBufs]
    /\ refs \in [Streams -> [Frames -> 0 .. 2]]
    /\ next \in [Streams -> 1 .. MaxFrame + 1]
    /\ poll \in (Streams \X Frames) \cup {Idle}
    /\ Len(cmds) <= NumBufs * Cardinality(Streams) + MaxRequests
    /\ frames \in [Streams -> Seq(Frames)]
    /\ ToSet(ch.q) \cup out \subseteq SuperBufs
    /\ ch.pending \in Nat /\ ch.retro \in 0 .. ch.pending
    /\ ch.back = {} /\ ch.sent = <<>>
    /\ using \in [Streams -> SUBSET Frames]
    /\ asked \in 0 .. MaxRequests /\ starts \in 0 .. MaxStarts

\* The superbuffer queue is what its loops rely on (mm_camera_channel.c:2797, 3074,
\* 3118): complete superbuffers come before incomplete ones and are counted, so
\* that dropping them ends; there is at most one incomplete one too many, so that
\* one removal makes room and the link of the node freed is not followed; a burst channel
\* keeps no more than its water mark, a continuous one nothing complete unless it
\* waits.
QueueSound ==
    LET whole == {i \in DOMAIN ch.q : ch.q[i].matched}
    IN  /\ ~ch.spins
        /\ \A i \in whole, j \in DOMAIN ch.q \ whole : i < j
        /\ call.pc \notin {"stopped", "failed"} => ch.match_cnt = Cardinality(whole)
        /\ Cardinality(DOMAIN ch.q \ whole) <= attr.max_unmatched + 1
        /\ Cardinality(whole) <= IF attr.notify_mode = "burst" THEN attr.water_mark ELSE 0

\* A buffer has as many references as it has holders, whichever of the poll
\* thread, the two command queues, the superbuffer queue, the callback and the HAL
\* they are, and each buffer of a running stream is either with the kernel or held.
Holders(s, f) ==
      (IF poll = <<s, f>> THEN 1 ELSE 0)
    + (IF \E i \in DOMAIN cmds : cmds[i].type = "data" /\ cmds[i].s = s /\ cmds[i].f = f
       THEN 1 ELSE 0)
    + (IF f \in ToSet(frames[s]) THEN 1 ELSE 0)
    + (IF f \in using[s] THEN 1 ELSE 0)
    + (IF <<s, f>> \in AllBufs(ToSet(ch.q)) THEN 1 ELSE 0)
    + (IF <<s, f>> \in AllBufs(out) THEN 1 ELSE 0)
BuffersHeld ==
    \A s \in Streams : st[s] # "none" =>
        /\ \A f \in Frames : refs[s][f] = Holders(s, f)
        /\ queued[s] + Cardinality({f \in Frames : refs[s][f] > 0}) = NumBufs

\* What the HAL gets is complete and newer than all it got before, and holds one
\* frame of every stream unless the channel takes what is closest.
FramesMatch ==
    [][\A x \in out' \ out :
         /\ \A s \in attr.streams : x.slot[s] # 0
         /\ attr.low \/ \A s \in attr.streams : x.slot[s] = x.idx
         /\ \A y \in out : \A s \in attr.streams : y.slot[s] < x.slot[s]]_vars

\* Calls return, and when the kernel delivers no more (a start delivers MaxFrame
\* frames at most) every buffer is back with it or waits in the superbuffer queue.
Busy == {"starting", "undoing", "flushing", "stopping"}
Settled(s, f) == \/ refs[s][f] = 0
                 \/ refs[s][f] = 1 /\ <<s, f>> \in AllBufs(ToSet(ch.q))
ComesToRest ==
    []<>(call.pc \notin Busy /\ \A s \in Streams, f \in Frames : Settled(s, f))

=============================================================================
