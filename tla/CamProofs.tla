------------------------------ MODULE CamProofs ------------------------------
(***************************************************************************)
(* Proofs about CamStateMachine, for every bound on the queues and for     *)
(* every choice of Faults and EarlyRestart: the queues and the camera are  *)
(* well formed, no enabled message type is lost, the channels that stream  *)
(* are those of the state, and a request to stop the capture channel meets *)
(* the picture that it was posted for.                                     *)
(*                                                                         *)
(* One turn of the machine is followed three times, state by state and     *)
(* operation by operation: what it makes of the camera (Stepped), what it  *)
(* makes of the mode of the camera when streams fail (Drove), and what it  *)
(* leaves in the queues (Spoke).  The invariant IInv joins the three, and  *)
(* each action of the model preserves it.                                  *)
(***************************************************************************)
EXTENDS CamStateMachine, SequenceTheorems, WellFoundedInduction, TLAPS

-----------------------------------------------------------------------------
(* The camera.  Fine is what every state of it satisfies; Shape holds while *)
(* nothing fails, no preview restarts early and parameters are changed only *)
(* without a picture and without a recording.                               *)

Marks == {"none", "added", "started"}
Cam == [state : State, ch : [Channel -> Marks], window : BOOLEAN,
        zsl : BOOLEAN, zslNew : BOOLEAN, hint : BOOLEAN, hintNew : BOOLEAN,
        longshot : BOOLEAN, restart : BOOLEAN, early : BOOLEAN, faulty : BOOLEAN,
        msgs : BOOLEAN, delay : BOOLEAN, delayed : BOOLEAN, wanted : BOOLEAN,
        pp : BOOLEAN, pic : {"none", "shot", "frame"}, stops : Nat,
        live : {"none", "running", "done"},
        preparing : BOOLEAN, notifier : {"free", "waiting"}, post : BOOLEAN]

\* What only the application asks for, in the turn of its call.
Own == Api \ {"STOP_CAPTURE_CHANNEL", "CANCEL_PICTURE"}
Quiescent == {"STOPPED", "READY", "PREVIEWING"}
\* Parameters that restart the preview are changed only in these states.
Tame == Reconfigure \subseteq Quiescent
Plain(h) == Tame /\ ~h.early /\ ~h.faulty
\* SET_PARAMS was taken and COMMIT_PARAMS was not, and the mode will change.
Dirty(h) == Tame /\ (h.zslNew # h.zsl \/ h.hintNew # h.hint)

\* A camera that shows a preview has the channels of its mode, one streaming.
MainChannel(h) == IF isZSLPreview(h) THEN "ZSL" ELSE "PREVIEW"
HasOnly(h, C) == \A c \in Channel : h.ch[c] # "none" <=> c \in C
Shows(h) == HasOnly(h, PreviewChannels(h)) /\ h.ch[MainChannel(h)] = "started"

\* The channels of each state.
ShapeOfStates(h) ==
    /\ h.state = "STOPPED" => HasOnly(h, {})
    /\ h.state = "READY" => HasOnly(h, PreviewChannels(h)) /\ \A c \in Channel : h.ch[c] # "started"
    /\ h.state \in {"PREVIEWING", "PREPARE_SNAPSHOT"} => Shows(h)
    /\ h.state = "PIC_TAKING" => HasOnly(h, {"CAPTURE"}) /\ ~h.zsl
    /\ isRecording(h) => Shows(h) /\ h.hint
    /\ h.state = "PREVIEW_PIC_TAKING" => Shows(h) /\ h.zsl /\ ~h.hint

Shape(h) ==
    /\ h.longshot => h.zsl /\ h.zslNew
    /\ ShapeOfStates(h)
    /\ (h.pp \/ h.pic # "none") => isCaptureRunning(h)

\* What holds of the camera in every state of the model.
Fine(h) ==
    /\ h \in Cam
    /\ h.wanted => h.msgs \/ h.delayed
    /\ h.ch["VIDEO"] = "started" <=> isRecording(h)
    /\ h.live = "running" => h.state = "VIDEO_PIC_TAKING"
    /\ Plain(h) => Shape(h)

\* What may be asked of the camera: nothing between SET_PARAMS and its commit.
Asked(e, h) ==
    /\ Dirty(h) => h.restart /\ h.state \in Quiescent /\ e \notin Own \ {"COMMIT_PARAMS"}
    /\ Tame => /\ e = "LONGSHOT_ON" => h.zsl
               /\ e = "LONGSHOT_OFF" => h.longshot
               /\ e = "COMMIT_PARAMS" /\ h.state \notin Quiescent => ~h.restart

\* What the window and the flash do in a turn.
Moves(e, h, g) ==
    /\ g.early = h.early /\ g.faulty = h.faulty
    /\ Dirty(g) => \/ Dirty(h) /\ e # "COMMIT_PARAMS" /\ g.state = h.state /\ g.restart
                   \/ e = "SET_PARAMS" /\ g.state = h.state /\ h.state \in Reconfigure /\ g.restart
    /\ g.state = "PREPARE_SNAPSHOT" => h.state = "PREPARE_SNAPSHOT" \/ e = "PREPARE_SNAPSHOT"

Stepped(e) == Fine(cam') /\ Moves(e, cam, cam')

MessagesKept(h) == h.wanted => h.msgs \/ h.delayed

\* Nothing that Fine speaks of differs, except messages and a long shot that fits.
Alike(h, g) ==
    /\ g.state = h.state /\ g.ch = h.ch /\ g.live = h.live
    /\ g.zsl = h.zsl /\ g.hint = h.hint /\ g.pp = h.pp /\ g.pic = h.pic
    /\ g.early = h.early /\ g.faulty = h.faulty
    /\ Plain(h) /\ g.longshot => g.zsl /\ g.zslNew

LEMMA FineFrom ==
    ASSUME NEW h, Fine(h), NEW g \in Cam, Alike(h, g), MessagesKept(g)
    PROVE  Fine(g)
<1>1. ShapeOfStates(h) => ShapeOfStates(g)
  BY DEF Alike, ShapeOfStates, Shows, HasOnly, MainChannel, isZSLPreview,
     PreviewChannels, isRecording
<1>2. isCaptureRunning(g) <=> isCaptureRunning(h)
  BY DEF Alike, isCaptureRunning
<1>3. isRecording(g) <=> isRecording(h)
  BY DEF Alike, isRecording
<1>4. Plain(h) => Shape(h)
  BY DEF Fine
<1>5. Plain(g) => Shape(g)
  BY <1>1, <1>2, <1>4 DEF Shape, Plain, Alike
<1> QED
  BY <1>3, <1>5 DEF Fine, MessagesKept, Alike

LEMMA FineLessPost ==
    ASSUME NEW h, Fine(h) PROVE Fine([h EXCEPT !.post = FALSE])
<1> DEFINE g == [h EXCEPT !.post = FALSE]
<1>1. g \in Cam /\ Alike(h, g) /\ MessagesKept(g)
  BY ZenonT(60) DEF Fine, Cam, Alike, MessagesKept, Plain, Shape
<1> QED
  BY <1>1, FineFrom

\* A handler that ends in a camera which is Fine has stepped.
LEMMA BecomeSteps ==
    ASSUME NEW e, NEW g, Become(g), Fine(g), Moves(e, cam, g)
    PROVE  Stepped(e)
<1>1. cam' = [g EXCEPT !.post = FALSE]
  BY DEF Become
<1>2. Fine(cam')
  BY <1>1, FineLessPost
<1>3. Moves(e, cam, cam')
  BY <1>1 DEF Moves, Fine, Cam, Dirty
<1> QED
  BY <1>2, <1>3 DEF Stepped

LEMMA NothingMoves ==
    ASSUME NEW e, Fine(cam), Asked(e, cam), Become(cam),
           e = "COMMIT_PARAMS" => cam.state \notin Quiescent
    PROVE  Stepped(e)
<1>1. Moves(e, cam, cam)
  BY DEF Moves, Asked
<1> QED
  BY <1>1, BecomeSteps

LEMMA MsgsStep ==
    ASSUME NEW e, Fine(cam), Asked(e, cam), Msgs(e, cam)
    PROVE  Stepped(e)
<1> DEFINE on == [cam EXCEPT !.msgs = TRUE, !.wanted = TRUE]
           off == [cam EXCEPT !.msgs = FALSE, !.wanted = FALSE]
<1>1. Fine(on) /\ Fine(off)
  <2>1. on \in Cam /\ Alike(cam, on) /\ MessagesKept(on)
    BY ZenonT(60) DEF Fine, Cam, Alike, MessagesKept, Plain, Shape
  <2>2. off \in Cam /\ Alike(cam, off) /\ MessagesKept(off)
    BY ZenonT(60) DEF Fine, Cam, Alike, MessagesKept, Plain, Shape
  <2> HIDE DEF on, off
  <2> QED BY <2>1, <2>2, FineFrom
<1>2. Become(on) \/ Become(off)
  BY DEF Msgs, Answer
<1>3. e \in Own /\ e \notin {"COMMIT_PARAMS", "TAKE_PICTURE"}
  BY DEF Msgs, Own, Api
<1>4. Moves(e, cam, on) /\ Moves(e, cam, off)
  BY <1>3 DEF Fine, Cam, Moves, Asked, Dirty, Plain
<1> QED
  BY <1>1, <1>2, <1>4, BecomeSteps

LEMMA OwnMoves ==
    ASSUME NEW e \in Own \ {"TAKE_PICTURE"}, NEW h, NEW g, ~Dirty(g),
           g.early = h.early, g.faulty = h.faulty, g.state # "PREPARE_SNAPSHOT"
    PROVE  Moves(e, h, g)
  BY DEF Moves, Own

LEMMA OtherMoves ==
    ASSUME NEW e, e \notin Own, NEW h, NEW g, Asked(e, h),
           g.zslNew = h.zslNew, g.zsl = h.zsl, g.hintNew = h.hintNew, g.hint = h.hint,
           g.restart = h.restart, g.longshot = h.longshot,
           g.early = h.early, g.faulty = h.faulty, g.state # "PREPARE_SNAPSHOT",
           h.state \in Quiescent => g.state = h.state
    PROVE  Moves(e, h, g)
<1>1. e # "COMMIT_PARAMS" /\ e # "SET_PARAMS"
  BY DEF Own, Api
<1>2. Dirty(g) => Dirty(h)
  BY DEF Dirty
<1> QED
  BY <1>1, <1>2 DEF Moves, Asked

LEMMA OwnIsClean ==
    ASSUME NEW e \in Own \ {"COMMIT_PARAMS"}, Asked(e, cam)
    PROVE  ~Dirty(cam)
  BY DEF Asked

LEMMA SetParamsStep ==
    ASSUME NEW e, Fine(cam), Asked(e, cam), SetParams(e, cam)
    PROVE  Stepped(e)
<1>1. e \in Own \ {"COMMIT_PARAMS"} /\ e = "SET_PARAMS"
  BY DEF SetParams, Own, Api
<1>2. ~Dirty(cam)
  BY <1>1, OwnIsClean
<1> DEFINE same == [cam EXCEPT !.restart = FALSE]
           new(z, v) == [cam EXCEPT !.zslNew = z, !.hintNew = v, !.restart = TRUE]
<1>3. Fine(same) /\ Moves(e, cam, same)
  <2>1. same \in Cam /\ Alike(cam, same) /\ MessagesKept(same)
    BY ZenonT(60) DEF Fine, Cam, Alike, MessagesKept, Plain, Shape
  <2>2. Moves(e, cam, same)
    BY <1>1, <1>2 DEF Fine, Cam, Moves, Dirty
  <2> QED
    BY <2>1, <2>2, FineFrom
<1>4. ASSUME NEW z \in BOOLEAN, NEW v \in BOOLEAN, cam.longshot => z = cam.zsl,
             cam.state \in Reconfigure
      PROVE  Fine(new(z, v)) /\ Moves(e, cam, new(z, v))
  <2>1. new(z, v) \in Cam /\ Alike(cam, new(z, v)) /\ MessagesKept(new(z, v))
    BY ZenonT(60), <1>4 DEF Fine, Cam, Alike, MessagesKept, Plain, Shape
  <2>2. Moves(e, cam, new(z, v))
    BY <1>1, <1>4 DEF Fine, Cam, Moves
  <2> QED
    BY <2>1, <2>2, FineFrom
<1>5. \/ Become(same)
      \/ /\ cam.state \in Reconfigure
         /\ \E z, v \in BOOLEAN : (cam.longshot => z = cam.zsl) /\ Become(new(z, v))
  BY DEF SetParams, Answer
<1> QED
  <2> HIDE DEF same, new
  <2> QED BY <1>3, <1>4, <1>5, BecomeSteps

\* Only channels, the picture and the long shot differ.
Same(h, g) ==
    /\ g.state = h.state /\ g.window = h.window /\ g.live = h.live
    /\ g.zsl = h.zsl /\ g.zslNew = h.zslNew /\ g.hint = h.hint /\ g.hintNew = h.hintNew
    /\ g.restart = h.restart /\ g.early = h.early /\ g.faulty = h.faulty
    /\ g.msgs = h.msgs /\ g.delay = h.delay /\ g.delayed = h.delayed /\ g.wanted = h.wanted
    /\ g.preparing = h.preparing /\ g.notifier = h.notifier

LEMMA PutIsCam ==
    ASSUME NEW h \in Cam, NEW C, NEW s \in Marks
    PROVE  LET g == Put(h, C, s)
           IN  /\ g \in Cam /\ Same(h, g)
               /\ \A c \in Channel : g.ch[c] = IF c \in C THEN s ELSE h.ch[c]
               /\ g.pp = h.pp /\ g.pic = h.pic /\ g.longshot = h.longshot
<1>1. [c \in Channel |-> IF c \in C THEN s ELSE h.ch[c]] \in [Channel -> Marks]
  BY DEF Cam
<1> QED
  BY <1>1 DEF Put, Cam, Same

LEMMA StopPictureIsCam ==
    ASSUME NEW h \in Cam
    PROVE  LET g == StopPicture(h)
           IN  /\ g \in Cam /\ Same(h, g) /\ g.ch = h.ch
               /\ ~g.pp /\ g.pic = "none" /\ g.longshot = h.longshot
  BY ZenonT(60) DEF Cam, StopPicture, Same

LEMMA CancelPictureIsCam ==
    ASSUME NEW h \in Cam
    PROVE  LET g == cancelPicture(h)
           IN  /\ g \in Cam /\ Same(h, g)
               /\ \A c \in Channel : g.ch[c] = IF c = "CAPTURE" /\ ~h.zsl THEN "none" ELSE h.ch[c]
               /\ ~g.pp /\ g.pic = "none" /\ g.longshot = h.longshot
<1>1. CASE h.zsl
  BY <1>1, StopPictureIsCam DEF cancelPicture
<1>2. CASE ~h.zsl
  <2> DEFINE g == StopPicture(h)
  <2>1. g \in Cam /\ Same(h, g) /\ g.ch = h.ch
               /\ ~g.pp /\ g.pic = "none" /\ g.longshot = h.longshot
    BY StopPictureIsCam
  <2>2. cancelPicture(h) = Put(g, {"CAPTURE"}, "none")
    BY <1>2 DEF cancelPicture, delChannel
  <2>3. "none" \in Marks
    BY DEF Marks
  <2> HIDE DEF g
  <2> QED
    BY <1>2, <2>1, <2>2, <2>3, PutIsCam DEF Same
<1> QED
  BY <1>1, <1>2

LEMMA LongshotOffIsCam ==
    ASSUME NEW h \in Cam
    PROVE  LET g == LongshotOff(h)
           IN  /\ g \in Cam /\ Same(h, g)
               /\ \A c \in Channel : g.ch[c] = h.ch[c] \/ (c = "CAPTURE" /\ ~h.zsl /\ g.ch[c] = "none")
               /\ ~g.longshot
               /\ g.pp => h.pp
               /\ g.pic \in {"none", h.pic}
               /\ IF h.longshot /\ isCaptureRunning(h) THEN ~g.pp /\ g.pic = "none"
                  ELSE g.ch = h.ch /\ g.pp = h.pp /\ g.pic = h.pic
<1>1. CASE h.longshot /\ isCaptureRunning(h)
  <2> DEFINE g == cancelPicture(h)
  <2>1. /\ g \in Cam /\ Same(h, g)
        /\ \A c \in Channel : g.ch[c] = IF c = "CAPTURE" /\ ~h.zsl THEN "none" ELSE h.ch[c]
        /\ ~g.pp /\ g.pic = "none" /\ g.longshot = h.longshot
    BY CancelPictureIsCam
  <2>2. LongshotOff(h) = [g EXCEPT !.longshot = FALSE, !.post = TRUE]
    BY <1>1 DEF LongshotOff
  <2> HIDE DEF g
  <2> DEFINE k == [g EXCEPT !.longshot = FALSE, !.post = TRUE]
  <2>3. k \in Cam /\ ~k.longshot
    BY ZenonT(60), <2>1 DEF Cam
  <2>4. Same(h, k)
    BY <2>1 DEF Cam, Same
  <2>5. k.ch = g.ch /\ k.pp = g.pp /\ k.pic = g.pic
    BY <2>1 DEF Cam
  <2>6. \A c \in Channel : k.ch[c] = h.ch[c] \/ (c = "CAPTURE" /\ ~h.zsl /\ k.ch[c] = "none")
    BY <2>1, <2>5
  <2>7. ~k.pp /\ k.pic = "none"
    BY <2>1, <2>5
  <2>8. (k.pp => h.pp) /\ k.pic \in {"none", h.pic}
    BY <2>7
  <2>9. LongshotOff(h) = k
    BY <2>2
  <2> HIDE DEF k
  <2> QED
    BY <1>1, <2>9, <2>3, <2>4, <2>6, <2>7, <2>8
<1>2. CASE ~(h.longshot /\ isCaptureRunning(h))
  <2> DEFINE k == [h EXCEPT !.longshot = FALSE]
  <2>2. LongshotOff(h) = k
    BY <1>2 DEF LongshotOff
  <2>3. k \in Cam /\ ~k.longshot
    BY DEF Cam
  <2>4. Same(h, k)
    BY DEF Cam, Same
  <2>5. k.ch = h.ch /\ k.pp = h.pp /\ k.pic = h.pic
    BY DEF Cam
  <2> HIDE DEF k
  <2> QED
    BY <1>2, <2>2, <2>3, <2>4, <2>5
<1> QED
  BY <1>1, <1>2

NoNewVideo(h, g) == g.ch["VIDEO"] = "started" => h.ch["VIDEO"] = "started"
SamePicture(h, g) == g.pp = h.pp /\ g.pic = h.pic
NotLongshot(h) == isCaptureRunning(h) => ~h.hint

LEMMA SameChannels ==
    ASSUME NEW h, NEW g, Same(h, g)
    PROVE  /\ PreviewChannels(g) = PreviewChannels(h)
           /\ MainChannel(g) = MainChannel(h)
           /\ isCaptureRunning(g) = isCaptureRunning(h)
           /\ isRecording(g) = isRecording(h)
           /\ Dirty(g) = Dirty(h) /\ Plain(g) = Plain(h)
  BY DEF Same, PreviewChannels, MainChannel, isZSLPreview, isCaptureRunning,
         isRecording, Dirty, Plain

LEMMA MainIsShown ==
    ASSUME NEW h \in Cam
    PROVE  /\ MainChannel(h) \in PreviewChannels(h) /\ MainChannel(h) \in Channel
           /\ MainChannel(h) \in {"ZSL", "PREVIEW"}
  BY DEF MainChannel, PreviewChannels, Channel

LEMMA UnprepareIsCam ==
    ASSUME NEW h \in Cam
    PROVE  LET g == unpreparePreview(h)
           IN  /\ g \in Cam /\ Same(h, g)
               /\ \A c \in Channel : g.ch[c] = IF c = "CAPTURE" THEN h.ch[c] ELSE "none"
               /\ SamePicture(h, g) /\ g.longshot = h.longshot
  BY PutIsCam DEF unpreparePreview, delChannel, Marks, Channel, SamePicture

LEMMA StopPreviewIsCam ==
    ASSUME NEW h \in Cam
    PROVE  LET g == stopPreview(h)
           IN  /\ g \in Cam /\ Same(h, g)
               /\ \A c \in Channel : g.ch[c] = IF c = "CAPTURE" THEN h.ch[c] ELSE "none"
               /\ g.pp = h.pp /\ g.longshot = h.longshot
               /\ g.pic \in {"none", h.pic}
<1> DEFINE k == unpreparePreview(h)
<1>1. /\ k \in Cam /\ Same(h, k)
      /\ \A c \in Channel : k.ch[c] = IF c = "CAPTURE" THEN h.ch[c] ELSE "none"
      /\ k.pp = h.pp /\ k.pic = h.pic /\ k.longshot = h.longshot
  BY UnprepareIsCam DEF SamePicture
<1>2. CASE h.pic = "shot" /\ h.ch["CAPTURE"] = "none"
  <2> DEFINE g == [k EXCEPT !.pic = "none"]
  <2>1. stopPreview(h) = g
    BY <1>2 DEF stopPreview
  <2> HIDE DEF k
  <2>2. g \in Cam
    BY <1>1 DEF Cam
  <2>3. Same(h, g)
    BY <1>1 DEF Cam, Same
  <2>4. g.ch = k.ch /\ g.pp = k.pp /\ g.longshot = k.longshot /\ g.pic = "none"
    BY <1>1 DEF Cam
  <2> HIDE DEF g
  <2> QED
    BY <1>1, <2>1, <2>2, <2>3, <2>4
<1>3. CASE ~(h.pic = "shot" /\ h.ch["CAPTURE"] = "none")
  <2>1. stopPreview(h) = k
    BY <1>3 DEF stopPreview
  <2> HIDE DEF k
  <2> QED
    BY <1>1, <2>1
<1> QED
  BY <1>2, <1>3

\* The outcomes of preparePreview.
Prepared(h, r) ==
    /\ r.ok \in BOOLEAN /\ r.h \in Cam /\ Same(h, r.h) /\ NoNewVideo(h, r.h)
    /\ r.h.longshot => h.longshot
    /\ NotLongshot(h) => SamePicture(h, r.h)
    /\ ~r.ok => cam.faulty
    /\ r.ok /\ NotLongshot(h) =>
         \A c \in Channel : r.h.ch[c] = IF c \in PreviewChannels(h) THEN "added" ELSE h.ch[c]

LEMMA PrepareIsCam ==
    ASSUME NEW h \in Cam, NEW r \in preparePreview(h)
    PROVE  Prepared(h, r)
<1> DEFINE g == IF h.hint /\ h.longshot THEN LongshotOff(h) ELSE h
           a == addChannel(g, PreviewChannels(g))
           d == delChannel(g, PreviewChannels(g))
<1>1. /\ g \in Cam /\ Same(h, g) /\ NoNewVideo(h, g)
      /\ g.longshot => h.longshot
      /\ NotLongshot(h) => SamePicture(h, g) /\ \A c \in Channel : g.ch[c] = h.ch[c]
  <2>1. CASE h.hint /\ h.longshot
    <3>1. g = LongshotOff(h)
      BY <2>1
    <3>2. /\ g \in Cam /\ Same(h, g)
          /\ \A c \in Channel : g.ch[c] = h.ch[c] \/ (c = "CAPTURE" /\ ~h.zsl /\ g.ch[c] = "none")
          /\ ~g.longshot
          /\ IF h.longshot /\ isCaptureRunning(h) THEN ~g.pp /\ g.pic = "none"
             ELSE g.ch = h.ch /\ g.pp = h.pp /\ g.pic = h.pic
      BY <3>1, LongshotOffIsCam
    <3> HIDE DEF g
    <3>3. NoNewVideo(h, g)
      BY <3>2 DEF NoNewVideo, Channel
    <3>4. NotLongshot(h) => SamePicture(h, g) /\ \A c \in Channel : g.ch[c] = h.ch[c]
      BY <2>1, <3>2 DEF NotLongshot, SamePicture
    <3> QED
      BY <3>2, <3>3, <3>4
  <2>2. CASE ~(h.hint /\ h.longshot)
    BY <2>2 DEF Same, NoNewVideo, SamePicture
  <2> QED
    BY <2>1, <2>2
<1>2. PreviewChannels(g) = PreviewChannels(h)
  BY <1>1, SameChannels
<1>3. r = Ok(a) \/ (cam.faulty /\ (r = Bad(h) \/ r = Bad(d)))
  BY DEF preparePreview, MayFail
<1> HIDE DEF g
<1>4. ASSUME NEW s \in {"added", "none"}, NEW p, p = Put(g, PreviewChannels(h), s)
      PROVE  /\ p \in Cam /\ Same(h, p) /\ NoNewVideo(h, p)
             /\ p.longshot => h.longshot
             /\ NotLongshot(h) => SamePicture(h, p)
             /\ NotLongshot(h) => \A c \in Channel : p.ch[c] = IF c \in PreviewChannels(h) THEN s ELSE h.ch[c]
  <2>1. s \in Marks
    BY DEF Marks
  <2>2. /\ p \in Cam /\ Same(g, p)
        /\ \A c \in Channel : p.ch[c] = IF c \in PreviewChannels(h) THEN s ELSE g.ch[c]
        /\ p.pp = g.pp /\ p.pic = g.pic /\ p.longshot = g.longshot
    BY <1>1, <1>4, <2>1, PutIsCam
  <2>3. Same(h, p)
    BY <1>1, <2>2 DEF Same
  <2>4. NoNewVideo(h, p)
    BY <1>1, <2>2, s # "started" DEF NoNewVideo, Channel
  <2> QED
    BY <1>1, <2>2, <2>3, <2>4 DEF SamePicture
<1>5. CASE r = Ok(a)
  <2>1. a = Put(g, PreviewChannels(h), "added")
    BY <1>2 DEF addChannel
  <2>2. r.ok = TRUE /\ r.h = a
    BY <1>5 DEF Ok
  <2> HIDE DEF a
  <2> QED
    BY <1>4, <2>1, <2>2 DEF Prepared
<1>6. CASE cam.faulty /\ r = Bad(d)
  <2>1. d = Put(g, PreviewChannels(h), "none")
    BY <1>2 DEF delChannel
  <2>2. r.ok = FALSE /\ r.h = d
    BY <1>6 DEF Bad
  <2> HIDE DEF d
  <2> QED
    BY <1>4, <1>6, <2>1, <2>2 DEF Prepared
<1>7. CASE cam.faulty /\ r = Bad(h)
  <2>2. r.ok = FALSE /\ r.h = h
    BY <1>7 DEF Bad
  <2> QED
    BY <1>7, <2>2 DEF Prepared, Same, NoNewVideo, SamePicture
<1> QED
  BY <1>3, <1>5, <1>6, <1>7

\* The outcomes of startChannel.
Started(h, c, r) ==
    /\ r.ok \in BOOLEAN /\ r.h \in Cam /\ Same(h, r.h)
    /\ SamePicture(h, r.h) /\ r.h.longshot = h.longshot
    /\ IF r.ok THEN \A x \in Channel : r.h.ch[x] = IF x = c THEN "started" ELSE h.ch[x]
       ELSE r.h = h
    /\ h.ch[c] # "none" /\ ~cam.faulty => r.ok
    /\ h.ch[c] = "none" => ~r.ok

LEMMA StartIsCam ==
    ASSUME NEW h \in Cam, NEW c \in Channel, NEW r \in startChannel(h, c)
    PROVE  Started(h, c, r)
<1>1. CASE r = Bad(h) /\ (cam.faulty \/ h.ch[c] = "none")
  BY <1>1 DEF Bad, Started, Same, SamePicture
<1>2. CASE r = Ok(Put(h, {c}, "started")) /\ h.ch[c] # "none"
  <2> DEFINE p == Put(h, {c}, "started")
  <2>1. "started" \in Marks
    BY DEF Marks
  <2>2. /\ p \in Cam /\ Same(h, p)
        /\ \A x \in Channel : p.ch[x] = IF x \in {c} THEN "started" ELSE h.ch[x]
        /\ p.pp = h.pp /\ p.pic = h.pic /\ p.longshot = h.longshot
    BY <2>1, PutIsCam
  <2>3. r.ok = TRUE /\ r.h = p
    BY <1>2 DEF Ok
  <2> HIDE DEF p
  <2> QED
    BY <1>2, <2>2, <2>3 DEF Started, SamePicture
<1> QED
  BY <1>1, <1>2 DEF startChannel, MayFail

Shown(h, g) ==
    \A c \in Channel : g.ch[c] = IF c = MainChannel(h) THEN "started"
                                 ELSE IF c \in PreviewChannels(h) THEN "added" ELSE h.ch[c]

\* The outcomes of bringing a preview up: all of it, or none of it.
Brought(h, r) ==
    /\ r.ok \in BOOLEAN /\ r.h \in Cam /\ Same(h, r.h) /\ NoNewVideo(h, r.h)
    /\ r.h.longshot => h.longshot
    /\ NotLongshot(h) => SamePicture(h, r.h)
    /\ NotLongshot(h) /\ ~cam.faulty => r.ok
    /\ NotLongshot(h) /\ r.ok => Shown(h, r.h)

LEMMA StartPreviewBrings ==
    ASSUME NEW h \in Cam, NEW p, Prepared(h, p), p.ok,
           NEW r \in startPreview(p.h)
    PROVE  Brought(h, r) /\ (r.ok \/ Brought(h, Bad(unpreparePreview(r.h))))
<1>1. p.h \in Cam /\ MainChannel(p.h) = MainChannel(h)
  BY SameChannels DEF Prepared
<1>2. Started(p.h, MainChannel(h), r)
  BY <1>1, MainIsShown, StartIsCam DEF startPreview, MainChannel
<1>3. /\ r.ok \in BOOLEAN /\ r.h \in Cam /\ Same(h, r.h)
      /\ r.h.longshot => h.longshot
      /\ NotLongshot(h) => SamePicture(h, r.h)
  BY <1>2 DEF Started, Prepared, Same, SamePicture
<1>4. NoNewVideo(h, r.h)
  <2>1. MainChannel(h) # "VIDEO" /\ "VIDEO" \in Channel
    BY MainIsShown DEF Channel
  <2> QED
    BY <1>2, <2>1 DEF Started, Prepared, NoNewVideo
<1>5. NotLongshot(h) => p.h.ch[MainChannel(h)] # "none"
  BY MainIsShown DEF Prepared
<1>6. NotLongshot(h) /\ ~cam.faulty => r.ok
  BY <1>2, <1>5 DEF Started
<1>7. NotLongshot(h) /\ r.ok => Shown(h, r.h)
  BY <1>2 DEF Started, Prepared, Shown
<1>8. Brought(h, r)
  BY <1>3, <1>4, <1>6, <1>7 DEF Brought
<1>9. CASE r.ok
  BY <1>8, <1>9
<1>10. CASE ~r.ok
  <2> DEFINE u == unpreparePreview(r.h)
  <2>1. /\ u \in Cam /\ Same(r.h, u) /\ SamePicture(r.h, u) /\ u.longshot = r.h.longshot
        /\ \A c \in Channel : u.ch[c] = IF c = "CAPTURE" THEN r.h.ch[c] ELSE "none"
    BY <1>3, UnprepareIsCam
  <2>2. Bad(u).ok = FALSE /\ Bad(u).h = u
    BY DEF Bad
  <2> HIDE DEF u
  <2>3. Same(h, u)
    BY <1>3, <2>1 DEF Same
  <2>4. NoNewVideo(h, u)
    BY <1>4, <2>1 DEF NoNewVideo, Channel
  <2>5. NotLongshot(h) => SamePicture(h, u)
    BY <1>3, <2>1 DEF SamePicture
  <2>6. Brought(h, Bad(u))
    BY <1>3, <1>6, <1>10, <2>1, <2>2, <2>3, <2>4, <2>5 DEF Brought
  <2> QED
    BY <1>8, <2>6 DEF u
<1> QED
  BY <1>3, <1>9, <1>10

LEMMA NotPreparedBrings ==
    ASSUME NEW h, NEW r, Prepared(h, r), ~r.ok
    PROVE  Brought(h, r)
  BY DEF Prepared, Brought

LEMMA BringIsCam ==
    ASSUME NEW h \in Cam, NEW r \in Bring(h)
    PROVE  Brought(h, r)
<1>1. PICK p \in preparePreview(h) :
        r \in IF p.ok THEN OrElse(startPreview(p.h), unpreparePreview) ELSE {p}
  BY DEF Bring, Then
<1>2. Prepared(h, p)
  BY PrepareIsCam
<1>3. CASE p.ok
  <2>1. PICK q \in startPreview(p.h) : r = IF q.ok THEN q ELSE Bad(unpreparePreview(q.h))
    BY <1>1, <1>3 DEF OrElse
  <2> QED
    BY <1>2, <1>3, <2>1, StartPreviewBrings
<1>4. CASE ~p.ok
  BY <1>1, <1>2, <1>4, NotPreparedBrings
<1> QED
  BY <1>3, <1>4

LEMMA BringAnyhowIsCam ==
    ASSUME NEW h \in Cam, NEW r \in BringAnyhow(h)
    PROVE  Brought(h, r)
<1>1. PICK p \in preparePreview(h) : r \in IF p.ok THEN startPreview(p.h) ELSE {p}
  BY DEF BringAnyhow, Then
<1>2. Prepared(h, p)
  BY PrepareIsCam
<1>3. CASE p.ok
  BY <1>1, <1>2, <1>3, StartPreviewBrings
<1>4. CASE ~p.ok
  BY <1>1, <1>2, <1>4, NotPreparedBrings
<1> QED
  BY <1>3, <1>4

Otherwise(h, g) ==
    /\ g.ch = h.ch /\ g.window = h.window /\ g.live = h.live /\ g.longshot = h.longshot
    /\ g.zsl = h.zsl /\ g.zslNew = h.zslNew /\ g.hint = h.hint /\ g.hintNew = h.hintNew
    /\ g.restart = h.restart /\ g.early = h.early /\ g.faulty = h.faulty
    /\ g.msgs = h.msgs /\ g.delayed = h.delayed /\ g.wanted = h.wanted
    /\ g.pp = h.pp /\ g.pic = h.pic

LEMMA StateIsSet ==
    ASSUME NEW h \in Cam, NEW s \in State
    PROVE  LET g == [h EXCEPT !.state = s]
           IN  g \in Cam /\ g.state = s /\ Otherwise(h, g)
  BY DEF Cam, Otherwise

\* The outcomes of takePicture.
Taken(h, r) ==
    /\ r.ok \in BOOLEAN /\ r.h \in Cam /\ Same(h, r.h)
    /\ r.h.longshot = h.longshot /\ r.h.ch["VIDEO"] = h.ch["VIDEO"]
    /\ h.zsl => \A c \in Channel : r.h.ch[c] = h.ch[c]
    /\ ~cam.faulty =>
         IF h.zsl
         THEN IF h.ch["ZSL"] = "none" THEN r.h = h ELSE r.ok
         ELSE /\ r.ok
              /\ \A c \in Channel : r.h.ch[c] = IF c = "CAPTURE" THEN "started"
                                    ELSE IF c = "PREVIEW" THEN "none" ELSE h.ch[c]

LEMMA TakeZslIsCam ==
    ASSUME NEW h \in Cam, h.zsl, NEW r \in takePicture(h)
    PROVE  Taken(h, r)
<1> DEFINE p == StartPicture(h)
           q == StopPicture(h)
           k == [h EXCEPT !.pp = TRUE]
<1>1. /\ p \in Cam /\ Same(h, p) /\ p.ch = h.ch /\ p.longshot = h.longshot
      /\ k \in Cam /\ Same(h, k) /\ k.ch = h.ch /\ k.longshot = h.longshot
  BY DEF StartPicture, Cam, Same
<1>2. q \in Cam /\ Same(h, q) /\ q.ch = h.ch /\ q.longshot = h.longshot
  BY StopPictureIsCam
<1>3. \/ r = Bad(h) /\ (h.ch["ZSL"] = "none" \/ cam.faulty)
      \/ r = Ok(p) /\ h.ch["ZSL"] # "none"
      \/ cam.faulty /\ (r = Bad(q) \/ r = Bad(k))
  BY DEF takePicture, MayFail
<1>4. Same(h, h)
  BY DEF Same
<1> HIDE DEF p, q, k
<1>5. CASE r = Ok(p) /\ h.ch["ZSL"] # "none"
  <2>1. r.ok = TRUE /\ r.h = p
    BY <1>5 DEF Ok
  <2> QED
    BY <1>1, <1>5, <2>1 DEF Taken
<1>6. CASE r = Bad(h) /\ (h.ch["ZSL"] = "none" \/ cam.faulty)
  <2>1. r.ok = FALSE /\ r.h = h
    BY <1>6 DEF Bad
  <2> QED
    BY <1>4, <1>6, <2>1 DEF Taken
<1>7. CASE cam.faulty /\ (r = Bad(q) \/ r = Bad(k))
  <2>1. r.ok = FALSE /\ (r.h = q \/ r.h = k)
    BY <1>7 DEF Bad
  <2> QED
    BY <1>1, <1>2, <1>7, <2>1 DEF Taken
<1> QED
  BY <1>3, <1>5, <1>6, <1>7

LEMMA TakeFrameIsCam ==
    ASSUME NEW h \in Cam, ~h.zsl, NEW r \in takePicture(h)
    PROVE  Taken(h, r)
<1> DEFINE g == delChannel(h, {"PREVIEW", "CAPTURE"})
           p == StartPicture(g)
           s == Put(p, {"CAPTURE"}, "started")
           k == [g EXCEPT !.pp = TRUE]
           n == [s EXCEPT !.pic = "none"]
<1>0. "none" \in Marks /\ "started" \in Marks
  BY DEF Marks
<1>1. /\ g \in Cam /\ Same(h, g) /\ g.longshot = h.longshot
      /\ \A c \in Channel : g.ch[c] = IF c \in {"PREVIEW", "CAPTURE"} THEN "none" ELSE h.ch[c]
  BY <1>0, PutIsCam DEF delChannel
<1>2. r = Ok(s) \/ (cam.faulty /\ (r = Bad(g) \/ r = Bad(k) \/ r = Bad(n)))
  BY DEF takePicture, MayFail
<1> HIDE DEF g
<1>3. /\ p \in Cam /\ Same(g, p) /\ p.ch = g.ch /\ p.longshot = g.longshot
      /\ k \in Cam /\ Same(g, k) /\ k.ch = g.ch /\ k.longshot = g.longshot
  BY ZenonT(60), <1>1 DEF StartPicture, Cam, Same
<1> HIDE DEF p, k
<1>4. /\ s \in Cam /\ Same(p, s) /\ s.longshot = p.longshot
      /\ \A c \in Channel : s.ch[c] = IF c \in {"CAPTURE"} THEN "started" ELSE p.ch[c]
  BY <1>0, <1>3, PutIsCam
<1> HIDE DEF s
<1>5. n \in Cam /\ Same(s, n) /\ n.ch = s.ch /\ n.longshot = s.longshot
  BY <1>4 DEF Cam, Same
<1> HIDE DEF n
<1>6. Same(h, s) /\ Same(h, k) /\ Same(h, n)
  BY <1>1, <1>3, <1>4, <1>5 DEF Same
<1>7. "VIDEO" \in Channel
  BY DEF Channel
<1>8. /\ s.ch["VIDEO"] = h.ch["VIDEO"] /\ k.ch["VIDEO"] = h.ch["VIDEO"]
      /\ n.ch["VIDEO"] = h.ch["VIDEO"] /\ g.ch["VIDEO"] = h.ch["VIDEO"]
  BY <1>1, <1>3, <1>4, <1>5, <1>7
<1>9. CASE r = Ok(s)
  <2>1. r.ok = TRUE /\ r.h = s
    BY <1>9 DEF Ok
  <2>2. \A c \in Channel : s.ch[c] = IF c = "CAPTURE" THEN "started"
                                     ELSE IF c = "PREVIEW" THEN "none" ELSE h.ch[c]
    BY <1>1, <1>3, <1>4
  <2>3. s.longshot = h.longshot
    BY <1>1, <1>3, <1>4
  <2> QED
    BY <1>4, <1>6, <1>8, <2>1, <2>2, <2>3 DEF Taken
<1>10. CASE cam.faulty /\ (r = Bad(g) \/ r = Bad(k) \/ r = Bad(n))
  <2>1. r.ok = FALSE /\ (r.h = g \/ r.h = k \/ r.h = n)
    BY <1>10 DEF Bad
  <2> QED
    BY <1>1, <1>3, <1>4, <1>5, <1>6, <1>8, <1>10, <2>1 DEF Taken
<1> QED
  BY <1>2, <1>9, <1>10

LEMMA FineIs ==
    ASSUME NEW g \in Cam, MessagesKept(g), (g.ch["VIDEO"] = "started") <=> isRecording(g),
           g.live = "running" => g.state = "VIDEO_PIC_TAKING",
           Plain(g) => Shape(g)
    PROVE  Fine(g)
  BY DEF Fine, MessagesKept

LongshotIsZsl(h) == h.longshot => h.zsl /\ h.zslNew
Idle(h) == ~h.pp /\ h.pic = "none"

\* The old preview is gone and nothing records: another one may be brought up.
Bringable(h) ==
    /\ h \in Cam /\ MessagesKept(h) /\ h.faulty = cam.faulty
    /\ h.live # "running" /\ h.ch["VIDEO"] # "started"
    /\ Plain(h) => NotLongshot(h) /\ HasOnly(h, {}) /\ LongshotIsZsl(h)

LEMMA ShownShows ==
    ASSUME NEW h \in Cam, NEW g, Shown(h, g), HasOnly(h, {}),
           g.zsl = h.zsl, g.hint = h.hint
    PROVE  Shows(g)
<1>1. PreviewChannels(g) = PreviewChannels(h) /\ MainChannel(g) = MainChannel(h)
  BY DEF PreviewChannels, MainChannel, isZSLPreview
<1> QED
  BY <1>1, MainIsShown DEF Shown, Shows, HasOnly

LEMMA BroughtIsFine ==
    ASSUME NEW h, Bringable(h), NEW r, Brought(h, r),
           NEW g \in Cam, Otherwise(r.h, g), g.state \in State,
           ~isRecording(g),
           Plain(h) => \/ g.state = "PREVIEWING" /\ Idle(h)
                       \/ g.state = "PREVIEW_PIC_TAKING" /\ h.zsl /\ ~h.hint
    PROVE  Fine(g)
<1>1. /\ g.zsl = h.zsl /\ g.zslNew = h.zslNew /\ g.hint = h.hint /\ g.live = h.live
      /\ g.ch = r.h.ch
  BY DEF Brought, Same, Otherwise
<1>2. MessagesKept(g)
  BY DEF Brought, Same, Otherwise, MessagesKept, Bringable
<1>3. g.ch["VIDEO"] # "started"
  BY <1>1 DEF Brought, NoNewVideo, Bringable
<1>4. g.live # "running"
  BY <1>1 DEF Bringable
<1>5. ASSUME Plain(g)  PROVE Shape(g)
  <2>1. Plain(h)
    BY <1>5 DEF Plain, Brought, Same, Otherwise
  <2>2. NotLongshot(h) /\ HasOnly(h, {}) /\ LongshotIsZsl(h) /\ ~cam.faulty
    BY <2>1 DEF Bringable, Plain
  <2>3. r.ok /\ Shown(h, r.h) /\ SamePicture(h, r.h)
    BY <2>2 DEF Brought
  <2>4. Shown(h, g)
    BY <1>1, <2>3 DEF Shown
  <2>5. Shows(g)
    BY <1>1, <2>2, <2>4, ShownShows DEF Bringable
  <2>6. g.longshot => g.zsl /\ g.zslNew
    <3>1. g.longshot => h.longshot
      BY DEF Brought, Otherwise
    <3> QED
      BY <1>1, <2>2, <3>1 DEF LongshotIsZsl
  <2>7. (g.pp \/ g.pic # "none") => isCaptureRunning(g)
    BY <2>1, <2>3 DEF SamePicture, Otherwise, Idle, isCaptureRunning
  <2>8. ShapeOfStates(g)
    BY <1>1, <2>1, <2>5 DEF ShapeOfStates
  <2> QED
    BY <2>6, <2>7, <2>8 DEF Shape
<1> QED
  BY <1>2, <1>3, <1>4, <1>5, FineIs

Parent(h) == h.early = cam.early /\ h.faulty = cam.faulty /\ ~Dirty(h)

LEMMA DecideBecomes ==
    ASSUME NEW e, NEW S, NEW good, NEW bad, Decide(e, S, good, bad)
    PROVE  \E r \in S : Become([r.h EXCEPT !.state = IF r.ok THEN good ELSE bad])
  BY DEF Decide, Answer

LEMMA AnswerOneBecomes ==
    ASSUME NEW e, NEW S, AnswerOne(e, S)
    PROVE  \E r \in S : Become(r.h)
  BY DEF AnswerOne, Answer

LEMMA BroughtMoves ==
    ASSUME NEW e \in Own \ {"TAKE_PICTURE"}, NEW h, Parent(h), NEW r, Brought(h, r),
           NEW g, Otherwise(r.h, g), g.state # "PREPARE_SNAPSHOT",
           Plain(h) => g.state # "PIC_TAKING"
    PROVE  Moves(e, cam, g)
<1>0. Plain(h) = Plain(cam)
  BY DEF Parent, Plain
<1>1. ~Dirty(g) /\ g.early = cam.early /\ g.faulty = cam.faulty
  BY DEF Parent, Dirty, Brought, Same, Otherwise
<1> QED
  BY <1>0, <1>1, OwnMoves

LEMMA DecideBring ==
    ASSUME NEW e \in Own \ {"TAKE_PICTURE"}, NEW h, Bringable(h), Parent(h),
           NEW good \in {"PREVIEWING", "PREVIEW_PIC_TAKING"},
           Plain(h) => \/ good = "PREVIEWING" /\ Idle(h)
                       \/ good = "PREVIEW_PIC_TAKING" /\ h.zsl /\ ~h.hint,
           NEW bad \in {"STOPPED", "PIC_TAKING"}, Decide(e, Bring(h), good, bad)
    PROVE  Stepped(e)
<1>1. PICK r \in Bring(h) : Become([r.h EXCEPT !.state = IF r.ok THEN good ELSE bad])
  BY DecideBecomes
<1>2. Brought(h, r) /\ r.h \in Cam
  BY BringIsCam DEF Bringable, Brought
<1> DEFINE s == IF r.ok THEN good ELSE bad
           g == [r.h EXCEPT !.state = s]
<1>3. s \in State
  BY DEF State
<1>4. g \in Cam /\ g.state = s /\ Otherwise(r.h, g)
  BY <1>2, <1>3, StateIsSet
<1>5. Plain(h) => r.ok
  BY <1>2 DEF Bringable, Brought, Plain
<1>6. Become(g)
  BY <1>1
<1> HIDE DEF g
<1>7. ~isRecording(g) /\ s # "PREPARE_SNAPSHOT" /\ (Plain(h) => s # "PIC_TAKING")
  BY <1>4, <1>5 DEF isRecording
<1>8. Fine(g)
  BY <1>2, <1>3, <1>4, <1>5, <1>7, BroughtIsFine
<1>9. Moves(e, cam, g)
  BY <1>2, <1>4, <1>7, BroughtMoves
<1> QED
  BY <1>6, <1>8, <1>9, BecomeSteps

LEMMA AnswerBring ==
    ASSUME NEW e \in Own \ {"TAKE_PICTURE"}, NEW h, Bringable(h), Parent(h),
           h.state \in {"PREVIEWING", "PREVIEW_PIC_TAKING"},
           Plain(h) => \/ h.state = "PREVIEWING" /\ Idle(h)
                       \/ h.state = "PREVIEW_PIC_TAKING" /\ h.zsl /\ ~h.hint,
           NEW S, S = Bring(h) \/ S = BringAnyhow(h), AnswerOne(e, S)
    PROVE  Stepped(e)
<1>1. PICK r \in S : Become(r.h)
  BY AnswerOneBecomes
<1>2. Brought(h, r) /\ r.h \in Cam /\ r.h.state = h.state
  BY BringIsCam, BringAnyhowIsCam DEF Bringable, Brought, Same
<1>3. r.h.state \in State /\ ~isRecording(r.h) /\ Otherwise(r.h, r.h)
  BY <1>2 DEF Otherwise, State, isRecording
<1>4. Fine(r.h)
  BY <1>2, <1>3, BroughtIsFine
<1>5. Moves(e, cam, r.h)
  BY <1>2, <1>3, BroughtMoves
<1> QED
  BY <1>1, <1>4, <1>5, BecomeSteps

LEMMA AlikeSteps ==
    ASSUME NEW e, NEW g \in Cam, Fine(cam), Alike(cam, g), MessagesKept(g),
           Moves(e, cam, g), Become(g)
    PROVE  Stepped(e)
  BY FineFrom, BecomeSteps

LEMMA SnapshotDoneStep ==
    ASSUME NEW e, Fine(cam), Asked(e, cam), SnapshotDone(e, cam)
    PROVE  Stepped(e)
<1> DEFINE g == [cam EXCEPT !.notifier = "free"]
<1>1. g \in Cam /\ Alike(cam, g) /\ MessagesKept(g)
  BY ZenonT(60) DEF Fine, Cam, Alike, MessagesKept, Plain, Shape
<1>2. e \notin Own /\ e # "COMMIT_PARAMS"
  BY DEF SnapshotDone, Own, Api
<1>3. Moves(e, cam, g)
  BY <1>2 DEF Moves, Fine, Cam, Dirty, Asked, SnapshotDone
<1>4. Become(g)
  BY DEF SnapshotDone, Quiet
<1> HIDE DEF g
<1> QED
  BY <1>1, <1>3, <1>4, AlikeSteps

LEMMA LongshotStep ==
    ASSUME NEW e, NEW h, Fine(h), Parent(h), Plain(h) /\ e = "LONGSHOT_ON" => h.zsl,
           h.state \in {"STOPPED", "READY", "PREVIEWING", "RECORDING", "VIDEO_PIC_TAKING"},
           Longshot(e, h)
    PROVE  Stepped(e)
<1>1. e \in Own \ {"TAKE_PICTURE"}
  BY DEF Longshot, Own, Api
<1>2. ASSUME NEW g, Fine(g), Become(g), ~Dirty(g), g.early = cam.early, g.faulty = cam.faulty,
             g.state = h.state
      PROVE  Stepped(e)
  BY <1>1, <1>2, OwnMoves, BecomeSteps
<1>3. CASE Become(h)
  BY <1>2, <1>3 DEF Parent
<1>4. CASE e = "LONGSHOT_ON" /\ Become([h EXCEPT !.longshot = TRUE])
  <2> DEFINE g == [h EXCEPT !.longshot = TRUE]
  <2>1. Plain(h) => h.zslNew = h.zsl
    BY DEF Parent, Dirty, Plain
  <2>2. Plain(h) => h.zsl
    BY <1>4
  <2>3. g \in Cam /\ Alike(h, g) /\ MessagesKept(g)
    BY <2>1, <2>2 DEF Fine, Cam, Alike, MessagesKept
  <2>4. Fine(g)
    BY <2>3, FineFrom
  <2>5. ~Dirty(g) /\ g.early = cam.early /\ g.faulty = cam.faulty /\ g.state = h.state
    BY DEF Parent, Dirty, Fine, Cam
  <2> QED
    BY <1>2, <1>4, <2>4, <2>5
<1>5. CASE e = "LONGSHOT_OFF" /\ Become(LongshotOff(h))
  <2> DEFINE g == LongshotOff(h)
  <2>1. /\ g \in Cam /\ Same(h, g)
        /\ \A c \in Channel : g.ch[c] = h.ch[c] \/ (c = "CAPTURE" /\ ~h.zsl /\ g.ch[c] = "none")
        /\ ~g.longshot
        /\ g.pp => h.pp
        /\ g.pic \in {"none", h.pic}
        /\ IF h.longshot /\ isCaptureRunning(h) THEN ~g.pp /\ g.pic = "none"
           ELSE g.ch = h.ch /\ g.pp = h.pp /\ g.pic = h.pic
    BY LongshotOffIsCam DEF Fine
  <2> HIDE DEF g
  <2>2. /\ isCaptureRunning(g) = isCaptureRunning(h) /\ isRecording(g) = isRecording(h)
        /\ ~Dirty(g) /\ Plain(g) = Plain(h) /\ MainChannel(g) = MainChannel(h)
        /\ PreviewChannels(g) = PreviewChannels(h)
    BY <2>1, SameChannels DEF Parent
  <2>3. MessagesKept(g)
    BY <2>1 DEF MessagesKept, Same, Fine
  <2>4. (g.ch["VIDEO"] = "started") <=> isRecording(g)
    BY <2>1, <2>2 DEF Fine, Channel
  <2>5. g.live = "running" => g.state = "VIDEO_PIC_TAKING"
    BY <2>1 DEF Same, Fine
  <2>6. ASSUME Plain(g) PROVE Shape(g)
    <3>1. Shape(h) /\ g.state = h.state /\ g.zsl = h.zsl /\ g.hint = h.hint
      BY <2>1, <2>2, <2>6 DEF Fine, Same
    <3>2. \A c \in Channel : g.ch[c] = h.ch[c]
      BY <2>1, <3>1 DEF Shape
    <3>3. ShapeOfStates(g)
      BY <3>1, <3>2, <2>2, MainIsShown DEF Shape, ShapeOfStates, Shows, HasOnly, Fine
    <3>4. (g.pp \/ g.pic # "none") => isCaptureRunning(g)
      BY <2>1, <2>2, <3>1 DEF Shape
    <3> QED
      BY <2>1, <3>3, <3>4 DEF Shape
  <2>7. Fine(g)
    BY <2>1, <2>3, <2>4, <2>5, <2>6, FineIs
  <2> QED
    BY <1>2, <1>5, <2>1, <2>2, <2>7 DEF Same, Parent, g
<1> QED
  BY <1>3, <1>4, <1>5 DEF Longshot, Answer

LEMMA DecidePrepare ==
    ASSUME NEW e \in Own \ {"TAKE_PICTURE"}, NEW h, Bringable(h), Parent(h), NotLongshot(h),
           Plain(h) => Idle(h), Decide(e, preparePreview(h), "READY", "STOPPED")
    PROVE  Stepped(e)
<1>1. PICK r \in preparePreview(h) : Become([r.h EXCEPT !.state = IF r.ok THEN "READY" ELSE "STOPPED"])
  BY DecideBecomes
<1>2. Prepared(h, r) /\ r.h \in Cam
  BY PrepareIsCam DEF Bringable, Prepared
<1> DEFINE s == IF r.ok THEN "READY" ELSE "STOPPED"
           g == [r.h EXCEPT !.state = s]
<1>3. s \in State
  BY DEF State
<1>4. g \in Cam /\ g.state = s /\ Otherwise(r.h, g)
  BY <1>2, <1>3, StateIsSet
<1>5. Become(g)
  BY <1>1
<1> HIDE DEF g
<1>6. /\ g.zsl = h.zsl /\ g.zslNew = h.zslNew /\ g.hint = h.hint /\ g.hintNew = h.hintNew
      /\ g.live = h.live /\ g.ch = r.h.ch /\ g.early = h.early /\ g.faulty = h.faulty
  BY <1>2, <1>4 DEF Prepared, Same, Otherwise
<1>7. MessagesKept(g)
  BY <1>2, <1>4 DEF Prepared, Same, Otherwise, MessagesKept, Bringable
<1>8. g.ch["VIDEO"] # "started" /\ ~isRecording(g)
  BY <1>2, <1>4, <1>6 DEF Prepared, NoNewVideo, Bringable, isRecording
<1>9. g.live # "running"
  BY <1>6 DEF Bringable
<1>10. ASSUME Plain(g) PROVE Shape(g)
  <2>1. Plain(h) /\ ~cam.faulty
    BY <1>6, <1>10 DEF Plain, Bringable
  <2>2. HasOnly(h, {}) /\ LongshotIsZsl(h) /\ Idle(h)
    BY <2>1 DEF Bringable
  <2>3. r.ok /\ SamePicture(h, r.h)
    BY <2>1, <1>2 DEF Prepared
  <2>4. \A c \in Channel : g.ch[c] = IF c \in PreviewChannels(h) THEN "added" ELSE h.ch[c]
    BY <2>3, <1>2, <1>6 DEF Prepared
  <2>5. PreviewChannels(g) = PreviewChannels(h)
    BY <1>6 DEF PreviewChannels, isZSLPreview
  <2>6. HasOnly(g, PreviewChannels(g)) /\ \A c \in Channel : g.ch[c] # "started"
    BY <2>2, <2>4, <2>5 DEF HasOnly
  <2>7. ShapeOfStates(g)
    BY <1>4, <1>8, <2>3, <2>6 DEF ShapeOfStates
  <2>8. g.longshot => h.longshot
    BY <1>2, <1>4 DEF Prepared, Otherwise
  <2>9. g.longshot => g.zsl /\ g.zslNew
    BY <2>2, <2>8, <1>6 DEF LongshotIsZsl
  <2>10. ~g.pp /\ g.pic = "none"
    BY <2>2, <2>3, <1>4 DEF SamePicture, Otherwise, Idle
  <2> QED
    BY <2>7, <2>9, <2>10 DEF Shape
<1>11. Fine(g)
  BY <1>4, <1>7, <1>8, <1>9, <1>10, FineIs
<1>12. ~Dirty(g) /\ g.early = cam.early /\ g.faulty = cam.faulty
  BY <1>6 DEF Parent, Dirty
<1>13. Moves(e, cam, g)
  BY <1>4, <1>12, OwnMoves
<1> QED
  BY <1>5, <1>11, <1>13, BecomeSteps

LEMMA CleanParent ==
    ASSUME NEW e \in Own \ {"COMMIT_PARAMS"}, Asked(e, cam)
    PROVE  Parent(cam)
  BY OwnIsClean DEF Parent

LEMMA RefusedSteps ==
    ASSUME NEW e, NEW S, Fine(cam), Asked(e, cam), "COMMIT_PARAMS" \notin S \/ cam.state \notin Quiescent,
           Refused(e, cam, S) \/ Accepted(e, cam, S) \/ Ignored(e, cam, S)
    PROVE  Stepped(e)
<1>1. Become(cam) /\ e \in S
  BY DEF Refused, Accepted, Ignored, Answer, Quiet
<1> QED
  BY <1>1, NothingMoves

LEMMA StoppedIsBringable ==
    ASSUME Fine(cam), cam.state = "STOPPED"
    PROVE  Bringable(cam) /\ NotLongshot(cam) /\ (Plain(cam) => Idle(cam))
<1>1. ~isRecording(cam) /\ ~isCaptureRunning(cam)
  BY DEF isRecording, isCaptureRunning
<1> QED
  BY <1>1 DEF Fine, Shape, ShapeOfStates, Bringable, NotLongshot, Idle, MessagesKept, LongshotIsZsl

\* COMMIT_PARAMS where the preview need not change.
LEMMA CommitSteps ==
    ASSUME Fine(cam), Asked("COMMIT_PARAMS", cam), cam.state = "STOPPED" \/ ~Dirty(cam),
           NEW g, g = [commitParameters(cam) EXCEPT !.restart = FALSE] \/ g = commitParameters([cam EXCEPT !.restart = FALSE]),
           Become(g)
    PROVE  Stepped("COMMIT_PARAMS")
<1> DEFINE k == [cam EXCEPT !.zsl = cam.zslNew, !.hint = cam.hintNew, !.restart = FALSE]
<1>0. g = k
  <2>1. cam \in Cam
    BY DEF Fine
  <2>2. [commitParameters(cam) EXCEPT !.restart = FALSE] = k
    BY <2>1 DEF commitParameters, Cam
  <2>3. commitParameters([cam EXCEPT !.restart = FALSE]) = k
    BY <2>1 DEF commitParameters, Cam
  <2> HIDE DEF k
  <2> QED
    BY <2>2, <2>3
<1>1. /\ g \in Cam /\ g.state = cam.state /\ g.ch = cam.ch /\ g.live = cam.live
      /\ g.zsl = cam.zslNew /\ g.zslNew = cam.zslNew
      /\ g.hint = cam.hintNew /\ g.hintNew = cam.hintNew
  BY ZenonT(60), <1>0 DEF Fine, Cam
<1>2. /\ g.pp = cam.pp /\ g.pic = cam.pic /\ g.longshot = cam.longshot
      /\ g.early = cam.early /\ g.faulty = cam.faulty
      /\ g.msgs = cam.msgs /\ g.delayed = cam.delayed /\ g.wanted = cam.wanted
  BY <1>0 DEF Fine, Cam
<1>3. MessagesKept(g)
  BY <1>2 DEF Fine, MessagesKept
<1>4. isRecording(g) = isRecording(cam) /\ isCaptureRunning(g) = isCaptureRunning(cam)
      /\ Plain(g) = Plain(cam)
  BY <1>1, <1>2 DEF isRecording, isCaptureRunning, Plain
<1>5. ASSUME Plain(g) PROVE Shape(g)
  <2>1. Shape(cam)
    BY <1>4, <1>5 DEF Fine
  <2>2. CASE cam.state = "STOPPED"
    <3>1. ShapeOfStates(g)
      BY <1>1, <2>1, <2>2 DEF Shape, ShapeOfStates, HasOnly, isRecording
    <3> QED
      BY <1>1, <1>2, <1>4, <2>1, <3>1 DEF Shape
  <2>3. CASE ~Dirty(cam)
    <3>1. g.zsl = cam.zsl /\ g.hint = cam.hint
      BY <1>1, <1>5, <2>3 DEF Dirty, Plain
    <3>2. MainChannel(g) = MainChannel(cam) /\ PreviewChannels(g) = PreviewChannels(cam)
      BY <3>1 DEF MainChannel, PreviewChannels, isZSLPreview
    <3>3. ShapeOfStates(g)
      BY <1>1, <1>4, <2>1, <3>1, <3>2 DEF Shape, ShapeOfStates, HasOnly, Shows
    <3> QED
      BY <1>1, <1>2, <1>4, <2>1, <3>3 DEF Shape
  <2> QED
    BY <2>2, <2>3
<1>6. Fine(g)
  BY <1>1, <1>3, <1>4, <1>5, FineIs DEF Fine
<1>7. ~Dirty(g)
  BY <1>1 DEF Dirty
<1>8. Moves("COMMIT_PARAMS", cam, g)
  BY <1>1, <1>2, <1>7 DEF Moves, Own, Api
<1> QED
  BY <1>6, <1>8, BecomeSteps

\* STOPPED.
LEMMA StoppedStep ==
    ASSUME NEW e, Fine(cam), Asked(e, cam), cam.state = "STOPPED", PreviewStopped(e, cam)
    PROVE  Stepped(e)
<1>1. CASE Msgs(e, cam)
  BY <1>1, MsgsStep
<1>2. CASE SetParams(e, cam)
  BY <1>2, SetParamsStep
<1>3. CASE e = "SET_PREVIEW_WINDOW" /\ \E w \in BOOLEAN : Answer(e, TRUE, [cam EXCEPT !.window = w])
  <2>1. PICK w \in BOOLEAN : Become([cam EXCEPT !.window = w])
    BY <1>3 DEF Answer
  <2> DEFINE g == [cam EXCEPT !.window = w]
  <2>2. g \in Cam /\ Alike(cam, g) /\ MessagesKept(g)
    BY ZenonT(60) DEF Fine, Cam, Alike, MessagesKept, Plain, Shape
  <2>3. e \in Own \ {"TAKE_PICTURE", "COMMIT_PARAMS"}
    BY <1>3 DEF Own, Api
  <2>4. Parent(cam)
    BY <2>3, CleanParent
  <2>5. ~Dirty(g) /\ g.early = cam.early /\ g.faulty = cam.faulty /\ g.state = cam.state
    BY <2>4 DEF Fine, Cam, Parent, Dirty
  <2>6. Moves(e, cam, g)
    BY <2>3, <2>5, OwnMoves
  <2> QED
    BY <2>1, <2>2, <2>6, AlikeSteps
<1>4. CASE e = "COMMIT_PARAMS" /\ Answer(e, TRUE, [commitParameters(cam) EXCEPT !.restart = FALSE])
  BY <1>4, CommitSteps DEF Answer
<1>5. CASE Longshot(e, cam)
  <2>1. e \in Own \ {"COMMIT_PARAMS"}
    BY <1>5 DEF Longshot, Own, Api
  <2> QED
    BY <1>5, <2>1, CleanParent, LongshotStep DEF Asked, Plain
<1>6. CASE e = "START_PREVIEW" /\ IF cam.window THEN Decide(e, Bring(cam), "PREVIEWING", "STOPPED")
                                  ELSE Decide(e, preparePreview(cam), "READY", "STOPPED")
  <2>1. e \in Own \ {"TAKE_PICTURE", "COMMIT_PARAMS"}
    BY <1>6 DEF Own, Api
  <2>2. Parent(cam)
    BY <2>1, CleanParent
  <2> QED
    BY <1>6, <2>1, <2>2, StoppedIsBringable, DecideBring, DecidePrepare
<1>7. CASE e = "RELEASE" /\ Answer(e, TRUE, delChannel(cam, Channel))
  <2> DEFINE g == delChannel(cam, Channel)
  <2>1. e \in Own \ {"TAKE_PICTURE", "COMMIT_PARAMS"}
    BY <1>7 DEF Own, Api
  <2>2. "none" \in Marks
    BY DEF Marks
  <2>3. /\ g \in Cam /\ Same(cam, g)
        /\ \A c \in Channel : g.ch[c] = IF c \in Channel THEN "none" ELSE cam.ch[c]
        /\ g.pp = cam.pp /\ g.pic = cam.pic /\ g.longshot = cam.longshot
    BY <2>2, PutIsCam DEF delChannel, Fine
  <2>4. Become(g)
    BY <1>7 DEF Answer
  <2> HIDE DEF g
  <2>5. ~isRecording(g) /\ g.ch["VIDEO"] # "started"
    BY <2>3 DEF Same, isRecording, Channel
  <2>6. MessagesKept(g) /\ g.live # "running"
    BY <2>3 DEF Same, MessagesKept, Fine
  <2>7. Plain(g) => Shape(g)
    <3>1. Plain(g) => Shape(cam)
      BY <2>3 DEF Same, Plain, Fine
    <3>2. ShapeOfStates(g)
      BY <2>3, <2>5 DEF ShapeOfStates, HasOnly, Same
    <3> QED
      BY <2>3, <3>1, <3>2 DEF Shape, Same, isCaptureRunning
  <2>8. Fine(g)
    BY <2>3, <2>5, <2>6, <2>7, FineIs
  <2>9. Parent(cam)
    BY <2>1, CleanParent
  <2>10. Moves(e, cam, g)
    <3>1. ~Dirty(g) /\ g.early = cam.early /\ g.faulty = cam.faulty /\ g.state = cam.state
      BY <2>3, <2>9 DEF Same, Parent, Dirty
    <3> QED
      BY <2>1, <3>1, OwnMoves
  <2> QED
    BY <2>4, <2>8, <2>10, BecomeSteps
<1>8. CASE SnapshotDone(e, cam)
  BY <1>8, SnapshotDoneStep
<1> QED
  <2> DEFINE A == {"STOP_PREVIEW", "PREVIEW_ENABLED", "CANCEL_PICTURE"}
             B == {"PRE_START_RECORDING", "START_RECORDING", "STOP_RECORDING",
                   "PREPARE_SNAPSHOT", "PRE_TAKE_PICTURE", "TAKE_PICTURE"}
             C == {"STOP_CAPTURE_CHANNEL", "PREP_SNAPSHOT_DONE"}
  <2>1. "COMMIT_PARAMS" \notin A /\ "COMMIT_PARAMS" \notin B /\ "COMMIT_PARAMS" \notin C
    OBVIOUS
  <2>2. CASE Accepted(e, cam, A) \/ Refused(e, cam, B) \/ Ignored(e, cam, C)
    <3> HIDE DEF A, B, C
    <3> QED
      BY <2>1, <2>2, RefusedSteps
  <2> QED
    BY <1>1, <1>2, <1>3, <1>4, <1>5, <1>6, <1>7, <1>8, <2>2 DEF PreviewStopped, StoppedParams

\* Nothing records; while nothing fails, no channel is left and no picture.
Resting(k) ==
    /\ k \in Cam /\ MessagesKept(k) /\ k.live # "running" /\ k.ch["VIDEO"] # "started"
    /\ Plain(k) => HasOnly(k, {}) /\ LongshotIsZsl(k) /\ Idle(k)

LEMMA RestingIsFine ==
    ASSUME NEW k, Resting(k)
    PROVE  Fine([k EXCEPT !.state = "STOPPED"])
<1> DEFINE g == [k EXCEPT !.state = "STOPPED"]
<1>1. g \in Cam /\ g.state = "STOPPED" /\ Otherwise(k, g)
  BY StateIsSet DEF Resting, State
<1> HIDE DEF g
<1>2. MessagesKept(g) /\ g.live # "running" /\ g.ch["VIDEO"] # "started"
  BY <1>1 DEF Resting, Otherwise, MessagesKept
<1>3. ~isRecording(g)
  BY <1>1 DEF isRecording
<1>4. ASSUME Plain(g) PROVE Shape(g)
  <2>1. HasOnly(k, {}) /\ LongshotIsZsl(k) /\ Idle(k)
    BY <1>1, <1>4 DEF Resting, Plain, Otherwise
  <2>2. ShapeOfStates(g)
    BY <1>1, <1>3, <2>1 DEF ShapeOfStates, HasOnly, Otherwise
  <2> QED
    BY <1>1, <2>1, <2>2 DEF Shape, LongshotIsZsl, Idle, Otherwise
<1>5. Fine(g)
  BY <1>1, <1>2, <1>3, <1>4, FineIs
<1> QED
  BY <1>5 DEF g

LEMMA RestingSteps ==
    ASSUME NEW e \in Own \ {"TAKE_PICTURE"}, NEW k, Resting(k), Parent(k), Become([k EXCEPT !.state = "STOPPED"])
    PROVE  Stepped(e)
<1> DEFINE g == [k EXCEPT !.state = "STOPPED"]
<1>1. g.state = "STOPPED" /\ Otherwise(k, g)
  BY StateIsSet DEF Resting, State
<1>2. Fine(g)
  BY RestingIsFine
<1> HIDE DEF g
<1>3. ~Dirty(g) /\ g.early = cam.early /\ g.faulty = cam.faulty
  BY <1>1 DEF Parent, Dirty, Otherwise
<1>4. Moves(e, cam, g)
  BY <1>1, <1>3, OwnMoves
<1> QED
  BY <1>2, <1>4, BecomeSteps DEF g

LEMMA UnpreparedRests ==
    ASSUME NEW h, Fine(h), h.state \in {"READY", "PREVIEWING", "RECORDING", "VIDEO_PIC_TAKING",
                                        "PREVIEW_PIC_TAKING"},
           h.state = "VIDEO_PIC_TAKING" => h.live # "running",
           NEW u, u \in Cam, Same(h, u), u.longshot = h.longshot,
           \A c \in Channel : u.ch[c] = IF c = "CAPTURE" THEN h.ch[c] ELSE "none",
           Plain(h) => Idle(u)
    PROVE  Resting(u)
<1>1. MessagesKept(u) /\ u.live # "running" /\ u.ch["VIDEO"] # "started"
  BY DEF Fine, Same, MessagesKept, Channel
<1>2. ASSUME Plain(u) PROVE HasOnly(u, {}) /\ LongshotIsZsl(u) /\ Idle(u)
  <2>1. Plain(h) /\ Shape(h)
    BY <1>2 DEF Plain, Same, Fine
  <2>2. h.ch["CAPTURE"] = "none"
    <3>1. "CAPTURE" \in Channel /\ "CAPTURE" \notin PreviewChannels(h)
      BY DEF Channel, PreviewChannels
    <3> QED
      BY <2>1, <3>1 DEF Shape, ShapeOfStates, HasOnly, Shows, isRecording
  <2>3. HasOnly(u, {})
    BY <2>2 DEF HasOnly
  <2>4. LongshotIsZsl(u)
    BY <2>1 DEF Shape, LongshotIsZsl, Same
  <2> QED
    BY <2>1, <2>3, <2>4
<1> QED
  BY <1>1, <1>2 DEF Resting

LEMMA IdleState ==
    ASSUME NEW h, Fine(h), Plain(h), ~isCaptureRunning(h)
    PROVE  Idle(h)
  BY DEF Fine, Shape, Idle

LEMMA ReadyStartSteps ==
    ASSUME NEW e \in Own \ {"TAKE_PICTURE"}, NEW h, Fine(h), Parent(h), h.state = "READY",
           ReadyStart(e, h)
    PROVE  Stepped(e)
<1>1. PICK r \in OrElse(startPreview(h), unpreparePreview) :
         Become([r.h EXCEPT !.state = IF r.ok THEN "PREVIEWING" ELSE "STOPPED"])
  BY DEF ReadyStart, Answer
<1>2. PICK q \in startPreview(h) : r = IF q.ok THEN q ELSE Bad(unpreparePreview(q.h))
  BY DEF OrElse
<1>3. h \in Cam /\ ~isCaptureRunning(h)
  BY DEF Fine, isCaptureRunning
<1>4. Started(h, MainChannel(h), q)
  BY <1>3, MainIsShown, StartIsCam DEF startPreview, MainChannel
<1>5. CASE q.ok
  <2> DEFINE g == [q.h EXCEPT !.state = "PREVIEWING"]
  <2>1. q.h \in Cam /\ Same(h, q.h) /\ SamePicture(h, q.h) /\ q.h.longshot = h.longshot
    BY <1>4 DEF Started
  <2>2. g \in Cam /\ g.state = "PREVIEWING" /\ Otherwise(q.h, g)
    BY <2>1, StateIsSet DEF State
  <2>3. Become(g)
    BY <1>1, <1>2, <1>5
  <2> HIDE DEF g
  <2>4. \A x \in Channel : g.ch[x] = IF x = MainChannel(h) THEN "started" ELSE h.ch[x]
    BY <1>4, <1>5, <2>2 DEF Started, Otherwise
  <2>5. MessagesKept(g) /\ g.live # "running"
    BY <2>1, <2>2 DEF Fine, Same, Otherwise, MessagesKept
  <2>6. g.ch["VIDEO"] # "started" /\ ~isRecording(g)
    <3>1. "VIDEO" \in Channel /\ MainChannel(h) # "VIDEO"
      BY <1>3, MainIsShown DEF Channel
    <3> QED
      BY <2>2, <2>4, <3>1 DEF Fine, isRecording
  <2>7. ASSUME Plain(g) PROVE Shape(g)
    <3>1. Plain(h) /\ Shape(h)
      BY <2>1, <2>2, <2>7 DEF Plain, Otherwise, Same, Fine
    <3>2. MainChannel(g) = MainChannel(h) /\ PreviewChannels(g) = PreviewChannels(h)
      BY <2>1, <2>2 DEF Same, Otherwise, MainChannel, PreviewChannels, isZSLPreview
    <3>3. HasOnly(h, PreviewChannels(h))
      BY <3>1 DEF Shape, ShapeOfStates
    <3>4. Shows(g)
      BY <1>3, <2>4, <3>2, <3>3, MainIsShown DEF Shows, HasOnly
    <3>5. ShapeOfStates(g)
      BY <2>2, <2>6, <3>4 DEF ShapeOfStates
    <3>6. Idle(h)
      BY <1>3, <3>1, IdleState
    <3>7. ~g.pp /\ g.pic = "none"
      BY <2>1, <2>2, <3>6 DEF Idle, SamePicture, Otherwise
    <3>8. g.longshot => g.zsl /\ g.zslNew
      BY <2>1, <2>2, <3>1 DEF Shape, Same, Otherwise
    <3> QED
      BY <3>5, <3>7, <3>8 DEF Shape
  <2>8. Fine(g)
    BY <2>2, <2>5, <2>6, <2>7, FineIs
  <2>9. ~Dirty(g) /\ g.early = cam.early /\ g.faulty = cam.faulty
    BY <2>1, <2>2 DEF Parent, Dirty, Same, Otherwise
  <2>10. Moves(e, cam, g)
    BY <2>2, <2>9, OwnMoves
  <2> QED
    BY <2>3, <2>8, <2>10, BecomeSteps
<1>6. CASE ~q.ok
  <2> DEFINE u == unpreparePreview(h)
  <2>1. q.h = h
    BY <1>4, <1>6 DEF Started
  <2>2. Become([u EXCEPT !.state = "STOPPED"])
    BY <1>1, <1>2, <1>6, <2>1 DEF Bad
  <2>3. /\ u \in Cam /\ Same(h, u) /\ SamePicture(h, u) /\ u.longshot = h.longshot
        /\ \A c \in Channel : u.ch[c] = IF c = "CAPTURE" THEN h.ch[c] ELSE "none"
    BY <1>3, UnprepareIsCam
  <2> HIDE DEF u
  <2>4. Plain(h) => Idle(u)
    BY <1>3, <2>3, IdleState DEF Idle, SamePicture
  <2>5. Resting(u)
    BY <2>3, <2>4, UnpreparedRests
  <2>6. Parent(u)
    BY <2>3 DEF Parent, Same, Dirty
  <2> QED
    BY <2>2, <2>5, <2>6, RestingSteps
<1> QED
  BY <1>5, <1>6

LEMMA WindowIsFine ==
    ASSUME Fine(cam), Parent(cam), NEW w \in BOOLEAN
    PROVE  LET g == [cam EXCEPT !.window = w]
           IN  Fine(g) /\ Parent(g) /\ g.state = cam.state
<1> DEFINE g == [cam EXCEPT !.window = w]
<1>1. g \in Cam /\ Alike(cam, g) /\ MessagesKept(g)
  BY ZenonT(60) DEF Fine, Cam, Alike, MessagesKept, Plain, Shape
<1>2. Parent(g) /\ g.state = cam.state
  BY DEF Fine, Cam, Parent, Dirty
<1> QED
  BY <1>1, <1>2, FineFrom

LEMMA SameStateSteps ==
    ASSUME NEW e \in Own \ {"TAKE_PICTURE"}, NEW g, Fine(g), Parent(g), g.state \notin {"PREPARE_SNAPSHOT", "PIC_TAKING"},
           Become(g)
    PROVE  Stepped(e)
<1>1. Moves(e, cam, g)
  BY OwnMoves DEF Parent
<1> QED
  BY <1>1, BecomeSteps

LEMMA CommitRebuilds ==
    ASSUME NEW h, Fine(h), Parent(h) \/ h = cam
    PROVE  LET g == [commitParameters(h) EXCEPT !.restart = FALSE]
           IN  /\ g \in Cam /\ g.state = h.state /\ g.ch = h.ch /\ g.live = h.live
               /\ g.zsl = h.zslNew /\ g.zslNew = h.zslNew /\ g.hint = h.hintNew /\ g.hintNew = h.hintNew
               /\ g.pp = h.pp /\ g.pic = h.pic /\ g.longshot = h.longshot
               /\ g.early = h.early /\ g.faulty = h.faulty /\ MessagesKept(g)
<1> DEFINE k == [h EXCEPT !.zsl = h.zslNew, !.hint = h.hintNew, !.restart = FALSE]
<1>1. h \in Cam
  BY DEF Fine
<1>2. [commitParameters(h) EXCEPT !.restart = FALSE] = k
  BY <1>1 DEF commitParameters, Cam
<1>3. /\ k \in Cam /\ k.state = h.state /\ k.ch = h.ch /\ k.live = h.live
      /\ k.zsl = h.zslNew /\ k.zslNew = h.zslNew /\ k.hint = h.hintNew /\ k.hintNew = h.hintNew
  BY ZenonT(60), <1>1 DEF Cam
<1>4. /\ k.pp = h.pp /\ k.pic = h.pic /\ k.longshot = h.longshot
      /\ k.early = h.early /\ k.faulty = h.faulty
  BY <1>1 DEF Cam
<1>5. MessagesKept(k)
  BY DEF Fine, Cam, MessagesKept
<1> HIDE DEF k
<1> QED
  BY <1>2, <1>3, <1>4, <1>5

\* READY.
LEMMA ReadyStep ==
    ASSUME NEW e, Fine(cam), Asked(e, cam), cam.state = "READY", PreviewReady(e, cam)
    PROVE  Stepped(e)
<1>1. CASE Msgs(e, cam)
  BY <1>1, MsgsStep
<1>2. CASE SetParams(e, cam)
  BY <1>2, SetParamsStep
<1>3. CASE /\ e = "SET_PREVIEW_WINDOW"
           /\ \E w \in BOOLEAN : LET g == [cam EXCEPT !.window = w] IN
                IF w THEN ReadyStart(e, g) ELSE Answer(e, TRUE, g)
  <2>1. PICK w \in BOOLEAN : LET g == [cam EXCEPT !.window = w] IN
                IF w THEN ReadyStart(e, g) ELSE Become(g)
    BY <1>3 DEF Answer
  <2> DEFINE g == [cam EXCEPT !.window = w]
  <2>2. e \in Own \ {"TAKE_PICTURE", "COMMIT_PARAMS"}
    BY <1>3 DEF Own, Api
  <2>3. Parent(cam)
    BY <2>2, CleanParent
  <2>4. Fine(g) /\ Parent(g) /\ g.state = "READY"
    BY <2>3, WindowIsFine
  <2>5. ReadyStart(e, g) \/ Become(g)
    BY <2>1
  <2> HIDE DEF g
  <2> QED
    BY <2>2, <2>4, <2>5, ReadyStartSteps, SameStateSteps
<1>4. CASE e = "COMMIT_PARAMS" /\ ~cam.restart /\ Answer(e, TRUE, [commitParameters(cam) EXCEPT !.restart = FALSE])
  <2>1. ~Dirty(cam)
    BY <1>4 DEF Asked
  <2> QED
    BY <1>4, <2>1, CommitSteps DEF Answer
<1>5. CASE /\ e = "COMMIT_PARAMS"
           /\ Decide(e, preparePreview(unpreparePreview([commitParameters(cam) EXCEPT !.restart = FALSE])), "READY", "STOPPED")
  <2> DEFINE g == [commitParameters(cam) EXCEPT !.restart = FALSE]
             u == unpreparePreview(g)
  <2>1. /\ g \in Cam /\ g.state = cam.state /\ g.ch = cam.ch /\ g.live = cam.live
        /\ g.zsl = cam.zslNew /\ g.zslNew = cam.zslNew /\ g.hint = cam.hintNew /\ g.hintNew = cam.hintNew
        /\ g.pp = cam.pp /\ g.pic = cam.pic /\ g.longshot = cam.longshot
        /\ g.early = cam.early /\ g.faulty = cam.faulty /\ MessagesKept(g)
    BY CommitRebuilds
  <2>2. Decide(e, preparePreview(u), "READY", "STOPPED")
    BY <1>5
  <2> HIDE DEF g
  <2>3. /\ u \in Cam /\ Same(g, u) /\ SamePicture(g, u) /\ u.longshot = g.longshot
        /\ \A c \in Channel : u.ch[c] = IF c = "CAPTURE" THEN g.ch[c] ELSE "none"
    BY <2>1, UnprepareIsCam
  <2> HIDE DEF u
  <2>4. ~isCaptureRunning(cam) /\ NotLongshot(u)
    BY <2>1, <2>3 DEF isCaptureRunning, Same, NotLongshot
  <2>5. Parent(u)
    BY <2>1, <2>3 DEF Parent, Same, Dirty
  <2>6. Plain(u) => Plain(cam) /\ Shape(cam) /\ Idle(cam)
    BY <2>1, <2>3, <2>4, IdleState DEF Same, Plain, Fine
  <2>7. Plain(u) => HasOnly(u, {}) /\ LongshotIsZsl(u) /\ Idle(u)
    <3> SUFFICES ASSUME Plain(u) PROVE HasOnly(u, {}) /\ LongshotIsZsl(u) /\ Idle(u)
      OBVIOUS
    <3>1. cam.ch["CAPTURE"] = "none"
      <4>1. "CAPTURE" \in Channel /\ "CAPTURE" \notin PreviewChannels(cam)
        BY DEF Channel, PreviewChannels
      <4> QED
        BY <2>6, <4>1 DEF Shape, ShapeOfStates, HasOnly
    <3>2. HasOnly(u, {})
      BY <2>1, <2>3, <3>1 DEF HasOnly
    <3>3. LongshotIsZsl(u)
      BY <2>1, <2>3, <2>6 DEF LongshotIsZsl, Shape, Same
    <3> QED
      BY <2>1, <2>3, <2>6, <3>2, <3>3 DEF Idle, SamePicture
  <2>8. MessagesKept(u) /\ u.live # "running" /\ u.ch["VIDEO"] # "started"
    BY <2>1, <2>3 DEF MessagesKept, Same, Fine, Channel
  <2>9. Bringable(u)
    BY <2>3, <2>4, <2>5, <2>7, <2>8 DEF Bringable, Parent
  <2>10. e \in Own \ {"TAKE_PICTURE"}
    BY <1>5 DEF Own, Api
  <2> QED
    BY <2>2, <2>4, <2>5, <2>7, <2>9, <2>10, DecidePrepare
<1>6. CASE Longshot(e, cam)
  <2>1. e \in Own \ {"COMMIT_PARAMS"}
    BY <1>6 DEF Longshot, Own, Api
  <2> QED
    BY <1>6, <2>1, CleanParent, LongshotStep DEF Asked, Plain
<1>7. CASE e = "START_PREVIEW" /\ IF cam.window THEN ReadyStart(e, cam) ELSE Answer(e, TRUE, cam)
  <2>1. e \in Own \ {"TAKE_PICTURE", "COMMIT_PARAMS"}
    BY <1>7 DEF Own, Api
  <2>2. Parent(cam)
    BY <2>1, CleanParent
  <2> QED
    BY <1>7, <2>1, <2>2, ReadyStartSteps, SameStateSteps DEF Answer
<1>8. CASE e = "STOP_PREVIEW" /\ Answer(e, TRUE, [unpreparePreview(cam) EXCEPT !.state = "STOPPED"])
  <2> DEFINE u == unpreparePreview(cam)
  <2>1. e \in Own \ {"TAKE_PICTURE", "COMMIT_PARAMS"}
    BY <1>8 DEF Own, Api
  <2>2. Become([u EXCEPT !.state = "STOPPED"])
    BY <1>8 DEF Answer
  <2>3. /\ u \in Cam /\ Same(cam, u) /\ SamePicture(cam, u) /\ u.longshot = cam.longshot
        /\ \A c \in Channel : u.ch[c] = IF c = "CAPTURE" THEN cam.ch[c] ELSE "none"
    BY UnprepareIsCam DEF Fine
  <2> HIDE DEF u
  <2>4. Plain(cam) => Idle(u)
    BY <2>3, IdleState DEF Idle, SamePicture, isCaptureRunning
  <2>5. Resting(u)
    BY <2>3, <2>4, UnpreparedRests
  <2>6. Parent(cam)
    BY <2>1, CleanParent
  <2>7. Parent(u)
    BY <2>3, <2>6 DEF Parent, Same, Dirty
  <2> QED
    BY <2>1, <2>2, <2>5, <2>7, RestingSteps
<1>9. CASE SnapshotDone(e, cam)
  BY <1>9, SnapshotDoneStep
<1> QED
  <2> DEFINE A == {"PREVIEW_ENABLED"}
             B == {"PRE_START_RECORDING", "START_RECORDING", "STOP_RECORDING",
                      "PREPARE_SNAPSHOT", "PRE_TAKE_PICTURE", "TAKE_PICTURE",
                      "CANCEL_PICTURE", "RELEASE"}
             C == {"STOP_CAPTURE_CHANNEL", "PREP_SNAPSHOT_DONE"}
  <2>1. "COMMIT_PARAMS" \notin A /\ "COMMIT_PARAMS" \notin B /\ "COMMIT_PARAMS" \notin C
    OBVIOUS
  <2>2. CASE Accepted(e, cam, A) \/ Refused(e, cam, B) \/ Ignored(e, cam, C)
    <3> HIDE DEF A, B, C
    <3> QED
      BY <2>1, <2>2, RefusedSteps
  <2> QED
    BY <1>1, <1>2, <1>3, <1>4, <1>5, <1>6, <1>7, <1>8, <1>9, <2>2 DEF PreviewReady, ReadyParams

LEMMA Rebuildable ==
    ASSUME NEW h, Fine(h), h.state \in {"PREVIEWING", "PREVIEW_PIC_TAKING"}, h.faulty = cam.faulty,
           NEW k, k = stopPreview(h), NEW g \in Cam, g.state = k.state, g.ch = k.ch, g.live = k.live,
           g.pp = k.pp, g.pic = k.pic, g.early = k.early, g.faulty = k.faulty, MessagesKept(g),
           Plain(h) => LongshotIsZsl(g) /\ NotLongshot(g)
    PROVE  Bringable(g) /\ (Plain(g) /\ h.state = "PREVIEWING" => Idle(g))
<1>1. /\ k \in Cam /\ Same(h, k)
      /\ \A c \in Channel : k.ch[c] = IF c = "CAPTURE" THEN h.ch[c] ELSE "none"
      /\ k.pp = h.pp /\ k.longshot = h.longshot /\ k.pic \in {"none", h.pic}
  BY StopPreviewIsCam DEF Fine
<1>2. g.live # "running" /\ g.ch["VIDEO"] # "started" /\ g.faulty = cam.faulty
  BY <1>1 DEF Fine, Same, Channel
<1>3. ASSUME Plain(g) PROVE HasOnly(g, {}) /\ LongshotIsZsl(g) /\ NotLongshot(g)
  <2>1. Plain(h) /\ Shape(h)
    BY <1>1, <1>3 DEF Plain, Same, Fine
  <2>2. h.ch["CAPTURE"] = "none"
    <3>1. "CAPTURE" \in Channel /\ "CAPTURE" \notin PreviewChannels(h)
      BY DEF Channel, PreviewChannels
    <3> QED
      BY <2>1, <3>1 DEF Shape, ShapeOfStates, HasOnly, Shows, isRecording
  <2>3. HasOnly(g, {})
    BY <1>1, <2>2 DEF HasOnly
  <2> QED
    BY <2>1, <2>3
<1>4. ASSUME Plain(g), h.state = "PREVIEWING" PROVE Idle(g)
  <2>1. Plain(h)
    BY <1>1, <1>4 DEF Plain, Same
  <2>2. Idle(h)
    BY <1>4, <2>1, IdleState DEF isCaptureRunning
  <2> QED
    BY <1>1, <2>2 DEF Idle
<1> QED
  BY <1>2, <1>3, <1>4 DEF Bringable

LEMMA RestartStep ==
    ASSUME NEW e, Fine(cam), Asked(e, cam), NEW lost \in {"STOPPED", "PIC_TAKING"},
           cam.state \in {"PREVIEWING", "PREVIEW_PIC_TAKING"}, Restart(e, cam, lost)
    PROVE  Stepped(e)
<1>0. e = "COMMIT_PARAMS" /\ e \in Own \ {"TAKE_PICTURE"}
  BY DEF Restart, Own, Api
<1> DEFINE x == [cam EXCEPT !.restart = FALSE]
           k == stopPreview(x)
           g == commitParameters(k)
<1>1. x \in Cam /\ Alike(cam, x) /\ MessagesKept(x)
  BY ZenonT(60) DEF Fine, Cam, Alike, MessagesKept, Plain, Shape
<1>2. /\ x.faulty = cam.faulty /\ x.early = cam.early /\ x.state = cam.state
      /\ x.zslNew = cam.zslNew /\ x.hintNew = cam.hintNew /\ x.longshot = cam.longshot
  BY DEF Fine, Cam
<1>3. CASE cam.restart /\ Decide(e, Bring(g), cam.state, lost)
  <2>1. Fine(x)
    BY <1>1, FineFrom
  <2> HIDE DEF x
  <2>2. /\ k \in Cam /\ Same(x, k) /\ k.longshot = x.longshot
    BY <1>1, StopPreviewIsCam
  <2>3. /\ g \in Cam /\ g.state = k.state /\ g.ch = k.ch /\ g.live = k.live
        /\ g.pp = k.pp /\ g.pic = k.pic /\ g.early = k.early /\ g.faulty = k.faulty
    <3> HIDE DEF k
    <3> QED
      BY <2>2 DEF Cam, commitParameters
  <2>4. /\ g.longshot = k.longshot /\ g.zsl = k.zslNew /\ g.zslNew = k.zslNew
        /\ g.hint = k.hintNew /\ g.hintNew = k.hintNew
        /\ g.msgs = k.msgs /\ g.delayed = k.delayed /\ g.wanted = k.wanted
    <3> HIDE DEF k
    <3> QED
      BY <2>2 DEF Cam, commitParameters
  <2>5. MessagesKept(g)
    BY <1>1, <2>2, <2>4 DEF MessagesKept, Same
  <2> HIDE DEF g
  <2>6. Parent(g)
    BY <1>2, <2>2, <2>3, <2>4 DEF Parent, Same, Dirty
  <2>7. Plain(x) => LongshotIsZsl(g)
    BY <2>1, <2>2, <2>4 DEF Fine, Shape, LongshotIsZsl, Same
  <2>8. cam.state = "PREVIEW_PIC_TAKING" /\ Plain(x) => g.zsl /\ ~g.hint
    <3> SUFFICES ASSUME cam.state = "PREVIEW_PIC_TAKING", Plain(x) PROVE g.zsl /\ ~g.hint
      OBVIOUS
    <3>1. ~Dirty(cam)
      BY DEF Asked, Quiescent
    <3>2. cam.zsl /\ ~cam.hint
      BY <1>2 DEF Fine, Shape, ShapeOfStates, Plain
    <3> QED
      BY <1>2, <2>2, <2>4, <3>1, <3>2 DEF Same, Dirty, Plain
  <2>9. g.state = cam.state
    BY <1>2, <2>2, <2>3 DEF Same
  <2>10. Plain(x) => NotLongshot(g)
    BY <2>8, <2>9 DEF NotLongshot, isCaptureRunning
  <2> HIDE DEF k
  <2>11. k = stopPreview(x)
    BY DEF k
  <2>12. Bringable(g) /\ (Plain(g) /\ cam.state = "PREVIEWING" => Idle(g))
    BY <1>2, <2>1, <2>3, <2>5, <2>7, <2>10, <2>11, Rebuildable
  <2>13. Plain(g) => Plain(x)
    BY <2>2, <2>3 DEF Plain, Same
  <2> QED
    BY <1>0, <1>3, <2>6, <2>8, <2>12, <2>13, DecideBring
<1>4. CASE ~cam.restart /\ Answer(e, TRUE, commitParameters(x))
  <2>1. ~Dirty(cam)
    BY <1>4 DEF Asked
  <2> QED
    BY <1>0, <1>4, <2>1, CommitSteps DEF Answer
<1> QED
  BY <1>3, <1>4 DEF Restart

\* Only the messages differ.
Undisturbed(h, g) ==
    /\ g.state = h.state /\ g.ch = h.ch /\ g.live = h.live /\ g.longshot = h.longshot
    /\ g.zsl = h.zsl /\ g.zslNew = h.zslNew /\ g.hint = h.hint /\ g.hintNew = h.hintNew
    /\ g.restart = h.restart /\ g.early = h.early /\ g.faulty = h.faulty
    /\ g.pp = h.pp /\ g.pic = h.pic

LEMMA DelayedAreApplied ==
    ASSUME NEW h \in Cam
    PROVE  LET g == applyDelayedMsgs(h)
           IN  g \in Cam /\ Undisturbed(h, g) /\ (MessagesKept(h) => MessagesKept(g))
<1>1. CASE h.delay
  <2> DEFINE m == h.msgs \/ h.delayed
             g == [h EXCEPT !.msgs = m, !.delay = FALSE, !.delayed = FALSE]
  <2>1. applyDelayedMsgs(h) = g
    BY <1>1 DEF applyDelayedMsgs
  <2>2. m \in BOOLEAN
    OBVIOUS
  <2>6. MessagesKept(h) => (h.wanted => m)
    BY DEF MessagesKept
  <2> HIDE DEF m
  <2>3. g \in Cam
    BY <2>2 DEF Cam
  <2>4. Undisturbed(h, g)
    BY DEF Cam, Undisturbed
  <2>5. MessagesKept(h) => MessagesKept(g)
    BY <2>6 DEF Cam, MessagesKept
  <2> HIDE DEF g
  <2> QED
    BY <2>1, <2>3, <2>4, <2>5
<1>2. CASE ~h.delay
  BY <1>2 DEF applyDelayedMsgs, Undisturbed
<1> QED
  BY <1>1, <1>2

LEMMA UndisturbedIsFine ==
    ASSUME NEW h, Fine(h), NEW g \in Cam, Undisturbed(h, g), MessagesKept(g)
    PROVE  Fine(g) /\ (Parent(h) => Parent(g))
<1>1. Alike(h, g)
  BY DEF Undisturbed, Alike, Fine, Shape
<1>2. Parent(h) => Parent(g)
  BY DEF Undisturbed, Parent, Dirty
<1> QED
  BY <1>1, <1>2, FineFrom

LEMMA PreviewingMsgsStep ==
    ASSUME NEW e, Fine(cam), Asked(e, cam), cam.state = "PREVIEWING", PreviewingMsgs(e, cam)
    PROVE  Stepped(e)
<1> DEFINE a == [cam EXCEPT !.delayed = TRUE, !.wanted = TRUE]
           b == [cam EXCEPT !.msgs = TRUE, !.wanted = TRUE]
           y == cam.delay /\ ~cam.delayed
           z == cam.delayed /\ ~cam.delay
           c == [cam EXCEPT !.msgs = FALSE, !.wanted = FALSE, !.delay = y, !.delayed = z]
<1>1. e \in Own \ {"TAKE_PICTURE", "COMMIT_PARAMS"}
  BY DEF PreviewingMsgs, Own, Api
<1>2. Parent(cam)
  BY <1>1, CleanParent
<1>3. Become(a) \/ Become(b) \/ Become(c)
  BY DEF PreviewingMsgs, Answer
<1>4. /\ a \in Cam /\ Undisturbed(cam, a) /\ MessagesKept(a)
      /\ b \in Cam /\ Undisturbed(cam, b) /\ MessagesKept(b)
  BY DEF Fine, Cam, Undisturbed, MessagesKept
<1>5. y \in BOOLEAN /\ z \in BOOLEAN
  OBVIOUS
<1> HIDE DEF y, z
<1>6. c \in Cam /\ Undisturbed(cam, c) /\ MessagesKept(c)
  <2>1. c \in Cam
    BY ZenonT(60), <1>5 DEF Fine, Cam
  <2>2. Undisturbed(cam, c)
    BY ZenonT(60) DEF Fine, Cam, Undisturbed
  <2>3. MessagesKept(c)
    BY ZenonT(60) DEF Fine, Cam, MessagesKept
  <2> QED
    BY <2>1, <2>2, <2>3
<1> HIDE DEF a, b, c
<1>7. \A g : (g = a \/ g = b \/ g = c) => Fine(g) /\ Parent(g) /\ g.state = "PREVIEWING"
  BY <1>2, <1>4, <1>6, UndisturbedIsFine DEF Undisturbed
<1> QED
  BY <1>1, <1>3, <1>7, SameStateSteps

LEMMA HintRebuilds ==
    ASSUME Fine(cam), Parent(cam), cam.state \in {"PREVIEWING", "PREVIEW_PIC_TAKING"},
           Plain(cam) => cam.state = "PREVIEWING", NEW v \in BOOLEAN
    PROVE  LET u == updateRecordingHintValue(stopPreview(cam), v)
           IN  Bringable(u) /\ Parent(u) /\ u.state = cam.state /\ u.hint = v /\ (Plain(u) => Idle(u))
<1> DEFINE k == stopPreview(cam)
           x == [k EXCEPT !.hintNew = v]
           u == commitParameters(x)
<1>1. /\ k \in Cam /\ Same(cam, k) /\ k.longshot = cam.longshot
  BY StopPreviewIsCam DEF Fine
<1> HIDE DEF k
<1>2. /\ x \in Cam /\ x.state = k.state /\ x.ch = k.ch /\ x.live = k.live
      /\ x.pp = k.pp /\ x.pic = k.pic /\ x.early = k.early /\ x.faulty = k.faulty
      /\ x.longshot = k.longshot /\ x.zslNew = k.zslNew /\ x.hintNew = v
      /\ x.msgs = k.msgs /\ x.delayed = k.delayed /\ x.wanted = k.wanted
  BY <1>1 DEF Cam
<1> HIDE DEF x
<1>3. /\ u \in Cam /\ u.state = x.state /\ u.ch = x.ch /\ u.live = x.live
      /\ u.pp = x.pp /\ u.pic = x.pic /\ u.early = x.early /\ u.faulty = x.faulty
  BY <1>2 DEF Cam, commitParameters
<1>4. /\ u.longshot = x.longshot /\ u.zsl = x.zslNew /\ u.zslNew = x.zslNew
      /\ u.hint = x.hintNew /\ u.hintNew = x.hintNew
      /\ u.msgs = x.msgs /\ u.delayed = x.delayed /\ u.wanted = x.wanted
  BY <1>2 DEF Cam, commitParameters
<1> HIDE DEF u
<1>5. MessagesKept(u)
  BY <1>1, <1>2, <1>4 DEF MessagesKept, Same, Fine
<1>6. Parent(u) /\ u.state = cam.state
  BY <1>1, <1>2, <1>3, <1>4 DEF Parent, Same, Dirty
<1>7. Plain(cam) => LongshotIsZsl(u) /\ NotLongshot(u)
  BY <1>1, <1>2, <1>4, <1>6 DEF Fine, Shape, LongshotIsZsl, Same, NotLongshot, isCaptureRunning
<1>8. u.ch = k.ch /\ u.live = k.live /\ u.pp = k.pp /\ u.pic = k.pic /\ u.early = k.early
      /\ u.faulty = k.faulty /\ u.state = k.state
  BY <1>2, <1>3
<1>9. k = stopPreview(cam)
  BY DEF k
<1>10. Bringable(u) /\ (Plain(u) /\ cam.state = "PREVIEWING" => Idle(u))
  BY <1>3, <1>5, <1>7, <1>8, <1>9, Rebuildable
<1>11. Plain(u) => Plain(cam)
  BY <1>6 DEF Parent, Plain
<1>12. u = updateRecordingHintValue(stopPreview(cam), v)
  BY DEF updateRecordingHintValue, u, x, k
<1> QED
  BY <1>2, <1>4, <1>6, <1>10, <1>11, <1>12

LEMMA PreStartStep ==
    ASSUME NEW e \in Own \ {"TAKE_PICTURE", "COMMIT_PARAMS"}, Fine(cam), Asked(e, cam),
           cam.state \in {"PREVIEWING", "PREVIEW_PIC_TAKING"}, Plain(cam) => cam.state = "PREVIEWING",
           AnswerOne(e, preStartRecording(cam)) \/ AnswerOne(e, preTakePicture(cam))
    PROVE  Stepped(e)
<1> DEFINE u(v) == updateRecordingHintValue(stopPreview(cam), v)
<1>1. Parent(cam)
  BY CleanParent
<1>2. \A v \in BOOLEAN : Bringable(u(v)) /\ Parent(u(v)) /\ u(v).state = cam.state /\ (Plain(u(v)) => Idle(u(v)))
  BY <1>1, HintRebuilds
<1>3. \/ AnswerOne(e, {Ok(cam)})
      \/ AnswerOne(e, BringAnyhow(u(TRUE)))
      \/ AnswerOne(e, Bring(u(FALSE)))
  BY DEF preStartRecording, preTakePicture
<1> HIDE DEF u
<1>4. CASE AnswerOne(e, {Ok(cam)})
  <2>1. Become(cam)
    BY <1>4 DEF AnswerOne, Answer, Ok
  <2> QED
    BY <2>1, <1>1, SameStateSteps
<1>5. \A v \in BOOLEAN : Plain(u(v)) => u(v).state = "PREVIEWING" /\ Idle(u(v))
  BY <1>2 DEF Parent, Plain
<1>6. CASE AnswerOne(e, BringAnyhow(u(TRUE)))
  <2> DEFINE h == u(TRUE)
             S == BringAnyhow(h)
  <2>1. Bringable(h) /\ Parent(h) /\ h.state \in {"PREVIEWING", "PREVIEW_PIC_TAKING"}
        /\ (Plain(h) => h.state = "PREVIEWING" /\ Idle(h))
    BY <1>2, <1>5
  <2>2. AnswerOne(e, S)
    BY <1>6
  <2> HIDE DEF h
  <2> QED
    BY <2>1, <2>2, AnswerBring
<1>7. CASE AnswerOne(e, Bring(u(FALSE)))
  <2> DEFINE h == u(FALSE)
             S == Bring(h)
  <2>1. Bringable(h) /\ Parent(h) /\ h.state \in {"PREVIEWING", "PREVIEW_PIC_TAKING"}
        /\ (Plain(h) => h.state = "PREVIEWING" /\ Idle(h))
    BY <1>2, <1>5
  <2>2. AnswerOne(e, S)
    BY <1>7
  <2> HIDE DEF h
  <2> QED
    BY <2>1, <2>2, AnswerBring
<1> QED
  BY <1>3, <1>4, <1>6, <1>7

-----------------------------------------------------------------------------
(* Previewing: recording, a flash and a picture begin.                      *)

LEMMA StopPreviewSteps ==
    ASSUME NEW e \in Own \ {"TAKE_PICTURE"}, Fine(cam), Parent(cam), cam.state = "PREVIEWING",
           Become([applyDelayedMsgs(stopPreview(cam)) EXCEPT !.state = "STOPPED"])
    PROVE  Stepped(e)
<1> DEFINE k == stopPreview(cam)
           g == applyDelayedMsgs(k)
<1>1. /\ k \in Cam /\ Same(cam, k) /\ k.longshot = cam.longshot
      /\ \A c \in Channel : k.ch[c] = IF c = "CAPTURE" THEN cam.ch[c] ELSE "none"
      /\ k.pp = cam.pp /\ k.pic \in {"none", cam.pic}
  BY StopPreviewIsCam DEF Fine
<1> HIDE DEF k
<1>2. Plain(cam) => Idle(k)
  BY <1>1, IdleState DEF Idle, isCaptureRunning
<1>3. Resting(k)
  BY <1>1, <1>2, UnpreparedRests
<1>4. g \in Cam /\ Undisturbed(k, g) /\ MessagesKept(g)
  BY <1>3, DelayedAreApplied DEF Resting
<1>5. Become([g EXCEPT !.state = "STOPPED"])
  BY DEF k
<1> HIDE DEF g
<1>6. Resting(g)
  BY <1>3, <1>4 DEF Resting, Undisturbed, Plain, HasOnly, LongshotIsZsl, Idle
<1>7. Parent(g)
  BY <1>1, <1>4 DEF Parent, Same, Undisturbed, Dirty
<1> QED
  BY <1>5, <1>6, <1>7, RestingSteps

LEMMA StartRecordingStep ==
    ASSUME NEW e, e = "START_RECORDING", Fine(cam), Asked(e, cam), cam.state = "PREVIEWING",
           NEW r \in startRecording(cam),
           IF r.ok THEN Answer(e, TRUE, [applyDelayedMsgs(r.h) EXCEPT !.state = "RECORDING"])
                   ELSE Answer(e, FALSE, r.h)
    PROVE  Stepped(e)
<1>1. e \in Own \ {"TAKE_PICTURE", "COMMIT_PARAMS"}
  BY DEF Own, Api
<1>2. Parent(cam) /\ cam \in Cam
  BY <1>1, CleanParent DEF Fine
<1>3. Started(cam, "VIDEO", r)
  BY <1>2, StartIsCam DEF startRecording, Channel
<1>4. CASE ~r.ok
  <2>1. Become(cam)
    BY <1>3, <1>4 DEF Started, Answer
  <2> QED
    BY <1>1, <1>2, <2>1, SameStateSteps
<1>5. CASE r.ok
  <2> DEFINE a == applyDelayedMsgs(r.h)
             g == [a EXCEPT !.state = "RECORDING"]
  <2>1. r.h \in Cam /\ Same(cam, r.h) /\ SamePicture(cam, r.h) /\ r.h.longshot = cam.longshot
        /\ \A x \in Channel : r.h.ch[x] = IF x = "VIDEO" THEN "started" ELSE cam.ch[x]
    BY <1>3, <1>5 DEF Started
  <2>2. MessagesKept(r.h)
    BY <2>1 DEF Fine, Same, MessagesKept
  <2>3. a \in Cam /\ Undisturbed(r.h, a) /\ MessagesKept(a)
    BY <2>1, <2>2, DelayedAreApplied
  <2>4. Become(g)
    BY <1>5 DEF Answer
  <2> HIDE DEF a
  <2>5. g \in Cam /\ g.state = "RECORDING" /\ Otherwise(a, g)
    BY <2>3, StateIsSet DEF State
  <2> HIDE DEF g
  <2>6. \A x \in Channel : g.ch[x] = IF x = "VIDEO" THEN "started" ELSE cam.ch[x]
    BY <2>1, <2>3, <2>5 DEF Undisturbed, Otherwise
  <2>7. /\ g.zsl = cam.zsl /\ g.zslNew = cam.zslNew /\ g.hint = cam.hint /\ g.hintNew = cam.hintNew
        /\ g.early = cam.early /\ g.faulty = cam.faulty /\ g.live = cam.live
        /\ g.longshot = cam.longshot /\ g.pp = cam.pp /\ g.pic = cam.pic
    BY <2>1, <2>3, <2>5 DEF Undisturbed, Otherwise, Same, SamePicture
  <2>8. MessagesKept(g)
    BY <2>3, <2>5 DEF MessagesKept, Otherwise
  <2>9. isRecording(g) /\ g.ch["VIDEO"] = "started"
    BY <2>5, <2>6 DEF isRecording, Channel
  <2>10. g.live # "running"
    BY <2>7 DEF Fine
  <2>11. ASSUME Plain(g) PROVE Shape(g)
    <3>1. Plain(cam) /\ Shape(cam) /\ Shows(cam)
      BY <2>7, <2>11 DEF Plain, Fine, Shape, ShapeOfStates
    <3>2. cam.ch["VIDEO"] # "none"
      BY <1>3, <1>5 DEF Started
    <3>3. "VIDEO" \in PreviewChannels(cam)
      BY <3>1, <3>2 DEF Shows, HasOnly, Channel
    <3>4. cam.hint
      BY <3>3 DEF PreviewChannels
    <3>5. PreviewChannels(g) = PreviewChannels(cam) /\ MainChannel(g) = MainChannel(cam)
      BY <2>7 DEF PreviewChannels, MainChannel, isZSLPreview
    <3>6. Shows(g)
      BY <1>2, <2>6, <3>1, <3>3, <3>5, MainIsShown DEF Shows, HasOnly
    <3>7. Idle(cam)
      BY <3>1, IdleState DEF isCaptureRunning
    <3>8. ShapeOfStates(g)
      BY <2>5, <2>7, <3>4, <3>6 DEF ShapeOfStates
    <3> QED
      BY <2>7, <3>1, <3>7, <3>8 DEF Shape, Idle
  <2>12. Fine(g)
    BY <2>5, <2>8, <2>9, <2>10, <2>11, FineIs
  <2>13. ~Dirty(g) /\ g.early = cam.early /\ g.faulty = cam.faulty
    BY <1>2, <2>7 DEF Parent, Dirty
  <2>14. Moves(e, cam, g)
    BY <1>1, <2>5, <2>13, OwnMoves
  <2> QED
    BY <2>4, <2>12, <2>14, BecomeSteps
<1> QED
  BY <1>4, <1>5

LEMMA PrepareSnapshotStep ==
    ASSUME NEW e, Fine(cam), Asked(e, cam), cam.state = "PREVIEWING", PrepareSnapshot(e, cam)
    PROVE  Stepped(e)
<1>1. e \in Own \ {"TAKE_PICTURE", "COMMIT_PARAMS"} /\ e = "PREPARE_SNAPSHOT"
  BY DEF PrepareSnapshot, Own, Api
<1>2. Parent(cam) /\ cam \in Cam /\ MessagesKept(cam)
  BY <1>1, CleanParent DEF Fine, MessagesKept
<1> DEFINE a == applyDelayedMsgs(cam)
           b == [a EXCEPT !.preparing = TRUE]
           g == [a EXCEPT !.state = "PREPARE_SNAPSHOT", !.preparing = TRUE]
<1>3. Become(g) \/ Become(cam)
  BY DEF PrepareSnapshot, Quiet, Answer
<1>4. a \in Cam /\ Undisturbed(cam, a) /\ MessagesKept(a)
  BY <1>2, DelayedAreApplied
<1> HIDE DEF a
<1>5. /\ g \in Cam /\ g.state = "PREPARE_SNAPSHOT" /\ g.ch = a.ch /\ g.live = a.live
      /\ g.zsl = a.zsl /\ g.zslNew = a.zslNew /\ g.hint = a.hint /\ g.hintNew = a.hintNew
      /\ g.longshot = a.longshot /\ g.pp = a.pp /\ g.pic = a.pic
      /\ g.early = a.early /\ g.faulty = a.faulty
  BY <1>4 DEF Cam, State
<1>6. MessagesKept(g)
  BY <1>4 DEF Cam, MessagesKept
<1> HIDE DEF g
<1>7. /\ g.ch = cam.ch /\ g.live = cam.live /\ g.zsl = cam.zsl /\ g.zslNew = cam.zslNew
      /\ g.hint = cam.hint /\ g.hintNew = cam.hintNew /\ g.longshot = cam.longshot
      /\ g.pp = cam.pp /\ g.pic = cam.pic /\ g.early = cam.early /\ g.faulty = cam.faulty
  BY <1>4, <1>5 DEF Undisturbed
<1>8. ~isRecording(g) /\ ~isCaptureRunning(g) /\ ~isRecording(cam) /\ ~isCaptureRunning(cam)
  BY <1>5 DEF isRecording, isCaptureRunning
<1>9. ASSUME Plain(g) PROVE Shape(g)
  <2>1. Shape(cam) /\ Shows(cam)
    BY <1>7, <1>9 DEF Plain, Fine, Shape, ShapeOfStates
  <2>2. Shows(g)
    BY <1>7, <2>1 DEF Shows, HasOnly, PreviewChannels, MainChannel, isZSLPreview
  <2>3. ShapeOfStates(g)
    BY <1>5, <1>8, <2>2 DEF ShapeOfStates
  <2> QED
    BY <1>7, <1>8, <2>1, <2>3 DEF Shape
<1>10. Fine(g)
  BY <1>5, <1>6, <1>7, <1>8, <1>9, FineIs DEF Fine
<1>11. Moves(e, cam, g)
  <2>1. ~Dirty(g)
    BY <1>2, <1>7 DEF Parent, Dirty
  <2> QED
    BY <1>1, <1>5, <1>7, <2>1 DEF Moves
<1> QED
  BY <1>1, <1>2, <1>3, <1>10, <1>11, BecomeSteps, SameStateSteps

\* A camera whose preview may give way to a picture.
Pictured(g) == Fine(g) /\ Parent(g) /\ g.state = "PREVIEWING" /\ (Plain(g) => ~g.hint)

LEMMA PicturableIsFine ==
    ASSUME Fine(cam), Parent(cam), cam.state = "PREVIEWING", NEW g \in Picturable(cam)
    PROVE  Pictured(g)
<1>1. CASE cam.hint
  <2> DEFINE u == updateRecordingHintValue(stopPreview(cam), FALSE)
  <2>1. Bringable(u) /\ Parent(u) /\ u.state = cam.state /\ u.hint = FALSE /\ (Plain(u) => Idle(u))
    BY HintRebuilds
  <2>2. PICK r \in Bring(u) : g = r.h
    BY <1>1 DEF Picturable
  <2> HIDE DEF u
  <2>3. Brought(u, r) /\ g \in Cam /\ g.state = "PREVIEWING" /\ Otherwise(r.h, g)
    BY <2>1, <2>2, BringIsCam DEF Bringable, Brought, Same, Otherwise
  <2>4. Fine(g)
    BY <2>1, <2>3, BroughtIsFine DEF State, isRecording
  <2>5. Parent(g) /\ ~g.hint
    BY <2>1, <2>2, <2>3 DEF Parent, Dirty, Brought, Same
  <2> QED
    BY <2>3, <2>4, <2>5 DEF Pictured
<1>2. CASE ~cam.hint
  BY <1>2 DEF Picturable, Pictured
<1> QED
  BY <1>1, <1>2

LEMMA TakeMoves ==
    ASSUME cam.state = "PREVIEWING", NEW g, ~Dirty(g), g.early = cam.early, g.faulty = cam.faulty,
           g.state # "PREPARE_SNAPSHOT"
    PROVE  Moves("TAKE_PICTURE", cam, g)
  BY DEF Moves, Own, Api

LEMMA TakeOverPreview ==
    ASSUME Fine(cam), cam.state = "PREVIEWING", NEW g, Pictured(g), g.zsl \/ g.longshot,
           Decide("TAKE_PICTURE", takePicture([g EXCEPT !.delay = TRUE]), "PREVIEW_PIC_TAKING", "PREVIEWING")
    PROVE  Stepped("TAKE_PICTURE")
<1> DEFINE j == [g EXCEPT !.delay = TRUE]
<1>1. j \in Cam /\ Undisturbed(g, j) /\ MessagesKept(j)
  BY ZenonT(60) DEF Pictured, Fine, Cam, Undisturbed, MessagesKept
<1>2. PICK r \in takePicture(j) :
         Become([r.h EXCEPT !.state = IF r.ok THEN "PREVIEW_PIC_TAKING" ELSE "PREVIEWING"])
  BY DecideBecomes
<1> HIDE DEF j
<1>3. Fine(j) /\ Parent(j) /\ j.state = "PREVIEWING" /\ (Plain(j) => ~j.hint) /\ (j.zsl \/ j.longshot)
  <2>1. Fine(j) /\ Parent(j)
    BY <1>1, UndisturbedIsFine DEF Pictured
  <2> QED
    BY <1>1, <2>1 DEF Pictured, Undisturbed, Plain
<1>4. Taken(j, r) /\ r.h \in Cam
  BY <1>1, TakeZslIsCam, TakeFrameIsCam DEF Taken
<1> DEFINE s == IF r.ok THEN "PREVIEW_PIC_TAKING" ELSE "PREVIEWING"
           k == [r.h EXCEPT !.state = s]
<1>5. s \in State
  BY DEF State
<1>6. k \in Cam /\ k.state = s /\ Otherwise(r.h, k)
  BY <1>4, <1>5, StateIsSet
<1>7. Become(k)
  BY <1>2
<1> HIDE DEF k
<1>8. /\ k.zsl = j.zsl /\ k.zslNew = j.zslNew /\ k.hint = j.hint /\ k.hintNew = j.hintNew
      /\ k.early = j.early /\ k.faulty = j.faulty /\ k.live = j.live /\ k.longshot = j.longshot
      /\ k.ch["VIDEO"] = j.ch["VIDEO"] /\ k.ch = r.h.ch
  BY <1>4, <1>6 DEF Taken, Same, Otherwise
<1>9. MessagesKept(k)
  BY <1>1, <1>4, <1>6 DEF Taken, Same, Otherwise, MessagesKept
<1>10. ~isRecording(k) /\ ~isRecording(j)
  BY <1>3, <1>6 DEF isRecording
<1>11. k.live # "running" /\ k.ch["VIDEO"] # "started"
  BY <1>3, <1>8, <1>10 DEF Fine
<1>12. ASSUME Plain(k) PROVE Shape(k)
  <2>1. Plain(j) /\ Shape(j) /\ Shows(j) /\ ~cam.faulty
    BY <1>3, <1>8, <1>12 DEF Plain, Fine, Shape, ShapeOfStates, Parent
  <2>2. j.zsl /\ ~j.hint
    BY <1>3, <2>1 DEF Shape
  <2>3. j.ch["ZSL"] # "none"
    BY <2>1, <2>2 DEF Shows, MainChannel, isZSLPreview
  <2>4. r.ok /\ \A c \in Channel : k.ch[c] = j.ch[c]
    BY <1>4, <1>8, <2>1, <2>2, <2>3 DEF Taken
  <2>5. Shows(k)
    BY <1>1, <1>8, <2>1, <2>4, MainIsShown
       DEF Shows, HasOnly, PreviewChannels, MainChannel, isZSLPreview
  <2>6. ShapeOfStates(k)
    BY <1>6, <1>8, <1>10, <2>2, <2>4, <2>5 DEF ShapeOfStates
  <2>7. isCaptureRunning(k)
    BY <1>6, <2>4 DEF isCaptureRunning
  <2> QED
    BY <1>8, <2>1, <2>6, <2>7 DEF Shape
<1>13. Fine(k)
  BY <1>6, <1>9, <1>10, <1>11, <1>12, FineIs
<1>14. ~Dirty(k) /\ k.early = cam.early /\ k.faulty = cam.faulty /\ k.state # "PREPARE_SNAPSHOT"
  BY <1>3, <1>6, <1>8 DEF Parent, Dirty
<1> QED
  BY <1>7, <1>13, <1>14, TakeMoves, BecomeSteps

LEMMA TakeInsteadOfPreview ==
    ASSUME Fine(cam), cam.state = "PREVIEWING", NEW g, Pictured(g), ~g.zsl, ~g.longshot,
           Decide("TAKE_PICTURE", takePicture(g), "PIC_TAKING", "STOPPED")
    PROVE  Stepped("TAKE_PICTURE")
<1>1. PICK r \in takePicture(g) :
         Become([r.h EXCEPT !.state = IF r.ok THEN "PIC_TAKING" ELSE "STOPPED"])
  BY DecideBecomes
<1>2. g \in Cam /\ Fine(g) /\ Parent(g) /\ g.state = "PREVIEWING"
  BY DEF Pictured, Fine
<1>3. Taken(g, r) /\ r.h \in Cam
  BY <1>2, TakeFrameIsCam DEF Taken
<1> DEFINE s == IF r.ok THEN "PIC_TAKING" ELSE "STOPPED"
           k == [r.h EXCEPT !.state = s]
<1>4. s \in State
  BY DEF State
<1>5. k \in Cam /\ k.state = s /\ Otherwise(r.h, k)
  BY <1>3, <1>4, StateIsSet
<1>6. Become(k)
  BY <1>1
<1> HIDE DEF k
<1>7. /\ k.zsl = g.zsl /\ k.zslNew = g.zslNew /\ k.hint = g.hint /\ k.hintNew = g.hintNew
      /\ k.early = g.early /\ k.faulty = g.faulty /\ k.live = g.live /\ k.longshot = g.longshot
      /\ k.ch["VIDEO"] = g.ch["VIDEO"] /\ k.ch = r.h.ch
  BY <1>3, <1>5 DEF Taken, Same, Otherwise
<1>8. MessagesKept(k)
  BY <1>2, <1>3, <1>5 DEF Taken, Same, Otherwise, MessagesKept, Fine
<1>9. ~isRecording(k) /\ ~isRecording(g)
  BY <1>2, <1>5 DEF isRecording
<1>10. k.live # "running" /\ k.ch["VIDEO"] # "started"
  BY <1>2, <1>7, <1>9 DEF Fine
<1>11. ASSUME Plain(k) PROVE Shape(k)
  <2>1. Plain(g) /\ Shape(g) /\ Shows(g) /\ ~cam.faulty /\ ~g.hint
    BY <1>2, <1>7, <1>11 DEF Plain, Fine, Shape, ShapeOfStates, Parent, Pictured
  <2>2. PreviewChannels(g) = {"PREVIEW"}
    BY <2>1 DEF PreviewChannels, isZSLPreview
  <2>3. r.ok /\ \A c \in Channel : k.ch[c] = IF c = "CAPTURE" THEN "started"
                                    ELSE IF c = "PREVIEW" THEN "none" ELSE g.ch[c]
    BY <1>3, <1>7, <2>1 DEF Taken
  <2>4. HasOnly(k, {"CAPTURE"})
    BY <2>1, <2>2, <2>3 DEF Shows, HasOnly
  <2>5. ShapeOfStates(k)
    BY <1>5, <1>7, <1>9, <2>3, <2>4 DEF ShapeOfStates
  <2>6. isCaptureRunning(k)
    BY <1>5, <2>3 DEF isCaptureRunning
  <2> QED
    BY <1>7, <2>5, <2>6 DEF Shape
<1>12. Fine(k)
  BY <1>5, <1>8, <1>9, <1>10, <1>11, FineIs
<1>13. ~Dirty(k) /\ k.early = cam.early /\ k.faulty = cam.faulty /\ k.state # "PREPARE_SNAPSHOT"
  BY <1>2, <1>5, <1>7 DEF Parent, Dirty
<1> QED
  BY <1>6, <1>12, <1>13, TakeMoves, BecomeSteps

LEMMA PreviewingTakeStep ==
    ASSUME NEW e, Fine(cam), Asked(e, cam), cam.state = "PREVIEWING", PreviewingTakePicture(e, cam)
    PROVE  Stepped(e)
<1>1. e = "TAKE_PICTURE" /\ e \in Own \ {"COMMIT_PARAMS"}
  BY DEF PreviewingTakePicture, Own, Api
<1>2. PICK g \in Picturable(cam) :
         IF g.zsl \/ g.longshot
         THEN Decide(e, takePicture([g EXCEPT !.delay = TRUE]), "PREVIEW_PIC_TAKING", "PREVIEWING")
         ELSE Decide(e, takePicture(g), "PIC_TAKING", "STOPPED")
  BY DEF PreviewingTakePicture
<1>3. Pictured(g)
  BY <1>1, CleanParent, PicturableIsFine
<1> QED
  BY <1>1, <1>2, <1>3, TakeOverPreview, TakeInsteadOfPreview

LEMMA PreviewingLongshotStep ==
    ASSUME NEW e, Fine(cam), Asked(e, cam), cam.state = "PREVIEWING", PreviewingLongshot(e, cam)
    PROVE  Stepped(e)
<1>1. e \in Own \ {"TAKE_PICTURE", "COMMIT_PARAMS"}
  BY DEF PreviewingLongshot, Longshot, Own, Api
<1>2. Parent(cam) /\ cam \in Cam
  BY <1>1, CleanParent DEF Fine
<1>3. CASE Longshot(e, [cam EXCEPT !.restart = FALSE])
  <2> DEFINE h == [cam EXCEPT !.restart = FALSE]
  <2>1. h \in Cam /\ Alike(cam, h) /\ MessagesKept(h)
    BY ZenonT(60) DEF Fine, Cam, Alike, MessagesKept, Plain, Shape
  <2>2. Parent(h) /\ h.state = "PREVIEWING" /\ h.zsl = cam.zsl /\ Plain(h) = Plain(cam)
    BY <1>2 DEF Cam, Parent, Dirty, Plain
  <2>3. Longshot(e, h)
    BY <1>3
  <2> HIDE DEF h
  <2>4. Fine(h)
    BY <2>1, FineFrom
  <2>5. Plain(h) /\ e = "LONGSHOT_ON" => h.zsl
    BY <2>2 DEF Asked, Plain
  <2> QED
    BY <2>2, <2>3, <2>4, <2>5, LongshotStep
<1>4. CASE /\ cam.zsl
           /\ AnswerOne(e, Bring(stopPreview([cam EXCEPT !.longshot = TRUE, !.restart = TRUE])))
  <2> DEFINE x == [cam EXCEPT !.longshot = TRUE, !.restart = TRUE]
             k == stopPreview(x)
             S == Bring(k)
  <2>1. x \in Cam /\ Alike(cam, x) /\ MessagesKept(x)
    BY <1>2, <1>4 DEF Fine, Cam, Alike, MessagesKept, Plain, Parent, Dirty
  <2>2. Parent(x) /\ x.state = "PREVIEWING"
    BY <1>2 DEF Cam, Parent, Dirty
  <2>3. AnswerOne(e, S)
    BY <1>4
  <2> HIDE DEF x
  <2>4. Fine(x)
    BY <2>1, FineFrom
  <2>5. k \in Cam /\ Same(x, k) /\ k.longshot = x.longshot
    BY <2>1, StopPreviewIsCam
  <2> HIDE DEF S
  <2>6. k = stopPreview(x)
    OBVIOUS
  <2> HIDE DEF k
  <2>7. Parent(k) /\ k.state = "PREVIEWING" /\ ~isCaptureRunning(k)
    BY <2>2, <2>5 DEF Parent, Same, Dirty, isCaptureRunning
  <2>8. MessagesKept(k) /\ x.faulty = cam.faulty
    BY <2>1, <2>2, <2>5 DEF MessagesKept, Same, Parent
  <2>9. Plain(x) => LongshotIsZsl(k) /\ NotLongshot(k)
    BY <2>4, <2>5, <2>7 DEF Fine, Shape, LongshotIsZsl, Same, NotLongshot
  <2>10. Bringable(k) /\ (Plain(k) => Idle(k))
    BY <2>2, <2>4, <2>5, <2>6, <2>8, <2>9, Rebuildable
  <2>11. S = Bring(k)
    BY DEF S
  <2> QED
    BY <1>1, <2>3, <2>7, <2>10, <2>11, AnswerBring
<1> QED
  BY <1>3, <1>4 DEF PreviewingLongshot

\* PREVIEWING.
LEMMA PreviewingStep ==
    ASSUME NEW e, Fine(cam), Asked(e, cam), cam.state = "PREVIEWING", Previewing(e, cam)
    PROVE  Stepped(e)
<1>1. CASE PreviewingMsgs(e, cam)
  BY <1>1, PreviewingMsgsStep
<1>2. CASE SetParams(e, cam)
  BY <1>2, SetParamsStep
<1>3. CASE Restart(e, cam, "STOPPED")
  BY <1>3, RestartStep
<1>4. CASE Accepted(e, applyDelayedMsgs(cam), {"START_PREVIEW", "PREVIEW_ENABLED"})
  <2>1. e \in Own \ {"TAKE_PICTURE", "COMMIT_PARAMS"}
    BY <1>4 DEF Accepted, Own, Api
  <2> DEFINE g == applyDelayedMsgs(cam)
  <2>2. g \in Cam /\ Undisturbed(cam, g) /\ MessagesKept(g)
    BY DelayedAreApplied DEF Fine, MessagesKept
  <2>3. Become(g)
    BY <1>4 DEF Accepted, Answer
  <2> HIDE DEF g
  <2>4. Fine(g) /\ Parent(g) /\ g.state = "PREVIEWING"
    BY <2>1, <2>2, CleanParent, UndisturbedIsFine DEF Undisturbed
  <2> QED
    BY <2>1, <2>3, <2>4, SameStateSteps
<1>5. CASE e = "STOP_PREVIEW" /\ Answer(e, TRUE, [applyDelayedMsgs(stopPreview(cam)) EXCEPT !.state = "STOPPED"])
  <2>1. e \in Own \ {"TAKE_PICTURE", "COMMIT_PARAMS"}
    BY <1>5 DEF Own, Api
  <2> QED
    BY <1>5, <2>1, CleanParent, StopPreviewSteps DEF Answer
<1>6. CASE e = "PRE_START_RECORDING" /\ AnswerOne(e, preStartRecording(cam))
  BY <1>6, PreStartStep DEF Own, Api
<1>7. CASE /\ e = "START_RECORDING"
           /\ \E r \in startRecording(cam) :
                IF r.ok THEN Answer(e, TRUE, [applyDelayedMsgs(r.h) EXCEPT !.state = "RECORDING"])
                        ELSE Answer(e, FALSE, r.h)
  BY <1>7, StartRecordingStep
<1>8. CASE PrepareSnapshot(e, cam)
  BY <1>8, PrepareSnapshotStep
<1>9. CASE e = "PRE_TAKE_PICTURE" /\ AnswerOne(e, preTakePicture(cam))
  BY <1>9, PreStartStep DEF Own, Api
<1>10. CASE PreviewingTakePicture(e, cam)
  BY <1>10, PreviewingTakeStep
<1>11. CASE PreviewingLongshot(e, cam)
  BY <1>11, PreviewingLongshotStep
<1>12. CASE SnapshotDone(e, cam)
  BY <1>12, SnapshotDoneStep
<1> QED
  <2> DEFINE B == {"SET_PREVIEW_WINDOW", "CANCEL_PICTURE", "STOP_RECORDING", "RELEASE"}
             C == {"STOP_CAPTURE_CHANNEL", "PREP_SNAPSHOT_DONE"}
  <2>1. "COMMIT_PARAMS" \notin B /\ "COMMIT_PARAMS" \notin C
    OBVIOUS
  <2>2. CASE Refused(e, cam, B) \/ Ignored(e, cam, C)
    <3> HIDE DEF B, C
    <3> QED
      BY <2>1, <2>2, RefusedSteps
  <2> QED
    BY <1>1, <1>2, <1>3, <1>4, <1>5, <1>6, <1>7, <1>8, <1>9, <1>10, <1>11, <1>12, <2>2 DEF Previewing

-----------------------------------------------------------------------------
(* The end of a recording and of a live snapshot.                           *)

\* What the state of a picture that is given up keeps.
Kept(h, g) ==
    /\ g.state = h.state /\ g.zsl = h.zsl /\ g.zslNew = h.zslNew
    /\ g.hint = h.hint /\ g.hintNew = h.hintNew
    /\ g.restart = h.restart /\ g.longshot = h.longshot
    /\ g.early = h.early /\ g.faulty = h.faulty
    /\ g.ch["VIDEO"] = h.ch["VIDEO"]

LEMMA KeptParent ==
    ASSUME NEW h, NEW g, Kept(h, g), Parent(h)
    PROVE  Parent(g)
  BY DEF Kept, Parent, Dirty

LEMMA OutOfQuiescent ==
    ASSUME NEW e, Asked(e, cam), cam.state \notin Quiescent
    PROVE  Parent(cam)
  BY DEF Asked, Parent

LEMMA CancelLiveIsCam ==
    ASSUME NEW h \in Cam
    PROVE  LET g == cancelLiveSnapshot(h)
           IN  /\ g \in Cam /\ Kept(h, g) /\ Idle(g) /\ g.live = "none"
               /\ g.msgs = h.msgs /\ g.delayed = h.delayed /\ g.wanted = h.wanted
               /\ \A c \in Channel : g.ch[c] = IF c = "SNAPSHOT" /\ h.ch[c] = "started" THEN "added" ELSE h.ch[c]
<1> DEFINE p == StopPicture(h)
           q == [p EXCEPT !.live = "none"]
           C == {c \in {"SNAPSHOT"} : q.ch[c] = "started"}
           g == Put(q, C, "added")
<1>1. p \in Cam /\ Same(h, p) /\ p.ch = h.ch /\ ~p.pp /\ p.pic = "none" /\ p.longshot = h.longshot
  BY StopPictureIsCam
<1> HIDE DEF p
<1>2. /\ q \in Cam /\ q.live = "none" /\ q.ch = p.ch /\ ~q.pp /\ q.pic = "none"
      /\ q.state = p.state /\ q.zsl = p.zsl /\ q.zslNew = p.zslNew
      /\ q.hint = p.hint /\ q.hintNew = p.hintNew
  BY <1>1 DEF Cam
<1>3. /\ q.restart = p.restart /\ q.longshot = p.longshot
      /\ q.early = p.early /\ q.faulty = p.faulty
      /\ q.msgs = p.msgs /\ q.delayed = p.delayed /\ q.wanted = p.wanted
  BY <1>1 DEF Cam
<1> HIDE DEF q
<1>4. "added" \in Marks /\ "VIDEO" \in Channel
  BY DEF Marks, Channel
<1>5. /\ g \in Cam /\ Same(q, g)
      /\ \A c \in Channel : g.ch[c] = IF c \in C THEN "added" ELSE q.ch[c]
      /\ g.pp = q.pp /\ g.pic = q.pic /\ g.longshot = q.longshot
  BY <1>2, <1>4, PutIsCam
<1>6. cancelLiveSnapshot(h) = g
  BY DEF cancelLiveSnapshot, stopChannel, q, p
<1>7. \A c \in Channel : g.ch[c] = IF c = "SNAPSHOT" /\ h.ch[c] = "started" THEN "added" ELSE h.ch[c]
  BY <1>1, <1>2, <1>5
<1>8. "VIDEO" \notin C
  OBVIOUS
<1> HIDE DEF C
<1>9. Kept(h, g)
  BY <1>1, <1>2, <1>3, <1>4, <1>5, <1>8 DEF Same, Kept
<1>10. /\ Idle(g) /\ g.live = "none"
       /\ g.msgs = h.msgs /\ g.delayed = h.delayed /\ g.wanted = h.wanted
  BY <1>1, <1>2, <1>3, <1>5 DEF Same, Idle
<1> HIDE DEF g
<1> QED
  BY <1>5, <1>6, <1>7, <1>9, <1>10

LEMMA CalmIsFine ==
    ASSUME NEW h, Fine(h), NEW g \in Cam, Kept(h, g), Idle(g), MessagesKept(g),
           g.live # "running",
           Plain(h) => \A c \in Channel :
               g.ch[c] = h.ch[c] \/ (c = "SNAPSHOT" /\ h.ch[c] # "none" /\ g.ch[c] # "none"),
           Plain(h) => h.state \in {"VIDEO_PIC_TAKING", "PREVIEW_PIC_TAKING"}
    PROVE  Fine(g)
<1>1. isRecording(g) = isRecording(h) /\ isCaptureRunning(g) = isCaptureRunning(h)
      /\ Plain(g) = Plain(h) /\ PreviewChannels(g) = PreviewChannels(h)
      /\ MainChannel(g) = MainChannel(h)
  BY DEF Kept, isRecording, isCaptureRunning, Plain, PreviewChannels, MainChannel, isZSLPreview
<1>2. ASSUME Plain(g) PROVE Shape(g)
  <2>1. Shape(h) /\ Shows(h) /\ h.state \in {"VIDEO_PIC_TAKING", "PREVIEW_PIC_TAKING"}
    BY <1>1, <1>2 DEF Fine, Shape, ShapeOfStates, isRecording
  <2>2. MainChannel(h) # "SNAPSHOT" /\ MainChannel(h) \in Channel
    BY MainIsShown DEF Fine
  <2>3. Shows(g)
    BY <1>1, <1>2, <2>1, <2>2 DEF Shows, HasOnly
  <2>4. ShapeOfStates(g)
    BY <1>1, <2>1, <2>3 DEF ShapeOfStates, Shape, Kept
  <2> QED
    BY <2>1, <2>4 DEF Shape, Kept, Idle
<1> QED
  BY <1>1, <1>2, FineIs DEF Fine, Kept

LEMMA LiveCancelled ==
    ASSUME Fine(cam), Parent(cam), cam.state = "VIDEO_PIC_TAKING"
    PROVE  LET g == cancelLiveSnapshot(cam)
           IN  Fine(g) /\ Parent(g) /\ Kept(cam, g) /\ Idle(g) /\ g.live = "none"
<1> DEFINE g == cancelLiveSnapshot(cam)
<1>1. /\ g \in Cam /\ Kept(cam, g) /\ Idle(g) /\ g.live = "none"
      /\ g.msgs = cam.msgs /\ g.delayed = cam.delayed /\ g.wanted = cam.wanted
      /\ \A c \in Channel : g.ch[c] = IF c = "SNAPSHOT" /\ cam.ch[c] = "started" THEN "added" ELSE cam.ch[c]
  BY CancelLiveIsCam DEF Fine
<1> HIDE DEF g
<1>2. MessagesKept(g)
  BY <1>1 DEF Fine, MessagesKept
<1>3. \A c \in Channel :
         g.ch[c] = cam.ch[c] \/ (c = "SNAPSHOT" /\ cam.ch[c] # "none" /\ g.ch[c] # "none")
  BY <1>1
<1>4. g.live # "running"
  BY <1>1
<1>5. g \in Cam /\ Kept(cam, g) /\ Idle(g)
  BY <1>1
<1>6. cam.state \in {"VIDEO_PIC_TAKING", "PREVIEW_PIC_TAKING"}
  OBVIOUS
<1>7. Fine(g)
  BY <1>2, <1>3, <1>4, <1>5, <1>6, CalmIsFine
<1> QED
  BY <1>1, <1>7, KeptParent DEF g

LEMMA RecordingStopSteps ==
    ASSUME NEW e, NEW h, Fine(h), Parent(h), isRecording(h), h.live # "running",
           Plain(h) => Idle(h), RecordingStop(e, h)
    PROVE  Stepped(e)
<1>1. e \in Own \ {"TAKE_PICTURE", "COMMIT_PARAMS"}
  BY DEF RecordingStop, Own, Api
<1> DEFINE C == {c \in {"VIDEO"} : h.ch[c] = "started"}
           v == Put(h, C, "added")
<1>2. "added" \in Marks /\ "VIDEO" \in Channel /\ h \in Cam
  BY DEF Marks, Channel, Fine
<1>3. C = {"VIDEO"}
  BY DEF Fine
<1>4. /\ v \in Cam /\ Same(h, v)
      /\ \A c \in Channel : v.ch[c] = IF c = "VIDEO" THEN "added" ELSE h.ch[c]
      /\ v.pp = h.pp /\ v.pic = h.pic /\ v.longshot = h.longshot
  <2> HIDE DEF C
  <2> QED BY <1>2, <1>3, PutIsCam
<1>5. stopRecording(h) = v
  BY DEF stopRecording, stopChannel
<1> HIDE DEF v
<1>6. CASE Become([v EXCEPT !.state = "PREVIEWING"])
  <2> DEFINE g == [v EXCEPT !.state = "PREVIEWING"]
  <2>1. g \in Cam /\ g.state = "PREVIEWING" /\ Otherwise(v, g)
    BY <1>4, StateIsSet DEF State
  <2>2. Become(g)
    BY <1>6
  <2> HIDE DEF g
  <2>3. /\ g.ch["VIDEO"] = "added" /\ g.live = h.live /\ g.zsl = h.zsl /\ g.zslNew = h.zslNew
        /\ g.hint = h.hint /\ g.hintNew = h.hintNew /\ g.early = h.early /\ g.faulty = h.faulty
        /\ g.longshot = h.longshot /\ g.pp = h.pp /\ g.pic = h.pic
    BY <1>2, <1>4, <2>1 DEF Same, Otherwise
  <2>4. MessagesKept(g)
    BY <1>4, <2>1 DEF Fine, Same, Otherwise, MessagesKept
  <2>5. ~isRecording(g)
    BY <2>1 DEF isRecording
  <2>6. ASSUME Plain(g) PROVE Shape(g)
    <3>1. Plain(h) /\ Shape(h) /\ Shows(h) /\ h.hint /\ Idle(h)
      BY <2>3, <2>6 DEF Plain, Fine, Shape, ShapeOfStates
    <3>2. PreviewChannels(g) = PreviewChannels(h) /\ MainChannel(g) = MainChannel(h)
      BY <2>3 DEF PreviewChannels, MainChannel, isZSLPreview
    <3>3. \A c \in Channel : g.ch[c] = IF c = "VIDEO" THEN "added" ELSE h.ch[c]
      BY <1>4, <2>1 DEF Otherwise
    <3>4. h.ch["VIDEO"] = "started"
      BY DEF Fine
    <3>5. HasOnly(g, PreviewChannels(g))
      BY <1>2, <3>1, <3>2, <3>3, <3>4 DEF Shows, HasOnly
    <3>6. g.ch[MainChannel(g)] = "started"
      <4>1. MainChannel(h) # "VIDEO" /\ MainChannel(h) \in Channel
        BY <1>2, MainIsShown
      <4> QED
        BY <3>1, <3>2, <3>3, <4>1 DEF Shows
    <3>7. ShapeOfStates(g)
      BY <2>1, <2>5, <3>5, <3>6 DEF ShapeOfStates, Shows
    <3> QED
      BY <2>3, <3>1, <3>7 DEF Shape, Idle
  <2>7. Fine(g)
    BY <2>1, <2>3, <2>4, <2>5, <2>6, FineIs
  <2>8. Parent(g)
    BY <2>3 DEF Parent, Dirty
  <2> QED
    BY <1>1, <2>1, <2>2, <2>7, <2>8, SameStateSteps
<1>7. CASE Become([stopPreview(v) EXCEPT !.state = "STOPPED"])
  <2> DEFINE k == stopPreview(v)
  <2>1. /\ k \in Cam /\ Same(v, k) /\ k.longshot = v.longshot
        /\ \A c \in Channel : k.ch[c] = IF c = "CAPTURE" THEN v.ch[c] ELSE "none"
        /\ k.pp = v.pp /\ k.pic \in {"none", v.pic}
    BY <1>4, StopPreviewIsCam
  <2>2. Become([k EXCEPT !.state = "STOPPED"])
    BY <1>7
  <2> HIDE DEF k
  <2>3. Same(h, k) /\ k.longshot = h.longshot
    BY <1>4, <2>1 DEF Same
  <2>4. \A c \in Channel : k.ch[c] = IF c = "CAPTURE" THEN h.ch[c] ELSE "none"
    BY <1>4, <2>1
  <2>5. Plain(h) => Idle(k)
    BY <1>4, <2>1 DEF Idle
  <2>6. Resting(k)
    BY <2>1, <2>3, <2>4, <2>5, UnpreparedRests DEF isRecording
  <2>7. Parent(k)
    BY <2>3 DEF Parent, Same, Dirty
  <2> QED
    BY <1>1, <2>2, <2>6, <2>7, RestingSteps
<1> QED
  BY <1>5, <1>6, <1>7 DEF RecordingStop, Answer

-----------------------------------------------------------------------------
(* Waiting for the flash, and the end of a picture.                         *)

LEMMA BackToPreview ==
    ASSUME NEW h, Fine(h), h.state \in {"PREPARE_SNAPSHOT", "PREVIEW_PIC_TAKING"},
           Plain(h) => Idle(h), NEW g \in Cam, g.state = "PREVIEWING",
           g.ch = h.ch, g.live = h.live, g.zsl = h.zsl, g.zslNew = h.zslNew, g.hint = h.hint,
           g.longshot = h.longshot, g.early = h.early, g.faulty = h.faulty,
           g.pp = h.pp, g.pic = h.pic, MessagesKept(g)
    PROVE  Fine(g)
<1>1. ~isRecording(h) /\ ~isRecording(g)
  BY DEF isRecording
<1>2. g.live # "running"
  BY DEF Fine
<1>3. ASSUME Plain(g) PROVE Shape(g)
  <2>1. Plain(h) /\ Shape(h) /\ Shows(h) /\ Idle(h)
    BY <1>3 DEF Plain, Fine, Shape, ShapeOfStates
  <2>2. Shows(g)
    BY <2>1 DEF Shows, HasOnly, PreviewChannels, MainChannel, isZSLPreview
  <2>3. ShapeOfStates(g)
    BY <1>1, <2>2 DEF ShapeOfStates
  <2> QED
    BY <2>1, <2>3 DEF Shape, Idle
<1> QED
  BY <1>1, <1>2, <1>3, FineIs DEF Fine

\* PREPARE_SNAPSHOT.
LEMMA PreparingStep ==
    ASSUME NEW e, Fine(cam), Asked(e, cam), cam.state = "PREPARE_SNAPSHOT", PreparingSnapshot(e, cam)
    PROVE  Stepped(e)
<1>1. Parent(cam)
  BY OutOfQuiescent DEF Quiescent
<1>2. CASE e = "PREP_SNAPSHOT_DONE" /\ SnapshotPrepared(cam)
  <2> DEFINE g == [cam EXCEPT !.state = "PREVIEWING"]
  <2>1. g \in Cam /\ g.state = "PREVIEWING" /\ Otherwise(cam, g)
    BY StateIsSet DEF State, Fine
  <2>2. Become(g)
    BY <1>2 DEF SnapshotPrepared, Answer
  <2> HIDE DEF g
  <2>3. MessagesKept(g)
    BY <2>1 DEF Fine, Otherwise, MessagesKept
  <2>4. Plain(cam) => Idle(cam)
    BY IdleState DEF isCaptureRunning
  <2>5. Fine(g)
    BY <2>1, <2>3, <2>4, BackToPreview DEF Otherwise
  <2>6. ~Dirty(g)
    BY <1>1, <2>1 DEF Otherwise, Parent, Dirty
  <2>7. Moves(e, cam, g)
    BY <2>1, <2>6 DEF Moves, Otherwise
  <2> QED
    BY <2>2, <2>5, <2>7, BecomeSteps
<1>3. CASE SnapshotDone(e, cam)
  BY <1>3, SnapshotDoneStep
<1> QED
  BY <1>2, <1>3, RefusedSteps DEF PreparingSnapshot, Quiescent

LEMMA AnyParamsStep ==
    ASSUME NEW e, Fine(cam), Asked(e, cam), AnyParams(e, cam)
    PROVE  Stepped(e)
<1>1. CASE e = "PREVIEW_ENABLED" /\ Answer(e, TRUE, cam)
  BY <1>1, NothingMoves DEF Answer
<1> QED
  BY <1>1, MsgsStep, SetParamsStep DEF AnyParams

\* Cancelling the picture of a camera that has no preview: the camera rests.
LEMMA CancelledRests ==
    ASSUME Fine(cam), cam.state = "PIC_TAKING"
    PROVE  LET g == cancelPicture(cam)
           IN  Resting(g) /\ Kept(cam, g) /\ Same(cam, g)
<1> DEFINE g == cancelPicture(cam)
<1>1. /\ g \in Cam /\ Same(cam, g)
      /\ \A c \in Channel : g.ch[c] = IF c = "CAPTURE" /\ ~cam.zsl THEN "none" ELSE cam.ch[c]
      /\ ~g.pp /\ g.pic = "none" /\ g.longshot = cam.longshot
  BY CancelPictureIsCam DEF Fine
<1> HIDE DEF g
<1>2. Kept(cam, g)
  BY <1>1 DEF Same, Kept, Channel
<1>3. MessagesKept(g) /\ g.live # "running" /\ g.ch["VIDEO"] # "started"
  BY <1>1, <1>2 DEF Same, Kept, Fine, MessagesKept, isRecording
<1>4. ASSUME Plain(g) PROVE HasOnly(g, {}) /\ LongshotIsZsl(g) /\ Idle(g)
  <2>1. Shape(cam) /\ HasOnly(cam, {"CAPTURE"}) /\ ~cam.zsl
    BY <1>1, <1>4 DEF Same, Plain, Fine, Shape, ShapeOfStates
  <2>2. HasOnly(g, {})
    BY <1>1, <2>1 DEF HasOnly
  <2> QED
    BY <1>1, <2>1, <2>2 DEF LongshotIsZsl, Idle, Shape, Same
<1> QED
  BY <1>1, <1>2, <1>3, <1>4 DEF Resting, g

LEMMA PicCancelStep ==
    ASSUME NEW e \in {"STOP_PREVIEW", "CANCEL_PICTURE"}, Fine(cam), Asked(e, cam), cam.state = "PIC_TAKING",
           Answer(e, TRUE, [cancelPicture(cam) EXCEPT !.state = "STOPPED"])
    PROVE  Stepped(e)
<1> DEFINE k == cancelPicture(cam)
           g == [k EXCEPT !.state = "STOPPED"]
<1>1. Resting(k) /\ Kept(cam, k)
  BY CancelledRests
<1>2. Become(g)
  BY DEF Answer
<1> HIDE DEF k
<1>3. Fine(g)
  BY <1>1, RestingIsFine
<1>4. g \in Cam /\ g.state = "STOPPED" /\ Otherwise(k, g)
  BY <1>1, StateIsSet DEF State, Resting
<1> HIDE DEF g
<1>5. Parent(cam)
  BY OutOfQuiescent DEF Quiescent
<1>6. ~Dirty(g)
  BY <1>1, <1>4, <1>5 DEF Kept, Otherwise, Parent, Dirty
<1>7. Moves(e, cam, g)
  BY <1>1, <1>4, <1>6 DEF Moves, Kept, Otherwise
<1> QED
  BY <1>2, <1>3, <1>7, BecomeSteps

LEMMA PicDoneStep ==
    ASSUME NEW e, Fine(cam), Asked(e, cam), cam.state = "PIC_TAKING", PicDone(e, cam)
    PROVE  Stepped(e)
<1> DEFINE k == cancelPicture(cam)
           n == [k EXCEPT !.notifier = "free"]
           s == IF cam.early THEN "PREVIEWING" ELSE "STOPPED"
           g == [n EXCEPT !.state = s]
           x == [k EXCEPT !.notifier = "free", !.state = s]
<1>1. Resting(k) /\ Kept(cam, k)
  BY CancelledRests
<1>2. Become(x) /\ e = "SNAPSHOT_DONE"
  BY DEF PicDone, Quiet
<1> HIDE DEF k
<1>3. /\ n \in Cam /\ n.ch = k.ch /\ n.live = k.live /\ n.zsl = k.zsl /\ n.zslNew = k.zslNew
      /\ n.hint = k.hint /\ n.hintNew = k.hintNew /\ n.longshot = k.longshot
      /\ n.early = k.early /\ n.faulty = k.faulty /\ n.pp = k.pp /\ n.pic = k.pic
      /\ n.msgs = k.msgs /\ n.delayed = k.delayed /\ n.wanted = k.wanted
  BY <1>1 DEF Resting, Cam
<1>4. x = g
  BY <1>1 DEF Resting, Cam
<1> HIDE DEF n
<1>5. Resting(n)
  BY <1>1, <1>3 DEF Resting, MessagesKept, Plain, HasOnly, LongshotIsZsl, Idle
<1>6. s \in State
  BY DEF State
<1>7. g \in Cam /\ g.state = s /\ Otherwise(n, g)
  BY <1>3, <1>6, StateIsSet
<1>8. ~cam.early => Fine(g)
  BY <1>5, RestingIsFine
<1> HIDE DEF g, x
<1>9. g.early = cam.early /\ g.faulty = cam.faulty /\ g.zsl = cam.zsl /\ g.longshot = cam.longshot
  BY <1>1, <1>3, <1>7 DEF Kept, Otherwise
<1>10. cam.early => Fine(g)
  <2>1. MessagesKept(g) /\ g.ch["VIDEO"] # "started" /\ g.live # "running" /\ ~isRecording(g)
    BY <1>5, <1>7 DEF Resting, Otherwise, MessagesKept, isRecording
  <2> QED
    BY <1>7, <1>9, <2>1, FineIs DEF Plain
<1>11. Parent(cam)
  BY OutOfQuiescent DEF Quiescent
<1>12. ~Dirty(g)
  BY <1>1, <1>3, <1>7, <1>11 DEF Kept, Otherwise, Parent, Dirty
<1>13. Moves(e, cam, g)
  BY <1>2, <1>7, <1>9, <1>12 DEF Moves
<1> QED
  BY <1>2, <1>4, <1>8, <1>10, <1>13, BecomeSteps DEF Fine, Cam

LEMMA StopCaptureIsCam ==
    ASSUME NEW h \in Cam, NEW d \in BOOLEAN
    PROVE  LET g == stopCaptureChannel(h, d)
           IN  /\ g \in Cam /\ Same(h, g)
               /\ \A c \in Channel : c # "CAPTURE" => g.ch[c] = h.ch[c]
               /\ g.ch["CAPTURE"] = "none" <=> h.ch["CAPTURE"] = "none"
               /\ g.pp = h.pp /\ g.pic = h.pic /\ g.longshot = h.longshot
<1> DEFINE C == {c \in {"CAPTURE"} : h.ch[c] = "started"}
           a == Put(h, C, "added")
           b == Put(a, {"CAPTURE"}, "added")
           g == stopCaptureChannel(h, d)
<1>1. "added" \in Marks /\ "CAPTURE" \in Channel
  BY DEF Marks, Channel
<1>2. /\ a \in Cam /\ Same(h, a)
      /\ \A c \in Channel : a.ch[c] = IF c \in C THEN "added" ELSE h.ch[c]
      /\ a.pp = h.pp /\ a.pic = h.pic /\ a.longshot = h.longshot
  BY <1>1, PutIsCam
<1>3. g = a \/ (g = b /\ h.ch["CAPTURE"] # "none")
  BY DEF stopCaptureChannel, stopChannel
<1> HIDE DEF a
<1>4. /\ b \in Cam /\ Same(a, b)
      /\ \A c \in Channel : b.ch[c] = IF c \in {"CAPTURE"} THEN "added" ELSE a.ch[c]
      /\ b.pp = a.pp /\ b.pic = a.pic /\ b.longshot = a.longshot
  BY <1>1, <1>2, PutIsCam
<1> HIDE DEF b, g
<1>5. CASE g = a
  BY <1>1, <1>2, <1>5 DEF g
<1>6. CASE g = b /\ h.ch["CAPTURE"] # "none"
  <2>1. Same(h, b)
    BY <1>2, <1>4 DEF Same
  <2> QED
    BY <1>1, <1>2, <1>4, <1>6, <2>1 DEF g
<1> QED
  BY <1>3, <1>5, <1>6

LEMMA StopCaptureStep ==
    ASSUME NEW e, Fine(cam), Asked(e, cam), cam.state = "PIC_TAKING", StopCapture(e, cam)
    PROVE  Stepped(e)
<1>1. e = "STOP_CAPTURE_CHANNEL" /\ e \notin Own
  BY DEF StopCapture, Own
<1>2. Parent(cam) /\ cam \in Cam /\ ~isRecording(cam)
  BY OutOfQuiescent DEF Quiescent, Fine, isRecording
<1>3. CASE ~cam.early /\ Answer(e, TRUE, stopCaptureChannel(cam, FALSE))
  <2> DEFINE g == stopCaptureChannel(cam, FALSE)
  <2>1. /\ g \in Cam /\ Same(cam, g)
        /\ \A c \in Channel : c # "CAPTURE" => g.ch[c] = cam.ch[c]
        /\ g.ch["CAPTURE"] = "none" <=> cam.ch["CAPTURE"] = "none"
        /\ g.pp = cam.pp /\ g.pic = cam.pic /\ g.longshot = cam.longshot
    BY <1>2, StopCaptureIsCam
  <2>2. Become(g)
    BY <1>3 DEF Answer
  <2> HIDE DEF g
  <2>3. MessagesKept(g) /\ g.live # "running" /\ g.ch["VIDEO"] # "started" /\ ~isRecording(g)
    BY <1>2, <2>1 DEF Same, Fine, MessagesKept, isRecording, Channel
  <2>4. ASSUME Plain(g) PROVE Shape(g)
    <3>1. Shape(cam) /\ HasOnly(cam, {"CAPTURE"}) /\ ~cam.zsl
      BY <2>1, <2>4 DEF Same, Plain, Fine, Shape, ShapeOfStates
    <3>2. HasOnly(g, {"CAPTURE"})
      BY <2>1, <3>1 DEF HasOnly
    <3>3. ShapeOfStates(g)
      BY <2>1, <2>3, <3>1, <3>2 DEF ShapeOfStates, Same
    <3> QED
      BY <2>1, <3>1, <3>3 DEF Shape, Same, isCaptureRunning
  <2>5. Fine(g)
    BY <2>1, <2>3, <2>4, FineIs
  <2>6. ~Dirty(g)
    BY <1>2, <2>1 DEF Same, Parent, Dirty
  <2>7. Moves(e, cam, g)
    BY <2>1, <2>6 DEF Moves, Same
  <2> QED
    BY <2>2, <2>5, <2>7, BecomeSteps
<1>4. CASE cam.early /\ AnswerOne(e, BringAnyhow(stopCaptureChannel(cam, TRUE)))
  <2> DEFINE h == stopCaptureChannel(cam, TRUE)
  <2>1. /\ h \in Cam /\ Same(cam, h)
        /\ \A c \in Channel : c # "CAPTURE" => h.ch[c] = cam.ch[c]
    BY <1>2, StopCaptureIsCam
  <2> HIDE DEF h
  <2>2. PICK r \in BringAnyhow(h) : Become(r.h)
    BY <1>4, AnswerOneBecomes DEF h
  <2>3. Brought(h, r)
    BY <2>1, <2>2, BringAnyhowIsCam
  <2>4. /\ r.h \in Cam /\ Same(cam, r.h)
    BY <2>1, <2>3 DEF Brought, Same
  <2>5. r.h.ch["VIDEO"] # "started" /\ ~isRecording(r.h)
    BY <1>2, <2>1, <2>3, <2>4 DEF Brought, NoNewVideo, Fine, Channel, Same, isRecording
  <2>6. MessagesKept(r.h) /\ r.h.live # "running" /\ ~Plain(r.h)
    BY <1>4, <2>4 DEF Same, Fine, MessagesKept, Plain
  <2>7. Fine(r.h)
    BY <2>4, <2>5, <2>6, FineIs
  <2>8. ~Dirty(r.h)
    BY <1>2, <2>4 DEF Same, Parent, Dirty
  <2>9. Moves(e, cam, r.h)
    BY <1>4, <2>4, <2>8 DEF Moves, Same, Plain
  <2> QED
    BY <2>2, <2>7, <2>9, BecomeSteps
<1> QED
  BY <1>3, <1>4 DEF StopCapture

-----------------------------------------------------------------------------
(* A long shot; recording, with and without a live snapshot.                *)

LEMMA LongshotEnds ==
    ASSUME NEW e, e = "LONGSHOT_OFF", Fine(cam), Asked(e, cam), cam.state \in {"PIC_TAKING", "PREVIEW_PIC_TAKING"},
           Answer(e, TRUE, [LongshotOff(cam) EXCEPT !.state = "PREVIEWING"])
    PROVE  Stepped(e)
<1> DEFINE k == LongshotOff(cam)
           g == [k EXCEPT !.state = "PREVIEWING"]
<1>1. /\ k \in Cam /\ Same(cam, k)
      /\ \A c \in Channel : k.ch[c] = cam.ch[c] \/ (c = "CAPTURE" /\ ~cam.zsl /\ k.ch[c] = "none")
      /\ ~k.longshot
      /\ IF cam.longshot /\ isCaptureRunning(cam) THEN ~k.pp /\ k.pic = "none"
         ELSE k.ch = cam.ch /\ k.pp = cam.pp /\ k.pic = cam.pic
  BY LongshotOffIsCam DEF Fine
<1>2. Become(g)
  BY DEF Answer
<1> HIDE DEF k
<1>3. g \in Cam /\ g.state = "PREVIEWING" /\ Otherwise(k, g)
  BY <1>1, StateIsSet DEF State
<1> HIDE DEF g
<1>4. Parent(cam) /\ isCaptureRunning(cam) /\ ~isRecording(cam) /\ ~isRecording(g)
  BY <1>3, OutOfQuiescent DEF Quiescent, isCaptureRunning, isRecording
<1>5. MessagesKept(g) /\ g.live # "running" /\ g.ch["VIDEO"] # "started"
  BY <1>1, <1>3, <1>4 DEF Same, Otherwise, Fine, MessagesKept, Channel
<1>6. /\ g.zsl = cam.zsl /\ g.zslNew = cam.zslNew /\ g.hint = cam.hint /\ g.hintNew = cam.hintNew
      /\ g.early = cam.early /\ g.faulty = cam.faulty
  BY <1>1, <1>3 DEF Same, Otherwise
<1>7. ASSUME Plain(g) PROVE Shape(g)
  <2>1. Plain(cam) /\ Shape(cam) /\ cam.longshot
    BY <1>6, <1>7 DEF Plain, Fine, Asked
  <2>2. cam.zsl /\ cam.state = "PREVIEW_PIC_TAKING" /\ Shows(cam)
    BY <2>1 DEF Shape, ShapeOfStates
  <2>3. \A c \in Channel : g.ch[c] = cam.ch[c]
    BY <1>1, <1>3, <2>2 DEF Otherwise
  <2>4. Shows(g)
    BY <1>6, <2>2, <2>3, MainIsShown
       DEF Fine, Shows, HasOnly, PreviewChannels, MainChannel, isZSLPreview
  <2>5. ShapeOfStates(g)
    BY <1>3, <1>4, <2>4 DEF ShapeOfStates
  <2>6. ~g.longshot /\ ~g.pp /\ g.pic = "none"
    BY <1>1, <1>3, <1>4, <2>1 DEF Otherwise
  <2> QED
    BY <2>5, <2>6 DEF Shape
<1>8. Fine(g)
  BY <1>3, <1>4, <1>5, <1>7, FineIs
<1>9. Parent(g)
  BY <1>4, <1>6 DEF Parent, Dirty
<1> QED
  BY <1>2, <1>3, <1>8, <1>9, SameStateSteps DEF Own, Api

LEMMA LongshotPicture ==
    ASSUME NEW e, e = "TAKE_PICTURE", Fine(cam), Asked(e, cam), cam.state \in {"PIC_TAKING", "PREVIEW_PIC_TAKING"},
           cam.longshot, AnswerOne(e, longShot(cam))
    PROVE  Stepped(e)
<1>1. PICK r \in longShot(cam) : Become(r.h)
  BY AnswerOneBecomes
<1> DEFINE g == [cam EXCEPT !.pic = "shot"]
<1>2. r.h = cam \/ r.h = g
  BY DEF longShot, MayFail, Ok, Bad
<1>3. CASE r.h = cam
  BY <1>1, <1>3, NothingMoves
<1>4. CASE r.h = g
  <2>1. /\ g \in Cam /\ g.state = cam.state /\ g.ch = cam.ch /\ g.live = cam.live
        /\ g.zsl = cam.zsl /\ g.zslNew = cam.zslNew /\ g.hint = cam.hint /\ g.hintNew = cam.hintNew
        /\ g.longshot = cam.longshot /\ g.early = cam.early /\ g.faulty = cam.faulty
    BY DEF Fine, Cam
  <2>2. MessagesKept(g)
    BY DEF Fine, Cam, MessagesKept
  <2> HIDE DEF g
  <2>3. isRecording(g) = isRecording(cam) /\ isCaptureRunning(g)
    BY <2>1 DEF isRecording, isCaptureRunning
  <2>4. Plain(cam) => cam.zsl /\ cam.state = "PREVIEW_PIC_TAKING"
    BY DEF Fine, Shape, ShapeOfStates
  <2>5. ASSUME Plain(g) PROVE Shape(g)
    <3>1. Shape(cam) /\ Plain(cam)
      BY <2>1, <2>5 DEF Plain, Fine
    <3>2. ShapeOfStates(g)
      BY <2>1, <2>3, <3>1 DEF Shape, ShapeOfStates, Shows, HasOnly, PreviewChannels, MainChannel, isZSLPreview
    <3> QED
      BY <2>1, <2>3, <3>1, <3>2 DEF Shape
  <2>6. Fine(g)
    BY <2>1, <2>2, <2>3, <2>5, FineIs DEF Fine
  <2>7. Parent(cam)
    BY OutOfQuiescent DEF Quiescent
  <2>8. ~Dirty(g)
    BY <2>1, <2>7 DEF Parent, Dirty
  <2>9. Moves(e, cam, g)
    BY <2>1, <2>4, <2>8 DEF Moves, Own, Api
  <2> QED
    BY <1>1, <1>4, <2>6, <2>9, BecomeSteps
<1> QED
  BY <1>2, <1>3, <1>4

LEMMA PicTakingLongshotStep ==
    ASSUME NEW e, Fine(cam), Asked(e, cam), cam.state \in {"PIC_TAKING", "PREVIEW_PIC_TAKING"},
           PicTakingLongshot(e, cam)
    PROVE  Stepped(e)
<1>1. CASE e = "LONGSHOT_OFF" /\ Answer(e, TRUE, [LongshotOff(cam) EXCEPT !.state = "PREVIEWING"])
  BY <1>1, LongshotEnds
<1>2. CASE e = "TAKE_PICTURE" /\ cam.longshot /\ AnswerOne(e, longShot(cam))
  BY <1>2, LongshotPicture
<1>3. CASE e \in {"LONGSHOT_ON", "PRE_TAKE_PICTURE", "TAKE_PICTURE"} /\ Become(cam)
  BY <1>3, NothingMoves
<1> QED
  BY <1>1, <1>2, <1>3 DEF PicTakingLongshot, Answer

\* PIC_TAKING.
LEMMA PicTakingStep ==
    ASSUME NEW e, Fine(cam), Asked(e, cam), cam.state = "PIC_TAKING", PicTaking(e, cam)
    PROVE  Stepped(e)
<1>1. CASE AnyParams(e, cam)
  BY <1>1, AnyParamsStep
<1>2. CASE e = "COMMIT_PARAMS" /\ Answer(e, TRUE, [commitParameters(cam) EXCEPT !.restart = FALSE])
  <2>1. ~Dirty(cam)
    BY OutOfQuiescent DEF Quiescent, Parent
  <2> QED
    BY <1>2, <2>1, CommitSteps DEF Answer
<1>3. CASE /\ e \in {"STOP_PREVIEW", "CANCEL_PICTURE"}
           /\ Answer(e, TRUE, [cancelPicture(cam) EXCEPT !.state = "STOPPED"])
  BY <1>3, PicCancelStep
<1>4. CASE PicTakingLongshot(e, cam)
  BY <1>4, PicTakingLongshotStep
<1>5. CASE StopCapture(e, cam)
  BY <1>5, StopCaptureStep
<1>6. CASE PicDone(e, cam)
  BY <1>6, PicDoneStep
<1> QED
  BY <1>1, <1>2, <1>3, <1>4, <1>5, <1>6, RefusedSteps DEF PicTaking, Quiescent

LEMMA CommitUnlessStep ==
    ASSUME NEW e, Fine(cam), Asked(e, cam), cam.state \notin Quiescent, CommitUnlessRestart(e, cam)
    PROVE  Stepped(e)
<1> DEFINE g == [cam EXCEPT !.restart = FALSE]
<1>1. e = "COMMIT_PARAMS" /\ (Become(g) \/ Become(commitParameters(g)))
  BY DEF CommitUnlessRestart, Answer
<1>2. Parent(cam) /\ ~Dirty(cam)
  BY OutOfQuiescent DEF Parent
<1>3. CASE Become(g)
  <2>1. g \in Cam /\ Alike(cam, g) /\ MessagesKept(g)
    BY ZenonT(60) DEF Fine, Cam, Alike, MessagesKept, Plain, Shape
  <2>2. Moves(e, cam, g)
    BY <1>1, <1>2 DEF Fine, Cam, Moves, Dirty, Own, Api
  <2> HIDE DEF g
  <2> QED
    BY <1>3, <2>1, <2>2, AlikeSteps
<1>4. CASE Become(commitParameters(g))
  BY <1>1, <1>2, <1>4, CommitSteps
<1> QED
  BY <1>1, <1>3, <1>4

LEMMA RecordingTakeStep ==
    ASSUME NEW e, Fine(cam), Asked(e, cam), cam.state = "RECORDING", RecordingTakePicture(e, cam)
    PROVE  Stepped(e)
<1> DEFINE g == [cam EXCEPT !.state = "VIDEO_PIC_TAKING", !.live = "running"]
<1>1. e = "TAKE_PICTURE" /\ (Become(g) \/ Become(cam))
  BY DEF RecordingTakePicture, Answer
<1>2. CASE Become(cam)
  BY <1>1, <1>2, NothingMoves
<1>3. CASE Become(g)
  <2>1. /\ g \in Cam /\ g.state = "VIDEO_PIC_TAKING" /\ g.ch = cam.ch
        /\ g.zsl = cam.zsl /\ g.zslNew = cam.zslNew /\ g.hint = cam.hint /\ g.hintNew = cam.hintNew
        /\ g.longshot = cam.longshot /\ g.early = cam.early /\ g.faulty = cam.faulty
    BY DEF Fine, Cam, State
  <2>2. MessagesKept(g)
    BY DEF Fine, Cam, MessagesKept
  <2> HIDE DEF g
  <2>3. isRecording(g) /\ isRecording(cam) /\ isCaptureRunning(g)
    BY <2>1 DEF isRecording, isCaptureRunning
  <2>4. ASSUME Plain(g) PROVE Shape(g)
    <3>1. Shape(cam) /\ Shows(cam) /\ cam.hint
      BY <2>1, <2>3, <2>4 DEF Plain, Fine, Shape, ShapeOfStates
    <3>2. Shows(g)
      BY <2>1, <3>1 DEF Shows, HasOnly, PreviewChannels, MainChannel, isZSLPreview
    <3>3. ShapeOfStates(g)
      BY <2>1, <3>1, <3>2 DEF ShapeOfStates
    <3> QED
      BY <2>1, <2>3, <3>1, <3>3 DEF Shape
  <2>5. Fine(g)
    BY <2>1, <2>2, <2>3, <2>4, FineIs DEF Fine
  <2>6. Parent(cam)
    BY OutOfQuiescent DEF Quiescent
  <2>7. ~Dirty(g)
    BY <2>1, <2>6 DEF Parent, Dirty
  <2>8. Moves(e, cam, g)
    BY <1>1, <2>1, <2>7 DEF Moves, Own, Api
  <2> QED
    BY <1>3, <2>5, <2>8, BecomeSteps
<1> QED
  BY <1>1, <1>2, <1>3

\* RECORDING.
LEMMA RecordingStep ==
    ASSUME NEW e, Fine(cam), Asked(e, cam), cam.state = "RECORDING", Recording(e, cam)
    PROVE  Stepped(e)
<1>0. Parent(cam) /\ isRecording(cam) /\ cam.live # "running" /\ cam.state \notin Quiescent
      /\ (Plain(cam) => Idle(cam))
  BY OutOfQuiescent, IdleState DEF Quiescent, isRecording, isCaptureRunning, Fine
<1>1. CASE AnyParams(e, cam)
  BY <1>1, AnyParamsStep
<1>2. CASE CommitUnlessRestart(e, cam)
  BY <1>0, <1>2, CommitUnlessStep
<1>3. CASE Longshot(e, cam)
  BY <1>0, <1>3, LongshotStep DEF Asked, Plain
<1>4. CASE RecordingTakePicture(e, cam)
  BY <1>4, RecordingTakeStep
<1>5. CASE RecordingStop(e, cam)
  BY <1>0, <1>5, RecordingStopSteps
<1>6. CASE SnapshotDone(e, cam)
  BY <1>6, SnapshotDoneStep
<1> QED
  BY <1>0, <1>1, <1>2, <1>3, <1>4, <1>5, <1>6, RefusedSteps DEF Recording

LEMMA BackToRecording ==
    ASSUME NEW h, Fine(h), h.state = "VIDEO_PIC_TAKING", Idle(h), h.live # "running",
           NEW g \in Cam, g.state = "RECORDING", g.ch = h.ch, g.live = h.live,
           g.zsl = h.zsl, g.zslNew = h.zslNew, g.hint = h.hint,
           g.longshot = h.longshot, g.early = h.early, g.faulty = h.faulty,
           g.pp = h.pp, g.pic = h.pic, MessagesKept(g)
    PROVE  Fine(g)
<1>1. isRecording(h) /\ isRecording(g)
  BY DEF isRecording
<1>2. ASSUME Plain(g) PROVE Shape(g)
  <2>1. Plain(h) /\ Shape(h) /\ Shows(h) /\ h.hint
    BY <1>1, <1>2 DEF Plain, Fine, Shape, ShapeOfStates
  <2>2. Shows(g)
    BY <2>1 DEF Shows, HasOnly, PreviewChannels, MainChannel, isZSLPreview
  <2>3. ShapeOfStates(g)
    BY <1>1, <2>1, <2>2 DEF ShapeOfStates
  <2> QED
    BY <2>1, <2>3 DEF Shape, Idle
<1> QED
  BY <1>1, <1>2, FineIs DEF Fine

LEMMA VideoPicStopStep ==
    ASSUME NEW e, Fine(cam), Asked(e, cam), cam.state = "VIDEO_PIC_TAKING", VideoPicStop(e, cam)
    PROVE  Stepped(e)
<1> DEFINE k == cancelLiveSnapshot(cam)
<1>1. Parent(cam)
  BY OutOfQuiescent DEF Quiescent
<1>2. Fine(k) /\ Parent(k) /\ Kept(cam, k) /\ Idle(k) /\ k.live = "none"
  BY <1>1, LiveCancelled
<1>3. \/ e = "CANCEL_PICTURE" /\ Become([k EXCEPT !.state = "RECORDING"])
      \/ RecordingStop(e, k)
      \/ e = "SNAPSHOT_DONE" /\ Become([k EXCEPT !.state = "RECORDING", !.notifier = "free"])
  BY DEF VideoPicStop, Answer, Quiet
<1> HIDE DEF k
<1>4. CASE RecordingStop(e, k)
  BY <1>2, <1>4, RecordingStopSteps DEF Kept, isRecording
<1>5. ASSUME e \in {"CANCEL_PICTURE", "SNAPSHOT_DONE"}, NEW g \in Cam, Become(g), g.state = "RECORDING", Otherwise(k, g)
      PROVE  Stepped(e)
  <2>1. MessagesKept(g)
    BY <1>2, <1>5 DEF Fine, MessagesKept, Otherwise
  <2>2. Fine(g)
    BY <1>2, <1>5, <2>1, BackToRecording DEF Kept, Otherwise
  <2>3. ~Dirty(g)
    BY <1>2, <1>5 DEF Parent, Otherwise, Dirty
  <2>4. Moves(e, cam, g)
    BY <1>2, <1>5, <2>3 DEF Moves, Kept, Otherwise, Own, Api
  <2> QED
    BY <1>5, <2>2, <2>4, BecomeSteps
<1>6. CASE e = "CANCEL_PICTURE" /\ Become([k EXCEPT !.state = "RECORDING"])
  <2> DEFINE g == [k EXCEPT !.state = "RECORDING"]
  <2>1. g \in Cam /\ g.state = "RECORDING" /\ Otherwise(k, g)
    BY <1>2, StateIsSet DEF State, Fine
  <2> QED
    BY <1>5, <1>6, <2>1
<1>7. CASE e = "SNAPSHOT_DONE" /\ Become([k EXCEPT !.state = "RECORDING", !.notifier = "free"])
  <2> DEFINE g == [k EXCEPT !.state = "RECORDING", !.notifier = "free"]
  <2>1. g \in Cam /\ g.state = "RECORDING" /\ Otherwise(k, g)
    BY <1>2 DEF State, Fine, Cam, Otherwise
  <2> QED
    BY <1>5, <1>7, <2>1
<1> QED
  BY <1>3, <1>4, <1>6, <1>7

\* VIDEO_PIC_TAKING.
LEMMA VideoPicStep ==
    ASSUME NEW e, Fine(cam), Asked(e, cam), cam.state = "VIDEO_PIC_TAKING", VideoPicTaking(e, cam)
    PROVE  Stepped(e)
<1>0. Parent(cam) /\ cam.state \notin Quiescent
  BY OutOfQuiescent DEF Quiescent
<1>1. CASE AnyParams(e, cam)
  BY <1>1, AnyParamsStep
<1>2. CASE CommitUnlessRestart(e, cam)
  BY <1>0, <1>2, CommitUnlessStep
<1>3. CASE Longshot(e, cam)
  BY <1>0, <1>3, LongshotStep DEF Asked, Plain
<1>4. CASE VideoPicStop(e, cam)
  BY <1>4, VideoPicStopStep
<1> QED
  BY <1>0, <1>1, <1>2, <1>3, <1>4, RefusedSteps DEF VideoPicTaking

-----------------------------------------------------------------------------
(* A picture of a running preview, and every state together.                *)

LEMMA PreviewCancelled ==
    ASSUME Fine(cam), Parent(cam), cam.state = "PREVIEW_PIC_TAKING"
    PROVE  LET g == PreviewPicCancel(cam)
           IN  Fine(g) /\ Parent(g) /\ Kept(cam, g) /\ Idle(g)
<1> DEFINE c == cancelPicture(cam)
           l == cancelLiveSnapshot(cam)
           g == PreviewPicCancel(cam)
<1>1. ~isRecording(cam) /\ cam \in Cam
  BY DEF isRecording, Fine
<1>2. CASE cam.zsl \/ cam.longshot
  <2>1. g = c
    BY <1>2 DEF PreviewPicCancel
  <2>2. /\ c \in Cam /\ Same(cam, c)
        /\ \A x \in Channel : c.ch[x] = IF x = "CAPTURE" /\ ~cam.zsl THEN "none" ELSE cam.ch[x]
        /\ ~c.pp /\ c.pic = "none" /\ c.longshot = cam.longshot
    BY <1>1, CancelPictureIsCam
  <2> HIDE DEF c, g
  <2>3. Kept(cam, c) /\ Idle(c) /\ MessagesKept(c) /\ c.live # "running"
    BY <2>2 DEF Same, Kept, Channel, Idle, Fine, MessagesKept
  <2>4. Plain(cam) => \A x \in Channel : c.ch[x] = cam.ch[x]
    BY <2>2 DEF Fine, Shape, ShapeOfStates
  <2>5. Fine(c)
    BY <2>2, <2>3, <2>4, CalmIsFine
  <2> QED
    BY <2>1, <2>3, <2>5, KeptParent DEF g
<1>3. CASE ~(cam.zsl \/ cam.longshot)
  <2>1. g = l
    BY <1>3 DEF PreviewPicCancel
  <2>2. /\ l \in Cam /\ Kept(cam, l) /\ Idle(l) /\ l.live = "none"
        /\ l.msgs = cam.msgs /\ l.delayed = cam.delayed /\ l.wanted = cam.wanted
    BY <1>1, CancelLiveIsCam
  <2> HIDE DEF l, g
  <2>3. MessagesKept(l) /\ l.live # "running"
    BY <2>2 DEF Fine, MessagesKept
  <2>4. ~Plain(cam)
    BY <1>3 DEF Fine, Shape, ShapeOfStates
  <2>5. Fine(l)
    BY <2>2, <2>3, <2>4, CalmIsFine
  <2> QED
    BY <2>1, <2>2, <2>5, KeptParent DEF g
<1> QED
  BY <1>2, <1>3

LEMMA PreviewPicStopStep ==
    ASSUME NEW e, Fine(cam), Asked(e, cam), cam.state = "PREVIEW_PIC_TAKING", PreviewPicStop(e, cam)
    PROVE  Stepped(e)
<1> DEFINE k == PreviewPicCancel(cam)
<1>1. Parent(cam)
  BY OutOfQuiescent DEF Quiescent
<1>2. Fine(k) /\ Parent(k) /\ Kept(cam, k) /\ Idle(k)
  BY <1>1, PreviewCancelled
<1>3. \/ e = "CANCEL_PICTURE" /\ Become([k EXCEPT !.state = "PREVIEWING"])
      \/ e = "STOP_PREVIEW" /\ Become([unpreparePreview(k) EXCEPT !.state = "STOPPED"])
      \/ e = "SNAPSHOT_DONE" /\ Become([k EXCEPT !.state = "PREVIEWING", !.notifier = "free"])
  BY DEF PreviewPicStop, Answer, Quiet
<1> HIDE DEF k
<1>4. k \in Cam
  BY <1>2 DEF Fine
<1>5. ASSUME e \in {"CANCEL_PICTURE", "SNAPSHOT_DONE"}, NEW g \in Cam, Become(g), g.state = "PREVIEWING", Otherwise(k, g)
      PROVE  Stepped(e)
  <2>1. MessagesKept(g)
    BY <1>2, <1>5 DEF Fine, MessagesKept, Otherwise
  <2>2. Fine(g)
    BY <1>2, <1>5, <2>1, BackToPreview DEF Kept, Otherwise
  <2>3. ~Dirty(g)
    BY <1>2, <1>5 DEF Parent, Otherwise, Dirty
  <2>4. Moves(e, cam, g)
    BY <1>2, <1>5, <2>3 DEF Moves, Kept, Otherwise, Own, Api
  <2> QED
    BY <1>5, <2>2, <2>4, BecomeSteps
<1>6. CASE e = "CANCEL_PICTURE" /\ Become([k EXCEPT !.state = "PREVIEWING"])
  <2> DEFINE g == [k EXCEPT !.state = "PREVIEWING"]
  <2>1. g \in Cam /\ g.state = "PREVIEWING" /\ Otherwise(k, g)
    BY <1>4, StateIsSet DEF State
  <2> QED
    BY <1>5, <1>6, <2>1
<1>7. CASE e = "SNAPSHOT_DONE" /\ Become([k EXCEPT !.state = "PREVIEWING", !.notifier = "free"])
  <2> DEFINE g == [k EXCEPT !.state = "PREVIEWING", !.notifier = "free"]
  <2>1. g \in Cam /\ g.state = "PREVIEWING" /\ Otherwise(k, g)
    BY <1>4 DEF State, Cam, Otherwise
  <2> QED
    BY <1>5, <1>7, <2>1
<1>8. CASE e = "STOP_PREVIEW" /\ Become([unpreparePreview(k) EXCEPT !.state = "STOPPED"])
  <2> DEFINE u == unpreparePreview(k)
  <2>1. /\ u \in Cam /\ Same(k, u) /\ SamePicture(k, u) /\ u.longshot = k.longshot
        /\ \A c \in Channel : u.ch[c] = IF c = "CAPTURE" THEN k.ch[c] ELSE "none"
    BY <1>4, UnprepareIsCam
  <2>2. Become([u EXCEPT !.state = "STOPPED"])
    BY <1>8
  <2> HIDE DEF u
  <2>3. Idle(u) /\ Parent(u)
    BY <1>2, <2>1 DEF SamePicture, Idle, Parent, Same, Dirty
  <2>4. Resting(u)
    BY <1>2, <2>1, <2>3, UnpreparedRests DEF Kept
  <2> QED
    BY <1>8, <2>2, <2>3, <2>4, RestingSteps DEF Own, Api
<1> QED
  BY <1>3, <1>6, <1>7, <1>8

LEMMA PreviewPicRecordStep ==
    ASSUME NEW e, Fine(cam), Asked(e, cam), cam.state = "PREVIEW_PIC_TAKING", PreviewPicRecord(e, cam)
    PROVE  Stepped(e)
<1>1. e \in Own \ {"TAKE_PICTURE", "COMMIT_PARAMS"}
  BY DEF PreviewPicRecord, Own, Api
<1>2. Parent(cam) /\ cam \in Cam /\ ~isRecording(cam)
  BY OutOfQuiescent DEF Quiescent, Fine, isRecording
<1>3. CASE Answer(e, FALSE, cam)
  BY <1>1, <1>3, NothingMoves DEF Answer
<1>4. CASE ~(cam.zsl \/ cam.longshot) /\ AnswerOne(e, preStartRecording(cam))
  <2>1. ~Plain(cam)
    BY <1>4 DEF Fine, Shape, ShapeOfStates
  <2> QED
    BY <1>1, <1>4, <2>1, PreStartStep
<1>5. CASE ~(cam.zsl \/ cam.longshot) /\ Decide(e, startRecording(cam), "VIDEO_PIC_TAKING", cam.state)
  <2>1. ~Plain(cam)
    BY <1>5 DEF Fine, Shape, ShapeOfStates
  <2>2. PICK r \in startRecording(cam) : Become([r.h EXCEPT !.state = IF r.ok THEN "VIDEO_PIC_TAKING" ELSE cam.state])
    BY <1>5, DecideBecomes
  <2>3. Started(cam, "VIDEO", r)
    BY <1>2, <2>2, StartIsCam DEF startRecording, Channel
  <2> DEFINE s == IF r.ok THEN "VIDEO_PIC_TAKING" ELSE cam.state
             g == [r.h EXCEPT !.state = s]
  <2>11. s \in State /\ r.h \in Cam
    BY <2>3 DEF State, Started
  <2>4. g \in Cam /\ g.state = s /\ Otherwise(r.h, g)
    BY <2>11, StateIsSet
  <2>5. Become(g)
    BY <2>2
  <2> HIDE DEF g
  <2>6. MessagesKept(g)
    BY <2>3, <2>4 DEF Started, Same, Otherwise, Fine, MessagesKept
  <2>7. (g.ch["VIDEO"] = "started") <=> isRecording(g)
    <3>1. CASE r.ok
      BY <2>3, <2>4, <3>1 DEF Started, Otherwise, isRecording, Channel
    <3>2. CASE ~r.ok
      BY <1>2, <2>3, <2>4, <3>2 DEF Started, Otherwise, isRecording, Fine
    <3> QED
      BY <3>1, <3>2
  <2>8. g.live # "running" /\ ~Plain(g) /\ ~Dirty(g) /\ g.early = cam.early /\ g.faulty = cam.faulty
    <3>1. Same(cam, r.h) /\ cam.live # "running"
      BY <2>3 DEF Started, Fine
    <3> QED
      BY <1>2, <2>1, <2>4, <3>1 DEF Same, Otherwise, Plain, Parent, Dirty
  <2>9. Fine(g)
    BY <2>4, <2>6, <2>7, <2>8, FineIs
  <2>10. Moves(e, cam, g)
    BY <1>1, <2>1, <2>4, <2>8 DEF Moves
  <2> QED
    BY <2>5, <2>9, <2>10, BecomeSteps
<1> QED
  BY <1>3, <1>4, <1>5 DEF PreviewPicRecord

\* PREVIEW_PIC_TAKING.
LEMMA PreviewPicStep ==
    ASSUME NEW e, Fine(cam), Asked(e, cam), cam.state = "PREVIEW_PIC_TAKING", PreviewPicTaking(e, cam)
    PROVE  Stepped(e)
<1>1. CASE AnyParams(e, cam)
  BY <1>1, AnyParamsStep
<1>2. CASE Restart(e, cam, "PIC_TAKING")
  BY <1>2, RestartStep
<1>3. CASE PicTakingLongshot(e, cam)
  BY <1>3, PicTakingLongshotStep
<1>4. CASE PreviewPicStop(e, cam)
  BY <1>4, PreviewPicStopStep
<1>5. CASE PreviewPicRecord(e, cam)
  BY <1>5, PreviewPicRecordStep
<1> QED
  BY <1>1, <1>2, <1>3, <1>4, <1>5, RefusedSteps DEF PreviewPicTaking, Quiescent

\* One turn of the machine, in any state and for anything it may be asked.
LEMMA HandleSteps ==
    ASSUME NEW e, Fine(cam), Asked(e, cam), Handle(e, cam)
    PROVE  Stepped(e)
  BY StoppedStep, ReadyStep, PreviewingStep, PreparingStep, PicTakingStep, RecordingStep,
     VideoPicStep, PreviewPicStep DEF Handle

-----------------------------------------------------------------------------
(* The mode of the camera, whatever fails and whenever the preview restarts. *)
(* Still and Unmoved say what an operation leaves of it.                    *)

\* The mode of the camera, whatever fails and whenever the preview restarts.
NoVideo(h) == h.ch["VIDEO"] = "none"
Base(h) ==
    /\ h.longshot => h.zsl /\ h.zslNew
    /\ NoVideo(h) \/ h.hint
\* The mode that the state of the camera stands for.
Fits(h) ==
    /\ h.pic # "none" => isCaptureRunning(h)
    /\ isRecording(h) => h.hint
    /\ h.state = "PIC_TAKING" => ~h.zsl /\ ~h.hint
    /\ h.state = "PREVIEW_PIC_TAKING" => h.zsl /\ ~h.hint
    /\ h.state = "STOPPED" => NoVideo(h)
Mode(h) == Base(h) /\ Fits(h)

\* What one turn of the machine does to it.
Turned(e, h, g) ==
    /\ e \notin Own => /\ g.zsl = h.zsl /\ g.longshot = h.longshot /\ g.restart = h.restart
                       /\ h.state \in Quiescent => g.state \in Quiescent
    /\ e = "SET_PARAMS" => /\ g.state = h.state
                           /\ h.state \notin Quiescent \cup {"PREPARE_SNAPSHOT"} => ~g.restart
    /\ e = "COMMIT_PARAMS" => /\ g.restart => h.restart
                              /\ h.state \in Quiescent => g.state \in Quiescent
    /\ g.state = "PIC_TAKING" /\ g.pic = "shot" =>
         (h.state = "PIC_TAKING" /\ h.pic = "shot") \/ (e = "TAKE_PICTURE" /\ h.state = "PREVIEWING")
    /\ h.state \in {"PIC_TAKING", "STOPPED"} /\ e \in {"STOP_CAPTURE_CHANNEL", "CANCEL_PICTURE", "TAKE_PICTURE"}
         => g.state \in {"PIC_TAKING", "STOPPED"}

Drove(e) == Mode(cam') /\ Turned(e, cam, cam')

LEMMA BecomeDrives ==
    ASSUME NEW e, NEW g \in Cam, Become(g), Mode(g), Turned(e, cam, g)
    PROVE  Drove(e)
<1>1. cam' = [g EXCEPT !.post = FALSE]
  BY DEF Become
<1>2. /\ cam'.state = g.state /\ cam'.ch = g.ch /\ cam'.longshot = g.longshot
      /\ cam'.zsl = g.zsl /\ cam'.zslNew = g.zslNew /\ cam'.hint = g.hint
      /\ cam'.pic = g.pic /\ cam'.restart = g.restart
  BY <1>1 DEF Cam
<1>3. Mode(cam')
  BY <1>2 DEF Mode, Base, Fits, NoVideo, isCaptureRunning, isRecording
<1> QED
  BY <1>2, <1>3 DEF Drove, Turned

\* An operation of the hardware interface in an unchanged mode.
Still(h, g) ==
    /\ g \in Cam
    /\ g.zsl = h.zsl /\ g.zslNew = h.zslNew /\ g.hint = h.hint /\ g.hintNew = h.hintNew
    /\ g.restart = h.restart
    /\ g.longshot => h.longshot
    /\ ~(h.hint /\ h.longshot) => g.longshot = h.longshot
    /\ g.pic \in {h.pic, "none"}
    /\ NoVideo(h) => NoVideo(g) \/ h.hint

LEMMA StillBase ==
    ASSUME NEW h, NEW g, Base(h), Still(h, g) PROVE Base(g)
  BY DEF Base, Still

LEMMA StillTwice ==
    ASSUME NEW h, NEW g, NEW k, Still(h, g), Still(g, k) PROVE Still(h, k)
  BY DEF Still

LEMMA PutStill ==
    ASSUME NEW h \in Cam, NEW C, NEW s \in Marks, "VIDEO" \notin C \/ s = "none" \/ h.hint \/ ~NoVideo(h)
    PROVE  LET g == Put(h, C, s)
           IN  /\ Still(h, g) /\ g.state = h.state /\ g.longshot = h.longshot /\ g.pic = h.pic
               /\ "VIDEO" \in C /\ s = "none" => NoVideo(g)
               /\ "VIDEO" \notin C /\ NoVideo(h) => NoVideo(g)
<1>1. "VIDEO" \in Channel
  BY DEF Channel
<1> QED
  BY <1>1, PutIsCam DEF Still, Same, NoVideo

LEMMA UnprepareStill ==
    ASSUME NEW h \in Cam
    PROVE  LET g == unpreparePreview(h)
           IN  Still(h, g) /\ g.state = h.state /\ g.longshot = h.longshot /\ g.pic = h.pic /\ NoVideo(g)
<1>1. "VIDEO" \in Channel
  BY DEF Channel
<1> QED
  BY <1>1, UnprepareIsCam DEF Still, Same, NoVideo, SamePicture

LEMMA StopPreviewStill ==
    ASSUME NEW h \in Cam
    PROVE  LET g == stopPreview(h)
           IN  Still(h, g) /\ g.state = h.state /\ g.longshot = h.longshot /\ NoVideo(g)
<1>1. "VIDEO" \in Channel
  BY DEF Channel
<1> QED
  BY <1>1, StopPreviewIsCam DEF Still, Same, NoVideo

LEMMA LongshotOffStill ==
    ASSUME NEW h \in Cam
    PROVE  LET g == LongshotOff(h)
           IN  /\ g \in Cam /\ Same(h, g) /\ ~g.longshot /\ g.pic \in {h.pic, "none"}
               /\ h.longshot /\ isCaptureRunning(h) => g.pic = "none"
               /\ NoVideo(h) => NoVideo(g)
               /\ h.hint /\ h.longshot => Still(h, g)
<1>1. "VIDEO" \in Channel
  BY DEF Channel
<1> QED
  BY <1>1, LongshotOffIsCam DEF Still, Same, NoVideo

LEMMA SameStill ==
    ASSUME NEW h \in Cam PROVE Still(h, h)
  BY DEF Still

LEMMA PrepareStill ==
    ASSUME NEW h \in Cam, NEW r \in preparePreview(h)
    PROVE  /\ r.ok \in BOOLEAN /\ Still(h, r.h) /\ r.h.state = h.state
           /\ ~r.ok /\ NoVideo(h) => NoVideo(r.h)
<1> DEFINE g == IF h.hint /\ h.longshot THEN LongshotOff(h) ELSE h
           a == addChannel(g, PreviewChannels(g))
           d == delChannel(g, PreviewChannels(g))
<1>1. r = Ok(a) \/ r = Bad(h) \/ r = Bad(d)
  BY DEF preparePreview, MayFail
<1>2. Still(h, g) /\ g.state = h.state /\ (NoVideo(h) => NoVideo(g))
  BY LongshotOffStill, SameStill DEF Same
<1>3. "added" \in Marks /\ "none" \in Marks
  BY DEF Marks
<1> HIDE DEF g
<1>4. g \in Cam /\ g.hint = h.hint
  BY <1>2 DEF Still
<1>5. "VIDEO" \in PreviewChannels(g) => g.hint
  BY DEF PreviewChannels
<1>6. Still(g, a) /\ a.state = g.state
  BY <1>3, <1>4, <1>5, PutStill DEF addChannel
<1>7. Still(g, d) /\ d.state = g.state /\ (NoVideo(g) => NoVideo(d))
  BY <1>3, <1>4, PutStill DEF delChannel
<1> HIDE DEF a, d
<1>8. Still(h, a) /\ Still(h, d) /\ Still(h, h)
  BY <1>2, <1>6, <1>7, StillTwice, SameStill
<1>9. CASE r = Ok(a)
  <2>1. r.ok = TRUE /\ r.h = a
    BY <1>9 DEF Ok
  <2> QED
    BY <1>2, <1>6, <1>8, <2>1
<1>10. CASE r = Bad(h) \/ r = Bad(d)
  <2>1. r.ok = FALSE /\ (r.h = h \/ r.h = d)
    BY <1>10 DEF Bad
  <2> QED
    BY <1>2, <1>7, <1>8, <2>1
<1> QED
  BY <1>1, <1>9, <1>10

LEMMA StartStill ==
    ASSUME NEW h \in Cam, NEW c \in Channel, NEW r \in startChannel(h, c)
    PROVE  /\ r.ok \in BOOLEAN /\ Still(h, r.h) /\ r.h.state = h.state
           /\ r.ok => h.ch[c] # "none"
           /\ r.h.longshot = h.longshot /\ r.h.pic = h.pic
<1>1. Started(h, c, r)
  BY StartIsCam
<1>2. "VIDEO" \in Channel
  BY DEF Channel
<1>3. NoVideo(h) => NoVideo(r.h)
  BY <1>1, <1>2 DEF Started, NoVideo
<1> QED
  BY <1>1, <1>3 DEF Started, Same, SamePicture, Still

LEMMA StartPreviewStill ==
    ASSUME NEW h \in Cam, NEW r \in startPreview(h)
    PROVE  r.ok \in BOOLEAN /\ Still(h, r.h) /\ r.h.state = h.state
<1>1. "ZSL" \in Channel /\ "PREVIEW" \in Channel
  BY DEF Channel
<1> QED
  BY <1>1, StartStill DEF startPreview

\* A failed start is undone.
LEMMA TryStill ==
    ASSUME NEW h \in Cam, NEW r \in OrElse(startPreview(h), unpreparePreview)
    PROVE  r.ok \in BOOLEAN /\ Still(h, r.h) /\ r.h.state = h.state /\ (~r.ok => NoVideo(r.h))
<1>1. PICK q \in startPreview(h) : r = IF q.ok THEN q ELSE Bad(unpreparePreview(q.h))
  BY DEF OrElse
<1>2. q.ok \in BOOLEAN /\ Still(h, q.h) /\ q.h.state = h.state
  BY StartPreviewStill
<1>3. CASE q.ok
  BY <1>1, <1>2, <1>3
<1>4. CASE ~q.ok
  <2> DEFINE u == unpreparePreview(q.h)
  <2>1. Still(q.h, u) /\ u.state = q.h.state /\ NoVideo(u)
    BY <1>2, UnprepareStill DEF Still
  <2> HIDE DEF u
  <2>2. r.ok = FALSE /\ r.h = u
    BY <1>1, <1>4 DEF Bad, u
  <2>3. Still(h, u)
    BY <1>2, <2>1, StillTwice
  <2> QED
    BY <1>2, <2>1, <2>2, <2>3
<1> QED
  BY <1>2, <1>3, <1>4

LEMMA BringStill ==
    ASSUME NEW h \in Cam, NEW r \in Bring(h)
    PROVE  /\ r.ok \in BOOLEAN /\ Still(h, r.h) /\ r.h.state = h.state
           /\ ~r.ok /\ NoVideo(h) => NoVideo(r.h)
<1>1. PICK p \in preparePreview(h) :
        r \in IF p.ok THEN OrElse(startPreview(p.h), unpreparePreview) ELSE {p}
  BY DEF Bring, Then
<1>2. p.ok \in BOOLEAN /\ Still(h, p.h) /\ p.h.state = h.state /\ (~p.ok /\ NoVideo(h) => NoVideo(p.h))
  BY PrepareStill
<1>3. CASE p.ok
  <2>1. r \in OrElse(startPreview(p.h), unpreparePreview) /\ p.h \in Cam
    BY <1>1, <1>2, <1>3 DEF Still
  <2>2. r.ok \in BOOLEAN /\ Still(p.h, r.h) /\ r.h.state = p.h.state /\ (~r.ok => NoVideo(r.h))
    BY <2>1, TryStill
  <2>3. Still(h, r.h)
    BY <1>2, <2>2, StillTwice
  <2> QED
    BY <1>2, <2>2, <2>3
<1>4. CASE ~p.ok
  BY <1>1, <1>2, <1>4
<1> QED
  BY <1>2, <1>3, <1>4

LEMMA BringAnyhowStill ==
    ASSUME NEW h \in Cam, NEW r \in BringAnyhow(h)
    PROVE  r.ok \in BOOLEAN /\ Still(h, r.h) /\ r.h.state = h.state
<1>1. PICK p \in preparePreview(h) : r \in IF p.ok THEN startPreview(p.h) ELSE {p}
  BY DEF BringAnyhow, Then
<1>2. p.ok \in BOOLEAN /\ Still(h, p.h) /\ p.h.state = h.state
  BY PrepareStill
<1>3. CASE p.ok
  <2>1. r \in startPreview(p.h) /\ p.h \in Cam
    BY <1>1, <1>2, <1>3 DEF Still
  <2>2. r.ok \in BOOLEAN /\ Still(p.h, r.h) /\ r.h.state = p.h.state
    BY <2>1, StartPreviewStill
  <2>3. Still(h, r.h)
    BY <1>2, <2>2, StillTwice
  <2> QED
    BY <1>2, <2>2, <2>3
<1>4. CASE ~p.ok
  BY <1>1, <1>2, <1>4
<1> QED
  BY <1>2, <1>3, <1>4

-----------------------------------------------------------------------------
(* What the handlers of several states share.                               *)

\* Nothing that Mode or Turned speaks of differs.
Unmoved(h, g) ==
    /\ g \in Cam /\ g.state = h.state /\ g.zsl = h.zsl /\ g.zslNew = h.zslNew /\ g.hint = h.hint
    /\ g.longshot = h.longshot /\ g.pic = h.pic /\ g.restart = h.restart
    /\ NoVideo(g) = NoVideo(h)

LEMMA UnmovedMode ==
    ASSUME NEW h, NEW g, Mode(h), Unmoved(h, g) PROVE Mode(g)
  BY DEF Mode, Base, Fits, Unmoved, isCaptureRunning, isRecording

LEMMA UnmovedDrives ==
    ASSUME NEW e, e # "SET_PARAMS" \/ cam.state = "PREPARE_SNAPSHOT", NEW g, Mode(cam), Unmoved(cam, g), Become(g)
    PROVE  Drove(e)
<1>1. Mode(g)
  BY UnmovedMode
<1>2. Turned(e, cam, g)
  BY DEF Turned, Unmoved
<1> QED
  BY <1>1, <1>2, BecomeDrives DEF Unmoved

LEMMA AnsweredDrives ==
    ASSUME NEW e, NEW S, "SET_PARAMS" \notin S \/ cam.state = "PREPARE_SNAPSHOT", NEW h, Mode(cam), Unmoved(cam, h),
           Refused(e, h, S) \/ Accepted(e, h, S) \/ Ignored(e, h, S)
    PROVE  Drove(e)
<1>1. e \in S /\ Become(h)
  BY DEF Refused, Accepted, Ignored, Answer, Quiet
<1> QED
  BY <1>1, UnmovedDrives

LEMMA SelfUnmoved == ASSUME cam \in Cam PROVE Unmoved(cam, cam)
  BY DEF Unmoved

LEMMA MsgsDrives ==
    ASSUME NEW e, cam \in Cam, Mode(cam), Msgs(e, cam)
    PROVE  Drove(e)
<1> DEFINE on == [cam EXCEPT !.msgs = TRUE, !.wanted = TRUE]
           off == [cam EXCEPT !.msgs = FALSE, !.wanted = FALSE]
<1>1. Unmoved(cam, on) /\ Unmoved(cam, off)
  BY ZenonT(60) DEF Cam, Unmoved, NoVideo
<1>2. (Become(on) \/ Become(off)) /\ e # "SET_PARAMS"
  BY DEF Msgs, Answer
<1> HIDE DEF on, off
<1> QED
  BY <1>1, <1>2, UnmovedDrives

LEMMA SnapshotDoneDrives ==
    ASSUME NEW e, cam \in Cam, Mode(cam), SnapshotDone(e, cam)
    PROVE  Drove(e)
<1> DEFINE g == [cam EXCEPT !.notifier = "free"]
<1>1. Unmoved(cam, g)
  BY DEF Cam, Unmoved, NoVideo
<1>2. Become(g) /\ e # "SET_PARAMS"
  BY DEF SnapshotDone, Quiet
<1> HIDE DEF g
<1> QED
  BY <1>1, <1>2, UnmovedDrives

LEMMA SetParamsDrives ==
    ASSUME NEW e, Tame, cam \in Cam, Mode(cam), cam.zslNew = cam.zsl, SetParams(e, cam)
    PROVE  Drove(e)
<1> DEFINE same == [cam EXCEPT !.restart = FALSE]
           new(z, v) == [cam EXCEPT !.zslNew = z, !.hintNew = v, !.restart = TRUE]
<1>0. e = "SET_PARAMS" /\ e \in Own
  BY DEF SetParams, Own, Api
<1>1. ASSUME Become(same) PROVE Drove(e)
  <2>1. /\ same \in Cam /\ same.state = cam.state /\ same.zsl = cam.zsl /\ same.zslNew = cam.zslNew
        /\ same.hint = cam.hint /\ same.longshot = cam.longshot /\ same.pic = cam.pic
        /\ ~same.restart /\ same.ch = cam.ch
    BY DEF Cam
  <2> HIDE DEF same
  <2>2. Mode(same)
    BY <2>1 DEF Mode, Base, Fits, NoVideo, isCaptureRunning, isRecording
  <2>3. Turned(e, cam, same)
    BY <1>0, <2>1 DEF Turned
  <2> QED
    BY <1>1, <2>1, <2>2, <2>3, BecomeDrives
<1>2. ASSUME NEW z \in BOOLEAN, NEW v \in BOOLEAN, cam.longshot => z = cam.zsl,
             cam.state \in Reconfigure, Become(new(z, v))
      PROVE  Drove(e)
  <2> DEFINE g == new(z, v)
  <2>1. /\ g \in Cam /\ g.state = cam.state /\ g.zsl = cam.zsl /\ g.zslNew = z
        /\ g.hint = cam.hint /\ g.longshot = cam.longshot /\ g.pic = cam.pic /\ g.ch = cam.ch
    BY ZenonT(60) DEF Cam
  <2>2. Become(g)
    BY <1>2
  <2> HIDE DEF g
  <2>3. Mode(g)
    BY <1>2, <2>1 DEF Mode, Base, Fits, NoVideo, isCaptureRunning, isRecording
  <2>4. Turned(e, cam, g)
    BY <1>0, <1>2, <2>1 DEF Turned, Tame
  <2> QED
    BY <2>1, <2>2, <2>3, <2>4, BecomeDrives
<1>3. \/ Become(same)
      \/ /\ cam.state \in Reconfigure
         /\ \E z, v \in BOOLEAN : (cam.longshot => z = cam.zsl) /\ Become(new(z, v))
  BY DEF SetParams, Answer
<1> HIDE DEF same, new
<1> QED
  BY <1>1, <1>2, <1>3

\* The calls whose handlers are told apart by nothing else than their outcome.
Plainly == Own \ {"TAKE_PICTURE", "SET_PARAMS"}

LEMMA ModeDrives ==
    ASSUME NEW e \in Plainly, NEW g \in Cam, Become(g), Mode(g),
           g.state = "PIC_TAKING" /\ g.pic = "shot" => cam.state = "PIC_TAKING" /\ cam.pic = "shot",
           e = "COMMIT_PARAMS" => ~g.restart /\ (cam.state \in Quiescent => g.state \in Quiescent)
    PROVE  Drove(e)
<1>1. Turned(e, cam, g)
  BY DEF Turned, Plainly, Own
<1> QED
  BY <1>1, BecomeDrives

LEMMA QuiescentMode ==
    ASSUME NEW h, Base(h), h.pic = "none", NEW g, Still(h, g), g.state \in Quiescent,
           g.state = "STOPPED" => NoVideo(g)
    PROVE  Mode(g)
<1>1. Base(g)
  BY StillBase
<1> QED
  BY <1>1 DEF Still, Mode, Fits, Quiescent, isCaptureRunning, isRecording

LEMMA ArriveDrives ==
    ASSUME NEW e \in Plainly, NEW h, Base(h), h.pic = "none", NEW g, Still(h, g), g.state \in Quiescent,
           g.state = "STOPPED" => NoVideo(g), e = "COMMIT_PARAMS" => ~h.restart, Become(g)
    PROVE  Drove(e)
<1>1. Mode(g)
  BY QuiescentMode
<1> QED
  BY <1>1, ModeDrives DEF Still, Quiescent

LEMMA SetState ==
    ASSUME NEW k \in Cam, NEW s \in State
    PROVE  LET g == [k EXCEPT !.state = s]
           IN  /\ g \in Cam /\ g.state = s /\ g.pic = k.pic /\ NoVideo(g) = NoVideo(k)
               /\ g.zsl = k.zsl /\ g.zslNew = k.zslNew /\ g.hint = k.hint /\ g.longshot = k.longshot
               /\ g.restart = k.restart
               /\ \A h : Still(h, k) => Still(h, g)
  BY DEF Cam, Still, NoVideo

\* The outcomes r of an operation on h that ends in a state without a picture.
LEMMA OutcomeDrives ==
    ASSUME NEW e \in Plainly, NEW h, Base(h), h.pic = "none", NEW S,
           \A r \in S : r.ok \in BOOLEAN /\ Still(h, r.h) /\ (~r.ok => NoVideo(r.h)),
           NEW good \in {"PREVIEWING", "READY"}, NEW bad,
           \E r \in S : Become([r.h EXCEPT !.state = IF r.ok THEN good ELSE bad]),
           bad = "STOPPED" \/ \A r \in S : r.ok,
           e = "COMMIT_PARAMS" => ~h.restart
    PROVE  Drove(e)
<1>1. PICK r \in S : Become([r.h EXCEPT !.state = IF r.ok THEN good ELSE bad])
  OBVIOUS
<1> DEFINE s == IF r.ok THEN good ELSE bad
           g == [r.h EXCEPT !.state = s]
<1>2. s \in Quiescent /\ s \in State /\ (s = "STOPPED" => NoVideo(r.h)) /\ Still(h, r.h)
  BY DEF Quiescent, State
<1>3. Become(g)
  BY <1>1
<1> HIDE DEF s
<1>4. g.state = s /\ NoVideo(g) = NoVideo(r.h) /\ Still(h, g)
  BY <1>2, SetState DEF Still
<1> HIDE DEF g
<1> QED
  BY <1>2, <1>3, <1>4, ArriveDrives

LEMMA DecideDrives ==
    ASSUME NEW e \in Plainly, NEW h, Base(h), h.pic = "none", NEW S,
           \A r \in S : r.ok \in BOOLEAN /\ Still(h, r.h) /\ (~r.ok => NoVideo(r.h)),
           NEW good \in {"PREVIEWING", "READY"}, NEW bad, Decide(e, S, good, bad),
           bad = "STOPPED" \/ \A r \in S : r.ok,
           e = "COMMIT_PARAMS" => ~h.restart
    PROVE  Drove(e)
<1>1. \E r \in S : Become([r.h EXCEPT !.state = IF r.ok THEN good ELSE bad])
  BY DecideBecomes
<1> QED
  BY <1>1, OutcomeDrives

LEMMA LongshotDrives ==
    ASSUME NEW e, NEW h \in Cam, Mode(h), h.state = cam.state, h.pic = cam.pic, h.zslNew = h.zsl,
           e = "LONGSHOT_ON" => h.zsl, h.state # "PIC_TAKING", Longshot(e, h)
    PROVE  Drove(e)
<1>1. e \in Plainly /\ e # "COMMIT_PARAMS"
  BY DEF Longshot, Own, Api, Plainly
<1>2. ASSUME NEW g \in Cam, Become(g), Mode(g), g.state # "PIC_TAKING" PROVE Drove(e)
  BY <1>1, <1>2, ModeDrives
<1>3. CASE Become(h)
  BY <1>2, <1>3
<1>4. CASE e = "LONGSHOT_ON" /\ Become([h EXCEPT !.longshot = TRUE])
  <2> DEFINE g == [h EXCEPT !.longshot = TRUE]
  <2>1. /\ g \in Cam /\ g.state = h.state /\ g.zsl = h.zsl /\ g.zslNew = h.zslNew
        /\ g.hint = h.hint /\ g.pic = h.pic /\ g.ch = h.ch
    BY DEF Cam
  <2>2. Become(g)
    BY <1>4
  <2> HIDE DEF g
  <2>3. Mode(g)
    BY <1>4, <2>1 DEF Mode, Base, Fits, NoVideo, isCaptureRunning, isRecording
  <2> QED
    BY <1>2, <2>1, <2>2, <2>3
<1>5. CASE e = "LONGSHOT_OFF" /\ Become(LongshotOff(h))
  <2> DEFINE g == LongshotOff(h)
  <2>1. g \in Cam /\ Same(h, g) /\ ~g.longshot /\ g.pic \in {h.pic, "none"} /\ (NoVideo(h) => NoVideo(g))
    BY LongshotOffStill
  <2>2. Become(g)
    BY <1>5
  <2> HIDE DEF g
  <2>3. Mode(g)
    BY <2>1 DEF Mode, Base, Fits, Same, isCaptureRunning, isRecording
  <2> QED
    BY <1>2, <2>1, <2>2, <2>3 DEF Same
<1> QED
  BY <1>3, <1>4, <1>5 DEF Longshot, Answer

LEMMA CommitIs ==
    ASSUME NEW h \in Cam,
           NEW g, g = [commitParameters(h) EXCEPT !.restart = FALSE] \/ g = commitParameters([h EXCEPT !.restart = FALSE])
    PROVE  /\ g \in Cam /\ g.state = h.state /\ g.ch = h.ch /\ g.zsl = h.zslNew /\ g.zslNew = h.zslNew
           /\ g.hint = h.hintNew /\ g.hintNew = h.hintNew /\ g.longshot = h.longshot
           /\ g.pic = h.pic /\ ~g.restart
<1> DEFINE k == commitParameters(h)
           l == [h EXCEPT !.restart = FALSE]
<1>1. /\ k \in Cam /\ k.state = h.state /\ k.ch = h.ch /\ k.zsl = h.zslNew /\ k.zslNew = h.zslNew
      /\ k.hint = h.hintNew /\ k.hintNew = h.hintNew /\ k.longshot = h.longshot /\ k.pic = h.pic
  BY DEF Cam, commitParameters
<1>2. /\ l \in Cam /\ l.state = h.state /\ l.ch = h.ch /\ l.zslNew = h.zslNew
      /\ l.hintNew = h.hintNew /\ l.longshot = h.longshot /\ l.pic = h.pic /\ ~l.restart
  BY DEF Cam
<1>3. CASE g = [k EXCEPT !.restart = FALSE]
  <2> HIDE DEF k
  <2> QED BY ZenonT(60), <1>1, <1>3 DEF Cam
<1>4. CASE g = commitParameters(l)
  <2> HIDE DEF l
  <2> QED BY ZenonT(60), <1>2, <1>4 DEF Cam, commitParameters
<1> QED
  BY <1>3, <1>4

LEMMA CommitDrives ==
    ASSUME NEW e, e = "COMMIT_PARAMS", cam \in Cam, Mode(cam),
           cam.state = "STOPPED" \/ (cam.zslNew = cam.zsl /\ cam.hintNew = cam.hint),
           NEW g, g = [commitParameters(cam) EXCEPT !.restart = FALSE] \/ g = commitParameters([cam EXCEPT !.restart = FALSE]),
           Become(g)
    PROVE  Drove(e)
<1>1. /\ g \in Cam /\ g.state = cam.state /\ g.ch = cam.ch /\ g.zsl = cam.zslNew /\ g.zslNew = cam.zslNew
      /\ g.hint = cam.hintNew /\ g.longshot = cam.longshot /\ g.pic = cam.pic /\ ~g.restart
  BY CommitIs
<1>2. Mode(g)
  BY <1>1 DEF Mode, Base, Fits, NoVideo, isCaptureRunning, isRecording
<1>3. e \in Plainly
  BY DEF Plainly, Own, Api
<1> QED
  BY <1>1, <1>2, <1>3, ModeDrives

-----------------------------------------------------------------------------
(* Stopped and ready.                                                       *)

\* No changed parameter waits for its commit.
Committed(h) == h.zslNew = h.zsl /\ h.hintNew = h.hint

LEMMA WindowUnmoved ==
    ASSUME NEW w \in BOOLEAN, cam \in Cam PROVE Unmoved(cam, [cam EXCEPT !.window = w])
  BY DEF Cam, Unmoved, NoVideo

LEMMA IdleInQuiescent ==
    ASSUME Mode(cam), cam.state \in Quiescent PROVE Base(cam) /\ cam.pic = "none"
  BY DEF Mode, Fits, Quiescent, isCaptureRunning

LEMMA StoppedDrives ==
    ASSUME NEW e, Tame, cam \in Cam, Mode(cam), cam.state = "STOPPED",
           e \in Own \ {"COMMIT_PARAMS"} => Committed(cam), e = "LONGSHOT_ON" => cam.zsl,
           PreviewStopped(e, cam)
    PROVE  Drove(e)
<1>1. Base(cam) /\ cam.pic = "none" /\ NoVideo(cam)
  BY IdleInQuiescent DEF Mode, Fits, Quiescent
<1>2. CASE Msgs(e, cam)
  BY <1>2, MsgsDrives
<1>3. CASE SetParams(e, cam)
  <2>1. e \in Own \ {"COMMIT_PARAMS"}
    BY <1>3 DEF SetParams, Own, Api
  <2> QED
    BY <1>3, <2>1, SetParamsDrives DEF Committed
<1>4. CASE e = "SET_PREVIEW_WINDOW" /\ \E w \in BOOLEAN : Answer(e, TRUE, [cam EXCEPT !.window = w])
  <2>1. PICK w \in BOOLEAN : Become([cam EXCEPT !.window = w])
    BY <1>4 DEF Answer
  <2> QED
    BY <1>4, <2>1, WindowUnmoved, UnmovedDrives
<1>5. CASE e = "COMMIT_PARAMS" /\ Answer(e, TRUE, [commitParameters(cam) EXCEPT !.restart = FALSE])
  <2>1. Become([commitParameters(cam) EXCEPT !.restart = FALSE])
    BY <1>5 DEF Answer
  <2> QED
    BY <1>5, <2>1, CommitDrives
<1>6. CASE Longshot(e, cam)
  <2>1. e \in Own \ {"COMMIT_PARAMS"}
    BY <1>6 DEF Longshot, Own, Api
  <2> QED
    BY <1>6, <2>1, LongshotDrives DEF Committed
<1>7. CASE e = "START_PREVIEW" /\ (Decide(e, Bring(cam), "PREVIEWING", "STOPPED") \/ Decide(e, preparePreview(cam), "READY", "STOPPED"))
  <2>1. e \in Plainly /\ e # "COMMIT_PARAMS"
    BY <1>7 DEF Plainly, Own, Api
  <2>2. \A r \in Bring(cam) : r.ok \in BOOLEAN /\ Still(cam, r.h) /\ (~r.ok => NoVideo(r.h))
    BY <1>1, BringStill
  <2>3. \A r \in preparePreview(cam) : r.ok \in BOOLEAN /\ Still(cam, r.h) /\ (~r.ok => NoVideo(r.h))
    BY <1>1, PrepareStill
  <2>4. CASE Decide(e, Bring(cam), "PREVIEWING", "STOPPED")
    BY <1>1, <2>1, <2>2, <2>4, DecideDrives
  <2>5. CASE Decide(e, preparePreview(cam), "READY", "STOPPED")
    BY <1>1, <2>1, <2>3, <2>5, DecideDrives
  <2> QED
    BY <1>7, <2>4, <2>5
<1>8. CASE e = "RELEASE" /\ Answer(e, TRUE, delChannel(cam, Channel))
  <2> DEFINE g == delChannel(cam, Channel)
  <2>1. e \in Plainly /\ e # "COMMIT_PARAMS" /\ "none" \in Marks /\ "VIDEO" \in Channel
    BY <1>8 DEF Plainly, Own, Api, Marks, Channel
  <2>2. Still(cam, g) /\ g.state = "STOPPED" /\ NoVideo(g)
    BY <2>1, PutStill DEF delChannel
  <2>3. Become(g)
    BY <1>8 DEF Answer
  <2> HIDE DEF g
  <2> QED
    BY <1>1, <2>1, <2>2, <2>3, ArriveDrives DEF Quiescent
<1> QED
  BY <1>2, <1>3, <1>4, <1>5, <1>6, <1>7, <1>8, SelfUnmoved, AnsweredDrives, SnapshotDoneDrives
     DEF PreviewStopped, StoppedParams

LEMMA ReadyStartDrives ==
    ASSUME NEW e \in Plainly, e # "COMMIT_PARAMS", NEW g, Base(g), g \in Cam, g.pic = "none", ReadyStart(e, g)
    PROVE  Drove(e)
<1>1. \A r \in OrElse(startPreview(g), unpreparePreview) :
        r.ok \in BOOLEAN /\ Still(g, r.h) /\ (~r.ok => NoVideo(r.h))
  BY TryStill
<1>2. \E r \in OrElse(startPreview(g), unpreparePreview) :
        Become([r.h EXCEPT !.state = IF r.ok THEN "PREVIEWING" ELSE "STOPPED"])
  BY DEF ReadyStart, Answer
<1> QED
  BY <1>1, <1>2, OutcomeDrives

LEMMA UnmovedStill ==
    ASSUME NEW h, NEW g, Unmoved(h, g), Base(h), h.pic = "none" PROVE Base(g) /\ g \in Cam /\ g.pic = "none"
  BY DEF Unmoved, Base

LEMMA ReadyDrives ==
    ASSUME NEW e, Tame, cam \in Cam, Mode(cam), cam.state = "READY",
           e \in Own \ {"COMMIT_PARAMS"} => Committed(cam), e = "LONGSHOT_ON" => cam.zsl,
           ~cam.restart => Committed(cam),
           PreviewReady(e, cam)
    PROVE  Drove(e)
<1>1. Base(cam) /\ cam.pic = "none"
  BY IdleInQuiescent DEF Quiescent
<1>2. CASE Msgs(e, cam)
  BY <1>2, MsgsDrives
<1>3. CASE SetParams(e, cam)
  <2>1. e \in Own \ {"COMMIT_PARAMS"}
    BY <1>3 DEF SetParams, Own, Api
  <2> QED
    BY <1>3, <2>1, SetParamsDrives DEF Committed
<1>4. CASE /\ e = "SET_PREVIEW_WINDOW"
           /\ \E w \in BOOLEAN : LET g == [cam EXCEPT !.window = w] IN
                IF w THEN ReadyStart(e, g) ELSE Answer(e, TRUE, g)
  <2>1. e \in Plainly /\ e # "COMMIT_PARAMS"
    BY <1>4 DEF Plainly, Own, Api
  <2>2. PICK w \in BOOLEAN : ReadyStart(e, [cam EXCEPT !.window = w]) \/ Become([cam EXCEPT !.window = w])
    BY <1>4 DEF Answer
  <2> DEFINE g == [cam EXCEPT !.window = w]
  <2>3. Unmoved(cam, g) /\ (ReadyStart(e, g) \/ Become(g))
    BY <2>2, WindowUnmoved
  <2> HIDE DEF g
  <2>4. Base(g) /\ g \in Cam /\ g.pic = "none"
    BY <1>1, <2>3, UnmovedStill
  <2>5. CASE ReadyStart(e, g)
    BY <2>1, <2>4, <2>5, ReadyStartDrives
  <2>6. CASE Become(g)
    BY <1>4, <2>3, <2>6, UnmovedDrives
  <2> QED
    BY <2>3, <2>5, <2>6
<1>5. CASE /\ e = "COMMIT_PARAMS"
           /\ LET g == [commitParameters(cam) EXCEPT !.restart = FALSE] IN
                IF cam.restart THEN Decide(e, preparePreview(unpreparePreview(g)), "READY", "STOPPED")
                               ELSE Answer(e, TRUE, g)
  <2> DEFINE g == [commitParameters(cam) EXCEPT !.restart = FALSE]
             u == unpreparePreview(g)
  <2>1. IF cam.restart THEN Decide(e, preparePreview(u), "READY", "STOPPED") ELSE Become(g)
    BY <1>5 DEF Answer
  <2>2. /\ g \in Cam /\ g.zsl = cam.zslNew /\ g.zslNew = cam.zslNew /\ g.longshot = cam.longshot
        /\ g.pic = cam.pic /\ ~g.restart
    BY CommitIs
  <2>3. CASE ~cam.restart
    BY <1>5, <2>1, <2>3, CommitDrives DEF Committed
  <2> HIDE DEF g
  <2>4. Still(g, u) /\ u.longshot = g.longshot /\ u.pic = g.pic /\ NoVideo(u)
    BY <2>2, UnprepareStill
  <2> HIDE DEF u
  <2>5. Base(u) /\ u \in Cam /\ u.pic = "none" /\ ~u.restart
    BY <1>1, <2>2, <2>4 DEF Still, Base
  <2>6. \A r \in preparePreview(u) : r.ok \in BOOLEAN /\ Still(u, r.h) /\ (~r.ok => NoVideo(r.h))
    BY <2>4, <2>5, PrepareStill
  <2>7. e \in Plainly
    BY <1>5 DEF Plainly, Own, Api
  <2>8. CASE cam.restart
    BY <2>1, <2>5, <2>6, <2>7, <2>8, DecideDrives
  <2> QED
    BY <2>3, <2>8
<1>6. CASE Longshot(e, cam)
  <2>1. e \in Own \ {"COMMIT_PARAMS"}
    BY <1>6 DEF Longshot, Own, Api
  <2> QED
    BY <1>6, <2>1, LongshotDrives DEF Committed
<1>7. CASE e = "START_PREVIEW" /\ IF cam.window THEN ReadyStart(e, cam) ELSE Answer(e, TRUE, cam)
  <2>1. e \in Plainly /\ e # "COMMIT_PARAMS"
    BY <1>7 DEF Plainly, Own, Api
  <2>2. CASE ReadyStart(e, cam)
    BY <1>1, <2>1, <2>2, ReadyStartDrives
  <2>3. CASE Become(cam)
    BY <1>7, <2>3, SelfUnmoved, UnmovedDrives
  <2> QED
    BY <1>7, <2>2, <2>3 DEF Answer
<1>8. CASE e = "STOP_PREVIEW" /\ Answer(e, TRUE, [unpreparePreview(cam) EXCEPT !.state = "STOPPED"])
  <2> DEFINE u == unpreparePreview(cam)
             g == [u EXCEPT !.state = "STOPPED"]
  <2>1. e \in Plainly /\ e # "COMMIT_PARAMS"
    BY <1>8 DEF Plainly, Own, Api
  <2>2. Still(cam, u) /\ NoVideo(u) /\ u \in Cam
    BY UnprepareStill DEF Still
  <2>3. Become(g)
    BY <1>8 DEF Answer
  <2> HIDE DEF u
  <2>4. Still(cam, g) /\ g.state = "STOPPED" /\ NoVideo(g)
    BY ZenonT(60), <2>2, SetState DEF State
  <2> HIDE DEF g
  <2> QED
    BY <1>1, <2>1, <2>3, <2>4, ArriveDrives DEF Quiescent
<1> QED
  BY <1>2, <1>3, <1>4, <1>5, <1>6, <1>7, <1>8, SelfUnmoved, AnsweredDrives, SnapshotDoneDrives
     DEF PreviewReady, ReadyParams

-----------------------------------------------------------------------------
(* Previewing.                                                              *)

LEMMA UndisturbedIsUnmoved ==
    ASSUME NEW h, NEW g \in Cam, Undisturbed(h, g) PROVE Unmoved(h, g) /\ Still(h, g)
  BY DEF Undisturbed, Unmoved, Still, NoVideo

LEMMA DelayedUnmoved ==
    ASSUME NEW h \in Cam
    PROVE  Unmoved(h, applyDelayedMsgs(h)) /\ Still(h, applyDelayedMsgs(h))
  BY DelayedAreApplied, UndisturbedIsUnmoved

LEMMA PreviewingMsgsDrives ==
    ASSUME NEW e, cam \in Cam, Mode(cam), PreviewingMsgs(e, cam)
    PROVE  Drove(e)
<1> DEFINE a == [cam EXCEPT !.delayed = TRUE, !.wanted = TRUE]
           b == [cam EXCEPT !.msgs = TRUE, !.wanted = TRUE]
           y == cam.delay /\ ~cam.delayed
           z == cam.delayed /\ ~cam.delay
           c == [cam EXCEPT !.msgs = FALSE, !.wanted = FALSE, !.delay = y, !.delayed = z]
<1>1. e # "SET_PARAMS" /\ (Become(a) \/ Become(b) \/ Become(c))
  BY DEF PreviewingMsgs, Answer
<1>2. Unmoved(cam, a) /\ Unmoved(cam, b)
  BY DEF Cam, Unmoved, NoVideo
<1>3. y \in BOOLEAN /\ z \in BOOLEAN
  OBVIOUS
<1> HIDE DEF y, z
<1>4. Unmoved(cam, c)
  <2>1. c \in Cam
    BY ZenonT(60), <1>3 DEF Cam
  <2>2. /\ c.state = cam.state /\ c.zsl = cam.zsl /\ c.zslNew = cam.zslNew /\ c.hint = cam.hint
        /\ c.longshot = cam.longshot /\ c.pic = cam.pic /\ c.restart = cam.restart
        /\ c.ch = cam.ch
    BY ZenonT(60) DEF Cam
  <2> HIDE DEF c
  <2> QED
    BY <2>1, <2>2 DEF Unmoved, NoVideo
<1> HIDE DEF a, b, c
<1> QED
  BY <1>1, <1>2, <1>4, UnmovedDrives

\* The preview is brought up again after h, stopped, was given another mode.
LEMMA UpdatedIs ==
    ASSUME NEW h \in Cam, NEW v \in BOOLEAN
    PROVE  LET g == updateRecordingHintValue(h, v)
           IN  /\ g \in Cam /\ g.state = h.state /\ g.ch = h.ch /\ g.zsl = h.zslNew /\ g.zslNew = h.zslNew
               /\ g.hint = v /\ g.hintNew = v /\ g.longshot = h.longshot /\ g.pic = h.pic
               /\ g.restart = h.restart
  BY ZenonT(60) DEF Cam, commitParameters, updateRecordingHintValue

LEMMA StoppedThenUpdated ==
    ASSUME cam \in Cam, Base(cam), cam.pic = "none", NEW v \in BOOLEAN
    PROVE  LET g == updateRecordingHintValue(stopPreview(cam), v)
           IN  /\ g \in Cam /\ Base(g) /\ g.pic = "none" /\ NoVideo(g) /\ g.state = cam.state /\ g.hint = v
               /\ g.zsl = cam.zslNew /\ g.zslNew = cam.zslNew
<1> DEFINE k == stopPreview(cam)
           g == updateRecordingHintValue(k, v)
<1>1. Still(cam, k) /\ k.state = cam.state /\ k.longshot = cam.longshot /\ NoVideo(k)
  BY StopPreviewStill
<1> HIDE DEF k
<1>2. /\ g \in Cam /\ g.state = k.state /\ g.ch = k.ch /\ g.zsl = k.zslNew /\ g.zslNew = k.zslNew
      /\ g.hint = v /\ g.longshot = k.longshot /\ g.pic = k.pic
  BY <1>1, UpdatedIs DEF Still
<1> HIDE DEF g
<1>3. Base(g) /\ g.pic = "none" /\ NoVideo(g)
  BY <1>1, <1>2 DEF Still, Base, NoVideo
<1>4. g \in Cam /\ g.state = cam.state /\ g.hint = v /\ g.zsl = cam.zslNew /\ g.zslNew = cam.zslNew
  BY <1>1, <1>2 DEF Still
<1> QED
  BY <1>3, <1>4 DEF g, k

LEMMA AnsweredBring ==
    ASSUME NEW e \in Plainly, e # "COMMIT_PARAMS", NEW h \in Cam, Base(h), h.pic = "none",
           h.state = "PREVIEWING", NEW S, S = Bring(h) \/ S = BringAnyhow(h), AnswerOne(e, S)
    PROVE  Drove(e)
<1>1. PICK r \in S : Become(r.h)
  BY AnswerOneBecomes
<1>2. Still(h, r.h) /\ r.h.state = "PREVIEWING"
  BY BringStill, BringAnyhowStill
<1> QED
  BY <1>1, <1>2, ArriveDrives DEF Quiescent

LEMMA RestartDrives ==
    ASSUME NEW e, cam \in Cam, Mode(cam), cam.state = "PREVIEWING",
           ~cam.restart => Committed(cam), Restart(e, cam, "STOPPED")
    PROVE  Drove(e)
<1>0. Base(cam) /\ cam.pic = "none" /\ e = "COMMIT_PARAMS" /\ e \in Plainly
  BY IdleInQuiescent DEF Quiescent, Restart, Plainly, Own, Api
<1> DEFINE g == [cam EXCEPT !.restart = FALSE]
           k == stopPreview(g)
           c == commitParameters(k)
<1>1. IF cam.restart THEN Decide(e, Bring(c), "PREVIEWING", "STOPPED") ELSE Become(commitParameters(g))
  BY DEF Restart, Answer
<1>2. CASE ~cam.restart
  BY <1>0, <1>1, <1>2, CommitDrives DEF Committed
<1>3. CASE cam.restart
  <2>1. /\ g \in Cam /\ g.longshot = cam.longshot /\ g.pic = "none" /\ ~g.restart /\ g.zslNew = cam.zslNew
        /\ g.ch = cam.ch /\ g.hint = cam.hint
    BY <1>0 DEF Cam
  <2> HIDE DEF g
  <2>2. Still(g, k) /\ k.longshot = g.longshot /\ NoVideo(k)
    BY <2>1, StopPreviewStill
  <2> HIDE DEF k
  <2>3. k \in Cam /\ k.pic = "none" /\ ~k.restart /\ k.zslNew = cam.zslNew
    BY <2>1, <2>2 DEF Still
  <2>4. /\ c \in Cam /\ c.ch = k.ch /\ c.zsl = k.zslNew /\ c.zslNew = k.zslNew /\ c.longshot = k.longshot
        /\ c.pic = k.pic /\ c.restart = k.restart
    BY <2>3 DEF Cam, commitParameters
  <2> HIDE DEF c
  <2>5. Base(c) /\ c.pic = "none" /\ NoVideo(c) /\ ~c.restart
    BY <1>0, <2>1, <2>2, <2>3, <2>4 DEF Base, NoVideo
  <2>6. \A r \in Bring(c) : r.ok \in BOOLEAN /\ Still(c, r.h) /\ (~r.ok => NoVideo(r.h))
    BY <2>4, <2>5, BringStill
  <2> QED
    BY <1>0, <1>1, <1>3, <2>5, <2>6, DecideDrives
<1> QED
  BY <1>2, <1>3

LEMMA StopPreviewDrives ==
    ASSUME NEW e, cam \in Cam, Mode(cam), cam.state = "PREVIEWING", e = "STOP_PREVIEW",
           Answer(e, TRUE, [applyDelayedMsgs(stopPreview(cam)) EXCEPT !.state = "STOPPED"])
    PROVE  Drove(e)
<1>0. Base(cam) /\ cam.pic = "none" /\ e \in Plainly
  BY IdleInQuiescent DEF Quiescent, Plainly, Own, Api
<1> DEFINE k == stopPreview(cam)
           a == applyDelayedMsgs(k)
           g == [a EXCEPT !.state = "STOPPED"]
<1>1. Still(cam, k) /\ NoVideo(k)
  BY StopPreviewStill
<1> HIDE DEF k
<1>2. Still(k, a) /\ Unmoved(k, a)
  BY <1>1, DelayedUnmoved DEF Still
<1> HIDE DEF a
<1>3. Still(cam, a) /\ NoVideo(a) /\ a \in Cam
  BY <1>1, <1>2, StillTwice DEF Unmoved
<1>4. Still(cam, g) /\ g.state = "STOPPED" /\ NoVideo(g)
  BY ZenonT(60), <1>3, SetState DEF State
<1>5. Become(g)
  BY DEF Answer, g, a, k
<1> HIDE DEF g
<1> QED
  BY <1>0, <1>4, <1>5, ArriveDrives DEF Quiescent

LEMMA StartRecordingDrives ==
    ASSUME NEW e, cam \in Cam, Mode(cam), cam.state = "PREVIEWING", e = "START_RECORDING",
           NEW r \in startRecording(cam),
           Become(IF r.ok THEN [applyDelayedMsgs(r.h) EXCEPT !.state = "RECORDING"] ELSE r.h)
    PROVE  Drove(e)
<1>0. Base(cam) /\ cam.pic = "none" /\ e \in Plainly /\ "VIDEO" \in Channel
  BY IdleInQuiescent DEF Quiescent, Plainly, Own, Api, Channel
<1>1. /\ r.ok \in BOOLEAN /\ Still(cam, r.h) /\ r.h.state = "PREVIEWING"
      /\ r.ok => cam.ch["VIDEO"] # "none"
  BY <1>0, StartStill DEF startRecording
<1>2. CASE ~r.ok
  BY <1>0, <1>1, <1>2, ArriveDrives DEF Quiescent
<1>3. CASE r.ok
  <2> DEFINE a == applyDelayedMsgs(r.h)
             g == [a EXCEPT !.state = "RECORDING"]
  <2>1. Still(r.h, a) /\ Unmoved(r.h, a)
    BY <1>1, DelayedUnmoved DEF Still
  <2>2. Become(g)
    BY <1>3
  <2> HIDE DEF a
  <2>3. Still(cam, a) /\ a \in Cam
    BY <1>1, <2>1, StillTwice DEF Still
  <2>4. Still(cam, g) /\ g.state = "RECORDING" /\ g \in Cam
    BY <2>3, SetState DEF State
  <2> HIDE DEF g
  <2>5. Base(g) /\ g.hint /\ g.pic = "none"
    BY <1>0, <1>1, <1>3, <2>4, StillBase DEF Still, Base, NoVideo
  <2>6. Mode(g)
    BY <2>4, <2>5 DEF Mode, Fits
  <2> QED
    BY <1>0, <2>2, <2>4, <2>6, ModeDrives
<1> QED
  BY <1>1, <1>2, <1>3

LEMMA PrepareSnapshotDrives ==
    ASSUME NEW e, cam \in Cam, Mode(cam), cam.state = "PREVIEWING", PrepareSnapshot(e, cam)
    PROVE  Drove(e)
<1>0. Base(cam) /\ cam.pic = "none" /\ e \in Plainly /\ e = "PREPARE_SNAPSHOT"
  BY IdleInQuiescent DEF Quiescent, Plainly, Own, Api, PrepareSnapshot
<1> DEFINE a == applyDelayedMsgs(cam)
           g == [a EXCEPT !.state = "PREPARE_SNAPSHOT", !.preparing = TRUE]
<1>1. Become(cam) \/ Become(g)
  BY DEF PrepareSnapshot, Answer, Quiet
<1>2. Still(cam, a) /\ a \in Cam
  BY DelayedUnmoved DEF Still
<1> HIDE DEF a
<1>3. /\ g \in Cam /\ g.state = "PREPARE_SNAPSHOT" /\ g.ch = a.ch /\ g.longshot = a.longshot
      /\ g.zsl = a.zsl /\ g.zslNew = a.zslNew /\ g.hint = a.hint /\ g.pic = a.pic
  BY <1>2 DEF Cam, State
<1> HIDE DEF g
<1>4. Mode(g)
  BY <1>0, <1>2, <1>3, StillBase DEF Still, Mode, Base, Fits, NoVideo, isCaptureRunning, isRecording
<1>5. CASE Become(g)
  BY <1>0, <1>3, <1>4, <1>5, ModeDrives
<1>6. CASE Become(cam)
  BY <1>0, <1>6, SelfUnmoved, UnmovedDrives
<1> QED
  BY <1>1, <1>5, <1>6

-----------------------------------------------------------------------------
(* Taking a picture.                                                        *)

LEMMA TakeIsTaken ==
    ASSUME NEW h \in Cam, NEW r \in takePicture(h)
    PROVE  Taken(h, r)
  BY TakeZslIsCam, TakeFrameIsCam

\* A picture that is refused has none under way.
LEMMA TakeOrNot ==
    ASSUME NEW h \in Cam, NEW r \in takePicture(h), ~r.ok
    PROVE  r.h.pic \in {h.pic, "none"}
<1>1. CASE h.zsl
  <2> DEFINE p == StartPicture(h)
             q == StopPicture(h)
             k == [h EXCEPT !.pp = TRUE]
  <2>1. q.pic = "none" /\ k.pic = h.pic
    BY StopPictureIsCam DEF Cam
  <2>2. r = Bad(h) \/ r = Ok(p) \/ r = Bad(q) \/ r = Bad(k)
    BY <1>1 DEF takePicture, MayFail
  <2> HIDE DEF p, q, k
  <2> QED
    BY <2>1, <2>2 DEF Ok, Bad
<1>2. CASE ~h.zsl
  <2> DEFINE g == delChannel(h, {"PREVIEW", "CAPTURE"})
             p == StartPicture(g)
             s == Put(p, {"CAPTURE"}, "started")
             k == [g EXCEPT !.pp = TRUE]
             n == [s EXCEPT !.pic = "none"]
  <2>0. "none" \in Marks /\ "started" \in Marks
    BY DEF Marks
  <2>1. g \in Cam /\ g.pic = h.pic
    BY <2>0, PutIsCam DEF delChannel
  <2>2. r = Ok(s) \/ r = Bad(g) \/ r = Bad(k) \/ r = Bad(n)
    BY <1>2 DEF takePicture, MayFail
  <2> HIDE DEF g
  <2>3. p \in Cam /\ k.pic = h.pic
    BY <2>1 DEF StartPicture, Cam
  <2> HIDE DEF p
  <2>4. s \in Cam
    BY <2>0, <2>3, PutIsCam
  <2> HIDE DEF s
  <2>5. n.pic = "none"
    BY <2>4 DEF Cam
  <2> HIDE DEF k, n
  <2> QED
    BY <2>1, <2>2, <2>3, <2>5 DEF Ok, Bad
<1> QED
  BY <1>1, <1>2

LEMMA TakeDrives ==
    ASSUME NEW e, e = "TAKE_PICTURE", cam.state = "PREVIEWING",
           NEW h \in Cam, Base(h), h.pic = "none", ~h.hint,
           NEW good, NEW bad,
           \/ good = "PREVIEW_PIC_TAKING" /\ bad = "PREVIEWING" /\ h.zsl
           \/ good = "PIC_TAKING" /\ bad = "STOPPED" /\ ~h.zsl,
           Decide(e, takePicture(h), good, bad)
    PROVE  Drove(e)
<1>1. PICK r \in takePicture(h) : Become([r.h EXCEPT !.state = IF r.ok THEN good ELSE bad])
  BY DecideBecomes
<1>2. Taken(h, r) /\ (~r.ok => r.h.pic = "none")
  BY TakeIsTaken, TakeOrNot
<1> DEFINE s == IF r.ok THEN good ELSE bad
           g == [r.h EXCEPT !.state = s]
<1>3. s \in State /\ r.h \in Cam
  BY <1>2 DEF State, Taken
<1>4. Become(g)
  BY <1>1
<1>5. /\ r.ok => s = good
      /\ ~r.ok => s = bad
  OBVIOUS
<1> HIDE DEF s
<1>6. /\ g \in Cam /\ g.state = s /\ g.pic = r.h.pic /\ NoVideo(g) = NoVideo(r.h)
      /\ g.zsl = r.h.zsl /\ g.zslNew = r.h.zslNew /\ g.hint = r.h.hint /\ g.longshot = r.h.longshot
  BY <1>3, SetState
<1> HIDE DEF g
<1>7. g.zsl = h.zsl /\ g.zslNew = h.zslNew /\ ~g.hint /\ g.longshot = h.longshot /\ NoVideo(g)
  BY <1>2, <1>6 DEF Taken, Same, NoVideo, Base
<1>8. Base(g)
  BY <1>7 DEF Base
<1>9. Fits(g)
  BY <1>2, <1>5, <1>6, <1>7 DEF Fits, Taken, isCaptureRunning, isRecording
<1>10. Turned(e, cam, g)
  BY DEF Turned, Own, Api
<1> QED
  BY <1>4, <1>6, <1>8, <1>9, <1>10, BecomeDrives DEF Mode

LEMMA PreviewingTakeDrives ==
    ASSUME NEW e, cam \in Cam, Mode(cam), cam.state = "PREVIEWING", PreviewingTakePicture(e, cam)
    PROVE  Drove(e)
<1>0. Base(cam) /\ cam.pic = "none" /\ e = "TAKE_PICTURE"
  BY IdleInQuiescent DEF Quiescent, PreviewingTakePicture
<1>1. PICK g \in Picturable(cam) :
         IF g.zsl \/ g.longshot
         THEN Decide(e, takePicture([g EXCEPT !.delay = TRUE]), "PREVIEW_PIC_TAKING", "PREVIEWING")
         ELSE Decide(e, takePicture(g), "PIC_TAKING", "STOPPED")
  BY DEF PreviewingTakePicture
<1>2. g \in Cam /\ Base(g) /\ g.pic = "none" /\ ~g.hint
  <2>1. CASE cam.hint
    <3> DEFINE k == updateRecordingHintValue(stopPreview(cam), FALSE)
    <3>1. k \in Cam /\ Base(k) /\ k.pic = "none" /\ k.hint = FALSE
      BY <1>0, StoppedThenUpdated
    <3>2. PICK r \in Bring(k) : g = r.h
      BY <2>1 DEF Picturable
    <3> HIDE DEF k
    <3>3. Still(k, r.h)
      BY <3>1, <3>2, BringStill
    <3> QED
      BY <3>1, <3>2, <3>3, StillBase DEF Still
  <2>2. CASE ~cam.hint
    BY <1>0, <2>2 DEF Picturable
  <2> QED
    BY <2>1, <2>2
<1>3. CASE g.zsl \/ g.longshot
  <2> DEFINE d == [g EXCEPT !.delay = TRUE]
  <2>1. d \in Cam /\ d.ch = g.ch /\ d.zsl = g.zsl /\ d.zslNew = g.zslNew /\ d.hint = g.hint /\ d.pic = g.pic
        /\ d.longshot = g.longshot
    BY <1>2 DEF Cam
  <2>2. Decide(e, takePicture(d), "PREVIEW_PIC_TAKING", "PREVIEWING")
    BY <1>1, <1>3
  <2> HIDE DEF d
  <2>3. Base(d) /\ d.zsl
    BY <1>2, <1>3, <2>1 DEF Base, NoVideo
  <2> QED
    BY <1>0, <1>2, <2>1, <2>2, <2>3, TakeDrives
<1>4. CASE ~(g.zsl \/ g.longshot)
  BY <1>0, <1>1, <1>2, <1>4, TakeDrives
<1> QED
  BY <1>3, <1>4

LEMMA PreviewingLongshotDrives ==
    ASSUME NEW e, cam \in Cam, Mode(cam), cam.state = "PREVIEWING", cam.zslNew = cam.zsl,
           e = "LONGSHOT_ON" => cam.zsl, PreviewingLongshot(e, cam)
    PROVE  Drove(e)
<1>0. Base(cam) /\ cam.pic = "none"
  BY IdleInQuiescent DEF Quiescent
<1>1. CASE Longshot(e, [cam EXCEPT !.restart = FALSE])
  <2> DEFINE h == [cam EXCEPT !.restart = FALSE]
  <2>1. /\ h \in Cam /\ h.state = cam.state /\ h.pic = cam.pic /\ h.zsl = cam.zsl /\ h.zslNew = cam.zslNew
        /\ h.hint = cam.hint /\ h.longshot = cam.longshot /\ h.ch = cam.ch
    BY DEF Cam
  <2>2. Longshot(e, h)
    BY <1>1
  <2> HIDE DEF h
  <2>3. Mode(h)
    BY <2>1 DEF Mode, Base, Fits, NoVideo, isCaptureRunning, isRecording
  <2> QED
    BY <2>1, <2>2, <2>3, LongshotDrives
<1>2. CASE /\ e = "LONGSHOT_ON"
           /\ AnswerOne(e, Bring(stopPreview([cam EXCEPT !.longshot = TRUE, !.restart = TRUE])))
  <2> DEFINE h == [cam EXCEPT !.longshot = TRUE, !.restart = TRUE]
             k == stopPreview(h)
  <2>0. e \in Plainly /\ e # "COMMIT_PARAMS"
    BY <1>2 DEF Plainly, Own, Api
  <2>1. /\ h \in Cam /\ h.state = cam.state /\ h.pic = cam.pic /\ h.zsl = cam.zsl /\ h.zslNew = cam.zslNew
    BY DEF Cam
  <2>2. AnswerOne(e, Bring(k))
    BY <1>2
  <2> HIDE DEF h
  <2>3. Still(h, k) /\ k.state = h.state /\ NoVideo(k)
    BY <2>1, StopPreviewStill
  <2> HIDE DEF k
  <2>4. k \in Cam /\ Base(k) /\ k.pic = "none" /\ k.state = "PREVIEWING"
    BY <1>0, <1>2, <2>1, <2>3 DEF Still, Base
  <2> QED
    BY <2>0, <2>2, <2>4, AnsweredBring
<1> QED
  BY <1>1, <1>2 DEF PreviewingLongshot

LEMMA PreviewingDrives ==
    ASSUME NEW e, Tame, cam \in Cam, Mode(cam), cam.state = "PREVIEWING",
           e \in Own \ {"COMMIT_PARAMS"} => Committed(cam), e = "LONGSHOT_ON" => cam.zsl,
           ~cam.restart => Committed(cam),
           Previewing(e, cam)
    PROVE  Drove(e)
<1>0. Base(cam) /\ cam.pic = "none"
  BY IdleInQuiescent DEF Quiescent
<1>1. CASE PreviewingMsgs(e, cam)
  BY <1>1, PreviewingMsgsDrives
<1>2. CASE SetParams(e, cam)
  <2>1. e \in Own \ {"COMMIT_PARAMS"}
    BY <1>2 DEF SetParams, Own, Api
  <2> QED
    BY <1>2, <2>1, SetParamsDrives DEF Committed
<1>3. CASE Restart(e, cam, "STOPPED")
  BY <1>3, RestartDrives
<1>4. CASE Accepted(e, applyDelayedMsgs(cam), {"START_PREVIEW", "PREVIEW_ENABLED"})
  BY <1>4, DelayedUnmoved, AnsweredDrives
<1>5. CASE e = "STOP_PREVIEW" /\ Answer(e, TRUE, [applyDelayedMsgs(stopPreview(cam)) EXCEPT !.state = "STOPPED"])
  BY <1>5, StopPreviewDrives
<1>6. CASE e = "PRE_START_RECORDING" /\ AnswerOne(e, preStartRecording(cam))
  <2>0. e \in Plainly /\ e # "COMMIT_PARAMS" /\ e # "SET_PARAMS"
    BY <1>6 DEF Plainly, Own, Api
  <2>1. CASE cam.hint
    <3>1. Become(cam)
      BY <1>6, <2>1 DEF preStartRecording, AnswerOne, Answer, Ok
    <3> QED
      BY <2>0, <3>1, SelfUnmoved, UnmovedDrives
  <2>2. CASE ~cam.hint
    <3> DEFINE k == updateRecordingHintValue(stopPreview(cam), TRUE)
    <3>1. k \in Cam /\ Base(k) /\ k.pic = "none" /\ k.state = "PREVIEWING"
      BY <1>0, StoppedThenUpdated
    <3>2. AnswerOne(e, BringAnyhow(k))
      BY <1>6, <2>2 DEF preStartRecording
    <3> HIDE DEF k
    <3> QED
      BY <2>0, <3>1, <3>2, AnsweredBring
  <2> QED
    BY <2>1, <2>2
<1>7. CASE /\ e = "START_RECORDING"
           /\ \E r \in startRecording(cam) :
                IF r.ok THEN Answer(e, TRUE, [applyDelayedMsgs(r.h) EXCEPT !.state = "RECORDING"])
                        ELSE Answer(e, FALSE, r.h)
  <2>1. PICK r \in startRecording(cam) :
          Become(IF r.ok THEN [applyDelayedMsgs(r.h) EXCEPT !.state = "RECORDING"] ELSE r.h)
    BY <1>7 DEF Answer
  <2> QED
    BY <1>7, <2>1, StartRecordingDrives
<1>8. CASE PrepareSnapshot(e, cam)
  BY <1>8, PrepareSnapshotDrives
<1>9. CASE e = "PRE_TAKE_PICTURE" /\ AnswerOne(e, preTakePicture(cam))
  <2>0. e \in Plainly /\ e # "COMMIT_PARAMS" /\ e # "SET_PARAMS"
    BY <1>9 DEF Plainly, Own, Api
  <2>1. CASE ~cam.hint
    <3>1. Become(cam)
      BY <1>9, <2>1 DEF preTakePicture, AnswerOne, Answer, Ok
    <3> QED
      BY <2>0, <3>1, SelfUnmoved, UnmovedDrives
  <2>2. CASE cam.hint
    <3> DEFINE k == updateRecordingHintValue(stopPreview(cam), FALSE)
    <3>1. k \in Cam /\ Base(k) /\ k.pic = "none" /\ k.state = "PREVIEWING"
      BY <1>0, StoppedThenUpdated
    <3>2. AnswerOne(e, Bring(k))
      BY <1>9, <2>2 DEF preTakePicture
    <3> HIDE DEF k
    <3> QED
      BY <2>0, <3>1, <3>2, AnsweredBring
  <2> QED
    BY <2>1, <2>2
<1>10. CASE PreviewingTakePicture(e, cam)
  BY <1>10, PreviewingTakeDrives
<1>11. CASE PreviewingLongshot(e, cam)
  <2>1. e \in Own \ {"COMMIT_PARAMS"}
    BY <1>11 DEF PreviewingLongshot, Longshot, Own, Api
  <2> QED
    BY <1>11, <2>1, PreviewingLongshotDrives DEF Committed
<1>12. CASE \/ Refused(e, cam, {"SET_PREVIEW_WINDOW", "CANCEL_PICTURE", "STOP_RECORDING", "RELEASE"})
            \/ Ignored(e, cam, {"STOP_CAPTURE_CHANNEL", "PREP_SNAPSHOT_DONE"})
  BY <1>12, SelfUnmoved, AnsweredDrives
<1>13. CASE SnapshotDone(e, cam)
  BY <1>13, SnapshotDoneDrives
<1> QED
  BY <1>1, <1>2, <1>3, <1>4, <1>5, <1>6, <1>7, <1>8, <1>9, <1>10, <1>11, <1>12, <1>13
     DEF Previewing

LEMMA PreparingDrives ==
    ASSUME NEW e, cam \in Cam, Mode(cam), cam.state = "PREPARE_SNAPSHOT", PreparingSnapshot(e, cam)
    PROVE  Drove(e)
<1>1. CASE e = "PREP_SNAPSHOT_DONE" /\ SnapshotPrepared(cam)
  <2> DEFINE g == [cam EXCEPT !.state = "PREVIEWING"]
  <2>1. /\ g \in Cam /\ g.state = "PREVIEWING" /\ g.pic = cam.pic /\ NoVideo(g) = NoVideo(cam)
        /\ g.zsl = cam.zsl /\ g.zslNew = cam.zslNew /\ g.hint = cam.hint /\ g.longshot = cam.longshot
        /\ g.restart = cam.restart
    BY SetState DEF State
  <2>2. Become(g)
    BY <1>1 DEF SnapshotPrepared, Answer
  <2> HIDE DEF g
  <2>3. Mode(g)
    BY <2>1 DEF Mode, Base, Fits, isCaptureRunning, isRecording
  <2>4. Turned(e, cam, g)
    BY <1>1, <2>1 DEF Turned, Quiescent
  <2> QED
    BY <2>1, <2>2, <2>3, <2>4, BecomeDrives
<1> QED
  BY <1>1, SelfUnmoved, AnsweredDrives, SnapshotDoneDrives DEF PreparingSnapshot

-----------------------------------------------------------------------------
(* The end of pictures and of recordings, and every state together.         *)

\* A picture given up.
Freed(h, g) == Still(h, g) /\ g.longshot = h.longshot /\ g.pic = "none" /\ (NoVideo(h) => NoVideo(g))

LEMMA CancelFrees == ASSUME NEW h \in Cam PROVE Freed(h, cancelPicture(h))
<1>1. "VIDEO" \in Channel
  BY DEF Channel
<1> QED
  BY <1>1, CancelPictureIsCam DEF Freed, Still, Same, NoVideo

LEMMA CancelLiveFrees == ASSUME NEW h \in Cam PROVE Freed(h, cancelLiveSnapshot(h))
  BY CancelLiveIsCam DEF Freed, Still, Kept, Idle, NoVideo

LEMMA NotifierFree ==
    ASSUME NEW k \in Cam, NEW s \in State
    PROVE  LET g == [k EXCEPT !.notifier = "free", !.state = s]
           IN  /\ g \in Cam /\ g.state = s /\ g.pic = k.pic /\ NoVideo(g) = NoVideo(k)
               /\ g.longshot = k.longshot
               /\ \A h : Still(h, k) => Still(h, g)
  BY ZenonT(60) DEF Cam, Still, NoVideo

\* The end of a picture or of a recording.
LEMMA EndDrives ==
    ASSUME NEW e \in {"CANCEL_PICTURE", "SNAPSHOT_DONE", "STOP_PREVIEW", "STOP_RECORDING", "LONGSHOT_OFF"},
           Base(cam), cam.state \notin Quiescent,
           NEW k, Still(cam, k), k.pic = "none", NEW s \in {"STOPPED", "PREVIEWING", "RECORDING"},
           e \in {"CANCEL_PICTURE", "SNAPSHOT_DONE"} => k.longshot = cam.longshot,
           s = "STOPPED" => NoVideo(k), s = "RECORDING" => k.hint,
           e = "CANCEL_PICTURE" /\ cam.state = "PIC_TAKING" => s = "STOPPED",
           \/ Become([k EXCEPT !.state = s])
           \/ Become([k EXCEPT !.state = s, !.notifier = "free"])
           \/ Become([k EXCEPT !.notifier = "free", !.state = s])
    PROVE  Drove(e)
<1>0. s \in State /\ k \in Cam
  BY DEF State, Still
<1> DEFINE a == [k EXCEPT !.state = s]
           b == [k EXCEPT !.notifier = "free", !.state = s]
<1>1. Become(a) \/ Become(b)
  <2>1. [k EXCEPT !.state = s, !.notifier = "free"] = b
    BY <1>0 DEF Cam
  <2> QED
    BY <2>1
<1>2. /\ a \in Cam /\ a.state = s /\ a.pic = k.pic /\ NoVideo(a) = NoVideo(k) /\ a.longshot = k.longshot /\ Still(cam, a)
  BY <1>0, SetState
<1>3. /\ b \in Cam /\ b.state = s /\ b.pic = k.pic /\ NoVideo(b) = NoVideo(k) /\ b.longshot = k.longshot /\ Still(cam, b)
  BY <1>0, NotifierFree
<1> HIDE DEF a, b
<1>4. ASSUME NEW g, Become(g), g \in Cam, g.state = s, g.pic = "none", NoVideo(g) = NoVideo(k), g.longshot = k.longshot, Still(cam, g)
      PROVE  Drove(e)
  <2>1. Base(g)
    BY <1>4, StillBase
  <2>2. g.hint = k.hint /\ g.zsl = cam.zsl /\ g.restart = cam.restart
    BY <1>4 DEF Still
  <2>3. Fits(g)
    BY <1>4, <2>2 DEF Fits, isRecording
  <2>4. Turned(e, cam, g)
    BY <1>4, <2>2 DEF Turned, Own, Api, Quiescent
  <2> QED
    BY <1>4, <2>1, <2>3, <2>4, BecomeDrives DEF Mode
<1> QED
  BY <1>1, <1>2, <1>3, <1>4

LEMMA AnyParamsDrives ==
    ASSUME NEW e, Tame, cam \in Cam, Mode(cam), Committed(cam), AnyParams(e, cam)
    PROVE  Drove(e)
<1>1. CASE e = "PREVIEW_ENABLED" /\ Become(cam)
  BY <1>1, SelfUnmoved, UnmovedDrives
<1> QED
  BY <1>1, MsgsDrives, SetParamsDrives DEF AnyParams, Committed, Answer

LEMMA StopCaptureDrives ==
    ASSUME NEW e, cam \in Cam, Mode(cam), cam.state = "PIC_TAKING", StopCapture(e, cam)
    PROVE  Drove(e)
<1>0. /\ e = "STOP_CAPTURE_CHANNEL" /\ e \notin Own /\ Base(cam) /\ ~cam.zsl /\ ~cam.hint /\ NoVideo(cam)
      /\ TRUE \in BOOLEAN /\ FALSE \in BOOLEAN /\ "VIDEO" \in Channel
  BY DEF StopCapture, Own, Mode, Fits, Base, Channel
<1>1. ASSUME NEW g, Still(cam, g), g.state = cam.state, Become(g)
      PROVE  Drove(e)
  <2>1. g \in Cam /\ Base(g) /\ ~g.zsl /\ ~g.hint /\ g.longshot = cam.longshot /\ g.restart = cam.restart
        /\ g.zsl = cam.zsl /\ g.pic \in {cam.pic, "none"}
    BY <1>0, <1>1, StillBase DEF Still
  <2>2. Fits(g)
    BY <1>1, <2>1 DEF Fits, isCaptureRunning, isRecording
  <2>3. Turned(e, cam, g)
    BY <1>0, <1>1, <2>1 DEF Turned, Quiescent
  <2> QED
    BY <1>1, <2>1, <2>2, <2>3, BecomeDrives DEF Mode
<1>2. ASSUME NEW d \in BOOLEAN
      PROVE  Still(cam, stopCaptureChannel(cam, d)) /\ stopCaptureChannel(cam, d).state = cam.state
  BY <1>0, StopCaptureIsCam DEF Still, Same, NoVideo
<1>3. CASE ~cam.early /\ Become(stopCaptureChannel(cam, FALSE))
  BY <1>0, <1>1, <1>2, <1>3
<1>4. CASE AnswerOne(e, BringAnyhow(stopCaptureChannel(cam, TRUE)))
  <2> DEFINE k == stopCaptureChannel(cam, TRUE)
  <2>1. Still(cam, k) /\ k.state = cam.state /\ k \in Cam
    BY <1>0, <1>2 DEF Still
  <2> HIDE DEF k
  <2>2. PICK r \in BringAnyhow(k) : Become(r.h)
    BY <1>4, AnswerOneBecomes DEF k
  <2>3. Still(k, r.h) /\ r.h.state = k.state
    BY <2>1, <2>2, BringAnyhowStill
  <2>4. Still(cam, r.h)
    BY <2>1, <2>3, StillTwice
  <2> QED
    BY <1>1, <2>1, <2>2, <2>3, <2>4
<1> QED
  BY <1>3, <1>4 DEF StopCapture, Answer

LEMMA PicTakingDrives ==
    ASSUME NEW e, Tame, cam \in Cam, Mode(cam), cam.state = "PIC_TAKING", Committed(cam),
           e = "LONGSHOT_OFF" => cam.longshot, PicTaking(e, cam)
    PROVE  Drove(e)
<1>0. Base(cam) /\ ~cam.longshot /\ NoVideo(cam) /\ cam.state \notin Quiescent
  BY DEF Mode, Fits, Base, Quiescent
<1> DEFINE k == cancelPicture(cam)
<1>1. Still(cam, k) /\ k.longshot = cam.longshot /\ k.pic = "none" /\ NoVideo(k)
  BY <1>0, CancelFrees DEF Freed
<1>2. CASE AnyParams(e, cam)
  BY <1>2, AnyParamsDrives
<1>3. CASE e = "COMMIT_PARAMS" /\ Answer(e, TRUE, [commitParameters(cam) EXCEPT !.restart = FALSE])
  <2>1. Become([commitParameters(cam) EXCEPT !.restart = FALSE])
    BY <1>3 DEF Answer
  <2> QED
    BY <1>3, <2>1, CommitDrives DEF Committed
<1>4. CASE /\ e \in {"STOP_PREVIEW", "CANCEL_PICTURE"}
           /\ Answer(e, TRUE, [cancelPicture(cam) EXCEPT !.state = "STOPPED"])
  <2>1. Become([k EXCEPT !.state = "STOPPED"])
    BY <1>4 DEF Answer
  <2> HIDE DEF k
  <2> QED
    BY <1>0, <1>1, <1>4, <2>1, EndDrives
<1>5. CASE PicTakingLongshot(e, cam)
  <2>1. e \in {"LONGSHOT_ON", "PRE_TAKE_PICTURE", "TAKE_PICTURE"} /\ Become(cam)
    BY <1>0, <1>5 DEF PicTakingLongshot, Answer
  <2> QED
    BY <2>1, SelfUnmoved, UnmovedDrives
<1>6. CASE StopCapture(e, cam)
  BY <1>6, StopCaptureDrives
<1>7. CASE PicDone(e, cam)
  <2>1. e = "SNAPSHOT_DONE" /\ \E s \in {"STOPPED", "PREVIEWING"} : Become([k EXCEPT !.notifier = "free", !.state = s])
    BY <1>7 DEF PicDone, Quiet
  <2> HIDE DEF k
  <2> QED
    BY <1>0, <1>1, <2>1, EndDrives
<1>8. CASE \/ Refused(e, cam, {"SET_PREVIEW_WINDOW", "PREPARE_SNAPSHOT", "PRE_START_RECORDING",
                      "START_RECORDING", "STOP_RECORDING", "START_PREVIEW", "RELEASE"})
           \/ Ignored(e, cam, {"PREP_SNAPSHOT_DONE"})
  BY <1>8, SelfUnmoved, AnsweredDrives
<1> QED
  BY <1>2, <1>3, <1>4, <1>5, <1>6, <1>7, <1>8 DEF PicTaking

LEMMA CommitUnlessDrives ==
    ASSUME NEW e, cam \in Cam, Mode(cam), Committed(cam), e = "COMMIT_PARAMS" => ~cam.restart,
           CommitUnlessRestart(e, cam)
    PROVE  Drove(e)
<1>1. e = "COMMIT_PARAMS" /\ Become(commitParameters([cam EXCEPT !.restart = FALSE]))
  BY DEF CommitUnlessRestart, Answer
<1> QED
  BY <1>1, CommitDrives DEF Committed

LEMMA RecordingStopDrives ==
    ASSUME NEW e, cam \in Cam, Mode(cam), isRecording(cam),
           NEW h, Still(cam, h), h.pic = "none", RecordingStop(e, h)
    PROVE  Drove(e)
<1> DEFINE C == {c \in {"VIDEO"} : h.ch[c] = "started"}
           v == Put(h, C, "added")
           u == stopPreview(v)
<1>1. /\ "added" \in Marks /\ h \in Cam /\ h.hint /\ Base(cam) /\ cam.state \notin Quiescent
  BY DEF Marks, Still, Mode, Fits, isRecording, Quiescent
<1>2. stopRecording(h) = v
  BY DEF stopRecording, stopChannel
<1> HIDE DEF C
<1>3. Still(h, v) /\ v.pic = "none"
  BY <1>1, PutStill
<1>4. \/ e = "STOP_RECORDING" /\ Become([v EXCEPT !.state = "PREVIEWING"])
      \/ e = "STOP_PREVIEW" /\ Become([u EXCEPT !.state = "STOPPED"])
  BY <1>2 DEF RecordingStop, Answer
<1> HIDE DEF v
<1>5. Still(cam, v) /\ v \in Cam
  BY <1>3, StillTwice DEF Still
<1>6. Still(v, u) /\ NoVideo(u)
  BY <1>5, StopPreviewStill
<1> HIDE DEF u
<1>7. Still(cam, u) /\ u.pic = "none"
  BY <1>3, <1>5, <1>6, StillTwice DEF Still
<1> QED
  BY <1>1, <1>3, <1>4, <1>5, <1>6, <1>7, EndDrives

LEMMA RecordingDrives ==
    ASSUME NEW e, Tame, cam \in Cam, Mode(cam), cam.state = "RECORDING", Committed(cam),
           e = "COMMIT_PARAMS" => ~cam.restart, e = "LONGSHOT_ON" => cam.zsl, Recording(e, cam)
    PROVE  Drove(e)
<1>0. Base(cam) /\ cam.pic = "none" /\ cam.hint /\ isRecording(cam)
  BY DEF Mode, Fits, isCaptureRunning, isRecording
<1>1. CASE AnyParams(e, cam)
  BY <1>1, AnyParamsDrives
<1>2. CASE CommitUnlessRestart(e, cam)
  BY <1>2, CommitUnlessDrives
<1>3. CASE Longshot(e, cam)
  BY <1>3, LongshotDrives DEF Committed
<1>4. CASE RecordingTakePicture(e, cam)
  <2> DEFINE g == [cam EXCEPT !.state = "VIDEO_PIC_TAKING", !.live = "running"]
  <2>1. e = "TAKE_PICTURE" /\ (Become(g) \/ Become(cam))
    BY <1>4 DEF RecordingTakePicture, Answer
  <2>2. /\ g \in Cam /\ g.state = "VIDEO_PIC_TAKING" /\ g.ch = cam.ch /\ g.zsl = cam.zsl /\ g.zslNew = cam.zslNew
        /\ g.hint = cam.hint /\ g.longshot = cam.longshot /\ g.pic = cam.pic
    BY DEF Cam, State
  <2> HIDE DEF g
  <2>3. Mode(g)
    BY <1>0, <2>2 DEF Mode, Base, Fits, NoVideo
  <2>4. Turned(e, cam, g)
    BY <2>1, <2>2 DEF Turned, Own, Api
  <2> QED
    BY <2>1, <2>2, <2>3, <2>4, BecomeDrives, SelfUnmoved, UnmovedDrives
<1>5. CASE RecordingStop(e, cam)
  BY <1>0, <1>5, SameStill, RecordingStopDrives
<1> QED
  BY <1>1, <1>2, <1>3, <1>4, <1>5, SelfUnmoved, AnsweredDrives, SnapshotDoneDrives DEF Recording

LEMMA VideoPicDrives ==
    ASSUME NEW e, Tame, cam \in Cam, Mode(cam), cam.state = "VIDEO_PIC_TAKING", Committed(cam),
           e = "COMMIT_PARAMS" => ~cam.restart, e = "LONGSHOT_ON" => cam.zsl, VideoPicTaking(e, cam)
    PROVE  Drove(e)
<1>0. Base(cam) /\ cam.hint /\ isRecording(cam) /\ cam.state \notin Quiescent
  BY DEF Mode, Fits, isRecording, Quiescent
<1>1. CASE AnyParams(e, cam)
  BY <1>1, AnyParamsDrives
<1>2. CASE CommitUnlessRestart(e, cam)
  BY <1>2, CommitUnlessDrives
<1>3. CASE Longshot(e, cam)
  BY <1>3, LongshotDrives DEF Committed
<1>4. CASE VideoPicStop(e, cam)
  <2> DEFINE k == cancelLiveSnapshot(cam)
  <2>1. Still(cam, k) /\ k.longshot = cam.longshot /\ k.pic = "none" /\ k.hint
    BY <1>0, CancelLiveFrees DEF Freed, Still
  <2>2. \/ e = "CANCEL_PICTURE" /\ Become([k EXCEPT !.state = "RECORDING"])
        \/ RecordingStop(e, k)
        \/ e = "SNAPSHOT_DONE" /\ Become([k EXCEPT !.state = "RECORDING", !.notifier = "free"])
    BY <1>4 DEF VideoPicStop, Answer, Quiet
  <2> HIDE DEF k
  <2>3. CASE RecordingStop(e, k)
    BY <1>0, <2>1, <2>3, RecordingStopDrives
  <2> QED
    BY <1>0, <2>1, <2>2, <2>3, EndDrives
<1>5. CASE \/ Refused(e, cam, {"SET_PREVIEW_WINDOW", "PRE_START_RECORDING", "START_RECORDING",
                      "START_PREVIEW", "PREPARE_SNAPSHOT", "PRE_TAKE_PICTURE",
                      "TAKE_PICTURE", "RELEASE"})
           \/ Ignored(e, cam, {"STOP_CAPTURE_CHANNEL", "PREP_SNAPSHOT_DONE"})
  BY <1>5, SelfUnmoved, AnsweredDrives
<1> QED
  BY <1>1, <1>2, <1>3, <1>4, <1>5 DEF VideoPicTaking

LEMMA PreviewPicDrives ==
    ASSUME NEW e, Tame, cam \in Cam, Mode(cam), cam.state = "PREVIEW_PIC_TAKING", Committed(cam),
           e = "COMMIT_PARAMS" => ~cam.restart, e = "LONGSHOT_OFF" => cam.longshot, PreviewPicTaking(e, cam)
    PROVE  Drove(e)
<1>0. Base(cam) /\ cam.zsl /\ ~cam.hint /\ cam.state \notin Quiescent
  BY DEF Mode, Fits, Quiescent
<1>1. CASE AnyParams(e, cam)
  BY <1>1, AnyParamsDrives
<1>2. CASE Restart(e, cam, "PIC_TAKING")
  <2>1. e = "COMMIT_PARAMS" /\ Become(commitParameters([cam EXCEPT !.restart = FALSE]))
    BY <1>2 DEF Restart, Answer
  <2> QED
    BY <2>1, CommitDrives DEF Committed
<1>3. CASE PicTakingLongshot(e, cam)
  <2>1. CASE e = "LONGSHOT_OFF" /\ Become([LongshotOff(cam) EXCEPT !.state = "PREVIEWING"])
    <3> DEFINE k == LongshotOff(cam)
               g == [k EXCEPT !.state = "PREVIEWING"]
    <3>1. k \in Cam /\ Same(cam, k) /\ ~k.longshot /\ k.pic = "none" /\ (NoVideo(cam) => NoVideo(k))
      BY <2>1, LongshotOffStill DEF isCaptureRunning
    <3>2. Become(g)
      BY <2>1
    <3> HIDE DEF k
    <3>3. /\ g \in Cam /\ g.state = "PREVIEWING" /\ g.pic = "none" /\ NoVideo(g) = NoVideo(k)
          /\ g.zsl = k.zsl /\ g.zslNew = k.zslNew /\ g.hint = k.hint /\ ~g.longshot
      BY ZenonT(60), <3>1, SetState DEF State
    <3> HIDE DEF g
    <3>4. Mode(g)
      BY <1>0, <3>1, <3>3 DEF Mode, Base, Fits, Same, isRecording
    <3>5. e \in Plainly /\ e # "COMMIT_PARAMS"
      BY <2>1 DEF Plainly, Own, Api
    <3> QED
      BY <3>2, <3>3, <3>4, <3>5, ModeDrives
  <2>2. CASE e = "TAKE_PICTURE" /\ AnswerOne(e, longShot(cam))
    <3> DEFINE g == [cam EXCEPT !.pic = "shot"]
    <3>1. PICK r \in longShot(cam) : Become(r.h)
      BY <2>2, AnswerOneBecomes
    <3>2. r.h = cam \/ r.h = g
      BY DEF longShot, MayFail, Ok, Bad
    <3>3. /\ g \in Cam /\ g.state = cam.state /\ g.ch = cam.ch /\ g.zsl = cam.zsl /\ g.zslNew = cam.zslNew
          /\ g.hint = cam.hint /\ g.longshot = cam.longshot /\ g.restart = cam.restart
      BY DEF Cam
    <3> HIDE DEF g
    <3>4. Mode(g)
      BY <3>3 DEF Mode, Base, Fits, NoVideo, isCaptureRunning, isRecording
    <3>5. Turned(e, cam, g)
      BY <2>2, <3>3 DEF Turned, Own, Api
    <3> QED
      BY <2>2, <3>1, <3>2, <3>3, <3>4, <3>5, BecomeDrives, SelfUnmoved, UnmovedDrives
  <2>3. CASE e \in {"LONGSHOT_ON", "PRE_TAKE_PICTURE", "TAKE_PICTURE"} /\ Become(cam)
    BY <2>3, SelfUnmoved, UnmovedDrives
  <2> QED
    BY <1>3, <2>1, <2>2, <2>3 DEF PicTakingLongshot, Answer
<1>4. CASE PreviewPicStop(e, cam)
  <2> DEFINE k == cancelPicture(cam)
             u == unpreparePreview(k)
  <2>1. Still(cam, k) /\ k.longshot = cam.longshot /\ k.pic = "none"
    BY CancelFrees DEF Freed
  <2>2. \/ e = "CANCEL_PICTURE" /\ Become([k EXCEPT !.state = "PREVIEWING"])
        \/ e = "STOP_PREVIEW" /\ Become([u EXCEPT !.state = "STOPPED"])
        \/ e = "SNAPSHOT_DONE" /\ Become([k EXCEPT !.state = "PREVIEWING", !.notifier = "free"])
    BY <1>0, <1>4 DEF PreviewPicStop, PreviewPicCancel, Answer, Quiet
  <2> HIDE DEF k
  <2>3. Still(k, u) /\ u.pic = k.pic /\ NoVideo(u)
    BY <2>1, UnprepareStill DEF Still
  <2> HIDE DEF u
  <2>4. Still(cam, u)
    BY <2>1, <2>3, StillTwice
  <2>5. CASE e = "STOP_PREVIEW" /\ Become([u EXCEPT !.state = "STOPPED"])
    BY <1>0, <2>1, <2>3, <2>4, <2>5, EndDrives
  <2>6. CASE \/ e = "CANCEL_PICTURE" /\ Become([k EXCEPT !.state = "PREVIEWING"])
             \/ e = "SNAPSHOT_DONE" /\ Become([k EXCEPT !.state = "PREVIEWING", !.notifier = "free"])
    BY <1>0, <2>1, <2>6, EndDrives
  <2> QED
    BY <2>2, <2>5, <2>6
<1>5. CASE PreviewPicRecord(e, cam)
  <2>1. e \in {"PRE_START_RECORDING", "START_RECORDING"} /\ Become(cam)
    BY <1>0, <1>5 DEF PreviewPicRecord, Answer
  <2> QED
    BY <2>1, SelfUnmoved, UnmovedDrives
<1>6. CASE \/ Refused(e, cam, {"SET_PREVIEW_WINDOW", "STOP_RECORDING", "START_PREVIEW",
                      "PREPARE_SNAPSHOT", "RELEASE"})
           \/ Ignored(e, cam, {"STOP_CAPTURE_CHANNEL", "PREP_SNAPSHOT_DONE"})
  BY <1>6, SelfUnmoved, AnsweredDrives
<1> QED
  BY <1>1, <1>2, <1>3, <1>4, <1>5, <1>6 DEF PreviewPicTaking

\* One turn of the machine keeps the mode, whatever fails.
LEMMA HandleDrives ==
    ASSUME NEW e, Tame, cam \in Cam, Mode(cam), Asked(e, cam), Handle(e, cam)
    PROVE  Drove(e)
<1>1. /\ Dirty(cam) => cam.restart /\ cam.state \in Quiescent /\ e \notin Own \ {"COMMIT_PARAMS"}
      /\ e = "LONGSHOT_ON" => cam.zsl
      /\ e = "LONGSHOT_OFF" => cam.longshot
      /\ e = "COMMIT_PARAMS" /\ cam.state \notin Quiescent => ~cam.restart
  BY DEF Asked
<1>2. Dirty(cam) \/ Committed(cam)
  BY DEF Dirty, Committed
<1>3. cam.state \notin Quiescent => Committed(cam)
  BY <1>1, <1>2
<1>4. (e \in Own \ {"COMMIT_PARAMS"} => Committed(cam)) /\ (~cam.restart => Committed(cam))
  BY <1>1, <1>2
<1>5. CASE cam.state = "STOPPED" /\ PreviewStopped(e, cam)
  BY <1>1, <1>4, <1>5, StoppedDrives
<1>6. CASE cam.state = "READY" /\ PreviewReady(e, cam)
  BY <1>1, <1>4, <1>6, ReadyDrives
<1>7. CASE cam.state = "PREVIEWING" /\ Previewing(e, cam)
  BY <1>1, <1>4, <1>7, PreviewingDrives
<1>8. CASE cam.state = "PREPARE_SNAPSHOT" /\ PreparingSnapshot(e, cam)
  BY <1>8, PreparingDrives
<1>9. CASE cam.state = "PIC_TAKING" /\ PicTaking(e, cam)
  BY <1>1, <1>3, <1>9, PicTakingDrives DEF Quiescent
<1>10. CASE cam.state = "RECORDING" /\ Recording(e, cam)
  BY <1>1, <1>3, <1>10, RecordingDrives DEF Quiescent
<1>11. CASE cam.state = "VIDEO_PIC_TAKING" /\ VideoPicTaking(e, cam)
  BY <1>1, <1>3, <1>11, VideoPicDrives DEF Quiescent
<1>12. CASE cam.state = "PREVIEW_PIC_TAKING" /\ PreviewPicTaking(e, cam)
  BY <1>1, <1>3, <1>12, PreviewPicDrives DEF Quiescent
<1> QED
  BY <1>5, <1>6, <1>7, <1>8, <1>9, <1>10, <1>11, <1>12 DEF Handle

-----------------------------------------------------------------------------
(* Sequences.                                                               *)

\* No element, or at most one, of s is in P; an a comes before a b.
NoneOf(s, P) == \A i \in DOMAIN s : s[i] \notin P
AtMostOne(s, P) == \A i, j \in DOMAIN s : s[i] \in P /\ s[j] \in P => i = j
Precedes(s, a, b) == \E i, j \in DOMAIN s : i < j /\ s[i] = a /\ s[j] = b

LEMMA TailKeeps ==
    ASSUME NEW S, NEW s \in Seq(S), s # << >>, NEW P
    PROVE  /\ Head(s) \in S /\ Tail(s) \in Seq(S)
           /\ NoneOf(s, P) => Head(s) \notin P /\ NoneOf(Tail(s), P)
           /\ Head(s) \notin P /\ NoneOf(Tail(s), P) => NoneOf(s, P)
           /\ AtMostOne(s, P) => AtMostOne(Tail(s), P)
           /\ AtMostOne(s, P) /\ Head(s) \in P => NoneOf(Tail(s), P)
<1>1. /\ Head(s) \in S /\ Tail(s) \in Seq(S) /\ Len(Tail(s)) = Len(s) - 1
      /\ \A i \in 1 .. Len(Tail(s)) : Tail(s)[i] = s[i + 1]
  BY HeadTailProperties
<1>2. Len(s) \in Nat \ {0} /\ DOMAIN s = 1 .. Len(s) /\ DOMAIN Tail(s) = 1 .. Len(s) - 1
  BY <1>1, EmptySeq, LenProperties
<1>3. Head(s) = s[1]
  OBVIOUS
<1>4. \A i \in DOMAIN Tail(s) : i + 1 \in DOMAIN s /\ Tail(s)[i] = s[i + 1]
  BY <1>1, <1>2
<1>5. \A i \in DOMAIN s : i = 1 \/ (i - 1 \in DOMAIN Tail(s) /\ s[i] = Tail(s)[i - 1])
  BY <1>1, <1>2
<1>6. 1 \in DOMAIN s
  BY <1>2
<1>7. NoneOf(s, P) => Head(s) \notin P /\ NoneOf(Tail(s), P)
  BY <1>3, <1>4, <1>6 DEF NoneOf
<1>8. Head(s) \notin P /\ NoneOf(Tail(s), P) => NoneOf(s, P)
  BY <1>3, <1>5 DEF NoneOf
<1>9. AtMostOne(s, P) => AtMostOne(Tail(s), P)
  <2> SUFFICES ASSUME AtMostOne(s, P), NEW i \in DOMAIN Tail(s), NEW j \in DOMAIN Tail(s),
                      Tail(s)[i] \in P, Tail(s)[j] \in P
               PROVE  i = j
    BY DEF AtMostOne
  <2>1. i + 1 = j + 1
    BY <1>4 DEF AtMostOne
  <2> QED
    BY <1>2, <2>1
<1>10. AtMostOne(s, P) /\ Head(s) \in P => NoneOf(Tail(s), P)
  <2> SUFFICES ASSUME AtMostOne(s, P), s[1] \in P, NEW i \in DOMAIN Tail(s), Tail(s)[i] \in P
               PROVE  FALSE
    BY <1>3 DEF NoneOf
  <2>1. i + 1 = 1
    BY <1>4, <1>6 DEF AtMostOne
  <2> QED
    BY <1>2, <2>1
<1> QED
  BY <1>1, <1>7, <1>8, <1>9, <1>10

LEMMA AppendKeeps ==
    ASSUME NEW S, NEW s \in Seq(S), NEW x \in S, NEW P
    PROVE  /\ Append(s, x) \in Seq(S)
           /\ NoneOf(s, P) /\ x \notin P => NoneOf(Append(s, x), P)
           /\ AtMostOne(s, P) /\ x \notin P => AtMostOne(Append(s, x), P)
           /\ NoneOf(s, P) => AtMostOne(Append(s, x), P)
           /\ NoneOf(Append(s, x), P) => NoneOf(s, P) /\ x \notin P
<1>1. /\ Append(s, x) \in Seq(S) /\ Len(Append(s, x)) = Len(s) + 1
      /\ \A i \in 1 .. Len(s) : Append(s, x)[i] = s[i]
      /\ Append(s, x)[Len(s) + 1] = x
  BY AppendProperties
<1>2. Len(s) \in Nat /\ DOMAIN s = 1 .. Len(s) /\ DOMAIN Append(s, x) = 1 .. Len(s) + 1
  BY <1>1, LenProperties
<1>3. \A i \in DOMAIN Append(s, x) : \/ i = Len(s) + 1 /\ Append(s, x)[i] = x
                                     \/ i \in DOMAIN s /\ Append(s, x)[i] = s[i]
  BY <1>1, <1>2
<1> QED
  BY <1>1, <1>3 DEF NoneOf, AtMostOne

LEMMA RemoveKeeps ==
    ASSUME NEW S, NEW s \in Seq(S), NEW k \in DOMAIN s, NEW P
    PROVE  /\ RemoveAt(s, k) \in Seq(S)
           /\ NoneOf(s, P) => NoneOf(RemoveAt(s, k), P)
           /\ AtMostOne(s, P) => AtMostOne(RemoveAt(s, k), P)
           /\ AtMostOne(s, P) /\ s[k] \in P => NoneOf(RemoveAt(s, k), P)
<1> DEFINE a == SubSeq(s, 1, k - 1)
           b == SubSeq(s, k + 1, Len(s))
           t == RemoveAt(s, k)
<1>1. Len(s) \in Nat /\ DOMAIN s = 1 .. Len(s) /\ \A i \in 1 .. Len(s) : s[i] \in S
  BY LenProperties, ElementOfSeq
<1>2. /\ a \in Seq(S) /\ Len(a) = k - 1
      /\ \A i \in 1 .. k - 1 : a[i] = s[i]
  <2>1. /\ a \in Seq(S) /\ Len(a) = IF 1 <= k - 1 THEN k - 1 - 1 + 1 ELSE 0
        /\ \A i \in 1 .. k - 1 - 1 + 1 : a[i] = s[1 + i - 1]
    BY <1>1, SubSeqProperties
  <2> QED
    BY <1>1, <2>1
<1>3. /\ b \in Seq(S) /\ Len(b) = Len(s) - k
      /\ \A i \in 1 .. Len(s) - k : b[i] = s[k + i]
  <2>1. /\ b \in Seq(S) /\ Len(b) = IF k + 1 <= Len(s) THEN Len(s) - (k + 1) + 1 ELSE 0
        /\ \A i \in 1 .. Len(s) - (k + 1) + 1 : b[i] = s[k + 1 + i - 1]
    BY <1>1, SubSeqProperties
  <2> QED
    BY SMTT(60), <1>1, <2>1
<1>4. t = a \o b
  BY DEF RemoveAt
<1> HIDE DEF a, b, t
<1>5. /\ t \in Seq(S) /\ Len(t) = Len(a) + Len(b)
      /\ \A i \in 1 .. Len(a) + Len(b) : t[i] = IF i <= Len(a) THEN a[i] ELSE b[i - Len(a)]
  BY <1>2, <1>3, <1>4, ConcatProperties
<1>6. DOMAIN t = 1 .. Len(s) - 1
  BY <1>1, <1>2, <1>3, <1>5, LenProperties
<1>7. \A i \in DOMAIN t : \/ i < k /\ i \in DOMAIN s /\ t[i] = s[i]
                          \/ i >= k /\ i + 1 \in DOMAIN s /\ t[i] = s[i + 1]
  <2> SUFFICES ASSUME NEW i \in DOMAIN t
               PROVE  \/ i < k /\ i \in DOMAIN s /\ t[i] = s[i]
                      \/ i >= k /\ i + 1 \in DOMAIN s /\ t[i] = s[i + 1]
    OBVIOUS
  <2>1. CASE i < k
    <3>1. i \in 1 .. k - 1 /\ i \in 1 .. Len(a) + Len(b) /\ i <= Len(a) /\ i \in DOMAIN s
      BY <1>1, <1>2, <1>3, <1>6, <2>1
    <3> QED
      BY <1>2, <1>5, <2>1, <3>1
  <2>2. CASE i >= k
    <3>1. i - Len(a) \in 1 .. Len(s) - k /\ i \in 1 .. Len(a) + Len(b) /\ ~(i <= Len(a)) /\ i + 1 \in DOMAIN s
      BY <1>1, <1>2, <1>3, <1>6, <2>2
    <3>2. t[i] = b[i - Len(a)] /\ b[i - Len(a)] = s[k + (i - Len(a))]
      BY <1>3, <1>5, <3>1
    <3>3. k + (i - Len(a)) = i + 1
      BY <1>1, <1>2, <1>6
    <3> QED
      BY <2>2, <3>1, <3>2, <3>3
  <2>3. i < k \/ i >= k
    BY <1>1, <1>6
  <2> QED
    BY <2>1, <2>2, <2>3
<1>8. NoneOf(s, P) => NoneOf(t, P)
  BY <1>7 DEF NoneOf
<1>9. AtMostOne(s, P) => AtMostOne(t, P)
  <2> SUFFICES ASSUME AtMostOne(s, P), NEW i \in DOMAIN t, NEW j \in DOMAIN t, t[i] \in P, t[j] \in P
               PROVE  i = j
    BY DEF AtMostOne
  <2> DEFINE p == IF i < k THEN i ELSE i + 1
             q == IF j < k THEN j ELSE j + 1
  <2>1. p \in DOMAIN s /\ q \in DOMAIN s /\ s[p] \in P /\ s[q] \in P
    BY <1>1, <1>6, <1>7
  <2>2. p = q
    BY <2>1 DEF AtMostOne
  <2> QED
    BY <1>1, <1>6, <2>2
<1>10. AtMostOne(s, P) /\ s[k] \in P => NoneOf(t, P)
  <2> SUFFICES ASSUME AtMostOne(s, P), s[k] \in P, NEW i \in DOMAIN t, t[i] \in P
               PROVE  FALSE
    BY DEF NoneOf
  <2>1. \E j \in DOMAIN s : j # k /\ s[j] \in P
    BY <1>1, <1>6, <1>7
  <2> QED
    BY <2>1 DEF AtMostOne
<1> QED
  BY <1>5, <1>8, <1>9, <1>10 DEF t

LEMMA TailPrecedes ==
    ASSUME NEW S, NEW s \in Seq(S), s # << >>, NEW a, NEW b
    PROVE  /\ Precedes(Tail(s), a, b) => Precedes(s, a, b) /\ ~NoneOf(Tail(s), {a}) /\ ~NoneOf(Tail(s), {b})
           /\ Head(s) = a /\ ~NoneOf(Tail(s), {b}) => Precedes(s, a, b)
<1>1. /\ Tail(s) \in Seq(S) /\ Len(Tail(s)) = Len(s) - 1
      /\ \A i \in 1 .. Len(Tail(s)) : Tail(s)[i] = s[i + 1]
  BY HeadTailProperties
<1>2. Len(s) \in Nat \ {0} /\ DOMAIN s = 1 .. Len(s) /\ DOMAIN Tail(s) = 1 .. Len(s) - 1
  BY <1>1, EmptySeq, LenProperties
<1>3. \A i \in DOMAIN Tail(s) : i \in Nat /\ i >= 1 /\ i + 1 \in DOMAIN s /\ Tail(s)[i] = s[i + 1]
  BY <1>1, <1>2
<1>4. 1 \in DOMAIN s /\ Head(s) = s[1]
  BY <1>2
<1>5. Precedes(Tail(s), a, b) => Precedes(s, a, b) /\ ~NoneOf(Tail(s), {a}) /\ ~NoneOf(Tail(s), {b})
  <2> SUFFICES ASSUME Precedes(Tail(s), a, b)
               PROVE  Precedes(s, a, b) /\ ~NoneOf(Tail(s), {a}) /\ ~NoneOf(Tail(s), {b})
    OBVIOUS
  <2>1. PICK i \in DOMAIN Tail(s), j \in DOMAIN Tail(s) : i < j /\ Tail(s)[i] = a /\ Tail(s)[j] = b
    BY DEF Precedes
  <2>2. i + 1 \in DOMAIN s /\ j + 1 \in DOMAIN s /\ i + 1 < j + 1 /\ s[i + 1] = a /\ s[j + 1] = b
    BY <1>3, <2>1
  <2> QED
    BY <2>1, <2>2 DEF Precedes, NoneOf
<1>6. Head(s) = a /\ ~NoneOf(Tail(s), {b}) => Precedes(s, a, b)
  <2> SUFFICES ASSUME s[1] = a, NEW i \in DOMAIN Tail(s), Tail(s)[i] = b
               PROVE  Precedes(s, a, b)
    BY <1>4 DEF NoneOf
  <2>1. i + 1 \in DOMAIN s /\ 1 < i + 1 /\ s[i + 1] = b
    BY <1>3
  <2> QED
    BY <1>4, <2>1 DEF Precedes
<1> QED
  BY <1>5, <1>6

LEMMA AppendPrecedes ==
    ASSUME NEW S, NEW s \in Seq(S), NEW x \in S, NEW a, NEW b
    PROVE  Precedes(Append(s, x), a, b) => Precedes(s, a, b) \/ (x = b /\ ~NoneOf(s, {a}))
<1>1. /\ Append(s, x) \in Seq(S) /\ Len(Append(s, x)) = Len(s) + 1
      /\ \A i \in 1 .. Len(s) : Append(s, x)[i] = s[i]
      /\ Append(s, x)[Len(s) + 1] = x
  BY AppendProperties
<1>2. Len(s) \in Nat /\ DOMAIN s = 1 .. Len(s) /\ DOMAIN Append(s, x) = 1 .. Len(s) + 1
  BY <1>1, LenProperties
<1> SUFFICES ASSUME NEW i \in DOMAIN Append(s, x), NEW j \in DOMAIN Append(s, x), i < j,
                    Append(s, x)[i] = a, Append(s, x)[j] = b
             PROVE  Precedes(s, a, b) \/ (x = b /\ ~NoneOf(s, {a}))
  BY DEF Precedes
<1>3. i \in DOMAIN s /\ s[i] = a
  BY <1>1, <1>2
<1>4. (j \in DOMAIN s /\ s[j] = b) \/ (j = Len(s) + 1 /\ x = b)
  BY <1>1, <1>2
<1> QED
  BY <1>3, <1>4 DEF Precedes, NoneOf

-----------------------------------------------------------------------------
(* What a handler leaves in the queues: at most one result, under the name of *)
(* the call, or that of PREPARE_SNAPSHOT when the hardware is ready.        *)

\* Outcomes that say whether the operation succeeded.
Judged(S) == \A r \in S : r.ok \in BOOLEAN

LEMMA OutcomeIsJudged ==
    /\ \A h : Ok(h).ok \in BOOLEAN /\ Bad(h).ok \in BOOLEAN
    /\ \A S : Judged(MayFail(S))
<1>1. \A h : Ok(h).ok \in BOOLEAN /\ Bad(h).ok \in BOOLEAN
  BY DEF Ok, Bad
<1>2. ASSUME NEW S, NEW r \in MayFail(S) PROVE r.ok \in BOOLEAN
  <2>1. \E h \in S : r = Bad(h)
    BY <1>2 DEF MayFail
  <2> QED
    BY <1>1, <2>1
<1> QED
  BY <1>1, <1>2 DEF Judged

LEMMA StartIsJudged ==
    ASSUME NEW h, NEW c PROVE Judged(startChannel(h, c))
  BY OutcomeIsJudged DEF Judged, startChannel

LEMMA PrepareIsJudged ==
    ASSUME NEW h PROVE Judged(preparePreview(h))
  BY OutcomeIsJudged DEF Judged, preparePreview

LEMMA TryIsJudged ==
    ASSUME NEW h PROVE Judged(OrElse(startPreview(h), unpreparePreview))
<1> SUFFICES ASSUME NEW r \in OrElse(startPreview(h), unpreparePreview) PROVE r.ok \in BOOLEAN
  BY DEF Judged
<1>1. PICK q \in startPreview(h) : r = IF q.ok THEN q ELSE Bad(unpreparePreview(q.h))
  BY DEF OrElse
<1>2. q.ok \in BOOLEAN
  BY StartIsJudged DEF startPreview, Judged
<1> QED
  BY <1>1, <1>2 DEF Bad

LEMMA BringIsJudged ==
    ASSUME NEW h PROVE Judged(Bring(h)) /\ Judged(BringAnyhow(h))
<1>1. ASSUME NEW r \in Bring(h) PROVE r.ok \in BOOLEAN
  <2>1. PICK p \in preparePreview(h) :
          r \in IF p.ok THEN OrElse(startPreview(p.h), unpreparePreview) ELSE {p}
    BY <1>1 DEF Bring, Then
  <2> QED
    BY <2>1, PrepareIsJudged, TryIsJudged DEF Judged
<1>2. ASSUME NEW r \in BringAnyhow(h) PROVE r.ok \in BOOLEAN
  <2>1. PICK p \in preparePreview(h) : r \in IF p.ok THEN startPreview(p.h) ELSE {p}
    BY <1>2 DEF BringAnyhow, Then
  <2> QED
    BY <2>1, PrepareIsJudged, StartIsJudged DEF Judged, startPreview
<1> QED
  BY <1>1, <1>2 DEF Judged

LEMMA PictureIsJudged ==
    ASSUME NEW h
    PROVE  /\ Judged(takePicture(h)) /\ Judged(longShot(h))
           /\ Judged(preTakePicture(h)) /\ Judged(preStartRecording(h)) /\ Judged(startRecording(h))
<1>1. Judged(takePicture(h)) /\ Judged(longShot(h))
  BY OutcomeIsJudged DEF Judged, takePicture, longShot
<1>2. Judged({Ok(h)})
  BY OutcomeIsJudged DEF Judged
<1>3. Judged(preTakePicture(h)) /\ Judged(preStartRecording(h)) /\ Judged(startRecording(h))
  BY <1>2, BringIsJudged, StartIsJudged DEF preTakePicture, preStartRecording, startRecording
<1> QED
  BY <1>1, <1>3

\* What a handler of e leaves in the queues.
Spoke(e) ==
    /\ woken' \in {TRUE, woken}
    /\ evts' \in {Waiting, Append(Waiting, "SNAPSHOT_DONE")}
    /\ \/ results' = results
       \/ e \in Api /\ \E ok \in BOOLEAN : results' = Append(results, [api |-> e, ok |-> ok])
       \/ /\ e = "PREP_SNAPSHOT_DONE" /\ cam.state = "PREPARE_SNAPSHOT" /\ cam'.state = "PREVIEWING"
          /\ results' = Append(results, [api |-> "PREPARE_SNAPSHOT", ok |-> TRUE])

LEMMA AnswerSpeaks ==
    ASSUME NEW e \in Api, NEW ok \in BOOLEAN, NEW h, Answer(e, ok, h)
    PROVE  Spoke(e)
  BY DEF Answer, Become, Spoke

LEMMA QuietSpeaks ==
    ASSUME NEW e, NEW h, Quiet(h)
    PROVE  Spoke(e)
  BY DEF Quiet, Become, Spoke

LEMMA OneSpeaks ==
    ASSUME NEW e \in Api, NEW S, Judged(S), AnswerOne(e, S)
    PROVE  Spoke(e)
  BY AnswerSpeaks DEF AnswerOne, Judged

LEMMA DecideSpeaks ==
    ASSUME NEW e \in Api, NEW S, Judged(S), NEW good, NEW bad, Decide(e, S, good, bad)
    PROVE  Spoke(e)
  BY AnswerSpeaks DEF Decide, Judged

LEMMA RefusedSpeaks ==
    ASSUME NEW e, NEW h, NEW S, S \subseteq Api, Refused(e, h, S) \/ Accepted(e, h, S)
    PROVE  Spoke(e)
  BY AnswerSpeaks DEF Refused, Accepted

LEMMA IgnoredSpeaks ==
    ASSUME NEW e, NEW h, NEW S, Ignored(e, h, S) \/ SnapshotDone(e, h)
    PROVE  Spoke(e)
  BY QuietSpeaks DEF Ignored, SnapshotDone

LEMMA CommonSpeaks ==
    ASSUME NEW e, NEW h,
           Msgs(e, h) \/ SetParams(e, h) \/ Longshot(e, h) \/ AnyParams(e, h)
           \/ PreviewingMsgs(e, h) \/ CommitUnlessRestart(e, h) \/ RecordingStop(e, h)
    PROVE  Spoke(e)
  BY AnswerSpeaks DEF Msgs, SetParams, Longshot, AnyParams, PreviewingMsgs, CommitUnlessRestart,
                      RecordingStop, Api

LEMMA StoppedSpeaks ==
    ASSUME NEW e, PreviewStopped(e, cam)
    PROVE  Spoke(e)
<1>1. CASE StoppedParams(e, cam)
  BY <1>1, CommonSpeaks, AnswerSpeaks DEF StoppedParams, Api
<1>2. CASE e = "START_PREVIEW" /\ IF cam.window THEN Decide(e, Bring(cam), "PREVIEWING", "STOPPED")
                                  ELSE Decide(e, preparePreview(cam), "READY", "STOPPED")
  BY <1>2, BringIsJudged, PrepareIsJudged, DecideSpeaks DEF Api
<1>3. CASE e = "RELEASE" /\ Answer(e, TRUE, delChannel(cam, Channel))
  BY <1>3, AnswerSpeaks DEF Api
<1>4. CASE \/ Accepted(e, cam, {"STOP_PREVIEW", "PREVIEW_ENABLED", "CANCEL_PICTURE"})
           \/ Refused(e, cam, {"PRE_START_RECORDING", "START_RECORDING", "STOP_RECORDING",
                      "PREPARE_SNAPSHOT", "PRE_TAKE_PICTURE", "TAKE_PICTURE"})
  BY <1>4, RefusedSpeaks DEF Api
<1> QED
  BY <1>1, <1>2, <1>3, <1>4, CommonSpeaks, IgnoredSpeaks DEF PreviewStopped

LEMMA ReadySpeaks ==
    ASSUME NEW e, PreviewReady(e, cam)
    PROVE  Spoke(e)
<1>0. ASSUME NEW h, e \in Api, ReadyStart(e, h) PROVE Spoke(e)
  <2>1. PICK r \in OrElse(startPreview(h), unpreparePreview) :
           Answer(e, r.ok \/ e = "START_PREVIEW",
                  [r.h EXCEPT !.state = IF r.ok THEN "PREVIEWING" ELSE "STOPPED"])
    BY <1>0 DEF ReadyStart
  <2>2. (r.ok \/ e = "START_PREVIEW") \in BOOLEAN
    OBVIOUS
  <2> QED
    BY <1>0, <2>1, <2>2, AnswerSpeaks
<1>1. CASE e = "SET_PREVIEW_WINDOW" /\ \E w \in BOOLEAN :
             LET g == [cam EXCEPT !.window = w] IN IF w THEN ReadyStart(e, g) ELSE Answer(e, TRUE, g)
  <2>1. e \in Api
    BY <1>1 DEF Api
  <2>2. PICK w \in BOOLEAN : LET g == [cam EXCEPT !.window = w] IN
                                IF w THEN ReadyStart(e, g) ELSE Answer(e, TRUE, g)
    BY <1>1
  <2> DEFINE g == [cam EXCEPT !.window = w]
  <2>3. ReadyStart(e, g) \/ Answer(e, TRUE, g)
    BY <2>2
  <2> HIDE DEF g
  <2> QED
    BY <1>0, <2>1, <2>3, AnswerSpeaks
<1>2. CASE e = "COMMIT_PARAMS" /\ LET g == [commitParameters(cam) EXCEPT !.restart = FALSE] IN
            IF cam.restart THEN Decide(e, preparePreview(unpreparePreview(g)), "READY", "STOPPED")
                           ELSE Answer(e, TRUE, g)
  BY <1>2, AnswerSpeaks, DecideSpeaks, PrepareIsJudged DEF Api
<1>3. CASE e = "START_PREVIEW" /\ IF cam.window THEN ReadyStart(e, cam) ELSE Answer(e, TRUE, cam)
  <2>1. e \in Api
    BY <1>3 DEF Api
  <2>2. ReadyStart(e, cam) \/ Answer(e, TRUE, cam)
    BY <1>3
  <2> QED
    BY <1>0, <2>1, <2>2, AnswerSpeaks
<1>4. CASE e = "STOP_PREVIEW" /\ Answer(e, TRUE, [unpreparePreview(cam) EXCEPT !.state = "STOPPED"])
  BY <1>4, AnswerSpeaks DEF Api
<1>5. CASE \/ Accepted(e, cam, {"PREVIEW_ENABLED"})
           \/ Refused(e, cam, {"PRE_START_RECORDING", "START_RECORDING", "STOP_RECORDING",
                      "PREPARE_SNAPSHOT", "PRE_TAKE_PICTURE", "TAKE_PICTURE",
                      "CANCEL_PICTURE", "RELEASE"})
  BY <1>5, RefusedSpeaks DEF Api
<1> QED
  BY <1>1, <1>2, <1>3, <1>4, <1>5, CommonSpeaks, IgnoredSpeaks DEF PreviewReady, ReadyParams

LEMMA PreviewingSpeaks ==
    ASSUME NEW e, Previewing(e, cam)
    PROVE  Spoke(e)
<1>1. CASE Restart(e, cam, "STOPPED")
  BY <1>1, AnswerSpeaks, DecideSpeaks, BringIsJudged DEF Restart, Api
<1>2. CASE e = "STOP_PREVIEW" /\ Answer(e, TRUE, [applyDelayedMsgs(stopPreview(cam)) EXCEPT !.state = "STOPPED"])
  BY <1>2, AnswerSpeaks DEF Api
<1>3. CASE \/ e = "PRE_START_RECORDING" /\ AnswerOne(e, preStartRecording(cam))
           \/ e = "PRE_TAKE_PICTURE" /\ AnswerOne(e, preTakePicture(cam))
  BY <1>3, OneSpeaks, PictureIsJudged DEF Api
<1>4. CASE /\ e = "START_RECORDING"
           /\ \E r \in startRecording(cam) :
                IF r.ok THEN Answer(e, TRUE, [applyDelayedMsgs(r.h) EXCEPT !.state = "RECORDING"])
                        ELSE Answer(e, FALSE, r.h)
  BY <1>4, AnswerSpeaks DEF Api
<1>5. CASE PrepareSnapshot(e, cam)
  BY <1>5, AnswerSpeaks, QuietSpeaks DEF PrepareSnapshot, Api
<1>6. CASE PreviewingTakePicture(e, cam)
  BY <1>6, DecideSpeaks, PictureIsJudged DEF PreviewingTakePicture, Api
<1>7. CASE PreviewingLongshot(e, cam)
  BY <1>7, CommonSpeaks, OneSpeaks, BringIsJudged DEF PreviewingLongshot, Api
<1>8. CASE \/ Accepted(e, applyDelayedMsgs(cam), {"START_PREVIEW", "PREVIEW_ENABLED"})
           \/ Refused(e, cam, {"SET_PREVIEW_WINDOW", "CANCEL_PICTURE", "STOP_RECORDING", "RELEASE"})
  BY <1>8, RefusedSpeaks DEF Api
<1> QED
  BY <1>1, <1>2, <1>3, <1>4, <1>5, <1>6, <1>7, <1>8, CommonSpeaks, IgnoredSpeaks DEF Previewing

LEMMA PreparingSpeaks ==
    ASSUME NEW e, cam \in Cam, cam.state = "PREPARE_SNAPSHOT", PreparingSnapshot(e, cam)
    PROVE  Spoke(e)
<1>1. CASE e = "PREP_SNAPSHOT_DONE" /\ SnapshotPrepared(cam)
  BY <1>1 DEF SnapshotPrepared, Answer, Become, Spoke, Cam
<1> QED
  BY <1>1, RefusedSpeaks, IgnoredSpeaks DEF PreparingSnapshot

LEMMA PicLongshotSpeaks ==
    ASSUME NEW e, cam \in Cam, PicTakingLongshot(e, cam)
    PROVE  Spoke(e)
<1>1. cam.longshot \in BOOLEAN
  BY DEF Cam
<1> QED
  BY <1>1, AnswerSpeaks, OneSpeaks, PictureIsJudged DEF PicTakingLongshot, Api

LEMMA PicTakingSpeaks ==
    ASSUME NEW e, cam \in Cam, PicTaking(e, cam)
    PROVE  Spoke(e)
<1>1. CASE \/ e = "COMMIT_PARAMS" /\ Answer(e, TRUE, [commitParameters(cam) EXCEPT !.restart = FALSE])
           \/ /\ e \in {"STOP_PREVIEW", "CANCEL_PICTURE"}
              /\ Answer(e, TRUE, [cancelPicture(cam) EXCEPT !.state = "STOPPED"])
  BY <1>1, AnswerSpeaks DEF Api
<1>2. CASE StopCapture(e, cam)
  BY <1>2, AnswerSpeaks, OneSpeaks, BringIsJudged DEF StopCapture, Api
<1>3. CASE PicDone(e, cam)
  BY <1>3, QuietSpeaks DEF PicDone
<1>4. CASE Refused(e, cam, {"SET_PREVIEW_WINDOW", "PREPARE_SNAPSHOT", "PRE_START_RECORDING",
                      "START_RECORDING", "STOP_RECORDING", "START_PREVIEW", "RELEASE"})
  BY <1>4, RefusedSpeaks DEF Api
<1> QED
  BY <1>1, <1>2, <1>3, <1>4, CommonSpeaks, PicLongshotSpeaks, IgnoredSpeaks DEF PicTaking

LEMMA RecordingSpeaks ==
    ASSUME NEW e, Recording(e, cam)
    PROVE  Spoke(e)
<1>1. CASE RecordingTakePicture(e, cam)
  BY <1>1, AnswerSpeaks DEF RecordingTakePicture, Api
<1>2. CASE \/ Accepted(e, cam, {"SET_PREVIEW_WINDOW", "START_PREVIEW", "PRE_TAKE_PICTURE",
                       "PRE_START_RECORDING", "START_RECORDING", "PREPARE_SNAPSHOT"})
           \/ Refused(e, cam, {"CANCEL_PICTURE", "RELEASE"})
  BY <1>2, RefusedSpeaks DEF Api
<1> QED
  BY <1>1, <1>2, CommonSpeaks, IgnoredSpeaks DEF Recording

LEMMA VideoPicSpeaks ==
    ASSUME NEW e, VideoPicTaking(e, cam)
    PROVE  Spoke(e)
<1>1. CASE VideoPicStop(e, cam)
  BY <1>1, CommonSpeaks, AnswerSpeaks, QuietSpeaks DEF VideoPicStop, Api
<1>2. CASE Refused(e, cam, {"SET_PREVIEW_WINDOW", "PRE_START_RECORDING", "START_RECORDING",
                      "START_PREVIEW", "PREPARE_SNAPSHOT", "PRE_TAKE_PICTURE",
                      "TAKE_PICTURE", "RELEASE"})
  BY <1>2, RefusedSpeaks DEF Api
<1> QED
  BY <1>1, <1>2, CommonSpeaks, IgnoredSpeaks DEF VideoPicTaking

LEMMA PreviewPicSpeaks ==
    ASSUME NEW e, cam \in Cam, PreviewPicTaking(e, cam)
    PROVE  Spoke(e)
<1>1. CASE Restart(e, cam, "PIC_TAKING")
  BY <1>1, AnswerSpeaks, DecideSpeaks, BringIsJudged DEF Restart, Api
<1>2. CASE PreviewPicStop(e, cam)
  BY <1>2, AnswerSpeaks, QuietSpeaks DEF PreviewPicStop, Api
<1>3. CASE PreviewPicRecord(e, cam)
  BY <1>3, AnswerSpeaks, OneSpeaks, DecideSpeaks, PictureIsJudged DEF PreviewPicRecord, Api
<1>4. CASE Refused(e, cam, {"SET_PREVIEW_WINDOW", "STOP_RECORDING", "START_PREVIEW",
                      "PREPARE_SNAPSHOT", "RELEASE"})
  BY <1>4, RefusedSpeaks DEF Api
<1> QED
  BY <1>1, <1>2, <1>3, <1>4, CommonSpeaks, PicLongshotSpeaks, IgnoredSpeaks DEF PreviewPicTaking

\* One turn of the machine, seen from the queues.
LEMMA HandleSpeaks ==
    ASSUME NEW e, cam \in Cam, Handle(e, cam)
    PROVE  Spoke(e)
  BY StoppedSpeaks, ReadySpeaks, PreviewingSpeaks, PreparingSpeaks, PicTakingSpeaks,
     RecordingSpeaks, VideoPicSpeaks, PreviewPicSpeaks DEF Handle

\* The flash is asked for without a result; the hardware gives it later.
LEMMA OnlyPreviewPrepares ==
    ASSUME cam \in Cam, Handle("PREPARE_SNAPSHOT", cam), cam.state # "PREPARE_SNAPSHOT",
           cam'.state = "PREPARE_SNAPSHOT"
    PROVE  results' = results
<1> DEFINE e == "PREPARE_SNAPSHOT"
<1>1. Become(cam) => cam'.state = cam.state
  BY DEF Become, Cam
<1>2. PreviewStopped(e, cam) => Become(cam)
  BY DEF PreviewStopped, StoppedParams, Msgs, SetParams, Longshot, Accepted, Refused, Ignored, SnapshotDone, Answer
<1>3. PreviewReady(e, cam) => Become(cam)
  BY DEF PreviewReady, ReadyParams, Msgs, SetParams, Longshot, Accepted, Refused, Ignored, SnapshotDone, Answer
<1>4. Previewing(e, cam) => Become(cam) \/ results' = results
  BY DEF Previewing, PreviewingMsgs, SetParams, Restart, PrepareSnapshot, PreviewingTakePicture,
         PreviewingLongshot, Longshot, Accepted, Refused, Ignored, SnapshotDone, Answer, Quiet
<1>5. PicTaking(e, cam) => Become(cam)
  BY DEF PicTaking, AnyParams, Msgs, SetParams, PicTakingLongshot, StopCapture, PicDone,
         Refused, Ignored, Answer
<1>6. Recording(e, cam) => Become(cam)
  BY DEF Recording, AnyParams, Msgs, SetParams, CommitUnlessRestart, Longshot, RecordingTakePicture,
         RecordingStop, Accepted, Refused, Ignored, SnapshotDone, Answer
<1>7. VideoPicTaking(e, cam) => Become(cam)
  BY DEF VideoPicTaking, AnyParams, Msgs, SetParams, CommitUnlessRestart, Longshot, VideoPicStop,
         RecordingStop, Refused, Ignored, Answer
<1>8. PreviewPicTaking(e, cam) => Become(cam)
  BY DEF PreviewPicTaking, AnyParams, Msgs, SetParams, Restart, PicTakingLongshot, PreviewPicStop,
         PreviewPicRecord, Refused, Ignored, Answer
<1>9. Handle(e, cam)
  OBVIOUS
<1> HIDE DEF e
<1> QED
  BY <1>1, <1>2, <1>3, <1>4, <1>5, <1>6, <1>7, <1>8, <1>9 DEF Handle

\* Where the preview may be restarted, new parameters are accepted.
LEMMA ParamsAreTaken ==
    ASSUME cam.state \in Quiescent, Handle("SET_PARAMS", cam)
    PROVE  results' = Append(results, [api |-> "SET_PARAMS", ok |-> TRUE])
<1> DEFINE e == "SET_PARAMS"
           Taken2 == results' = Append(results, [api |-> e, ok |-> TRUE])
<1>1. \A h : Answer(e, TRUE, h) => Taken2
  BY DEF Answer
<1>2. SetParams(e, cam) => Taken2
  BY <1>1 DEF SetParams
<1>3. PreviewStopped(e, cam) => SetParams(e, cam)
  BY DEF PreviewStopped, StoppedParams, Msgs, Longshot, Accepted, Refused, Ignored, SnapshotDone
<1>4. PreviewReady(e, cam) => SetParams(e, cam)
  BY DEF PreviewReady, ReadyParams, Msgs, Longshot, Accepted, Refused, Ignored, SnapshotDone
<1>5. Previewing(e, cam) => SetParams(e, cam)
  BY DEF Previewing, PreviewingMsgs, Restart, PrepareSnapshot, PreviewingTakePicture,
         PreviewingLongshot, Longshot, Accepted, Refused, Ignored, SnapshotDone
<1>6. Handle(e, cam)
  OBVIOUS
<1>7. Taken2
  <2> HIDE DEF e, Taken2
  <2> QED
    BY <1>2, <1>3, <1>4, <1>5, <1>6 DEF Handle, Quiescent
<1> QED
  BY <1>7

-----------------------------------------------------------------------------
(* The invariant.  The machine takes e from a queue and leaves q in api.    *)

Events == {"SNAPSHOT_DONE", "PREP_SNAPSHOT_DONE"}
Result == [api : Api, ok : BOOLEAN]
\* What may be left of a call, the one that is being made, and its results.
Rests == Calls \cup {<< >>, <<"COMMIT_PARAMS">>, <<"START_RECORDING">>, <<"TAKE_PICTURE">>}
Turn == IF call = << >> THEN {} ELSE {Head(call)}
Replies(A) == {r \in Result : r.api \in A}

\* The queues hold what their readers expect.
QueuesTyped ==
    /\ api \in Seq(Api) /\ evts \in Seq(Events) /\ results \in Seq(Result)
    /\ call \in Rests /\ woken \in BOOLEAN

\* The application waits: its call is in api, or its result waits, or the
\* flash is not ready, and nothing else of it is anywhere.
CallsInTurn ==
    /\ NoneOf(api, Own \ Turn) /\ AtMostOne(api, Own)
    /\ NoneOf(results, Replies(Own \ Turn)) /\ AtMostOne(results, Replies(Own))
    /\ NoneOf(api, Own) \/ NoneOf(results, Replies(Own))
    /\ cam.state = "PREPARE_SNAPSHOT" =>
          Turn = {"PREPARE_SNAPSHOT"} /\ NoneOf(api, Own) /\ NoneOf(results, Replies(Own))

ParamsTaken == [api |-> "SET_PARAMS", ok |-> TRUE]

\* Between SET_PARAMS and its commit the application asks for nothing else.
Window ==
    Dirty(cam) =>
      /\ cam.restart /\ cam.state \in Reconfigure
      /\ Turn = {"COMMIT_PARAMS"} \/ (Turn = {"SET_PARAMS"} /\ NoneOf(api, Own))
      /\ NoneOf(results, Replies(Own) \ {ParamsTaken})

\* A commit that finds no window finds nothing to restart.
Closed ==
    (/\ Tame /\ cam.state \notin Quiescent
     /\ Turn = {"COMMIT_PARAMS"} \/ (Turn = {"SET_PARAMS"} /\ NoneOf(api, Own)))
    => ~cam.restart

\* A long shot asked for is asked for in its mode.
LongshotsFit ==
    Tame => /\ NoneOf(api, {"LONGSHOT_ON"}) \/ cam.zsl
            /\ NoneOf(api, {"LONGSHOT_OFF"}) \/ cam.longshot

\* What the data thread posts.
Late == {"STOP_CAPTURE_CHANNEL"}
\* STOP_CAPTURE_CHANNEL never waits while a picture has no frame yet; where it waits
\* behind TAKE_PICTURE the camera is in a state that starts no picture.
StopsFit ==
    Tame =>
      /\ cam.state = "PIC_TAKING" /\ cam.pic = "shot" => NoneOf(api, Late)
      /\ Precedes(api, "TAKE_PICTURE", "STOP_CAPTURE_CHANNEL") => cam.state \in {"PIC_TAKING", "STOPPED"}

\* The mode of the camera.
ModeFits == Tame => Mode(cam)

\* The inductive invariant.
IInv ==
    /\ Fine(cam) /\ ModeFits
    /\ QueuesTyped /\ CallsInTurn /\ Window /\ Closed /\ LongshotsFit /\ StopsFit

LEMMA NoneInPart ==
    ASSUME NEW s, NEW P, NEW Q, NoneOf(s, P), Q \subseteq P PROVE NoneOf(s, Q)
  BY DEF NoneOf

LEMMA ReplyOf ==
    ASSUME NEW a \in Api, NEW ok \in BOOLEAN, NEW A
    PROVE  LET r == [api |-> a, ok |-> ok] IN r \in Result /\ (r \in Replies(A) <=> a \in A)
  BY DEF Result, Replies

\* The machine takes e; q is what it leaves in api.
Pulled(e, q) ==
    /\ e \in Api \cup Events /\ q \in Seq(Api) /\ Waiting \in Seq(Events)
    /\ NoneOf(q, Own \ Turn) /\ AtMostOne(q, Own)
    /\ NoneOf(api, Own) => NoneOf(q, Own)
    /\ e \notin Own /\ NoneOf(q, Own) => NoneOf(api, Own)
    /\ NoneOf(api, {"LONGSHOT_ON"}) => NoneOf(q, {"LONGSHOT_ON"}) /\ e # "LONGSHOT_ON"
    /\ NoneOf(api, {"LONGSHOT_OFF"}) => NoneOf(q, {"LONGSHOT_OFF"}) /\ e # "LONGSHOT_OFF"
    /\ NoneOf(api, Late) => NoneOf(q, Late)
    /\ e \in Own => /\ Turn = {e} /\ NoneOf(q, Own) /\ NoneOf(results, Replies(Own))
                    /\ cam.state # "PREPARE_SNAPSHOT"
                    /\ ~NoneOf(api, Own)
    /\ e = "TAKE_PICTURE" /\ ~NoneOf(q, Late) => Precedes(api, "TAKE_PICTURE", "STOP_CAPTURE_CHANNEL")
    /\ Precedes(q, "TAKE_PICTURE", "STOP_CAPTURE_CHANNEL") =>
          /\ Precedes(api, "TAKE_PICTURE", "STOP_CAPTURE_CHANNEL")
          /\ e \in {"STOP_CAPTURE_CHANNEL", "CANCEL_PICTURE"}

\* A call is taken before an event.
LEMMA CallPulled ==
    ASSUME QueuesTyped, CallsInTurn, api # << >>
    PROVE  Pulled(Head(api), Tail(api))
<1> DEFINE e == Head(api)
           q == Tail(api)
<1>1. api \in Seq(Api) /\ Waiting \in Seq(Events)
  BY DEF QueuesTyped, Waiting
<1>2. e \in Api /\ q \in Seq(Api)
  BY <1>1, TailKeeps
<1>3. NoneOf(q, Own \ Turn) /\ e \notin Own \ Turn
  <2>1. NoneOf(api, Own \ Turn)
    BY DEF CallsInTurn
  <2> QED
    BY <1>1, <2>1, TailKeeps
<1>4. /\ AtMostOne(q, Own) /\ (e \in Own => NoneOf(q, Own)) /\ (NoneOf(api, Own) => NoneOf(q, Own) /\ e \notin Own)
      /\ e \notin Own /\ NoneOf(q, Own) => NoneOf(api, Own)
  <2>1. AtMostOne(api, Own)
    BY DEF CallsInTurn
  <2> QED
    BY <1>1, <2>1, TailKeeps
<1>5. \A x : NoneOf(api, {x}) => NoneOf(q, {x}) /\ e # x
  <2> SUFFICES ASSUME NEW x, NoneOf(api, {x}) PROVE NoneOf(q, {x}) /\ e \notin {x}
    OBVIOUS
  <2> QED
    BY <1>1, TailKeeps
<1>6. e \in Own => Turn = {e}
  BY <1>3 DEF Turn
<1>7. e \in Own => NoneOf(results, Replies(Own)) /\ cam.state # "PREPARE_SNAPSHOT"
  BY <1>4 DEF CallsInTurn
<1>8. /\ e = "TAKE_PICTURE" /\ ~NoneOf(q, {"STOP_CAPTURE_CHANNEL"})
            => Precedes(api, "TAKE_PICTURE", "STOP_CAPTURE_CHANNEL")
      /\ Precedes(q, "TAKE_PICTURE", "STOP_CAPTURE_CHANNEL") =>
           /\ Precedes(api, "TAKE_PICTURE", "STOP_CAPTURE_CHANNEL")
           /\ ~NoneOf(q, {"TAKE_PICTURE"})
  BY <1>1, TailPrecedes
<1>9. ~NoneOf(q, {"TAKE_PICTURE"}) => e \notin Own
  <2>1. {"TAKE_PICTURE"} \subseteq Own
    BY DEF Own, Api
  <2> QED
    BY <1>4, <2>1, NoneInPart
<1>10. e \notin Own => e \in {"STOP_CAPTURE_CHANNEL", "CANCEL_PICTURE"}
  BY <1>2 DEF Own
<1> HIDE DEF e, q
<1>11. Pulled(e, q)
  BY <1>1, <1>2, <1>3, <1>4, <1>5, <1>6, <1>7, <1>8, <1>9, <1>10 DEF Pulled, Late
<1> QED
  BY <1>11 DEF e, q

LEMMA EventPulled ==
    ASSUME QueuesTyped, CallsInTurn, api = << >>, evts # << >>
    PROVE  Pulled(Head(evts), api)
<1>1. evts \in Seq(Events)
  BY DEF QueuesTyped
<1>2. Head(evts) \in Events /\ Tail(evts) \in Seq(Events) /\ Waiting = Tail(evts)
  BY <1>1, TailKeeps DEF Waiting
<1>3. Head(evts) \notin Api /\ Head(evts) \notin Own
  BY <1>2 DEF Events, Api, Own
<1>4. ~Precedes(api, "TAKE_PICTURE", "STOP_CAPTURE_CHANNEL")
  BY DEF Precedes
<1>5. "LONGSHOT_ON" \in Api /\ "LONGSHOT_OFF" \in Api /\ "TAKE_PICTURE" \in Api
  BY DEF Api
<1> QED
  BY <1>2, <1>3, <1>4, <1>5 DEF Pulled, QueuesTyped, CallsInTurn

LEMMA PulledIsAsked ==
    ASSUME NEW e, NEW q, IInv, Pulled(e, q)
    PROVE  Asked(e, cam)
<1>1. Dirty(cam) => cam.restart /\ cam.state \in Quiescent /\ e \notin Own \ {"COMMIT_PARAMS"}
  <2> SUFFICES ASSUME Dirty(cam) PROVE cam.restart /\ cam.state \in Quiescent /\ e \notin Own \ {"COMMIT_PARAMS"}
    OBVIOUS
  <2>1. cam.restart /\ cam.state \in Quiescent
    BY DEF IInv, Window, Dirty, Tame
  <2>2. Turn = {"COMMIT_PARAMS"} \/ (Turn = {"SET_PARAMS"} /\ NoneOf(api, Own))
    BY DEF IInv, Window
  <2>3. e \in Own => Turn = {e} /\ ~NoneOf(api, Own)
    BY DEF Pulled
  <2> QED
    BY <2>1, <2>2, <2>3
<1>2. Tame => (e = "LONGSHOT_ON" => cam.zsl) /\ (e = "LONGSHOT_OFF" => cam.longshot)
  BY DEF IInv, LongshotsFit, Pulled
<1>3. Tame /\ e = "COMMIT_PARAMS" /\ cam.state \notin Quiescent => ~cam.restart
  <2>1. "COMMIT_PARAMS" \in Own
    BY DEF Own, Api
  <2> QED
    BY <2>1 DEF IInv, Closed, Pulled
<1> QED
  BY <1>1, <1>2, <1>3 DEF Asked

\* The results after a handler.
LEMMA ResultsAfter ==
    ASSUME NEW e, NEW q, IInv, Pulled(e, q), Spoke(e), call' = call
    PROVE  /\ results' \in Seq(Result)
           /\ NoneOf(results', Replies(Own \ Turn)) /\ AtMostOne(results', Replies(Own))
           /\ NoneOf(q, Own) \/ NoneOf(results', Replies(Own))
           /\ e \notin Own /\ cam.state # "PREPARE_SNAPSHOT" =>
                \A P : P \subseteq Replies(Own) /\ NoneOf(results, P) => NoneOf(results', P)
           /\ e \notin Own /\ NoneOf(results, Replies(Own)) /\ cam'.state = "PREPARE_SNAPSHOT"
                 => NoneOf(results', Replies(Own))
<1>1. /\ results \in Seq(Result)
      /\ NoneOf(results, Replies(Own \ Turn)) /\ AtMostOne(results, Replies(Own))
      /\ NoneOf(q, Own) \/ NoneOf(results, Replies(Own))
  BY DEF IInv, QueuesTyped, CallsInTurn, Pulled
<1>2. CASE results' = results
  BY <1>1, <1>2
<1>3. ASSUME e \in Api, NEW ok \in BOOLEAN, results' = Append(results, [api |-> e, ok |-> ok])
      PROVE  /\ results' \in Seq(Result)
             /\ NoneOf(results', Replies(Own \ Turn)) /\ AtMostOne(results', Replies(Own))
             /\ NoneOf(q, Own) \/ NoneOf(results', Replies(Own))
             /\ e \notin Own => \A P : P \subseteq Replies(Own) /\ NoneOf(results, P) => NoneOf(results', P)
  <2> DEFINE r == [api |-> e, ok |-> ok]
  <2>1. r \in Result /\ (r \in Replies(Own) <=> e \in Own)
    BY <1>3, ReplyOf
  <2>2. r \in Replies(Own \ Turn) <=> e \in Own \ Turn
    BY <1>3, ReplyOf
  <2>3. results' = Append(results, r)
    BY <1>3
  <2> HIDE DEF r
  <2>4. results' \in Seq(Result)
    BY <1>1, <2>1, <2>3, AppendProperties
  <2>5. NoneOf(results', Replies(Own \ Turn))
    <3>1. e \notin Own \ Turn
      BY DEF Pulled
    <3> QED
      BY <1>1, <2>1, <2>2, <2>3, <3>1, AppendKeeps
  <2>6. CASE e \in Own
    <3>1. NoneOf(q, Own) /\ NoneOf(results, Replies(Own))
      BY <2>6 DEF Pulled
    <3>2. AtMostOne(results', Replies(Own))
      BY <1>1, <2>1, <2>3, <3>1, AppendKeeps
    <3> QED
      BY <2>4, <2>5, <2>6, <3>1, <3>2
  <2>7. CASE e \notin Own
    <3>1. \A P : P \subseteq Replies(Own) /\ NoneOf(results, P) => NoneOf(results', P)
      <4> SUFFICES ASSUME NEW P, P \subseteq Replies(Own), NoneOf(results, P) PROVE NoneOf(results', P)
        OBVIOUS
      <4>1. r \notin P
        BY <2>1, <2>7
      <4> QED
        BY <1>1, <2>1, <2>3, <4>1, AppendKeeps
    <3>2. AtMostOne(results', Replies(Own))
      BY <1>1, <2>1, <2>3, <2>7, AppendKeeps
    <3> QED
      BY <1>1, <2>4, <2>5, <3>1, <3>2
  <2> QED
    BY <2>6, <2>7
<1>4. ASSUME e = "PREP_SNAPSHOT_DONE", cam.state = "PREPARE_SNAPSHOT", cam'.state = "PREVIEWING",
             results' = Append(results, [api |-> "PREPARE_SNAPSHOT", ok |-> TRUE])
      PROVE  /\ results' \in Seq(Result)
             /\ NoneOf(results', Replies(Own \ Turn)) /\ AtMostOne(results', Replies(Own))
             /\ NoneOf(q, Own)
  <2> DEFINE r == [api |-> "PREPARE_SNAPSHOT", ok |-> TRUE]
  <2>1. Turn = {"PREPARE_SNAPSHOT"} /\ NoneOf(api, Own) /\ NoneOf(results, Replies(Own))
    BY <1>4 DEF IInv, CallsInTurn
  <2>2. "PREPARE_SNAPSHOT" \in Api
    BY DEF Api
  <2>3. r \in Result /\ (r \in Replies(Own \ Turn) <=> "PREPARE_SNAPSHOT" \in Own \ Turn)
    BY <2>2, ReplyOf
  <2>4. results' = Append(results, r)
    BY <1>4
  <2> HIDE DEF r
  <2>5. NoneOf(results', Replies(Own \ Turn))
    BY <1>1, <2>1, <2>3, <2>4, AppendKeeps
  <2>6. results' \in Seq(Result) /\ AtMostOne(results', Replies(Own))
    BY <1>1, <2>1, <2>3, <2>4, AppendKeeps
  <2>7. NoneOf(q, Own)
    BY <2>1 DEF Pulled
  <2> QED
    BY <2>5, <2>6, <2>7
<1> QED
  BY <1>2, <1>3, <1>4 DEF Spoke

-----------------------------------------------------------------------------
(* The state machine preserves the invariant.                               *)

\* The three accounts of a turn together preserve the invariant.
LEMMA WoundUp ==
    ASSUME NEW e, NEW q, IInv, Pulled(e, q), Spoke(e), Handle(e, cam), Stepped(e), Tame => Drove(e),
           api' = q, call' = call
    PROVE  IInv'
<1>1. Asked(e, cam)
  BY PulledIsAsked
<1>2. Fine(cam') /\ Moves(e, cam, cam') /\ Fine(cam)
  BY DEF Stepped, IInv
<1>3. Turn' = Turn
  BY DEF Turn
<1>4. /\ results' \in Seq(Result)
      /\ NoneOf(results', Replies(Own \ Turn)) /\ AtMostOne(results', Replies(Own))
      /\ NoneOf(q, Own) \/ NoneOf(results', Replies(Own))
      /\ e \notin Own /\ NoneOf(results, Replies(Own)) /\ cam'.state = "PREPARE_SNAPSHOT"
                 => NoneOf(results', Replies(Own))
  BY ResultsAfter
<1>5. e \notin Own /\ cam.state # "PREPARE_SNAPSHOT" =>
        \A P : P \subseteq Replies(Own) /\ NoneOf(results, P) => NoneOf(results', P)
  BY ResultsAfter
<1>6. evts' \in Seq(Events)
  <2>1. Waiting \in Seq(Events) /\ "SNAPSHOT_DONE" \in Events
    BY DEF Pulled, Events
  <2> QED
    BY <2>1, AppendProperties DEF Spoke
<1>7. QueuesTyped'
  BY <1>4, <1>6 DEF QueuesTyped, IInv, Pulled, Spoke
<1>8. CallsInTurn'
  <2>1. ASSUME cam'.state = "PREPARE_SNAPSHOT"
        PROVE  Turn = {"PREPARE_SNAPSHOT"} /\ NoneOf(q, Own) /\ NoneOf(results', Replies(Own))
    <3>1. CASE cam.state = "PREPARE_SNAPSHOT"
      <4>1. Turn = {"PREPARE_SNAPSHOT"} /\ NoneOf(api, Own) /\ NoneOf(results, Replies(Own))
        BY <3>1 DEF IInv, CallsInTurn
      <4> QED
        BY <1>4, <2>1, <3>1, <4>1 DEF Pulled
    <3>2. CASE cam.state # "PREPARE_SNAPSHOT"
      <4>1. e = "PREPARE_SNAPSHOT"
        BY <1>2, <2>1, <3>2 DEF Moves
      <4>2. results' = results
        BY <1>2, <2>1, <3>2, <4>1, OnlyPreviewPrepares DEF Fine
      <4>3. "PREPARE_SNAPSHOT" \in Own
        BY DEF Own, Api
      <4> QED
        BY <4>1, <4>2, <4>3 DEF Pulled
    <3> QED
      BY <3>1, <3>2
  <2>2. NoneOf(q, Own \ Turn) /\ AtMostOne(q, Own)
    BY DEF Pulled
  <2> QED
    BY <1>3, <1>4, <2>1, <2>2 DEF CallsInTurn
<1>9. Window'
  <2> SUFFICES ASSUME Dirty(cam')
               PROVE  /\ cam'.restart /\ cam'.state \in Reconfigure
                      /\ Turn = {"COMMIT_PARAMS"} \/ (Turn = {"SET_PARAMS"} /\ NoneOf(q, Own))
                      /\ NoneOf(results', Replies(Own) \ {ParamsTaken})
    BY <1>3 DEF Window
  <2>1. cam'.state = cam.state /\ cam'.restart /\ cam.state \in Quiescent
    BY <1>1, <1>2 DEF Moves, Asked, Dirty, Tame
  <2>2. CASE Dirty(cam) /\ e # "COMMIT_PARAMS"
    <3>1. /\ cam.state \in Reconfigure
          /\ Turn = {"COMMIT_PARAMS"} \/ (Turn = {"SET_PARAMS"} /\ NoneOf(api, Own))
          /\ NoneOf(results, Replies(Own) \ {ParamsTaken})
      BY <2>2 DEF IInv, Window
    <3>2. e \notin Own
      BY <1>1, <2>2 DEF Asked
    <3>3. cam.state # "PREPARE_SNAPSHOT"
      BY <2>1 DEF Quiescent
    <3>4. NoneOf(results', Replies(Own) \ {ParamsTaken})
      BY <1>5, <3>1, <3>2, <3>3
    <3> QED
      BY <2>1, <3>1, <3>4 DEF Pulled
  <2>3. CASE e = "SET_PARAMS" /\ cam.state \in Reconfigure
    <3>1. e \in Own /\ "SET_PARAMS" \in Api
      BY <2>3 DEF Own, Api
    <3>2. Turn = {"SET_PARAMS"} /\ NoneOf(q, Own) /\ NoneOf(results, Replies(Own))
      BY <2>3, <3>1 DEF Pulled
    <3>3. results' = Append(results, ParamsTaken) /\ ParamsTaken \in Result
      BY <2>1, <2>3, <3>1, ParamsAreTaken, ReplyOf DEF ParamsTaken
    <3>4. NoneOf(results, Replies(Own) \ {ParamsTaken})
      BY <3>2, NoneInPart
    <3>5. NoneOf(results', Replies(Own) \ {ParamsTaken})
      BY <3>3, <3>4, AppendKeeps DEF IInv, QueuesTyped
    <3> QED
      BY <2>1, <2>3, <3>2, <3>5
  <2> QED
    BY <1>2, <2>2, <2>3 DEF Moves
<1>10. Tame => Turned(e, cam, cam') /\ Mode(cam')
  BY DEF Drove
<1>13. ModeFits'
  BY <1>10 DEF ModeFits, Tame
<1>14. Closed'
  <2> SUFFICES ASSUME Tame, cam'.state \notin Quiescent,
                      Turn = {"COMMIT_PARAMS"} \/ (Turn = {"SET_PARAMS"} /\ NoneOf(q, Own))
               PROVE  ~cam'.restart
    BY <1>3 DEF Closed, Tame
  <2>1. Turned(e, cam, cam')
    BY <1>10
  <2>2. cam.state \notin Quiescent /\ Turn = {"COMMIT_PARAMS"} => ~cam.restart
    BY DEF IInv, Closed
  <2>3. cam.state \notin Quiescent /\ Turn = {"SET_PARAMS"} /\ NoneOf(api, Own) => ~cam.restart
    BY DEF IInv, Closed
  <2>4. CASE e = "SET_PARAMS"
    <3>1. cam'.state = cam.state /\ (cam.state # "PREPARE_SNAPSHOT" => ~cam'.restart)
      BY <2>1, <2>4 DEF Turned
    <3>2. cam.state # "PREPARE_SNAPSHOT"
      BY <2>4 DEF Pulled, Own, Api
    <3> QED
      BY <3>1, <3>2
  <2>5. CASE e = "COMMIT_PARAMS"
    <3>1. Turn = {"COMMIT_PARAMS"}
      BY <2>5 DEF Pulled, Own, Api
    <3> QED
      BY <2>1, <2>2, <2>5, <3>1 DEF Turned
  <2>6. CASE e \notin Own
    <3>1. cam'.restart = cam.restart /\ cam.state \notin Quiescent
      BY <2>1, <2>6 DEF Turned
    <3>2. NoneOf(q, Own) => NoneOf(api, Own)
      BY <2>6 DEF Pulled
    <3> QED
      BY <2>2, <2>3, <3>1, <3>2
  <2>7. CASE e \in Own \ {"SET_PARAMS", "COMMIT_PARAMS"}
    <3>1. Turn = {e}
      BY <2>7 DEF Pulled
    <3> QED
      BY <2>7, <3>1
  <2> QED
    BY <2>4, <2>5, <2>6, <2>7
<1>11. LongshotsFit'
  <2> SUFFICES ASSUME Tame
               PROVE  /\ NoneOf(q, {"LONGSHOT_ON"}) \/ cam'.zsl
                      /\ NoneOf(q, {"LONGSHOT_OFF"}) \/ cam'.longshot
    BY DEF LongshotsFit, Tame
  <2>1. CASE e \in Own
    <3>1. NoneOf(q, Own) /\ {"LONGSHOT_ON"} \subseteq Own /\ {"LONGSHOT_OFF"} \subseteq Own
      BY <2>1 DEF Pulled, Own, Api
    <3> QED
      BY <3>1, NoneInPart
  <2>2. CASE e \notin Own
    BY <1>10, <2>2 DEF Turned, IInv, LongshotsFit, Pulled
  <2> QED
    BY <2>1, <2>2
<1>12. StopsFit'
  <2> SUFFICES ASSUME Tame
               PROVE  /\ cam'.state = "PIC_TAKING" /\ cam'.pic = "shot" => NoneOf(q, Late)
                      /\ Precedes(q, "TAKE_PICTURE", "STOP_CAPTURE_CHANNEL") => cam'.state \in {"PIC_TAKING", "STOPPED"}
    BY DEF StopsFit, Tame
  <2>1. /\ cam.state = "PIC_TAKING" /\ cam.pic = "shot" => NoneOf(api, Late)
        /\ Precedes(api, "TAKE_PICTURE", "STOP_CAPTURE_CHANNEL") => cam.state \in {"PIC_TAKING", "STOPPED"}
    BY DEF IInv, StopsFit
  <2>2. cam'.state = "PIC_TAKING" /\ cam'.pic = "shot" => NoneOf(q, Late)
    BY <1>10, <2>1 DEF Turned, Pulled
  <2>3. Precedes(q, "TAKE_PICTURE", "STOP_CAPTURE_CHANNEL") => cam'.state \in {"PIC_TAKING", "STOPPED"}
    BY <1>10, <2>1 DEF Turned, Pulled
  <2> QED
    BY <2>2, <2>3
<1> QED
  BY <1>2, <1>7, <1>8, <1>9, <1>11, <1>12, <1>13, <1>14 DEF IInv

LEMMA StateMachineKeeps ==
    ASSUME IInv, StateMachine PROVE IInv'
<1>1. call' = call
  BY DEF StateMachine
<1>2. QueuesTyped /\ CallsInTurn /\ Fine(cam) /\ cam \in Cam /\ ModeFits
  BY DEF IInv, Fine
<1>3. CASE api # << >>
  <2> DEFINE e == Head(api)
             q == Tail(api)
  <2>1. Pulled(e, q)
    BY <1>2, <1>3, CallPulled
  <2>2. Handle(e, cam) /\ api' = q
    BY <1>3 DEF StateMachine
  <2> HIDE DEF e, q
  <2>3. Asked(e, cam)
    BY <2>1, PulledIsAsked
  <2>4. Stepped(e) /\ Spoke(e)
    BY <1>2, <2>2, <2>3, HandleSteps, HandleSpeaks
  <2>5. Tame => Drove(e)
    BY <1>2, <2>2, <2>3, HandleDrives DEF ModeFits
  <2> QED
    BY <1>1, <2>1, <2>2, <2>4, <2>5, WoundUp
<1>4. CASE api = << >>
  <2> DEFINE e == Head(evts)
  <2>1. Handle(e, cam) /\ api' = api /\ evts # << >>
    BY <1>4 DEF StateMachine
  <2>2. Pulled(e, api)
    BY <1>2, <1>4, <2>1, EventPulled
  <2> HIDE DEF e
  <2>3. Asked(e, cam)
    BY <2>2, PulledIsAsked
  <2>4. Stepped(e) /\ Spoke(e)
    BY <1>2, <2>1, <2>3, HandleSteps, HandleSpeaks
  <2>5. Tame => Drove(e)
    BY <1>2, <2>1, <2>3, HandleDrives DEF ModeFits
  <2> QED
    BY <1>1, <2>1, <2>2, <2>4, <2>5, WoundUp
<1> QED
  BY <1>3, <1>4

-----------------------------------------------------------------------------
(* The application calls and reads its results.                             *)

\* The calls that the entry points make.
LEMMA CallsAre ==
    /\ \A c \in Rests : c # << >> =>
         /\ Head(c) \in Api \ {"STOP_CAPTURE_CHANNEL"} /\ Tail(c) \in Rests
         /\ Tail(c) # << >> => /\ Head(Tail(c)) \in Own \ {"LONGSHOT_ON", "LONGSHOT_OFF"}
                               /\ Head(c) # "CANCEL_PICTURE"
         /\ Tail(c) # << >> => /\ Head(Tail(c)) # "SET_PARAMS"
                               /\ Head(Tail(c)) = "COMMIT_PARAMS" => Head(c) = "SET_PARAMS"
         /\ Head(c) = "SET_PARAMS" => Tail(c) = <<"COMMIT_PARAMS">>
    /\ \A c \in Calls : c \in Rests /\ c # << >>
    /\ \A c \in Calls : /\ Head(c) # "COMMIT_PARAMS"
                        /\ Head(c) = "LONGSHOT_ON" => c = <<"LONGSHOT_ON">>
                        /\ Head(c) = "LONGSHOT_OFF" => c = <<"LONGSHOT_OFF">>
<1>1. \A a : <<a>> # << >> /\ Head(<<a>>) = a /\ Tail(<<a>>) = << >>
  OBVIOUS
<1>2. \A a, b : <<a, b>> # << >> /\ Head(<<a, b>>) = a /\ Tail(<<a, b>>) = <<b>>
  OBVIOUS
<1>3. \A a, b, c : <<a, b, c>> # << >> /\ Head(<<a, b, c>>) = a /\ Tail(<<a, b, c>>) = <<b, c>>
  OBVIOUS
<1> DEFINE Single == {"SET_PREVIEW_WINDOW", "ENABLE_MSG_TYPE", "DISABLE_MSG_TYPE",
                      "START_PREVIEW", "STOP_PREVIEW", "PREVIEW_ENABLED", "STOP_RECORDING",
                      "CANCEL_PICTURE", "LONGSHOT_ON", "LONGSHOT_OFF", "RELEASE"}
           Rest == {"COMMIT_PARAMS", "START_RECORDING", "TAKE_PICTURE"}
<1>4. Single \subseteq Api \ {"STOP_CAPTURE_CHANNEL", "SET_PARAMS"} /\ Rest \subseteq Api \ {"STOP_CAPTURE_CHANNEL", "SET_PARAMS"}
  BY DEF Api
<1>5. Rest \subseteq Own \ {"LONGSHOT_ON", "LONGSHOT_OFF"} /\ "PRE_TAKE_PICTURE" \in Own
  BY DEF Api, Own
<1>6. {"SET_PARAMS", "PRE_START_RECORDING", "PRE_TAKE_PICTURE", "PREPARE_SNAPSHOT"}
        \subseteq Api \ {"STOP_CAPTURE_CHANNEL", "CANCEL_PICTURE", "LONGSHOT_ON", "LONGSHOT_OFF"}
  BY DEF Api
<1>7. ASSUME NEW c \in Calls
      PROVE  \/ \E a \in Single : c = <<a>>
             \/ c = <<"SET_PARAMS", "COMMIT_PARAMS">>
             \/ c = <<"PRE_START_RECORDING", "START_RECORDING">>
             \/ c = <<"PRE_TAKE_PICTURE", "TAKE_PICTURE">>
             \/ c = <<"PREPARE_SNAPSHOT", "PRE_TAKE_PICTURE", "TAKE_PICTURE">>
  BY <1>7 DEF Calls
<1>8. /\ << >> \in Rests /\ <<"COMMIT_PARAMS">> \in Rests /\ <<"START_RECORDING">> \in Rests
      /\ <<"TAKE_PICTURE">> \in Rests /\ <<"PRE_TAKE_PICTURE", "TAKE_PICTURE">> \in Rests
  BY DEF Rests, Calls
<1>9. \A c \in Calls : c \in Rests
  BY DEF Rests
<1>10. ASSUME NEW c \in Rests, c # << >>
       PROVE  c \in Calls \/ \E a \in Rest : c = <<a>>
  BY <1>10 DEF Rests
<1>18. "COMMIT_PARAMS" \notin Single
  OBVIOUS
<1> HIDE DEF Single, Rest
<1>11. ASSUME NEW a \in Single \cup Rest, NEW c, c = <<a>>
       PROVE  /\ c # << >> /\ Head(c) \in Api \ {"STOP_CAPTURE_CHANNEL", "SET_PARAMS"}
              /\ Head(c) = a /\ Tail(c) = << >>
  BY <1>1, <1>4, <1>11
<1>12. ASSUME NEW c, c = <<"SET_PARAMS", "COMMIT_PARAMS">>
       PROVE  /\ c # << >> /\ Head(c) = "SET_PARAMS" /\ Tail(c) = <<"COMMIT_PARAMS">>
              /\ Head(Tail(c)) = "COMMIT_PARAMS" /\ "COMMIT_PARAMS" \in Own
  BY <1>1, <1>2, <1>12 DEF Own, Api
<1>13. ASSUME NEW c, c = <<"PRE_START_RECORDING", "START_RECORDING">>
       PROVE  /\ c # << >> /\ Head(c) = "PRE_START_RECORDING" /\ Tail(c) = <<"START_RECORDING">>
              /\ Head(Tail(c)) = "START_RECORDING" /\ "START_RECORDING" \in Own
  BY <1>1, <1>2, <1>13 DEF Own, Api
<1>14. ASSUME NEW c, c = <<"PRE_TAKE_PICTURE", "TAKE_PICTURE">>
       PROVE  /\ c # << >> /\ Head(c) = "PRE_TAKE_PICTURE" /\ Tail(c) = <<"TAKE_PICTURE">>
              /\ Head(Tail(c)) = "TAKE_PICTURE" /\ "TAKE_PICTURE" \in Own
  BY <1>1, <1>2, <1>14 DEF Own, Api
<1>15. ASSUME NEW c, c = <<"PREPARE_SNAPSHOT", "PRE_TAKE_PICTURE", "TAKE_PICTURE">>
       PROVE  /\ c # << >> /\ Head(c) = "PREPARE_SNAPSHOT" /\ Tail(c) = <<"PRE_TAKE_PICTURE", "TAKE_PICTURE">>
              /\ Head(Tail(c)) = "PRE_TAKE_PICTURE" /\ "PRE_TAKE_PICTURE" \in Own
  BY <1>2, <1>3, <1>15 DEF Own, Api
<1>16. ASSUME NEW c \in Rests, c # << >>
       PROVE  /\ Head(c) \in Api \ {"STOP_CAPTURE_CHANNEL"} /\ Tail(c) \in Rests
              /\ Tail(c) # << >> => /\ Head(Tail(c)) \in Own \ {"LONGSHOT_ON", "LONGSHOT_OFF"}
                                    /\ Head(c) # "CANCEL_PICTURE"
                                    /\ Head(Tail(c)) # "SET_PARAMS"
                                    /\ Head(Tail(c)) = "COMMIT_PARAMS" => Head(c) = "SET_PARAMS"
              /\ Head(c) = "SET_PARAMS" => Tail(c) = <<"COMMIT_PARAMS">>
  <2>1. CASE \E a \in Single \cup Rest : c = <<a>>
    BY <1>8, <1>11, <2>1
  <2>2. CASE c = <<"SET_PARAMS", "COMMIT_PARAMS">>
    BY <1>6, <1>8, <1>12, <2>2
  <2>3. CASE c = <<"PRE_START_RECORDING", "START_RECORDING">>
    BY <1>6, <1>8, <1>13, <2>3
  <2>4. CASE c = <<"PRE_TAKE_PICTURE", "TAKE_PICTURE">>
    BY <1>6, <1>8, <1>14, <2>4
  <2>5. CASE c = <<"PREPARE_SNAPSHOT", "PRE_TAKE_PICTURE", "TAKE_PICTURE">>
    BY <1>6, <1>8, <1>15, <2>5
  <2> QED
    BY <1>7, <1>10, <1>16, <2>1, <2>2, <2>3, <2>4, <2>5
<1>17. ASSUME NEW c \in Calls
       PROVE  /\ c \in Rests /\ c # << >> /\ Head(c) # "COMMIT_PARAMS"
              /\ Head(c) = "LONGSHOT_ON" => c = <<"LONGSHOT_ON">>
              /\ Head(c) = "LONGSHOT_OFF" => c = <<"LONGSHOT_OFF">>
  BY <1>7, <1>9, <1>11, <1>12, <1>13, <1>14, <1>15, <1>18
<1> QED
  BY <1>16, <1>17

LEMMA CallKeeps ==
    ASSUME IInv, NEW c \in Calls, Call(c) PROVE IInv'
<1> DEFINE a == Head(c)
<1>1. /\ c \in Rests /\ c # << >> /\ a \in Api \ {"STOP_CAPTURE_CHANNEL"} /\ a # "COMMIT_PARAMS"
      /\ a = "LONGSHOT_ON" => c = <<"LONGSHOT_ON">>
      /\ a = "LONGSHOT_OFF" => c = <<"LONGSHOT_OFF">>
  BY CallsAre
<1>2. /\ call = << >> /\ call' = c /\ api' = Append(api, a) /\ woken' = FALSE
      /\ cam' = cam /\ evts' = evts /\ results' = results
      /\ c = <<"LONGSHOT_ON">> => cam.zsl
      /\ c = <<"LONGSHOT_OFF">> => cam.longshot
  BY DEF Call
<1>3. Turn = {} /\ Turn' = {a}
  BY <1>1, <1>2 DEF Turn
<1> HIDE DEF a
<1>4. api \in Seq(Api) /\ NoneOf(api, Own) /\ NoneOf(results, Replies(Own)) /\ ~Dirty(cam)
      /\ cam.state # "PREPARE_SNAPSHOT"
  <2>1. Own \ Turn = Own
    BY <1>3
  <2> QED
    BY <1>3, <2>1 DEF IInv, QueuesTyped, CallsInTurn, Window
<1>5. api' \in Seq(Api) /\ AtMostOne(api', Own)
  BY <1>1, <1>2, <1>4, AppendKeeps
<1>6. NoneOf(api', Own \ {a})
  <2>1. NoneOf(api, Own \ {a})
    BY <1>4, NoneInPart
  <2> QED
    BY <1>1, <1>2, <1>4, <2>1, AppendKeeps
<1>7. NoneOf(results, Replies(Own \ {a}))
  <2>1. Replies(Own \ {a}) \subseteq Replies(Own)
    BY DEF Replies
  <2> QED
    BY <1>4, <2>1, NoneInPart
<1>8. QueuesTyped'
  BY <1>1, <1>2, <1>5 DEF QueuesTyped, IInv
<1>9. CallsInTurn'
  BY <1>2, <1>3, <1>4, <1>5, <1>6, <1>7 DEF CallsInTurn, IInv
<1>10. Window' /\ Fine(cam')
  BY <1>2, <1>4 DEF Window, IInv
<1>11. LongshotsFit'
  <2>1. \A x : NoneOf(api, {x}) /\ a # x => NoneOf(api', {x})
    BY <1>1, <1>2, <1>4, AppendKeeps
  <2> QED
    BY <1>1, <1>2, <2>1 DEF LongshotsFit, IInv
<1>12. StopsFit'
  <2>1. NoneOf(api, Late) => NoneOf(api', Late)
    BY <1>1, <1>2, <1>4, AppendKeeps DEF Late
  <2>2. Precedes(api', "TAKE_PICTURE", "STOP_CAPTURE_CHANNEL") => Precedes(api, "TAKE_PICTURE", "STOP_CAPTURE_CHANNEL")
    BY <1>1, <1>2, <1>4, AppendPrecedes
  <2> QED
    BY <1>2, <2>1, <2>2 DEF StopsFit, IInv
<1>13. ModeFits' /\ Closed'
  <2>1. a = "SET_PARAMS" => ~NoneOf(api', Own)
    <3>1. NoneOf(api', Own) => a \notin Own
      BY <1>1, <1>2, <1>4, AppendKeeps
    <3> QED
      BY <3>1 DEF Own, Api
  <2> QED
    BY <1>1, <1>2, <1>3, <2>1 DEF IInv, ModeFits, Closed, Tame
<1> QED
  BY <1>8, <1>9, <1>10, <1>11, <1>12, <1>13 DEF IInv

\* A nonempty set of naturals has a least element.
LEMMA LeastNat ==
    ASSUME NEW T, T \subseteq Nat, T # {}
    PROVE  \E j \in T : \A k \in T : j <= k
<1>1. IsWellFoundedOn(OpToRel(<, Nat), Nat)
  BY NatLessThanWellFounded, Zenon
<1>2. OpToRel(<, Nat) = {ss \in Nat \X Nat : ss[1] < ss[2]}
  BY Zenon DEF OpToRel
<1> DEFINE R == {ss \in Nat \X Nat : ss[1] < ss[2]}
<1>3. IsWellFoundedOn(R, Nat)
  BY <1>1, <1>2, Zenon
<1>4. PICK j \in T : \A k \in T : ~(<<k, j>> \in R)
  <2> HIDE DEF R
  <2> QED BY <1>3, WFMin
<1>5. \A k \in T : ~(k < j)
  <2> SUFFICES ASSUME NEW k \in T, k < j PROVE <<k, j>> \in R
    BY <1>4
  <2> QED
    OBVIOUS
<1>6. \A k \in T : j <= k
  BY <1>5
<1> QED
  BY <1>6

\* The result that a caller reads exists.
LEMMA FirstAnswer ==
    ASSUME results \in Seq(Result), NEW a, Answers(a) # {}
    PROVE  LET i == CHOOSE j \in Answers(a) : \A k \in Answers(a) : j <= k
           IN  i \in DOMAIN results /\ results[i] \in Result /\ results[i].api = a
<1>1. DOMAIN results = 1 .. Len(results) /\ Len(results) \in Nat
      /\ \A i \in 1 .. Len(results) : results[i] \in Result
  BY LenProperties, ElementOfSeq
<1>2. Answers(a) \subseteq Nat
  BY <1>1 DEF Answers
<1>3. \E i \in Answers(a) : \A k \in Answers(a) : i <= k
  BY <1>2, LeastNat
<1> QED
  BY <1>1, <1>3 DEF Answers

LEMMA ReturnKeeps ==
    ASSUME IInv, Return PROVE IInv'
<1> DEFINE a == Head(call)
           i == CHOOSE j \in Answers(a) : \A k \in Answers(a) : j <= k
           on == results[i].ok \/ a = "PREPARE_SNAPSHOT"
           r == results[i]
<1>1. /\ call # << >> /\ Answers(a) # {} /\ results' = RemoveAt(results, i)
      /\ call' = IF on THEN Tail(call) ELSE << >>
      /\ api' = IF call' = << >> THEN api ELSE Append(api, Head(call'))
      /\ woken' = FALSE /\ cam' = cam /\ evts' = evts
  BY DEF Return
<1>2. i \in DOMAIN results /\ r \in Result /\ r.api = a
  BY <1>1, FirstAnswer DEF IInv, QueuesTyped
<1>3. /\ api \in Seq(Api) /\ results \in Seq(Result) /\ call \in Rests
      /\ Turn = {a}
  BY <1>1 DEF IInv, QueuesTyped, Turn
<1>4. /\ a \in Api \ {"STOP_CAPTURE_CHANNEL"} /\ Tail(call) \in Rests
      /\ Tail(call) # << >> => /\ Head(Tail(call)) \in Own \ {"LONGSHOT_ON", "LONGSHOT_OFF"}
                               /\ a # "CANCEL_PICTURE"
                               /\ Head(Tail(call)) # "SET_PARAMS"
                               /\ Head(Tail(call)) = "COMMIT_PARAMS" => a = "SET_PARAMS"
      /\ a = "SET_PARAMS" => Tail(call) = <<"COMMIT_PARAMS">>
  BY <1>1, <1>3, CallsAre
<1>5. r.ok => on
  OBVIOUS
<1> HIDE DEF a, i, on
<1>6. call' \in Rests /\ (call' = << >> \/ (on /\ call' = Tail(call)))
  BY <1>1, <1>4 DEF Rests
<1>7. a \notin Own => NoneOf(api, Own) /\ NoneOf(results, Replies(Own)) /\ cam.state # "PREPARE_SNAPSHOT"
  <2> SUFFICES ASSUME a \notin Own
               PROVE  NoneOf(api, Own) /\ NoneOf(results, Replies(Own)) /\ cam.state # "PREPARE_SNAPSHOT"
    OBVIOUS
  <2>1. Own \ Turn = Own /\ "PREPARE_SNAPSHOT" \in Own
    BY <1>3 DEF Own, Api
  <2> QED
    BY <1>3, <2>1 DEF IInv, CallsInTurn
<1>8. a \in Own => r \in Replies(Own) /\ ~NoneOf(results, Replies(Own))
  BY <1>2 DEF Replies, NoneOf
<1>9. NoneOf(api, Own) /\ cam.state # "PREPARE_SNAPSHOT"
  BY <1>7, <1>8 DEF IInv, CallsInTurn
<1>10. results' \in Seq(Result) /\ NoneOf(results', Replies(Own))
  <2>1. AtMostOne(results, Replies(Own))
    BY DEF IInv, CallsInTurn
  <2>2. CASE a \in Own
    BY <1>1, <1>2, <1>3, <1>8, <2>1, <2>2, RemoveKeeps
  <2>3. CASE a \notin Own
    BY <1>1, <1>2, <1>3, <1>7, <2>3, RemoveKeeps
  <2> QED
    BY <2>2, <2>3
<1>11. NoneOf(results', Replies(Own \ Turn')) /\ AtMostOne(results', Replies(Own))
       /\ NoneOf(results', Replies(Own) \ {ParamsTaken})
  <2>1. Replies(Own \ Turn') \subseteq Replies(Own)
    BY DEF Replies
  <2> QED
    BY <1>10, <2>1, NoneInPart DEF AtMostOne, NoneOf
<1> DEFINE b == Head(call')
<1>12. call' # << >> => /\ b \in Own \ {"LONGSHOT_ON", "LONGSHOT_OFF"} /\ Turn' = {b}
                        /\ api' = Append(api, b)
                        /\ b # "SET_PARAMS" /\ (b = "COMMIT_PARAMS" => a = "SET_PARAMS")
  BY <1>1, <1>4, <1>6 DEF Turn
<1>13. call' = << >> => api' = api /\ Turn' = {}
  BY <1>1 DEF Turn
<1> HIDE DEF b, r
<1>14. Own \subseteq Api \ {"STOP_CAPTURE_CHANNEL"}
  BY DEF Own
<1>15. api' \in Seq(Api) /\ NoneOf(api', Own \ Turn') /\ AtMostOne(api', Own)
  <2>1. CASE call' = << >>
    BY <1>3, <1>9, <1>13, <2>1 DEF NoneOf, AtMostOne
  <2>2. CASE call' # << >>
    <3>1. NoneOf(api, Own \ {b}) /\ b \in Api
      BY <1>9, <1>12, <1>14, <2>2, NoneInPart
    <3>2. api' = Append(api, b) /\ b \notin Own \ {b} /\ api \in Seq(Api) /\ NoneOf(api, Own)
      BY <1>3, <1>9, <1>12, <2>2
    <3>3. api' \in Seq(Api) /\ AtMostOne(api', Own)
      BY <3>1, <3>2, AppendKeeps
    <3>4. NoneOf(api', Own \ {b})
      BY <3>1, <3>2, AppendKeeps
    <3> QED
      BY <1>12, <2>2, <3>3, <3>4
  <2> QED
    BY <2>1, <2>2
<1>16. QueuesTyped'
  BY <1>1, <1>6, <1>10, <1>15 DEF QueuesTyped, IInv
<1>17. CallsInTurn'
  BY <1>1, <1>9, <1>10, <1>11, <1>15 DEF CallsInTurn
<1>18. Window'
  <2> SUFFICES ASSUME Dirty(cam) PROVE Turn' = {"COMMIT_PARAMS"}
    BY <1>1, <1>11 DEF Window, IInv
  <2>1. (a = "COMMIT_PARAMS" \/ a = "SET_PARAMS") /\ NoneOf(results, Replies(Own) \ {ParamsTaken})
    BY <1>3 DEF IInv, Window
  <2>2. a \in Own
    BY <2>1 DEF Own, Api
  <2>3. r = ParamsTaken
    BY <1>2, <1>8, <2>1, <2>2 DEF NoneOf, r
  <2>4. a = "SET_PARAMS" /\ on
    BY <1>2, <1>5, <2>3 DEF ParamsTaken
  <2>5. call' = <<"COMMIT_PARAMS">>
    BY <1>1, <1>4, <2>4
  <2> QED
    BY <2>5 DEF Turn
<1>19. api' # api => /\ api' = Append(api, b) /\ b \in Api
                     /\ b \notin {"LONGSHOT_ON", "LONGSHOT_OFF", "STOP_CAPTURE_CHANNEL"}
  BY <1>12, <1>13, <1>14
<1>20. LongshotsFit'
  <2>1. \A x \in {"LONGSHOT_ON", "LONGSHOT_OFF"} : NoneOf(api, {x}) => NoneOf(api', {x})
    <3> SUFFICES ASSUME NEW x \in {"LONGSHOT_ON", "LONGSHOT_OFF"}, NoneOf(api, {x})
                 PROVE  NoneOf(api', {x})
      OBVIOUS
    <3>1. CASE api' # api
      <4>1. api \in Seq(Api) /\ b \in Api /\ b \notin {x} /\ api' = Append(api, b)
        BY <1>3, <1>19, <3>1
      <4> QED
        BY <4>1, AppendKeeps
    <3> QED
      BY <3>1
  <2> QED
    BY <1>1, <2>1 DEF LongshotsFit, IInv
<1>21. StopsFit'
  <2>1. NoneOf(api, Late) => NoneOf(api', Late)
    <3>1. CASE api' # api
      <4>1. api \in Seq(Api) /\ b \in Api /\ b \notin Late /\ api' = Append(api, b)
        BY <1>3, <1>19, <3>1 DEF Late
      <4> QED
        BY <4>1, AppendKeeps
    <3> QED
      BY <3>1
  <2>2. Precedes(api', "TAKE_PICTURE", "STOP_CAPTURE_CHANNEL") => Precedes(api, "TAKE_PICTURE", "STOP_CAPTURE_CHANNEL")
    <3>1. CASE api' # api
      <4>1. api \in Seq(Api) /\ b \in Api /\ b # "STOP_CAPTURE_CHANNEL" /\ api' = Append(api, b)
        BY <1>3, <1>19, <3>1
      <4> QED
        BY <4>1, AppendPrecedes
    <3> QED
      BY <3>1
  <2> QED
    BY <1>1, <2>1, <2>2 DEF StopsFit, IInv
<1>22. ModeFits' /\ Closed'
  <2>1. Turn' # {"SET_PARAMS"} /\ (Turn' = {"COMMIT_PARAMS"} => Turn = {"SET_PARAMS"})
    BY <1>3, <1>12, <1>13
  <2> QED
    BY <1>1, <1>9, <2>1 DEF IInv, ModeFits, Closed, Tame
<1> QED
  BY <1>1, <1>16, <1>17, <1>18, <1>20, <1>21, <1>22 DEF IInv

-----------------------------------------------------------------------------
(* The threads that feed the machine.                                       *)

\* What a thread that feeds the machine leaves alone.
Feeds ==
    /\ cam'.state = cam.state /\ cam'.restart = cam.restart /\ cam'.longshot = cam.longshot
    /\ cam'.zsl = cam.zsl /\ cam'.zslNew = cam.zslNew
    /\ cam'.hint = cam.hint /\ cam'.hintNew = cam.hintNew
    /\ cam'.early = cam.early /\ cam'.faulty = cam.faulty
    /\ evts' = evts \/ (\E e \in Events : evts' = Append(evts, e))
    /\ results' = results /\ call' = call /\ woken' = woken
    /\ Tame /\ cam'.state = "PIC_TAKING" /\ cam'.pic = "shot" => cam.pic = "shot"
    /\ \/ api' = api
       \/ api' = Append(api, "CANCEL_PICTURE")
       \/ /\ api' = Append(api, "STOP_CAPTURE_CHANNEL")
          /\ Tame => cam.state = "PIC_TAKING" /\ cam'.pic # "shot"

\* A thread that feeds the machine preserves the invariant.
LEMMA FeedKeeps ==
    ASSUME IInv, Feeds, Fine(cam'), Tame => Mode(cam') PROVE IInv'
<1>1. /\ api \in Seq(Api) /\ evts \in Seq(Events)
      /\ Turn' = Turn /\ Dirty(cam') = Dirty(cam)
  BY DEF IInv, QueuesTyped, Feeds, Turn, Dirty
<1>2. "CANCEL_PICTURE" \in Api \ Own /\ "STOP_CAPTURE_CHANNEL" \in Api \ Own
  BY DEF Api, Own
<1>3. api' \in Seq(Api) /\ NoneOf(api', Own \ Turn) /\ AtMostOne(api', Own)
  <2>1. NoneOf(api, Own \ Turn) /\ AtMostOne(api, Own)
    BY DEF IInv, CallsInTurn
  <2>2. ASSUME NEW x \in Api \ Own, api' = Append(api, x)
        PROVE  api' \in Seq(Api) /\ NoneOf(api', Own \ Turn) /\ AtMostOne(api', Own)
    <3>1. x \in Api /\ x \notin Own \ Turn /\ x \notin Own
      BY <2>2
    <3> QED
      BY <1>1, <2>1, <2>2, <3>1, AppendKeeps
  <2> QED
    BY <1>1, <1>2, <2>1, <2>2 DEF Feeds
<1>4. NoneOf(api, Own) => NoneOf(api', Own)
  <2>1. ASSUME NEW x \in Api \ Own, api' = Append(api, x), NoneOf(api, Own) PROVE NoneOf(api', Own)
    <3>1. x \in Api /\ x \notin Own
      BY <2>1
    <3> QED
      BY <1>1, <2>1, <3>1, AppendKeeps
  <2> QED
    BY <1>2, <2>1 DEF Feeds
<1>11. NoneOf(api', Own) => NoneOf(api, Own)
  <2>1. ASSUME NEW x \in Api \ Own, api' = Append(api, x), NoneOf(api', Own) PROVE NoneOf(api, Own)
    <3>1. x \in Api /\ NoneOf(Append(api, x), Own)
      BY <2>1
    <3> QED
      BY <1>1, <3>1, AppendKeeps
  <2> QED
    BY <1>2, <2>1 DEF Feeds
<1>5. \A x \in {"LONGSHOT_ON", "LONGSHOT_OFF"} : NoneOf(api, {x}) => NoneOf(api', {x})
  <2> SUFFICES ASSUME NEW x \in {"LONGSHOT_ON", "LONGSHOT_OFF"}, NoneOf(api, {x})
               PROVE  NoneOf(api', {x})
    OBVIOUS
  <2>1. ASSUME NEW y \in Api, y \notin {x}, api' = Append(api, y) PROVE NoneOf(api', {x})
    BY <1>1, <2>1, AppendKeeps
  <2> QED
    BY <1>2, <2>1 DEF Feeds
<1>6. QueuesTyped'
  <2>1. evts' \in Seq(Events)
    BY <1>1, AppendProperties DEF Feeds
  <2> QED
    BY <1>3, <2>1 DEF QueuesTyped, IInv, Feeds
<1>7. CallsInTurn'
  BY <1>1, <1>3, <1>4 DEF CallsInTurn, IInv, Feeds
<1>8. Window'
  BY <1>1, <1>4 DEF Window, IInv, Feeds
<1>9. LongshotsFit'
  BY <1>1, <1>5 DEF LongshotsFit, IInv, Feeds
<1>10. StopsFit'
  <2> SUFFICES ASSUME Tame
               PROVE  /\ cam'.state = "PIC_TAKING" /\ cam'.pic = "shot" => NoneOf(api', Late)
                      /\ Precedes(api', "TAKE_PICTURE", "STOP_CAPTURE_CHANNEL") => cam'.state \in {"PIC_TAKING", "STOPPED"}
    BY DEF StopsFit, Tame
  <2>1. /\ cam'.state = "PIC_TAKING" /\ cam'.pic = "shot" => NoneOf(api, Late)
        /\ Precedes(api, "TAKE_PICTURE", "STOP_CAPTURE_CHANNEL") => cam'.state \in {"PIC_TAKING", "STOPPED"}
    BY DEF IInv, StopsFit, Feeds
  <2>2. CASE api' = api
    BY <2>1, <2>2
  <2>3. CASE api' = Append(api, "CANCEL_PICTURE")
    <3>1. "CANCEL_PICTURE" \in Api /\ "CANCEL_PICTURE" \notin Late /\ "CANCEL_PICTURE" # "STOP_CAPTURE_CHANNEL"
      BY <1>2 DEF Late
    <3>2. NoneOf(api, Late) => NoneOf(api', Late)
      BY <1>1, <2>3, <3>1, AppendKeeps
    <3>3. Precedes(api', "TAKE_PICTURE", "STOP_CAPTURE_CHANNEL") => Precedes(api, "TAKE_PICTURE", "STOP_CAPTURE_CHANNEL")
      BY ZenonT(60), <1>1, <2>3, <3>1, AppendPrecedes
    <3> QED
      BY <2>1, <3>2, <3>3
  <2>4. CASE cam.state = "PIC_TAKING" /\ cam'.pic # "shot"
    BY <2>4 DEF Feeds
  <2> QED
    BY <2>2, <2>3, <2>4 DEF Feeds
<1>12. ModeFits'
  BY DEF ModeFits, Tame
<1>13. Closed'
  BY <1>1, <1>11 DEF Closed, Tame, IInv, Feeds
<1> QED
  BY <1>6, <1>7, <1>8, <1>9, <1>10, <1>12, <1>13 DEF IInv

LEMMA HardwareReadyKeeps ==
    ASSUME IInv, HardwareReady PROVE IInv'
<1>1. cam \in Cam /\ Fine(cam) /\ cam' = [cam EXCEPT !.preparing = FALSE]
  BY DEF IInv, Fine, HardwareReady
<1>2. cam' \in Cam /\ Alike(cam, cam') /\ MessagesKept(cam')
  BY ZenonT(60), <1>1 DEF Cam, Fine, Shape, Alike, MessagesKept
<1>3. Feeds
  BY <1>1 DEF HardwareReady, Feeds, Cam, Events
<1>4. Tame => Mode(cam')
  <2>1. Unmoved(cam, cam')
    BY <1>1, <1>2 DEF Unmoved, NoVideo, Cam
  <2> QED
    BY <2>1, UnmovedMode DEF IInv, ModeFits
<1> QED
  BY <1>1, <1>2, <1>3, <1>4, FineFrom, FeedKeeps

\* The picture goes on; nothing else that the invariant speaks of changes.
GoesOn(g) ==
    /\ g \in Cam
    /\ g.state = cam.state /\ g.ch = cam.ch /\ g.live \in {cam.live, "done"}
    /\ g.zsl = cam.zsl /\ g.zslNew = cam.zslNew /\ g.hint = cam.hint /\ g.hintNew = cam.hintNew
    /\ g.longshot = cam.longshot /\ g.restart = cam.restart
    /\ g.early = cam.early /\ g.faulty = cam.faulty
    /\ g.msgs = cam.msgs /\ g.delayed = cam.delayed /\ g.wanted = cam.wanted

LEMMA GoesOnFine ==
    ASSUME Fine(cam), NEW g, GoesOn(g), Plain(cam) => isCaptureRunning(cam)
    PROVE  Fine(g)
<1>1. isCaptureRunning(g) = isCaptureRunning(cam) /\ isRecording(g) = isRecording(cam)
      /\ Plain(g) = Plain(cam)
  BY DEF GoesOn, isCaptureRunning, isRecording, Plain
<1>2. ASSUME Plain(cam) PROVE Shape(g)
  <2>1. Shape(cam) /\ isCaptureRunning(cam)
    BY <1>2 DEF Fine
  <2>2. ShapeOfStates(g)
    BY <2>1 DEF GoesOn, Shape, ShapeOfStates, Shows, HasOnly, MainChannel, isZSLPreview,
       PreviewChannels, isRecording
  <2> QED
    BY <1>1, <2>1, <2>2 DEF GoesOn, Shape
<1> QED
  BY <1>1, <1>2 DEF Fine, GoesOn

LEMMA GoesOnMode ==
    ASSUME Mode(cam), NEW g, GoesOn(g), g.pic # "none" => cam.pic # "none"
    PROVE  Mode(g)
  BY DEF GoesOn, Mode, Base, Fits, NoVideo, isCaptureRunning, isRecording

LEMMA LiveSnapshotKeeps ==
    ASSUME IInv, LiveSnapshot PROVE IInv'
<1>1. cam \in Cam /\ Fine(cam) /\ cam.live = "running" /\ cam.state = "VIDEO_PIC_TAKING"
  BY DEF IInv, Fine, LiveSnapshot
<1>2. isCaptureRunning(cam) /\ isRecording(cam)
  BY <1>1 DEF isCaptureRunning, isRecording
<1>3. CASE cam.ch["SNAPSHOT"] # "none" /\ api' = api
           /\ cam' = Put(StartPicture([cam EXCEPT !.live = "done"]), {"SNAPSHOT"}, "started")
  <2> DEFINE h == StartPicture([cam EXCEPT !.live = "done"])
  <2>1. /\ h \in Cam /\ h.ch = cam.ch /\ h.live = "done" /\ h.pic = "shot"
        /\ h.longshot = cam.longshot /\ h.state = cam.state /\ h.zsl = cam.zsl /\ h.zslNew = cam.zslNew
        /\ h.hint = cam.hint /\ h.hintNew = cam.hintNew /\ h.restart = cam.restart
        /\ h.early = cam.early /\ h.faulty = cam.faulty
        /\ h.msgs = cam.msgs /\ h.delayed = cam.delayed /\ h.wanted = cam.wanted
    BY <1>1 DEF Cam, StartPicture
  <2>2. cam' = Put(h, {"SNAPSHOT"}, "started") /\ "started" \in Marks
    BY <1>3 DEF Marks
  <2> HIDE DEF h
  <2>3. /\ cam' \in Cam /\ Same(h, cam') /\ cam'.pic = "shot" /\ cam'.longshot = cam.longshot
        /\ \A c \in Channel : cam'.ch[c] = IF c = "SNAPSHOT" THEN "started" ELSE cam.ch[c]
    BY <2>1, <2>2, PutIsCam
  <2>4. /\ cam'.state = cam.state /\ cam'.zsl = cam.zsl /\ cam'.zslNew = cam.zslNew
        /\ cam'.hint = cam.hint /\ cam'.hintNew = cam.hintNew /\ cam'.restart = cam.restart
        /\ cam'.early = cam.early /\ cam'.faulty = cam.faulty /\ cam'.live = "done"
        /\ cam'.msgs = cam.msgs /\ cam'.delayed = cam.delayed /\ cam'.wanted = cam.wanted
    BY <2>1, <2>3 DEF Same
  <2>5. isCaptureRunning(cam') /\ isRecording(cam') /\ Plain(cam') = Plain(cam)
    BY <1>2, <2>4 DEF isCaptureRunning, isRecording, Plain
  <2>6. ASSUME Plain(cam) PROVE Shape(cam')
    <3>1. Shape(cam) /\ Shows(cam) /\ cam.hint
      BY <1>1, <1>2, <2>6 DEF Fine, Shape, ShapeOfStates
    <3>2. MainChannel(cam') = MainChannel(cam) /\ PreviewChannels(cam') = PreviewChannels(cam)
      BY <2>4 DEF MainChannel, PreviewChannels, isZSLPreview
    <3>3. HasOnly(cam', PreviewChannels(cam'))
      BY <1>3, <2>3, <3>1, <3>2 DEF Shows, HasOnly
    <3>4. MainChannel(cam) \in Channel /\ MainChannel(cam) # "SNAPSHOT"
      BY DEF MainChannel, Channel
    <3>5. Shows(cam')
      BY <2>3, <3>1, <3>2, <3>3, <3>4 DEF Shows
    <3>6. ShapeOfStates(cam')
      BY <1>1, <2>4, <3>1, <3>5 DEF ShapeOfStates
    <3> QED
      BY <2>3, <2>4, <2>5, <3>1, <3>6 DEF Shape
  <2>7. "VIDEO" \in Channel /\ cam'.ch["VIDEO"] = cam.ch["VIDEO"]
    BY <2>3 DEF Channel
  <2>8. Fine(cam')
    BY <1>1, <1>2, <2>3, <2>4, <2>5, <2>6, <2>7 DEF Fine
  <2>9. Feeds
    BY <1>1, <1>3, <2>3, <2>4 DEF Feeds, LiveSnapshot
  <2>10. Tame => Mode(cam')
    <3> SUFFICES ASSUME Tame PROVE Mode(cam')
      OBVIOUS
    <3>1. Base(cam) /\ Fits(cam)
      BY DEF IInv, ModeFits, Mode
    <3>2. NoVideo(cam') = NoVideo(cam)
      BY <2>7 DEF NoVideo
    <3>3. Base(cam')
      BY <2>3, <2>4, <3>1, <3>2 DEF Base
    <3>4. cam.hint
      BY <1>2, <3>1 DEF Fits
    <3>5. Fits(cam')
      BY <1>1, <2>4, <2>5, <3>4 DEF Fits
    <3> QED
      BY <3>3, <3>5 DEF Mode
  <2> QED
    BY <2>8, <2>9, <2>10, FeedKeeps
<1>4. CASE /\ \E on \in {cam.pp, TRUE} : cam' = [cam EXCEPT !.live = "done", !.pp = on]
           /\ api' = Append(api, "CANCEL_PICTURE")
  <2>1. PICK on \in {cam.pp, TRUE} : cam' = [cam EXCEPT !.live = "done", !.pp = on]
    BY <1>4
  <2>2. on \in BOOLEAN
    BY <1>1 DEF Cam
  <2>3. GoesOn(cam') /\ cam'.pic = cam.pic
    BY ZenonT(60), <1>1, <2>1, <2>2 DEF Cam, GoesOn
  <2>4. Feeds
    BY <1>1, <1>4, <2>3 DEF Feeds, GoesOn, LiveSnapshot
  <2>5. Tame => Mode(cam')
    BY <2>3, GoesOnMode DEF IInv, ModeFits
  <2> QED
    BY <1>1, <1>2, <2>3, <2>4, <2>5, GoesOnFine, FeedKeeps
<1>5. CASE cam' = StopPicture([cam EXCEPT !.live = "done"]) /\ api' = api
  <2>1. GoesOn(cam') /\ cam'.pic = "none"
    BY <1>1, <1>5 DEF Cam, GoesOn, StopPicture
  <2>2. Feeds
    BY <1>1, <1>5, <2>1 DEF Feeds, GoesOn, LiveSnapshot
  <2>3. Tame => Mode(cam')
    BY <2>1, GoesOnMode DEF IInv, ModeFits
  <2> QED
    BY <1>1, <1>2, <2>1, <2>2, <2>3, GoesOnFine, FeedKeeps
<1> QED
  BY <1>3, <1>4, <1>5 DEF LiveSnapshot

\* The post-processor runs only for a picture.
LEMMA PictureRuns ==
    ASSUME Fine(cam), Plain(cam), cam.pp PROVE isCaptureRunning(cam)
  BY DEF Fine, Shape

LEMMA FrameKeeps ==
    ASSUME IInv, Frame PROVE IInv'
<1>1. cam \in Cam /\ Fine(cam) /\ cam.pp /\ cam.pic = "shot" /\ cam' = [cam EXCEPT !.pic = "frame"]
  BY DEF IInv, Fine, Frame
<1>2. GoesOn(cam') /\ cam'.pic = "frame"
  BY <1>1 DEF Cam, GoesOn
<1>3. Feeds
  BY <1>2 DEF Frame, Feeds, GoesOn
<1>5. Tame => Mode(cam')
  BY <1>1, <1>2, GoesOnMode DEF IInv, ModeFits
<1> QED
  BY <1>1, <1>2, <1>3, <1>5, PictureRuns, GoesOnFine, FeedKeeps

LEMMA DataThreadKeeps ==
    ASSUME IInv, DataThread PROVE IInv'
<1>1. /\ cam \in Cam /\ Fine(cam) /\ cam.pp /\ cam.pic = "frame" /\ isRegularCapture
      /\ cam' = [cam EXCEPT !.stops = @ + 1]
      /\ api' = Append(api, "STOP_CAPTURE_CHANNEL")
  BY DEF IInv, Fine, DataThread
<1>2. GoesOn(cam') /\ cam'.pic = "frame"
  BY <1>1 DEF Cam, GoesOn
<1>3. ASSUME Tame PROVE cam.state = "PIC_TAKING"
  <2>1. isCaptureRunning(cam) /\ Fits(cam)
    BY <1>1, <1>3 DEF IInv, ModeFits, Mode, Fits
  <2>2. ~cam.hint /\ ~cam.zsl
    BY <1>1 DEF isRegularCapture
  <2> QED
    BY <2>1, <2>2 DEF Fits, isCaptureRunning, isRecording
<1>4. Feeds
  BY <1>1, <1>2, <1>3 DEF DataThread, Feeds, GoesOn
<1>5. Tame => Mode(cam')
  BY <1>1, <1>2, GoesOnMode DEF IInv, ModeFits
<1> QED
  BY <1>1, <1>2, <1>4, <1>5, PictureRuns, GoesOnFine, FeedKeeps

LEMMA NotifyKeeps ==
    ASSUME IInv, Notify PROVE IInv'
<1>1. /\ cam \in Cam /\ Fine(cam) /\ cam.pp
      /\ cam' = [cam EXCEPT !.pic = "none", !.notifier = "waiting"]
      /\ evts' = Append(evts, "SNAPSHOT_DONE")
  BY DEF IInv, Fine, Notify
<1>2. GoesOn(cam') /\ cam'.pic = "none"
  BY <1>1 DEF Cam, GoesOn
<1>3. Feeds
  BY <1>1, <1>2 DEF Notify, Feeds, GoesOn, Events
<1>5. Tame => Mode(cam')
  BY <1>1, <1>2, GoesOnMode DEF IInv, ModeFits
<1> QED
  BY <1>1, <1>2, <1>3, <1>5, PictureRuns, GoesOnFine, FeedKeeps

LEMMA InitKeeps == Init => IInv
<1> SUFFICES ASSUME Init PROVE IInv
  OBVIOUS
<1>1. PICK early \in EarlyRestart, faulty \in Faults :
        cam = [state |-> "STOPPED", ch |-> [c \in Channel |-> "none"], window |-> FALSE,
               zsl |-> FALSE, zslNew |-> FALSE, hint |-> FALSE, hintNew |-> FALSE,
               longshot |-> FALSE, restart |-> FALSE, early |-> early, faulty |-> faulty,
               msgs |-> FALSE, delay |-> FALSE, delayed |-> FALSE, wanted |-> FALSE,
               pp |-> FALSE, pic |-> "none", stops |-> 0, live |-> "none",
               preparing |-> FALSE, notifier |-> "free", post |-> FALSE]
  BY DEF Init
<1>2. early \in BOOLEAN /\ faulty \in BOOLEAN
  BY FaultsAreBoolean, EarlyRestartIsBoolean
<1>3. cam \in Cam
  BY <1>1, <1>2 DEF Cam, State, Marks
<1>4. /\ cam.state = "STOPPED" /\ ~cam.restart /\ \A c \in Channel : cam.ch[c] = "none"
      /\ ~cam.longshot /\ ~cam.pp /\ cam.pic = "none" /\ cam.live = "none" /\ ~cam.wanted
      /\ cam.zslNew = cam.zsl /\ cam.hintNew = cam.hint
  BY <1>1
<1>5. Shape(cam)
  BY <1>4 DEF Shape, ShapeOfStates, HasOnly, isRecording
<1>6. Fine(cam)
  BY <1>3, <1>4, <1>5 DEF Fine, isRecording, Channel
<1>7. api = << >> /\ evts = << >> /\ results = << >> /\ call = << >> /\ woken = FALSE
  BY DEF Init
<1>8. QueuesTyped
  <2>1. << >> \in Seq(Api) /\ << >> \in Seq(Events) /\ << >> \in Seq(Result) /\ << >> \in Rests
    BY EmptySeq DEF Rests
  <2> QED
    BY <1>7, <2>1 DEF QueuesTyped
<1>9. ~Dirty(cam) /\ cam.state = "STOPPED"
  BY <1>4 DEF Dirty
<1>10. DOMAIN api = {} /\ DOMAIN results = {}
  BY <1>7
<1>11. /\ \A P : NoneOf(api, P) /\ NoneOf(results, P)
       /\ AtMostOne(api, Own) /\ AtMostOne(results, Replies(Own))
       /\ ~Precedes(api, "TAKE_PICTURE", "STOP_CAPTURE_CHANNEL")
  BY <1>10 DEF NoneOf, AtMostOne, Precedes
<1>12. Mode(cam)
  BY <1>4 DEF Mode, Base, Fits, NoVideo, isRecording, Channel
<1> QED
  BY <1>4, <1>6, <1>8, <1>9, <1>11, <1>12
  DEF IInv, CallsInTurn, Window, Closed, LongshotsFit, StopsFit, ModeFits

LEMMA StutterKeeps ==
    ASSUME IInv, UNCHANGED vars PROVE IInv'
<1>1. /\ cam' = cam /\ api' = api /\ evts' = evts /\ results' = results /\ call' = call
      /\ woken' = woken
  BY DEF vars
<1> QED
  BY <1>1 DEF IInv, QueuesTyped, CallsInTurn, Window, Closed, LongshotsFit, StopsFit, ModeFits,
              Tame, Turn

\* IInv is an invariant of the state machine and of its threads.
THEOREM Invariance == Spec => []IInv
<1>1. IInv /\ [Next]_vars => IInv'
  <2> SUFFICES ASSUME IInv, [Next]_vars PROVE IInv'
    OBVIOUS
  <2>1. CASE StateMachine
    BY <2>1, StateMachineKeeps
  <2>2. ASSUME NEW c \in Calls, Call(c) PROVE IInv'
    BY <2>2, CallKeeps
  <2>3. CASE Return
    BY <2>3, ReturnKeeps
  <2>4. CASE HardwareReady
    BY <2>4, HardwareReadyKeeps
  <2>5. CASE LiveSnapshot
    BY <2>5, LiveSnapshotKeeps
  <2>6. CASE Frame
    BY <2>6, FrameKeeps
  <2>7. CASE DataThread
    BY <2>7, DataThreadKeeps
  <2>8. CASE Notify
    BY <2>8, NotifyKeeps
  <2>9. CASE UNCHANGED vars
    BY <2>9, StutterKeeps
  <2> QED
    BY <2>1, <2>2, <2>3, <2>4, <2>5, <2>6, <2>7, <2>8, <2>9 DEF Next
<1> QED
  BY <1>1, InitKeeps, PTL DEF Spec

-----------------------------------------------------------------------------
(* The results.                                                             *)

\* A call of the application is a sequence of names that the machine knows.
LEMMA CallsAreNames == Rests \subseteq Seq(Api)
<1>1. /\ << >> \in Seq(Api)
      /\ \A a \in Api : <<a>> \in Seq(Api)
      /\ \A a, b \in Api : <<a, b>> \in Seq(Api)
      /\ \A a, b, c \in Api : <<a, b, c>> \in Seq(Api)
  BY EmptySeq
<1> DEFINE Single == {"SET_PREVIEW_WINDOW", "ENABLE_MSG_TYPE", "DISABLE_MSG_TYPE",
                      "START_PREVIEW", "STOP_PREVIEW", "PREVIEW_ENABLED", "STOP_RECORDING",
                      "CANCEL_PICTURE", "LONGSHOT_ON", "LONGSHOT_OFF", "RELEASE",
                      "COMMIT_PARAMS", "START_RECORDING", "TAKE_PICTURE"}
<1>2. Single \subseteq Api /\ {"SET_PARAMS", "PRE_START_RECORDING", "PRE_TAKE_PICTURE", "PREPARE_SNAPSHOT"} \subseteq Api
      /\ {"COMMIT_PARAMS", "START_RECORDING", "TAKE_PICTURE"} \subseteq Api
  BY DEF Api
<1>3. ASSUME NEW c \in Rests
      PROVE  \/ c = << >> \/ \E a \in Single : c = <<a>>
             \/ c = <<"SET_PARAMS", "COMMIT_PARAMS">>
             \/ c = <<"PRE_START_RECORDING", "START_RECORDING">>
             \/ c = <<"PRE_TAKE_PICTURE", "TAKE_PICTURE">>
             \/ c = <<"PREPARE_SNAPSHOT", "PRE_TAKE_PICTURE", "TAKE_PICTURE">>
  BY <1>3 DEF Rests, Calls
<1> HIDE DEF Single
<1> SUFFICES ASSUME NEW c \in Rests PROVE c \in Seq(Api)
  OBVIOUS
<1>4. CASE \E a \in Single : c = <<a>>
  BY <1>1, <1>2, <1>4
<1>5. <<"SET_PARAMS", "COMMIT_PARAMS">> \in Seq(Api) /\ <<"PRE_START_RECORDING", "START_RECORDING">> \in Seq(Api)
      /\ <<"PRE_TAKE_PICTURE", "TAKE_PICTURE">> \in Seq(Api)
  BY <1>1, <1>2
<1>6. <<"PREPARE_SNAPSHOT", "PRE_TAKE_PICTURE", "TAKE_PICTURE">> \in Seq(Api)
  BY <1>1, <1>2
<1> QED
  BY <1>1, <1>3, <1>4, <1>5, <1>6

\* Whatever fails and whatever is reconfigured, the camera and the queues of the
\* state machine stay well formed, and every result that waits is named after a
\* call (signalAPIResult).
THEOREM TypeCorrect == Spec => []TypeOK
<1>1. IInv => TypeOK
  <2> SUFFICES ASSUME IInv PROVE TypeOK
    OBVIOUS
  <2>1. cam \in Cam
    BY DEF IInv, Fine
  <2>2. /\ cam.state \in State /\ cam.ch \in [Channel -> {"none", "added", "started"}]
        /\ cam.pic \in {"none", "shot", "frame"} /\ cam.live \in {"none", "running", "done"}
    BY <2>1 DEF Cam, Marks
  <2>3. /\ api \in Seq(Api) /\ evts \in Seq({"SNAPSHOT_DONE", "PREP_SNAPSHOT_DONE"})
        /\ results \in Seq([api : Api, ok : BOOLEAN]) /\ call \in Seq(Api) /\ woken \in BOOLEAN
    BY CallsAreNames DEF IInv, QueuesTyped, Events, Result
  <2> QED
    BY <2>2, <2>3 DEF TypeOK
<1> QED
  BY <1>1, Invariance, PTL

\* Whatever fails and whatever is reconfigured, a message type that the
\* application enabled is enabled or waits in m_DelayedMsgs.
THEOREM NoneLost == Spec => []NoMessageLost
<1>1. IInv => NoMessageLost
  BY DEF IInv, Fine, NoMessageLost
<1> QED
  BY <1>1, Invariance, PTL

\* If parameters that restart the preview are changed only while the camera is
\* stopped, ready or previewing, the channels that stream are those of the state
\* (startPreview, startRecording, takePicture and their reversals).
THEOREM StreamsFit ==
    ASSUME Reconfigure \subseteq {"STOPPED", "READY", "PREVIEWING"}
    PROVE  Spec => []StreamsFitState
<1>1. IInv => StreamsFitState
  <2> SUFFICES ASSUME IInv PROVE StreamsFitState
    OBVIOUS
  <2>1. Fine(cam)
    BY DEF IInv
  <2>2. "VIDEO" \in Streaming <=> isRecording(cam)
    BY <2>1 DEF Fine, Streaming, Channel
  <2>3. ASSUME Regular
        PROVE  /\ cam.state \in {"STOPPED", "READY"} => Streaming = {}
               /\ cam.state \in {"PREVIEWING", "RECORDING", "VIDEO_PIC_TAKING"}
                     => Streaming \cap {"ZSL", "PREVIEW"} # {}
               /\ "ZSL" \in Streaming => Streaming \cap {"PREVIEW", "CAPTURE"} = {}
    <3>1. ShapeOfStates(cam) /\ cam.state \in State
      BY <2>1, <2>3 DEF Fine, Plain, Tame, Quiescent, Regular, Shape, Cam
    <3>2. cam.state \in {"STOPPED", "READY"} => Streaming = {}
      BY <3>1 DEF ShapeOfStates, HasOnly, Streaming
    <3>3. Shows(cam) => Streaming \cap {"ZSL", "PREVIEW"} # {}
      BY DEF Shows, MainChannel, Streaming, Channel
    <3>4. cam.state \in {"PREVIEWING", "RECORDING", "VIDEO_PIC_TAKING"} => Shows(cam)
      BY <3>1 DEF ShapeOfStates, isRecording
    <3>5. \A c \in Streaming : c \in Channel /\ cam.ch[c] # "none"
      BY DEF Streaming
    <3>6. Shows(cam) => Streaming \subseteq PreviewChannels(cam)
      BY <3>5 DEF Shows, HasOnly
    <3>7. CASE Shows(cam)
      BY <3>2, <3>3, <3>6, <3>7 DEF PreviewChannels, isZSLPreview
    <3>8. CASE ~Shows(cam)
      <4>1. cam.state \in {"STOPPED", "READY"} \/ HasOnly(cam, {"CAPTURE"})
        BY <3>1, <3>8 DEF ShapeOfStates, isRecording, State
      <4>2. "ZSL" \notin Streaming
        BY <3>2, <3>5, <4>1 DEF HasOnly
      <4> QED
        BY <3>2, <3>4, <3>8, <4>2
    <3> QED
      BY <3>7, <3>8
  <2> QED
    BY <2>2, <2>3 DEF StreamsFitState
<1> QED
  BY <1>1, Invariance, PTL

\* Under the same assumption the post-processor runs only while a picture is
\* taken and STOP_CAPTURE_CHANNEL, which the data thread posts without waiting,
\* meets the picture that it was posted for.
THEOREM PictureOurs ==
    ASSUME Reconfigure \subseteq {"STOPPED", "READY", "PREVIEWING"}
    PROVE  Spec => []PictureIsOurs
<1>1. IInv => PictureIsOurs
  <2> SUFFICES ASSUME IInv PROVE PictureIsOurs
    OBVIOUS
  <2>1. Tame
    BY DEF Tame, Quiescent
  <2>2. Regular /\ cam.pp => isCaptureRunning(cam)
    BY <2>1 DEF IInv, Fine, Plain, Regular, Shape
  <2>3. ASSUME cam.state = "PIC_TAKING", api # << >>, Head(api) = "STOP_CAPTURE_CHANNEL"
        PROVE  cam.pic # "shot"
    <3>1. api \in Seq(Api)
      BY DEF IInv, QueuesTyped
    <3>2. ~NoneOf(api, Late)
      BY <2>3, <3>1, TailKeeps DEF Late
    <3> QED
      BY <2>1, <2>3, <3>2 DEF IInv, StopsFit
  <2> QED
    BY <2>2, <2>3 DEF PictureIsOurs
<1> QED
  BY <1>1, Invariance, PTL
=============================================================================
