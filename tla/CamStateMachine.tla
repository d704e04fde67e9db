--------------------------- MODULE CamStateMachine ---------------------------
(***************************************************************************)
(* The camera HAL (version 1): the state machine of QCameraStateMachine,   *)
(* the channels that QCamera2HardwareInterface builds and starts for it,   *)
(* and the threads that feed it.  One thread runs the machine.  It serves  *)
(* the calls of the application (api) before the events of the HAL (evts). *)
(* A caller posts to api and waits on m_cond for a result with its name;   *)
(* the live-snapshot thread and the data thread post calls and do not wait *)
(* for the result; the notifier posts SNAPSHOT_DONE and waits on m_evtCond.*)
(*                                                                         *)
(* One camera, no retro-active burst, JPEG pictures.  A handler runs in    *)
(* one step, except that it joins the live-snapshot thread where it must.  *)
(***************************************************************************)
EXTENDS Naturals, Sequences, SequencesExt

CONSTANTS Reconfigure,  \* states in which the application changes parameters
                        \* that make the preview restart
          Faults,       \* whether streams may fail to be configured or started
          EarlyRestart, \* values that persist.camera.feature.restart may have
          Hurried,      \* calls that it makes although an event still waits
          MaxStale,     \* results left unread when it asks for a picture
          MaxStops      \* STOP_CAPTURE_CHANNEL posted for one picture

ASSUME FaultsAreBoolean == Faults \subseteq BOOLEAN
ASSUME EarlyRestartIsBoolean == EarlyRestart \subseteq BOOLEAN
ASSUME BoundsAreNatural == MaxStale \in Nat /\ MaxStops \in Nat

State == {"STOPPED", "READY", "PREVIEWING", "PREPARE_SNAPSHOT", "PIC_TAKING",
          "RECORDING", "VIDEO_PIC_TAKING", "PREVIEW_PIC_TAKING"}
Channel == {"ZSL", "CAPTURE", "PREVIEW", "VIDEO", "SNAPSHOT"}

ASSUME ReconfigureIsStates == Reconfigure \subseteq State

Api == {"SET_PREVIEW_WINDOW", "ENABLE_MSG_TYPE", "DISABLE_MSG_TYPE", "SET_PARAMS",
        "COMMIT_PARAMS", "START_PREVIEW", "STOP_PREVIEW", "PREVIEW_ENABLED",
        "PRE_START_RECORDING", "START_RECORDING", "STOP_RECORDING",
        "PREPARE_SNAPSHOT", "PRE_TAKE_PICTURE", "TAKE_PICTURE", "CANCEL_PICTURE",
        "LONGSHOT_ON", "LONGSHOT_OFF", "RELEASE", "STOP_CAPTURE_CHANNEL"}

ASSUME HurriedIsCalls == Hurried \subseteq Api

VARIABLES cam,      \* what the state-machine thread reads and writes
          api,      \* its two queues
          evts,
          results,  \* m_apiResultList
          call,     \* the rest of the application's call, a sequence of Api
          woken     \* m_cond was broadcast since the application waits

vars == <<cam, api, evts, results, call, woken>>

-----------------------------------------------------------------------------
(* The hardware interface.  h is a value of cam; an operation that may fail *)
(* is the set of its outcomes.                                              *)

Ok(h) == [ok |-> TRUE, h |-> h]
Bad(h) == [ok |-> FALSE, h |-> h]
MayFail(S) == IF cam.faulty THEN {Bad(h) : h \in S} ELSE {}

Put(h, C, s) == [h EXCEPT !.ch = [c \in Channel |-> IF c \in C THEN s ELSE @[c]]]
addChannel(h, C) == Put(h, C, "added")
delChannel(h, C) == Put(h, C, "none")
stopChannel(h, C) == Put(h, {c \in C : h.ch[c] = "started"}, "added")
startChannel(h, c) ==
    IF h.ch[c] = "none" THEN {Bad(h)}
    ELSE {Ok(Put(h, {c}, "started"))} \cup MayFail({h})

isCaptureRunning(h) == h.state \in {"PIC_TAKING", "VIDEO_PIC_TAKING", "PREVIEW_PIC_TAKING"}
isRecording(h) == h.state \in {"RECORDING", "VIDEO_PIC_TAKING"}
isZSLPreview(h) == h.zsl /\ ~h.hint

\* m_postprocessor.start and stop; pic follows the frame of the picture.
StartPicture(h) == [h EXCEPT !.pp = TRUE, !.pic = "shot", !.stops = 0]
StopPicture(h) == [h EXCEPT !.pp = FALSE, !.pic = "none", !.stops = 0]

cancelPicture(h) ==
    IF h.zsl THEN StopPicture(h) ELSE delChannel(StopPicture(h), {"CAPTURE"})

cancelLiveSnapshot(h) == stopChannel([StopPicture(h) EXCEPT !.live = "none"], {"SNAPSHOT"})

\* sendCommand of CAMERA_CMD_LONGSHOT_OFF; post: it posts SNAPSHOT_DONE.
LongshotOff(h) ==
    IF h.longshot /\ isCaptureRunning(h)
    THEN [cancelPicture(h) EXCEPT !.longshot = FALSE, !.post = TRUE]
    ELSE [h EXCEPT !.longshot = FALSE]

commitParameters(h) == [h EXCEPT !.zsl = h.zslNew, !.hint = h.hintNew]
updateRecordingHintValue(h, v) == commitParameters([h EXCEPT !.hintNew = v])

unpreparePreview(h) == delChannel(h, {"ZSL", "PREVIEW", "VIDEO", "SNAPSHOT"})

PreviewChannels(h) == IF isZSLPreview(h) THEN {"ZSL"}
                      ELSE IF h.hint THEN {"SNAPSHOT", "VIDEO", "PREVIEW"} ELSE {"PREVIEW"}

preparePreview(h) ==
    LET g == IF h.hint /\ h.longshot THEN LongshotOff(h) ELSE h
    IN  {Ok(addChannel(g, PreviewChannels(g)))}
        \cup MayFail({h, delChannel(g, PreviewChannels(g))})

startPreview(h) == startChannel(h, IF isZSLPreview(h) THEN "ZSL" ELSE "PREVIEW")

\* A picture asked of a channel that is deleted is lost.
stopPreview(h) ==
    IF h.pic = "shot" /\ h.ch["CAPTURE"] = "none"
    THEN [unpreparePreview(h) EXCEPT !.pic = "none"] ELSE unpreparePreview(h)

Then(outcomes, Op(_)) == UNION {IF r.ok THEN Op(r.h) ELSE {r} : r \in outcomes}
OrElse(outcomes, Op(_)) == {IF r.ok THEN r ELSE Bad(Op(r.h)) : r \in outcomes}

\* Prepare and start; undo the former when the latter fails.
Bring(h) == Then(preparePreview(h), LAMBDA g : OrElse(startPreview(g), unpreparePreview))
BringAnyhow(h) == Then(preparePreview(h), startPreview)

preStartRecording(h) ==
    IF h.hint THEN {Ok(h)}
    ELSE BringAnyhow(updateRecordingHintValue(stopPreview(h), TRUE))

startRecording(h) == startChannel(h, "VIDEO")
stopRecording(h) == stopChannel(h, {"VIDEO"})

preTakePicture(h) ==
    IF h.hint THEN Bring(updateRecordingHintValue(stopPreview(h), FALSE)) ELSE {Ok(h)}

takePicture(h) ==
    IF h.zsl
    THEN IF h.ch["ZSL"] = "none" THEN {Bad(h)}
         ELSE {Ok(StartPicture(h))}
              \cup MayFail({h, StopPicture(h), [h EXCEPT !.pp = TRUE]})
    ELSE LET g == delChannel(h, {"PREVIEW", "CAPTURE"})
             started == Put(StartPicture(g), {"CAPTURE"}, "started")
         IN  {Ok(started)}
             \cup MayFail({g, [g EXCEPT !.pp = TRUE], [started EXCEPT !.pic = "none"]})

longShot(h) ==
    IF h.ch[IF h.zsl THEN "ZSL" ELSE "CAPTURE"] = "none" THEN {Bad(h)}
    ELSE {Ok([h EXCEPT !.pic = "shot"])} \cup MayFail({h})

stopCaptureChannel(h, destroy) ==
    LET g == stopChannel(h, {"CAPTURE"})
    IN  IF destroy /\ h.ch["CAPTURE"] # "none" THEN Put(g, {"CAPTURE"}, "added") ELSE g

applyDelayedMsgsLate(h) ==                  \* mistake: the flag is cleared first
    [h EXCEPT !.delay = FALSE, !.delayed = FALSE]

applyDelayedMsgs(h) ==
    IF h.delay THEN [h EXCEPT !.msgs = @ \/ h.delayed, !.delay = FALSE,
                              !.delayed = FALSE]
    ELSE h

-----------------------------------------------------------------------------
(* The handlers.  e is the call or event taken from its queue.              *)

Waiting == IF api # << >> THEN evts ELSE Tail(evts)

Become(h) == /\ cam' = [h EXCEPT !.post = FALSE]
             /\ evts' = IF h.post THEN Append(Waiting, "SNAPSHOT_DONE") ELSE Waiting

\* signalAPIResult.  Nobody reads the results of STOP_CAPTURE_CHANNEL; they stay
\* in the list until the camera is closed and are left out of it here.
Answer(e, ok, h) == /\ Become(h)
                    /\ results' = IF e = "STOP_CAPTURE_CHANNEL" THEN results
                                  ELSE Append(results, [api |-> e, ok |-> ok])
                    /\ woken' = TRUE

Quiet(h) == Become(h) /\ UNCHANGED <<results, woken>>

AnswerOne(e, outcomes) == \E r \in outcomes : Answer(e, r.ok, r.h)

\* The state is good when the operation succeeds and bad when it does not.
Decide(e, outcomes, good, bad) ==
    \E r \in outcomes : Answer(e, r.ok, [r.h EXCEPT !.state = IF r.ok THEN good ELSE bad])

SnapshotDoneUnsignalled(e, h) ==            \* mistake: no signalEvtResult
    e = "SNAPSHOT_DONE" /\ Quiet(h)

\* signalEvtResult: the notifier that posted SNAPSHOT_DONE goes on.
SnapshotDone(e, h) == e = "SNAPSHOT_DONE" /\ Quiet([h EXCEPT !.notifier = "free"])

Refused(e, h, S) == e \in S /\ Answer(e, FALSE, h)
Accepted(e, h, S) == e \in S /\ Answer(e, TRUE, h)
Ignored(e, h, S) == e \in S /\ Quiet(h)

SetParams(e, h) ==
    /\ e = "SET_PARAMS"
    /\ \/ Answer(e, TRUE, [h EXCEPT !.restart = FALSE])
       \/ /\ h.state \in Reconfigure
          /\ \E z, v \in BOOLEAN :
                /\ h.longshot => z = h.zsl
                /\ Answer(e, TRUE, [h EXCEPT !.zslNew = z, !.hintNew = v, !.restart = TRUE])

Msgs(e, h) ==
    \/ e = "ENABLE_MSG_TYPE" /\ Answer(e, TRUE, [h EXCEPT !.msgs = TRUE, !.wanted = TRUE])
    \/ e = "DISABLE_MSG_TYPE" /\ Answer(e, TRUE, [h EXCEPT !.msgs = FALSE, !.wanted = FALSE])

Longshot(e, h) ==
    \/ /\ e = "LONGSHOT_ON"
       /\ IF isCaptureRunning(h) THEN Answer(e, FALSE, h)
                                 ELSE Answer(e, TRUE, [h EXCEPT !.longshot = TRUE])
    \/ e = "LONGSHOT_OFF" /\ Answer(e, TRUE, LongshotOff(h))

StoppedParams(e, h) ==
    \/ Msgs(e, h)
    \/ SetParams(e, h)
    \/ e = "SET_PREVIEW_WINDOW" /\ \E w \in BOOLEAN : Answer(e, TRUE, [h EXCEPT !.window = w])
    \/ e = "COMMIT_PARAMS" /\ Answer(e, TRUE, [commitParameters(h) EXCEPT !.restart = FALSE])

PreviewStopped(e, h) ==
    \/ StoppedParams(e, h)
    \/ Longshot(e, h)
    \/ /\ e = "START_PREVIEW"
       /\ IF h.window THEN Decide(e, Bring(h), "PREVIEWING", "STOPPED")
                      ELSE Decide(e, preparePreview(h), "READY", "STOPPED")
    \/ e = "RELEASE" /\ Answer(e, TRUE, delChannel(h, Channel))
    \/ Accepted(e, h, {"STOP_PREVIEW", "PREVIEW_ENABLED", "CANCEL_PICTURE"})
    \/ Refused(e, h, {"PRE_START_RECORDING", "START_RECORDING", "STOP_RECORDING",
                      "PREPARE_SNAPSHOT", "PRE_TAKE_PICTURE", "TAKE_PICTURE"})
    \/ Ignored(e, h, {"STOP_CAPTURE_CHANNEL", "PREP_SNAPSHOT_DONE"})
    \/ SnapshotDone(e, h)

\* Start a prepared preview; a failure unprepares it, of which only
\* SET_PREVIEW_WINDOW tells its caller.
ReadyStart(e, h) ==
    \E r \in OrElse(startPreview(h), unpreparePreview) :
        Answer(e, r.ok \/ e = "START_PREVIEW",
               [r.h EXCEPT !.state = IF r.ok THEN "PREVIEWING" ELSE "STOPPED"])

ReadyParams(e, h) ==
    \/ Msgs(e, h)
    \/ SetParams(e, h)
    \/ /\ e = "SET_PREVIEW_WINDOW"
       /\ \E w \in BOOLEAN : LET g == [h EXCEPT !.window = w] IN
            IF w THEN ReadyStart(e, g) ELSE Answer(e, TRUE, g)
    \/ /\ e = "COMMIT_PARAMS"
       /\ LET g == [commitParameters(h) EXCEPT !.restart = FALSE] IN
            IF h.restart THEN Decide(e, preparePreview(unpreparePreview(g)), "READY", "STOPPED")
                         ELSE Answer(e, TRUE, g)

PreviewReady(e, h) ==
    \/ ReadyParams(e, h)
    \/ Longshot(e, h)
    \/ e = "START_PREVIEW" /\ IF h.window THEN ReadyStart(e, h) ELSE Answer(e, TRUE, h)
    \/ e = "STOP_PREVIEW" /\ Answer(e, TRUE, [unpreparePreview(h) EXCEPT !.state = "STOPPED"])
    \/ Accepted(e, h, {"PREVIEW_ENABLED"})
    \/ Refused(e, h, {"PRE_START_RECORDING", "START_RECORDING", "STOP_RECORDING",
                      "PREPARE_SNAPSHOT", "PRE_TAKE_PICTURE", "TAKE_PICTURE",
                      "CANCEL_PICTURE", "RELEASE"})
    \/ Ignored(e, h, {"STOP_CAPTURE_CHANNEL", "PREP_SNAPSHOT_DONE"})
    \/ SnapshotDone(e, h)

\* After a picture the preview callback is kept off until the application
\* starts, stops or asks for the preview.
PreviewingMsgs(e, h) ==
    \/ /\ e = "ENABLE_MSG_TYPE"
       /\ Answer(e, TRUE, IF h.delay THEN [h EXCEPT !.delayed = TRUE, !.wanted = TRUE]
                          ELSE [h EXCEPT !.msgs = TRUE, !.wanted = TRUE])
    \/ /\ e = "DISABLE_MSG_TYPE"
       /\ Answer(e, TRUE, [h EXCEPT !.msgs = FALSE, !.wanted = FALSE,
                                    !.delay = @ /\ ~h.delayed, !.delayed = @ /\ ~h.delay])

\* COMMIT_PARAMS while a preview runs; lost is the state when it fails.
Restart(e, h, lost) ==
    /\ e = "COMMIT_PARAMS"
    /\ LET g == [h EXCEPT !.restart = FALSE] IN
         IF h.restart THEN Decide(e, Bring(commitParameters(stopPreview(g))), h.state, lost)
                      ELSE Answer(e, TRUE, commitParameters(g))

\* A preview set up for recording is restarted first, whatever becomes of it.
Picturable(h) ==
    IF h.hint THEN {r.h : r \in Bring(updateRecordingHintValue(stopPreview(h), FALSE))} ELSE {h}

PreviewingTakePicture(e, h) ==
    /\ e = "TAKE_PICTURE"
    /\ \E g \in Picturable(h) :
         IF g.zsl \/ g.longshot
         THEN Decide(e, takePicture([g EXCEPT !.delay = TRUE]), "PREVIEW_PIC_TAKING", "PREVIEWING")
         ELSE Decide(e, takePicture(g), "PIC_TAKING", "STOPPED")

\* LONGSHOT_ON may find too few snapshot buffers and restart the preview.
PreviewingLongshot(e, h) ==
    \/ Longshot(e, [h EXCEPT !.restart = FALSE])
    \/ /\ e = "LONGSHOT_ON"
       /\ h.zsl
       /\ h.ch["ZSL"] # "none"
       /\ AnswerOne(e, Bring(stopPreview([h EXCEPT !.longshot = TRUE, !.restart = TRUE])))

PrepareSnapshot(e, h) ==
    /\ e = "PREPARE_SNAPSHOT"
    /\ \/ Quiet([applyDelayedMsgs(h) EXCEPT !.state = "PREPARE_SNAPSHOT", !.preparing = TRUE])
       \/ h.faulty /\ Answer(e, FALSE, h)

Previewing(e, h) ==
    \/ PreviewingMsgs(e, h)
    \/ SetParams(e, h)
    \/ Restart(e, h, "STOPPED")
    \/ Accepted(e, applyDelayedMsgs(h), {"START_PREVIEW", "PREVIEW_ENABLED"})
    \/ /\ e = "STOP_PREVIEW"
       /\ Answer(e, TRUE, [applyDelayedMsgs(stopPreview(h)) EXCEPT !.state = "STOPPED"])
    \/ e = "PRE_START_RECORDING" /\ AnswerOne(e, preStartRecording(h))
    \/ /\ e = "START_RECORDING"
       /\ \E r \in startRecording(h) :
            IF r.ok THEN Answer(e, TRUE, [applyDelayedMsgs(r.h) EXCEPT !.state = "RECORDING"])
                    ELSE Answer(e, FALSE, r.h)
    \/ PrepareSnapshot(e, h)
    \/ e = "PRE_TAKE_PICTURE" /\ AnswerOne(e, preTakePicture(h))
    \/ PreviewingTakePicture(e, h)
    \/ PreviewingLongshot(e, h)
    \/ Refused(e, h, {"SET_PREVIEW_WINDOW", "CANCEL_PICTURE", "STOP_RECORDING", "RELEASE"})
    \/ Ignored(e, h, {"STOP_CAPTURE_CHANNEL", "PREP_SNAPSHOT_DONE"})
    \/ SnapshotDone(e, h)

AnswerReady(h) ==                           \* mistake: under the event's own name
    Answer("PREP_SNAPSHOT_DONE", TRUE, [h EXCEPT !.state = "PREVIEWING"])

PrepareAgain(h) ==                          \* mistake: no result, once more
    Quiet([h EXCEPT !.preparing = TRUE])

\* PREPARE_SNAPSHOT is answered when the hardware is ready.
SnapshotPrepared(h) == Answer("PREPARE_SNAPSHOT", TRUE, [h EXCEPT !.state = "PREVIEWING"])

PreparingSnapshot(e, h) ==
    \/ e = "PREP_SNAPSHOT_DONE" /\ SnapshotPrepared(h)
    \/ Refused(e, h, Api \ {"COMMIT_PARAMS", "STOP_CAPTURE_CHANNEL"})
    \/ Ignored(e, h, {"COMMIT_PARAMS", "STOP_CAPTURE_CHANNEL"})
    \/ SnapshotDone(e, h)

AnyParams(e, h) ==
    \/ Msgs(e, h)
    \/ SetParams(e, h)
    \/ e = "PREVIEW_ENABLED" /\ Answer(e, TRUE, h)

PicTakingLongshot(e, h) ==
    \/ e = "LONGSHOT_ON" /\ Answer(e, FALSE, h)
    \/ e = "LONGSHOT_OFF" /\ Answer(e, TRUE, [LongshotOff(h) EXCEPT !.state = "PREVIEWING"])
    \/ e = "PRE_TAKE_PICTURE" /\ Answer(e, h.longshot, h)
    \/ e = "TAKE_PICTURE" /\ IF h.longshot THEN AnswerOne(e, longShot(h)) ELSE Answer(e, FALSE, h)

\* With the early restart the preview is up before the picture is encoded.
StopCapture(e, h) ==
    /\ e = "STOP_CAPTURE_CHANNEL"
    /\ IF h.early THEN AnswerOne(e, BringAnyhow(stopCaptureChannel(h, TRUE)))
                  ELSE Answer(e, TRUE, stopCaptureChannel(h, FALSE))

PicDoneUncancelled(e, h) ==                 \* mistake: the picture is not cancelled
    /\ e = "SNAPSHOT_DONE"
    /\ Quiet([h EXCEPT !.notifier = "free", !.state = "STOPPED"])

PicDone(e, h) ==
    /\ e = "SNAPSHOT_DONE"
    /\ Quiet([cancelPicture(h) EXCEPT !.notifier = "free",
                                      !.state = IF h.early THEN "PREVIEWING" ELSE "STOPPED"])

PicTaking(e, h) ==
    \/ AnyParams(e, h)
    \/ e = "COMMIT_PARAMS" /\ Answer(e, TRUE, [commitParameters(h) EXCEPT !.restart = FALSE])
    \/ /\ e \in {"STOP_PREVIEW", "CANCEL_PICTURE"}
       /\ Answer(e, TRUE, [cancelPicture(h) EXCEPT !.state = "STOPPED"])
    \/ PicTakingLongshot(e, h)
    \/ StopCapture(e, h)
    \/ PicDone(e, h)
    \/ Refused(e, h, {"SET_PREVIEW_WINDOW", "PREPARE_SNAPSHOT", "PRE_START_RECORDING",
                      "START_RECORDING", "STOP_RECORDING", "START_PREVIEW", "RELEASE"})
    \/ Ignored(e, h, {"PREP_SNAPSHOT_DONE"})

CommitUnlessRestart(e, h) ==
    /\ e = "COMMIT_PARAMS"
    /\ LET g == [h EXCEPT !.restart = FALSE] IN
         IF h.restart THEN Answer(e, FALSE, g) ELSE Answer(e, TRUE, commitParameters(g))

RecordingTakePicture(e, h) ==
    /\ e = "TAKE_PICTURE"
    /\ \/ Answer(e, TRUE, [h EXCEPT !.state = "VIDEO_PIC_TAKING", !.live = "running"])
       \/ h.faulty /\ Answer(e, FALSE, h)

StopKeepingVideo(e, h) ==                   \* mistake: stopRecording is left out
    \/ e = "STOP_RECORDING" /\ Answer(e, TRUE, [h EXCEPT !.state = "PREVIEWING"])
    \/ e = "STOP_PREVIEW" /\ Answer(e, TRUE, [stopPreview(h) EXCEPT !.state = "STOPPED"])

RecordingStop(e, h) ==
    \/ e = "STOP_RECORDING" /\ Answer(e, TRUE, [stopRecording(h) EXCEPT !.state = "PREVIEWING"])
    \/ /\ e = "STOP_PREVIEW"
       /\ Answer(e, TRUE, [stopPreview(stopRecording(h)) EXCEPT !.state = "STOPPED"])

Recording(e, h) ==
    \/ AnyParams(e, h)
    \/ CommitUnlessRestart(e, h)
    \/ Longshot(e, h)
    \/ RecordingTakePicture(e, h)
    \/ RecordingStop(e, h)
    \/ Accepted(e, h, {"SET_PREVIEW_WINDOW", "START_PREVIEW", "PRE_TAKE_PICTURE",
                       "PRE_START_RECORDING", "START_RECORDING", "PREPARE_SNAPSHOT"})
    \/ Refused(e, h, {"CANCEL_PICTURE", "RELEASE"})
    \/ Ignored(e, h, {"STOP_CAPTURE_CHANNEL", "PREP_SNAPSHOT_DONE"})
    \/ SnapshotDone(e, h)

\* cancelLiveSnapshot joins the live-snapshot thread.
VideoPicStop(e, h) ==
    /\ h.live # "running"
    /\ LET g == cancelLiveSnapshot(h) IN
         \/ e = "CANCEL_PICTURE" /\ Answer(e, TRUE, [g EXCEPT !.state = "RECORDING"])
         \/ RecordingStop(e, g)
         \/ /\ e = "SNAPSHOT_DONE"
            /\ Quiet([g EXCEPT !.state = "RECORDING", !.notifier = "free"])

VideoPicTaking(e, h) ==
    \/ AnyParams(e, h)
    \/ CommitUnlessRestart(e, h)
    \/ Longshot(e, h)
    \/ VideoPicStop(e, h)
    \/ Refused(e, h, {"SET_PREVIEW_WINDOW", "PRE_START_RECORDING", "START_RECORDING",
                      "START_PREVIEW", "PREPARE_SNAPSHOT", "PRE_TAKE_PICTURE",
                      "TAKE_PICTURE", "RELEASE"})
    \/ Ignored(e, h, {"STOP_CAPTURE_CHANNEL", "PREP_SNAPSHOT_DONE"})

\* A picture of a running preview, or of a recording started meanwhile.
PreviewPicCancel(h) ==
    IF h.zsl \/ h.longshot THEN cancelPicture(h) ELSE cancelLiveSnapshot(h)

PreviewPicStop(e, h) ==
    \/ e = "CANCEL_PICTURE" /\ Answer(e, TRUE, [PreviewPicCancel(h) EXCEPT !.state = "PREVIEWING"])
    \/ /\ e = "STOP_PREVIEW"
       /\ Answer(e, TRUE, [unpreparePreview(PreviewPicCancel(h)) EXCEPT !.state = "STOPPED"])
    \/ /\ e = "SNAPSHOT_DONE"
       /\ Quiet([PreviewPicCancel(h) EXCEPT !.state = "PREVIEWING", !.notifier = "free"])

PreviewPicRecord(e, h) ==
    /\ e \in {"PRE_START_RECORDING", "START_RECORDING"}
    /\ IF h.zsl \/ h.longshot THEN Answer(e, FALSE, h)
       ELSE IF e = "PRE_START_RECORDING" THEN AnswerOne(e, preStartRecording(h))
       ELSE Decide(e, startRecording(h), "VIDEO_PIC_TAKING", h.state)

PreviewPicTaking(e, h) ==
    \/ AnyParams(e, h)
    \/ Restart(e, h, "PIC_TAKING")
    \/ PicTakingLongshot(e, h)
    \/ PreviewPicStop(e, h)
    \/ PreviewPicRecord(e, h)
    \/ Refused(e, h, {"SET_PREVIEW_WINDOW", "STOP_RECORDING", "START_PREVIEW",
                      "PREPARE_SNAPSHOT", "RELEASE"})
    \/ Ignored(e, h, {"STOP_CAPTURE_CHANNEL", "PREP_SNAPSHOT_DONE"})

-----------------------------------------------------------------------------
(* The threads.                                                             *)

Handle(e, h) == \/ h.state = "STOPPED" /\ PreviewStopped(e, h)
                \/ h.state = "READY" /\ PreviewReady(e, h)
                \/ h.state = "PREVIEWING" /\ Previewing(e, h)
                \/ h.state = "PREPARE_SNAPSHOT" /\ PreparingSnapshot(e, h)
                \/ h.state = "PIC_TAKING" /\ PicTaking(e, h)
                \/ h.state = "RECORDING" /\ Recording(e, h)
                \/ h.state = "VIDEO_PIC_TAKING" /\ VideoPicTaking(e, h)
                \/ h.state = "PREVIEW_PIC_TAKING" /\ PreviewPicTaking(e, h)

\* smEvtProcRoutine: calls first.
StateMachine ==
    /\ IF api # << >> THEN api' = Tail(api) /\ Handle(Head(api), cam)
       ELSE evts # << >> /\ Handle(Head(evts), cam) /\ UNCHANGED api
    /\ UNCHANGED call

\* What the application asks for: the calls that one entry point makes.
Calls == {<<a>> : a \in {"SET_PREVIEW_WINDOW", "ENABLE_MSG_TYPE", "DISABLE_MSG_TYPE",
                         "START_PREVIEW", "STOP_PREVIEW", "PREVIEW_ENABLED", "STOP_RECORDING",
                         "CANCEL_PICTURE", "LONGSHOT_ON", "LONGSHOT_OFF", "RELEASE"}}
         \cup {<<"SET_PARAMS", "COMMIT_PARAMS">>,
               <<"PRE_START_RECORDING", "START_RECORDING">>,
               <<"PRE_TAKE_PICTURE", "TAKE_PICTURE">>,
               <<"PREPARE_SNAPSHOT", "PRE_TAKE_PICTURE", "TAKE_PICTURE">>}

Call(c) == /\ call = << >>
           /\ evts # << >> => Last(c) \in Hurried
           /\ Last(c) = "TAKE_PICTURE" => Len(results) <= MaxStale
           /\ c = <<"LONGSHOT_ON">> => cam.zsl
           /\ c = <<"LONGSHOT_OFF">> => cam.longshot
           /\ call' = c
           /\ api' = Append(api, Head(c))
           /\ woken' = FALSE
           /\ UNCHANGED <<cam, evts, results>>

Answers(a) == {i \in DOMAIN results : results[i].api = a}

\* waitAPIResult takes the first result with the name of the call.  An entry
\* point gives up at the first refusal, but not when the flash is not ready.
Return ==
    /\ call # << >>
    /\ woken
    /\ LET a == Head(call)
           mine == Answers(a)
       IN  /\ mine # {}
           /\ LET i == CHOOSE j \in mine : \A k \in mine : j <= k
                  on == results[i].ok \/ a = "PREPARE_SNAPSHOT"
              IN  /\ results' = RemoveAt(results, i)
                  /\ call' = IF on THEN Tail(call) ELSE << >>
                  /\ api' = IF call' = << >> THEN api ELSE Append(api, Head(call'))
    /\ woken' = FALSE
    /\ UNCHANGED <<cam, evts>>

\* The flash and the exposure are ready for the picture (external).
HardwareReady ==
    /\ cam.preparing
    /\ cam' = [cam EXCEPT !.preparing = FALSE]
    /\ evts' = Append(evts, "PREP_SNAPSHOT_DONE")
    /\ UNCHANGED <<api, results, call, woken>>

\* takeLiveSnapshot_internal.  When the rotation cannot be configured it stops the
\* post-processor and tells nobody; after any other failure it posts CANCEL_PICTURE.
LiveSnapshot ==
    /\ cam.live = "running"
    /\ \/ /\ cam.ch["SNAPSHOT"] # "none"
          /\ cam' = Put(StartPicture([cam EXCEPT !.live = "done"]), {"SNAPSHOT"}, "started")
          /\ UNCHANGED api
       \/ /\ cam.ch["SNAPSHOT"] = "none" \/ cam.faulty
          /\ \E on \in {cam.pp, TRUE} : cam' = [cam EXCEPT !.live = "done", !.pp = on]
          /\ api' = Append(api, "CANCEL_PICTURE")
       \/ /\ cam.ch["SNAPSHOT"] # "none" /\ cam.faulty
          /\ cam' = StopPicture([cam EXCEPT !.live = "done"])
          /\ UNCHANGED api
    /\ UNCHANGED <<evts, results, call, woken>>

Source(h) == IF isRecording(h) THEN "SNAPSHOT" ELSE IF h.zsl THEN "ZSL" ELSE "CAPTURE"

\* The frame of the picture arrives (external) and the data thread has it.
Frame == /\ cam.pp /\ cam.pic = "shot"
         /\ cam.ch[Source(cam)] = "started"
         /\ cam' = [cam EXCEPT !.pic = "frame"]
         /\ UNCHANGED <<api, evts, results, call, woken>>

isRegularCapture == ~cam.longshot /\ ~cam.hint /\ ~cam.zsl

DataThread ==
    /\ cam.pp /\ cam.pic = "frame" /\ isRegularCapture
    /\ cam.stops < MaxStops
    /\ cam' = [cam EXCEPT !.stops = @ + 1]
    /\ api' = Append(api, "STOP_CAPTURE_CHANNEL")
    /\ UNCHANGED <<evts, results, call, woken>>

\* The last JPEG of the picture reaches cbNotifyRoutine.
Notify ==
    /\ cam.pp /\ cam.pic = "frame" /\ ~cam.longshot
    /\ cam.notifier = "free"
    /\ cam' = [cam EXCEPT !.pic = "none", !.notifier = "waiting"]
    /\ evts' = Append(evts, "SNAPSHOT_DONE")
    /\ UNCHANGED <<api, results, call, woken>>

Init ==
    /\ \E early \in EarlyRestart, faulty \in Faults :
         cam = [state |-> "STOPPED", ch |-> [c \in Channel |-> "none"], window |-> FALSE,
                zsl |-> FALSE, zslNew |-> FALSE, hint |-> FALSE, hintNew |-> FALSE,
                longshot |-> FALSE, restart |-> FALSE, early |-> early, faulty |-> faulty,
                msgs |-> FALSE, delay |-> FALSE, delayed |-> FALSE, wanted |-> FALSE,
                pp |-> FALSE, pic |-> "none", stops |-> 0, live |-> "none",
                preparing |-> FALSE, notifier |-> "free", post |-> FALSE]
    /\ api = << >> /\ evts = << >> /\ results = << >>
    /\ call = << >> /\ woken = FALSE

Next == \/ StateMachine
        \/ \E c \in Calls : Call(c)
        \/ Return
        \/ HardwareReady \/ LiveSnapshot \/ Frame \/ DataThread \/ Notify

Spec == /\ Init /\ [][Next]_vars
        /\ WF_vars(StateMachine) /\ WF_vars(Return) /\ WF_vars(HardwareReady)
        /\ WF_vars(LiveSnapshot) /\ WF_vars(Frame) /\ WF_vars(Notify)

-----------------------------------------------------------------------------
\* Every result that waits in the list is named after a call somebody may wait
\* for (signalAPIResult is given a name by each handler, PREPARE_SNAPSHOT's by
\* the handler of another event); the queues and the camera are well formed.
TypeOK ==
    /\ cam.state \in State
    /\ cam.ch \in [Channel -> {"none", "added", "started"}]
    /\ cam.pic \in {"none", "shot", "frame"}
    /\ cam.live \in {"none", "running", "done"}
    /\ api \in Seq(Api)
    /\ evts \in Seq({"SNAPSHOT_DONE", "PREP_SNAPSHOT_DONE"})
    /\ results \in Seq([api : Api, ok : BOOLEAN])
    /\ call \in Seq(Api)
    /\ woken \in BOOLEAN

Streaming == {c \in Channel : cam.ch[c] = "started"}
Regular == ~cam.early /\ ~cam.faulty

\* The video streams exactly while a recording is on.  When streams do not fail
\* and the early restart is off, a stopped camera streams nothing, a preview
\* streams in every state that claims one, and the sensor is not asked for a
\* preview and a capture of the other mode at once (the handlers of the eight
\* states start and stop channels by themselves, in many orders).
StreamsFitState ==
    /\ "VIDEO" \in Streaming <=> isRecording(cam)
    /\ Regular => /\ cam.state \in {"STOPPED", "READY"} => Streaming = {}
                  /\ cam.state \in {"PREVIEWING", "RECORDING", "VIDEO_PIC_TAKING"}
                        => Streaming \cap {"ZSL", "PREVIEW"} # {}
                  /\ "ZSL" \in Streaming => Streaming \cap {"PREVIEW", "CAPTURE"} = {}

\* The post-processor runs only while a picture is being taken, and the request
\* to stop the capture channel is handled only for the picture whose frame has
\* arrived, never for the next one (the data thread posts it without waiting).
PictureIsOurs ==
    /\ Regular /\ cam.pp => isCaptureRunning(cam)
    /\ cam.state = "PIC_TAKING" /\ api # << >> /\ Head(api) = "STOP_CAPTURE_CHANNEL"
          => cam.pic # "shot"

\* A message type that the application enabled and did not disable is enabled,
\* or waits to be once the preview is asked for again (m_DelayedMsgs).
NoMessageLost == cam.wanted => cam.msgs \/ cam.delayed

\* Every call of the application returns, whatever fails: each handler leaves a
\* result with the name that the caller waits for, and wakes it.
CallReturns == call # << >> ~> call = << >>

Capturing == isCaptureRunning(cam) /\ ~cam.longshot /\ call = << >>

\* A picture that nobody disturbs ends, on a camera whose streams do not fail:
\* frame, JPEG, SNAPSHOT_DONE and the restored channel come in turn, and the
\* notifier of the previous picture does not wait for a result any more.  (A
\* SNAPSHOT_DONE that calls have overtaken may end the picture taken since.)
PictureEnds == ~cam.faulty /\ Capturing ~> ~Capturing

\* What the state machine says of COMMIT_PARAMS, "cannot set parameters that
\* requires restart during recording": the preview mode and the recording hint
\* stay what they are while it records.
RecordingKeepsMode ==
    [][cam.state = "RECORDING" /\ cam'.state = "RECORDING"
          => cam'.zsl = cam.zsl /\ cam'.hint = cam.hint]_cam
=============================================================================
