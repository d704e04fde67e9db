---------------------------- MODULE MCMmChannel -----------------------------
(* Instances of MmChannel: the HAL's channels and what metadata announces. *)
EXTENDS MmChannel

Channel(mode, water, look, unmatched, low) ==
    [streams |-> Streams, data_cb |-> Streams, notify_cb |-> TRUE,
     notify_mode |-> mode, water_mark |-> water, look_back |-> look,
     post_frame_skip |-> 1, max_unmatched |-> unmatched, low |-> low]

zsl      == Channel("burst", 1, 0, 1, FALSE)       \* addZSLChannel
snapshot == [Channel("continuous", 1, 1, 1, TRUE) EXCEPT  \* addSnapshotChannel
                 !.streams = @ \ {Meta}, !.data_cb = @ \ {Meta}]
plain    == [Channel("burst", 0, 0, 0, FALSE) EXCEPT    \* addPreviewChannel
                 !.notify_cb = FALSE]

Announce(done, good, divert) == [done |-> done, good |-> good, divert |-> divert]
nothing == Announce(None, Absent, Absent)
\* Metadata announces nothing, or all at once: the snapshot needs future frames,
\* the next one is the first good one, and this one is expected.
MCInfos == {nothing, Announce("future", 1, 0)}

MCRequests == {<<2, 1>>}

MCAttrs == {zsl, snapshot, plain}

=============================================================================
