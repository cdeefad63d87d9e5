------------------------------ MODULE EncodeFiles -----------------------------
(***************************************************************************)
(* library-study/ffmpeg/src/encode_video.c, which encodes 25 raw frames,   *)
(* and read_one_video_frame.c, which makes a JPEG of one.  The variable    *)
(* style says which.                                                       *)
(*                                                                         *)
(* encode_video fills one AVFrame again and again while the encoder may    *)
(* still refer to its buffer; buffers are numbered and image says which    *)
(* frame of the file is in each.  It asks for at most one B frame in a row *)
(* (max_b_frames = 1): the encoder may hand out the packet of a frame      *)
(* before that of the frame it follows, but no second one then.            *)
(***************************************************************************)
EXTENDS Naturals, Sequences, SequencesExt

CONSTANTS Frames,     \* frames to encode, 25 in the program
          MaxDelay    \* bound: frames that an encoder keeps until it is flushed

Buffers == 0..MaxDelay + 1   \* one more than the encoder can refer to

VARIABLES
  style, pc, step, status,
  held, broken,           \* what is held; an error went unnoticed
  available, count,       \* whole frames in the file, and frames read
  buffer, image,          \* the AVFrame's buffer, and the contents of them all
  delay, queue, flushed,  \* the encoder: the buffers that it refers to
  overtaken,              \*   the first of them is a B frame
  written                 \* the frames in the output

frameVars == <<buffer, image>>
codecVars == <<queue, flushed, overtaken>>
vars == <<style, pc, step, status, held, broken, available, count, frameVars,
          delay, codecVars, written>>

-----------------------------------------------------------------------------
(* The calls before the encoder gets a frame: what each acquires and, for  *)
(* read_one_video_frame, what the code releases when it fails.  There ret  *)
(* is a size_t, so that the checks `ret < 0' never find an error: those    *)
(* calls are not checked.  (av_image_fill_arrays cannot fail for the       *)
(* constants it is given.)                                                 *)
Call(takes, undo)  == [takes |-> takes, undo |-> undo, checked |-> TRUE]
Unchecked(takes) == [takes |-> takes, undo |-> {}, checked |-> FALSE]

Files == {"yuv_buffer", "fp"}
Image == {"dst_frame", "sws_ctx", "src_frame"} \cup Files

ReadOneFrame ==
  << Call({"fp"}, {}),
     Call({"yuv_buffer"}, {"fp"}),
     Call({}, Files),                               \* fread
     Call({"src_frame"}, Files),
     Call({"sws_ctx"}, {"src_frame"} \cup Files),
     Call({"dst_frame"}, {"sws_ctx", "src_frame"} \cup Files),
     Unchecked({}) >>                               \* av_frame_get_buffer

OpenJpeg ==
  << Call({}, Image),                               \* avcodec_find_encoder
     Call({"codec_ctx"}, Image),
     Unchecked({}),                                 \* avcodec_open2
     Call({"jpg"}, {"codec_ctx"} \cup Image),
     Unchecked({}),                                 \* avcodec_send_frame
     Call({"packet"}, {"jpg", "codec_ctx"} \cup Image) >>

(* encode_video leaves with exit(1), whatever it holds; only when there is *)
(* no memory for yuv_buffer it closes its input and returns.               *)
OpenEncoder ==
  << Call({}, {}),                                  \* avcodec_find_encoder_by_name
     Call({"c"}, {}), Call({"pkt"}, {}), Call({"input_file"}, {}),
     Call({"yuv_buffer"}, {"input_file"}),
     Call({}, {}),                                  \* avcodec_open2
     Call({"f"}, {}), Call({"frame"}, {}), Call({}, {}) >>

Calls == IF style = "video" THEN OpenEncoder ELSE ReadOneFrame \o OpenJpeg

Init ==
  /\ style \in {"video", "jpeg"} /\ pc = "setup" /\ step = 1 /\ status = 0
  /\ held = {} /\ broken = FALSE
  /\ available \in 0..Frames /\ count = 0
  /\ buffer = 0 /\ image = [b \in Buffers |-> 0]
  /\ delay \in (IF style = "video" THEN 0..MaxDelay ELSE {0})   \* mjpeg keeps nothing
  /\ queue = <<>> /\ flushed = FALSE /\ overtaken = FALSE /\ written = <<>>

Exit(code) == pc' = "exit" /\ status' = code

CallSucceeds ==
  /\ pc = "setup" /\ step <= Len(Calls)
  /\ held' = held \cup Calls[step].takes
  /\ step' = step + 1
  /\ UNCHANGED <<style, pc, status, broken, available, count, frameVars, delay, codecVars, written>>

CallFails ==
  /\ pc = "setup" /\ step <= Len(Calls)
  /\ IF Calls[step].checked
       THEN /\ held' = held \ Calls[step].undo
            /\ Exit(1) /\ UNCHANGED <<step, broken>>
       ELSE /\ broken' = TRUE /\ step' = step + 1
            /\ UNCHANGED <<held, pc, status>>
  /\ UNCHANGED <<style, available, count, frameVars, delay, codecVars, written>>

SetupEnds ==
  /\ pc = "setup" /\ step > Len(Calls)
  /\ pc' = IF style = "video" THEN "frame" ELSE "packet"
  /\ UNCHANGED <<style, step, status, held, broken, available, count, frameVars, delay, codecVars, written>>

-----------------------------------------------------------------------------
(* read_one_video_frame asks for one packet and, packet or not, ends; that *)
(* fwrite wrote it is not looked at.                                       *)
(* Mutant of OneJpeg: the packet is not released. *)
OneJpegLeaks ==
  /\ pc = "packet"
  /\ written' = IF broken THEN written ELSE <<1>>
  /\ held' = held \ ({"jpg", "codec_ctx"} \cup Image)
  /\ Exit(0)
  /\ UNCHANGED <<style, step, broken, available, count, frameVars, delay, codecVars>>

OneJpeg ==
  /\ pc = "packet"
  /\ written' \in IF broken THEN {written} ELSE {written, <<1>>}
  /\ held' = held \ ({"packet", "jpg", "codec_ctx"} \cup Image)
  /\ Exit(0)
  /\ UNCHANGED <<style, step, broken, available, count, frameVars, delay, codecVars>>

-----------------------------------------------------------------------------
(* encode_video's rounds: av_frame_make_writable, fread and the copying,   *)
(* which skips the padding of the lines.                                   *)
Referred == {queue[k] : k \in DOMAIN queue}

(* Mutant of Writable: the frame keeps its buffer. *)
SameBuffer == buffer

(* The frame's own buffer unless the encoder refers to it, or a new one.   *)
Writable == IF buffer \in Referred THEN CHOOSE b \in Buffers : b \notin Referred ELSE buffer

(* The copying itself writes no frame: it is encode that does. *)
FillFrame ==
  /\ pc = "frame" /\ count < Frames /\ count < available
  /\ buffer' = Writable
  /\ image' = [image EXCEPT ![Writable] = count + 1]
  /\ count' = count + 1
  /\ pc' = "send"
  /\ UNCHANGED <<style, step, status, held, broken, available, delay, codecVars, written>>

NotWritable ==
  /\ pc = "frame" /\ count < Frames
  /\ Exit(1)
  /\ UNCHANGED <<style, step, held, broken, available, count, frameVars, delay, codecVars, written>>

(* The file is shorter than 25 frames: what the encoder has is given up.   *)
ShortRead ==
  /\ pc = "frame" /\ count < Frames /\ count = available
  /\ held' = held \ {"yuv_buffer", "input_file"}
  /\ Exit(1)
  /\ UNCHANGED <<style, step, broken, available, count, frameVars, delay, codecVars, written>>

AllFramesSent ==
  /\ pc = "frame" /\ count = Frames
  /\ flushed' = TRUE /\ pc' = "receive"
  /\ UNCHANGED <<style, step, status, held, broken, available, count, frameVars, delay, queue,
                 overtaken, written>>

(* encode. *)
PacketReady == Len(queue) > delay \/ (flushed /\ queue # <<>>)

Send ==
  /\ pc = "send"
  /\ \/ /\ ~PacketReady
        /\ queue' = Append(queue, buffer) /\ pc' = "receive" /\ UNCHANGED status
     \/ Exit(1) /\ UNCHANGED queue
  /\ UNCHANGED <<style, step, held, broken, available, count, frameVars, delay, flushed,
                 overtaken, written>>

(* The encoder hands out the packet of the k-th frame that it has. *)
HandsOut(k) ==
  /\ k = 1 \/ (k = 2 /\ Len(queue) >= 2 /\ ~overtaken)
  /\ queue' = RemoveAt(queue, k)
  /\ overtaken' = (k = 2)

Receive ==
  /\ pc = "receive" /\ PacketReady
  /\ \E k \in 1..2 : HandsOut(k) /\ written' = Append(written, image[queue[k]])
  /\ UNCHANGED <<style, pc, step, status, held, broken, available, count, frameVars, delay, flushed>>

(* fwrite fails, to which nobody listens: the packet is lost. *)
PacketLost ==
  /\ pc = "receive" /\ PacketReady
  /\ \E k \in 1..2 : HandsOut(k)
  /\ broken' = TRUE
  /\ UNCHANGED <<style, pc, step, status, held, available, count, frameVars, delay, flushed, written>>

ReceiveFails ==
  /\ pc = "receive" /\ PacketReady
  /\ Exit(1)
  /\ UNCHANGED <<style, step, held, broken, available, count, frameVars, delay, codecVars, written>>

(* At its end main releases all but yuv_buffer and input_file. *)
NothingReady ==
  /\ pc = "receive" /\ ~PacketReady
  /\ IF flushed
       THEN Exit(0) /\ held' = held \ {"f", "c", "frame", "pkt"}
       ELSE pc' = "frame" /\ UNCHANGED <<status, held>>
  /\ UNCHANGED <<style, step, broken, available, count, frameVars, delay, codecVars, written>>

Next ==
  \/ CallSucceeds \/ CallFails \/ SetupEnds \/ OneJpeg
  \/ FillFrame \/ NotWritable \/ ShortRead \/ AllFramesSent
  \/ Send \/ Receive \/ PacketLost \/ ReceiveFails \/ NothingReady

Spec == Init /\ [][Next]_vars

-----------------------------------------------------------------------------
(* Although one AVFrame carries them all, no frame's picture is written    *)
(* twice or behind a frame that follows it by more than the one B frame    *)
(* asked for, wherever main gives up; and when main reports success and    *)
(* every write succeeded, the video has every frame of the file            *)
(* (encode_video.c:54-76, 151, 189-247).                                   *)
EveryFrameEncoded ==
  style = "video" =>
    /\ \A k \in DOMAIN written : written[k] \in 1..count
    /\ \A j, k \in DOMAIN written : j < k => written[j] < written[k] \/ written[j] = written[k] + 1
    /\ pc = "exit" /\ status = 0 /\ ~broken => {written[k] : k \in DOMAIN written} = 1..Frames

(* Whichever call of read_one_video_frame fails, checked or not, it        *)
(* returns with nothing held (read_one_video_frame.c:27-307).              *)
ReleasesAll == style = "jpeg" /\ pc = "exit" => held = {}
==============================================================================
