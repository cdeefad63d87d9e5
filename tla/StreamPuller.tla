----------------------------- MODULE StreamPuller -----------------------------
(***************************************************************************)
(* library-study/ffmpeg/src/pull_ipc.cpp: the main thread opens a camera's *)
(* stream and a window, starts a thread that reads and decodes, and shows  *)
(* the newest frame that thread has published.  They share running (an     *)
(* atomic), and shared_frame and frame_ready under frame_mutex; no section *)
(* of that mutex blocks, so each is one step here.                         *)
(*                                                                         *)
(* Frames are numbered in the order in which the decoder returns them.     *)
(***************************************************************************)
EXTENDS Naturals, Sequences

CONSTANT MaxFrames   \* bound: frames of the stream

VARIABLES
  main, step, held,           \* main: where it is, the next call, what it holds
  decoder, frame,             \* the decoding thread and its frame
  running, shared_frame, frame_ready,
  local_frame, shown,         \* main's frame, and the last one it has shown
  taken,                      \* history: the last frame that main took a reference of,
  spoiled                     \*   and those of which the reference is empty

setupVars == <<step, held>>
shared    == <<shared_frame, frame_ready>>
history   == <<taken, spoiled>>
vars == <<main, setupVars, decoder, frame, running, shared, local_frame, shown, history>>

-----------------------------------------------------------------------------
(* main's calls before the loop: what each acquires, and what the code     *)
(* releases when it fails.                                                 *)
Call(takes, undo) == [takes |-> takes, undo |-> undo]

Stream == {"fmt_ctx"}
Codec  == {"codec_ctx", "fmt_ctx"}

OpenStream ==
  << Call({"fmt_ctx"}, {}),        \* avformat_open_input
     Call({}, Stream),             \* avformat_find_stream_info
     Call({}, Stream),             \* the first video stream
     Call({}, Stream),             \* avcodec_find_decoder
     Call({"codec_ctx"}, Stream),  \* avcodec_alloc_context3
     Call({}, Codec),              \* avcodec_parameters_to_context
     Call({}, Codec) >>            \* avcodec_open2

OpenWindow ==
  << Call({"SDL"}, Codec),
     Call({"window"}, {"SDL"} \cup Codec),
     Call({"renderer"}, {"window", "SDL"} \cup Codec),
     Call({"texture"}, {"renderer", "window", "SDL"} \cup Codec) >>

Calls == OpenStream \o OpenWindow

Init ==
  /\ main = "setup" /\ step = 1 /\ held = {}
  /\ decoder = "unborn" /\ frame = 0
  /\ running = TRUE /\ shared_frame = 0 /\ frame_ready = FALSE
  /\ local_frame = 0 /\ shown = 0 /\ taken = 0 /\ spoiled = {}

CallSucceeds ==
  /\ main = "setup" /\ step <= Len(Calls)
  /\ held' = held \cup Calls[step].takes
  /\ step' = step + 1
  /\ UNCHANGED <<main, decoder, frame, running, shared, local_frame, shown, history>>

CallFails ==
  /\ main = "setup" /\ step <= Len(Calls)
  /\ held' = held \ Calls[step].undo
  /\ main' = "returned"
  /\ UNCHANGED <<step, decoder, frame, running, shared, local_frame, shown, history>>

StartDecoder ==
  /\ main = "setup" /\ step > Len(Calls)
  /\ main' = "while" /\ decoder' = "alloc"
  /\ UNCHANGED <<setupVars, frame, running, shared, local_frame, shown, history>>

-----------------------------------------------------------------------------
(* The main loop. *)
WhileRunning ==
  /\ main = "while"
  /\ main' = IF running THEN "events" ELSE "join"
  /\ UNCHANGED <<setupVars, decoder, frame, running, shared, local_frame, shown, history>>

(* A closed window or Escape does not leave the round that sees it. *)
PollEvents ==
  /\ main = "events"
  /\ running' \in {running, FALSE}
  /\ main' = "take"
  /\ UNCHANGED <<setupVars, decoder, frame, shared, local_frame, shown, history>>

(* Mutant of TakeFrame: frame_ready is not taken back. *)
TakeFrameAgain ==
  /\ main = "take"
  /\ \/ /\ frame_ready
        /\ local_frame' = shared_frame /\ taken' = shared_frame
        /\ spoiled' \in {spoiled, spoiled \cup {shared_frame}}
     \/ UNCHANGED <<local_frame, history>>
  /\ main' = "show"
  /\ UNCHANGED <<setupVars, decoder, frame, running, shared, shown>>

(* av_frame_alloc may fail, and then the frame is left for another round.  *)
(* That av_frame_ref may fail is not looked at: the frame counts as taken. *)
TakeFrame ==
  /\ main = "take"
  /\ \/ /\ frame_ready
        /\ local_frame' = shared_frame /\ taken' = shared_frame
        /\ spoiled' \in {spoiled, spoiled \cup {shared_frame}}
        /\ frame_ready' = FALSE
     \/ UNCHANGED <<local_frame, history, frame_ready>>
  /\ main' = "show"
  /\ UNCHANGED <<setupVars, decoder, frame, running, shared_frame, shown>>

(* SDL refuses a frame without data: the window keeps what it shows.       *)
ShowFrame ==
  /\ main = "show"
  /\ shown' = IF local_frame \in {0} \cup spoiled THEN shown ELSE local_frame
  /\ local_frame' = 0
  /\ main' = "while"
  /\ UNCHANGED <<setupVars, decoder, frame, running, shared, history>>

(* Mutant of Join: the contexts are freed without waiting for the thread. *)
DontJoin ==
  /\ main = "join"
  /\ running' = FALSE
  /\ main' = "cleanup"
  /\ UNCHANGED <<setupVars, decoder, frame, shared, local_frame, shown, history>>

(* running = false, which it is already, and decoder_thread.join(). *)
Join ==
  /\ main = "join" /\ decoder = "gone"
  /\ running' = FALSE
  /\ main' = "cleanup"
  /\ UNCHANGED <<setupVars, decoder, frame, shared, local_frame, shown, history>>

Cleanup ==
  /\ main = "cleanup"
  /\ shared_frame' = 0
  /\ held' = held \ {"texture", "renderer", "window", "SDL", "codec_ctx", "fmt_ctx"}
  /\ main' = "returned"
  /\ UNCHANGED <<step, decoder, frame, running, frame_ready, local_frame, shown, history>>

Main ==
  \/ CallSucceeds \/ CallFails \/ StartDecoder
  \/ WhileRunning \/ PollEvents \/ TakeFrame \/ ShowFrame \/ Join \/ Cleanup

-----------------------------------------------------------------------------
(* decode_thread. *)
DecoderOnly == UNCHANGED <<main, setupVars, local_frame, shown, history>>
Goto(pc) == decoder' = pc /\ UNCHANGED <<frame, running, shared>>

Allocate == decoder = "alloc" /\ Goto("while") /\ DecoderOnly

AllocateFails ==
  /\ decoder = "alloc"
  /\ running' = FALSE /\ decoder' = "gone"
  /\ DecoderOnly /\ UNCHANGED <<frame, shared>>

DecoderWhile ==
  /\ decoder = "while" /\ DecoderOnly
  /\ IF running THEN Goto("read") ELSE Goto("stop")

(* av_read_frame fails, or returns a packet of the video or of another     *)
(* stream; rtsp has a timeout (line 152), so that it does return.          *)
ReadFrame ==
  /\ decoder = "read" /\ DecoderOnly
  /\ \/ Goto("stop") \/ Goto("send") \/ Goto("while")

SendPacket ==
  /\ decoder = "send" /\ DecoderOnly
  /\ \/ Goto("receive") \/ Goto("while")

ReceiveFrame ==
  /\ decoder = "receive" /\ running /\ frame < MaxFrames
  /\ frame' = frame + 1 /\ decoder' = "publish"
  /\ DecoderOnly /\ UNCHANGED <<running, shared>>

NoMoreFrames ==   \* EAGAIN, the end, an error, or running is false
  decoder = "receive" /\ Goto("while") /\ DecoderOnly

(* av_frame_ref may fail here too, and what is published is empty then.    *)
Publish ==
  /\ decoder = "publish"
  /\ shared_frame' = frame /\ frame_ready' = TRUE
  /\ spoiled' \in {spoiled, spoiled \cup {frame}}
  /\ decoder' = "receive"
  /\ UNCHANGED <<main, setupVars, local_frame, shown, taken, frame, running>>

(* av_frame_alloc fails for the first frame; its result is used unchecked. *)
PublishToNull ==
  /\ decoder = "publish" /\ shared_frame = 0
  /\ main' = "crashed" /\ decoder' = "gone"
  /\ UNCHANGED <<setupVars, local_frame, shown, history, frame, running, shared>>

(* Mutant of StopRunning: the thread ends without telling main. *)
StopSilently ==
  /\ decoder = "stop"
  /\ decoder' = "gone"
  /\ DecoderOnly /\ UNCHANGED <<frame, running, shared>>

StopRunning ==
  /\ decoder = "stop"
  /\ running' = FALSE /\ decoder' = "gone"
  /\ DecoderOnly /\ UNCHANGED <<frame, shared>>

Decoder ==
  \/ Allocate \/ AllocateFails \/ DecoderWhile \/ ReadFrame \/ SendPacket
  \/ ReceiveFrame \/ NoMoreFrames \/ Publish \/ PublishToNull
  \/ StopRunning

Terminated == main \in {"returned", "crashed"} /\ UNCHANGED vars

Next == Main \/ Decoder \/ Terminated

Spec == Init /\ [][Next]_vars /\ WF_vars(Main) /\ WF_vars(Decoder)

-----------------------------------------------------------------------------
(* Properties. *)

(* While the window is shown, a frame waits for main exactly if the newest *)
(* published one has not been taken, so that no frame is shown twice, none *)
(* after a newer one, and the last one published is not forgotten; and     *)
(* what main has taken it shows, unless a reference could not be made,     *)
(* which nobody notices (pull_ipc.cpp:108-123, 419-479).                   *)
NewestWaits ==
  main \notin {"cleanup", "returned", "crashed"} =>
    /\ frame_ready <=> shared_frame > taken
    /\ shown <= taken /\ local_frame \in {0, taken}
    /\ local_frame = 0 => shown = taken \/ taken \in spoiled
    /\ decoder \in {"while", "read", "send", "receive", "stop", "gone"} => shared_frame = frame

(* The decoding thread has its contexts for as long as it runs, and main   *)
(* returns with nothing held, whichever call failed (lines 154-376,        *)
(* 492-523).                                                               *)
ContextsOutliveDecoder ==
  /\ decoder \notin {"unborn", "gone"} => Codec \subseteq held
  /\ main = "returned" => held = {} /\ decoder \in {"unborn", "gone"}

(* When the thread ends because the stream does, and when the user closes  *)
(* the window, main returns: running is the only word between them (lines  *)
(* 133, 389, 489).  Only a frame that has no memory ends both earlier.     *)
StopsTogether ==
  (~running \/ decoder = "gone") ~> main \in {"returned", "crashed"}
==============================================================================
