------------------------------- MODULE DemuxFile ------------------------------
(***************************************************************************)
(* library-study/ffmpeg/src/demux_decode.c: the packets of a file's video  *)
(* and audio streams go to a decoder each, and what comes out to a file    *)
(* each.  Either stream may be missing, and its decoder may fail to open   *)
(* before or after its context was allocated.  Every packet is one frame,  *)
(* and frames are numbered in the order in which their decoder returns     *)
(* them.                                                                   *)
(***************************************************************************)
EXTENDS Integers, Sequences

CONSTANTS MaxPackets,   \* bound: packets of the file
          MaxDelay      \* bound: frames that a decoder keeps until it is flushed

Streams == {"video", "audio"}

VARIABLES
  pc, ret, status,
  input,            \* packets not read yet; the stream each belongs to
  stream,           \* the streams that were opened: video_stream, audio_stream
  held,             \* what main has to release
  dec,              \* the decoder that decode_packet works for
  delay, queue, flushed,   \* the decoders
  submitted, written,      \* history: packets sent, frames written
  failed                   \* history: a call has failed, fwrite included

codecVars == <<delay, queue, flushed>>
vars == <<pc, ret, status, input, stream, held, dec, codecVars, submitted, written, failed>>

Init ==
  /\ pc = "open" /\ ret = 0 /\ status = 0
  /\ input \in UNION {[1..n -> Streams \cup {"other"}] : n \in 0..MaxPackets}
  /\ stream = {} /\ held = {} /\ dec = "video"
  /\ delay \in [Streams -> 0..MaxDelay]
  /\ queue = [s \in Streams |-> <<>>] /\ flushed = {}
  /\ submitted = [s \in Streams |-> 0] /\ written = [s \in Streams |-> <<>>]
  /\ failed = FALSE

Context(s) == <<s, "context">>
File(s)    == <<s, "file">>
Image      == <<"video", "image">>
Input      == <<"file", "fmt_ctx">>
Frame      == <<"decoded", "frame">>
Packet     == <<"encoded", "pkt">>

(* exit(1) leaves everything to the system. *)
Quit(place, code) == pc' = place /\ status' = code
Goto(place, r) == pc' = place /\ ret' = r /\ UNCHANGED status

-----------------------------------------------------------------------------
(* Opening. *)
OpenInput ==
  /\ pc = "open"
  /\ \/ Goto("openVideo", ret) /\ held' = {Input}
     \/ Quit("gone", 1) /\ held' \in {held, {Input}} /\ UNCHANGED ret
  /\ UNCHANGED <<input, stream, dec, codecVars, submitted, written, failed>>

(* open_codec_context fails: no such stream, no memory for the context, or *)
(* a context that cannot be set up and stays.  The stream is left out.     *)
OpenFails(s, next) ==
  /\ \/ held' = held
     \/ held' = held \cup {Context(s)}
  /\ Goto(next, ret)
  /\ UNCHANGED stream

(* There is no decoder: its name is printed before that is looked at.      *)
NoDecoder ==
  /\ pc' = "crashed"
  /\ UNCHANGED <<ret, status, held, stream>>

(* The file to write cannot be opened (ret = 1) or there is no memory for  *)
(* the image (an error): main gives up.                                    *)
OpenVideo ==
  /\ pc = "openVideo"
  /\ \/ OpenFails("video", "openAudio")
     \/ NoDecoder
     \/ /\ held' = held \cup {Context("video")}
        /\ stream' = {"video"} /\ Goto("end", 1)
     \/ /\ held' = held \cup {Context("video"), File("video")}
        /\ stream' = {"video"} /\ Goto("end", -1)
     \/ /\ held' = held \cup {Context("video"), File("video"), Image}
        /\ stream' = {"video"} /\ Goto("openAudio", 2)
  /\ UNCHANGED <<input, dec, codecVars, submitted, written, failed>>

OpenAudio ==
  /\ pc = "openAudio"
  /\ \/ OpenFails("audio", "allocate")
     \/ NoDecoder
     \/ /\ held' = held \cup {Context("audio")}
        /\ stream' = stream \cup {"audio"} /\ Goto("end", 1)
     \/ /\ held' = held \cup {Context("audio"), File("audio")}
        /\ stream' = stream \cup {"audio"} /\ Goto("allocate", ret)
  /\ UNCHANGED <<input, dec, codecVars, submitted, written, failed>>

(* No stream at all, or no memory for the frame or the packet. *)
Allocate ==
  /\ pc = "allocate"
  /\ \/ stream = {} /\ Goto("end", 1) /\ UNCHANGED held
     \/ stream # {} /\ Goto("end", -1) /\ held' \in {held, held \cup {Frame}}
     \/ stream # {} /\ Goto("read", ret) /\ held' = held \cup {Frame, Packet}
  /\ UNCHANGED <<input, stream, dec, codecVars, submitted, written, failed>>

-----------------------------------------------------------------------------
(* Reading and decoding. *)
ReadPacket ==
  /\ pc = "read" /\ input # <<>>
  /\ input' = Tail(input)
  /\ IF Head(input) \in stream
       THEN dec' = Head(input) /\ Goto("send", ret)
       ELSE Goto("read", ret) /\ UNCHANGED dec
  /\ UNCHANGED <<stream, held, codecVars, submitted, written, failed>>

(* The end of the file, or an error of av_read_frame, which looks alike.   *)
ReadEnds ==
  /\ pc = "read" /\ input = <<>>
  /\ Goto("flushVideo", ret)
  /\ UNCHANGED <<input, stream, held, dec, codecVars, submitted, written, failed>>

FrameReady(s) == Len(queue[s]) > delay[s] \/ (s \in flushed /\ queue[s] # <<>>)

(* After decode_packet: the loop goes on, breaks on an error, or this was  *)
(* the flush of one of the decoders, whose result nobody looks at.         *)
After(r) ==
  IF dec \notin flushed THEN Goto(IF r < 0 THEN "flushVideo" ELSE "read", r)
  ELSE Goto(IF dec = "video" THEN "flushAudio" ELSE "describe", ret)

Send ==
  /\ pc = "send"
  /\ \/ /\ ~FrameReady(dec)
        /\ submitted' = [submitted EXCEPT ![dec] = @ + 1]
        /\ queue' = [queue EXCEPT ![dec] = Append(@, submitted'[dec])]
        /\ Goto("receive", ret)
        /\ UNCHANGED failed
     \/ After(-1) /\ failed' = TRUE /\ UNCHANGED <<queue, submitted>>
  /\ UNCHANGED <<input, stream, held, dec, delay, flushed, written>>

(* Mutant of Receive: one frame for each packet, `if' instead of `while'. *)
ReceiveOne ==
  /\ pc = "receive" /\ FrameReady(dec)
  /\ queue' = [queue EXCEPT ![dec] = Tail(@)]
  /\ written' = [written EXCEPT ![dec] = Append(@, Head(queue[dec]))]
  /\ After(0)
  /\ UNCHANGED <<input, stream, held, dec, delay, flushed, submitted, failed>>

(* output_video_frame refuses a frame of another size: ret = -1.  That     *)
(* fwrite fails is not noticed for either stream.                          *)
Receive ==
  /\ pc = "receive" /\ FrameReady(dec)
  /\ queue' = [queue EXCEPT ![dec] = Tail(@)]
  /\ \/ /\ written' = [written EXCEPT ![dec] = Append(@, Head(queue[dec]))]
        /\ UNCHANGED <<pc, ret, status, failed>>
     \/ failed' = TRUE /\ UNCHANGED <<pc, ret, status, written>>
     \/ dec = "video" /\ After(-1) /\ failed' = TRUE /\ UNCHANGED written
  /\ UNCHANGED <<input, stream, held, dec, delay, flushed, submitted>>

ReceiveFails ==
  /\ pc = "receive" /\ FrameReady(dec)
  /\ After(-1)
  /\ UNCHANGED <<input, stream, held, dec, codecVars, submitted, written>>
  /\ failed' = TRUE

NothingReady ==
  /\ pc = "receive" /\ ~FrameReady(dec)
  /\ After(0)
  /\ UNCHANGED <<input, stream, held, dec, codecVars, submitted, written, failed>>

(* A decoder is flushed if it has a context; one that was never opened     *)
(* refuses, and that is not looked at.                                     *)
FlushDecoder(s, place, next) ==
  /\ pc = place
  /\ IF Context(s) \in held /\ s \in stream
       THEN /\ dec' = s /\ flushed' = flushed \cup {s}
            /\ Goto("receive", ret)
       ELSE Goto(next, ret) /\ UNCHANGED <<dec, flushed>>
  /\ UNCHANGED <<input, stream, held, delay, queue, submitted, written, failed>>

FlushVideo == FlushDecoder("video", "flushVideo", "flushAudio")
FlushAudio == FlushDecoder("audio", "flushAudio", "describe")

(* With audio, ret becomes that of the description: 0, or an error if the  *)
(* format has no name.                                                     *)
Describe ==
  /\ pc = "describe"
  /\ IF "audio" \in stream THEN \E r \in {0, -1} : Goto("end", r) ELSE Goto("end", ret)
  /\ UNCHANGED <<input, stream, held, dec, codecVars, submitted, written, failed>>

(* Mutant of End: without the first two lines behind the label. *)
EndKeepsContexts ==
  /\ pc = "end"
  /\ held' = held \ ({Input, Packet, Frame, Image} \cup {File(s) : s \in Streams})
  /\ Quit("exit", IF ret < 0 THEN 1 ELSE 0) /\ UNCHANGED ret
  /\ UNCHANGED <<input, stream, dec, codecVars, submitted, written, failed>>

End ==
  /\ pc = "end"
  /\ held' = held \ ({Input, Packet, Frame, Image}
                     \cup {Context(s) : s \in Streams} \cup {File(s) : s \in Streams})
  /\ Quit("exit", IF ret < 0 THEN 1 ELSE 0) /\ UNCHANGED ret
  /\ UNCHANGED <<input, stream, dec, codecVars, submitted, written, failed>>

Next ==
  \/ OpenInput \/ OpenVideo \/ OpenAudio \/ Allocate
  \/ ReadPacket \/ ReadEnds \/ Send \/ Receive \/ ReceiveFails \/ NothingReady
  \/ FlushVideo \/ FlushAudio \/ Describe \/ End

Spec == Init /\ [][Next]_vars

-----------------------------------------------------------------------------
(* Unless a call or a write fails, every packet of an opened stream        *)
(* becomes a frame of its file, in order and in the right file; and no     *)
(* frame is written twice or out of order when one does                    *)
(* (demux_decode.c:50-129, 331-349).                                       *)
EveryFrameDemuxed ==
  \A s \in Streams :
    /\ \A j, k \in DOMAIN written[s] : j < k => written[s][j] < written[s][k]
    /\ pc = "exit" /\ ~failed => written[s] = [k \in 1..submitted[s] |-> k]

(* Whatever was acquired when main jumps to its end is released there,     *)
(* contexts of streams that could not be opened included (lines 134-177,   *)
(* 387-400).                                                               *)
ReleasesAll == pc = "exit" => held = {}
==============================================================================
