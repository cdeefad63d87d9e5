------------------------------ MODULE DecodeFiles -----------------------------
(***************************************************************************)
(* library-study/ffmpeg/src/decode_video.c and decode_audio.c: read a file *)
(* of compressed data through a buffer, cut it into packets with a parser, *)
(* decode them and write the frames.  The variable style says which.       *)
(*                                                                         *)
(* The file is Packets packets of PacketSize bytes, one frame each; frames *)
(* are numbered in the order in which the decoder returns them.  It keeps  *)
(* up to delay frames to itself until it is flushed and, as its            *)
(* documentation allows, takes no packet while a frame is ready.           *)
(***************************************************************************)
EXTENDS Naturals, Sequences

CONSTANTS Packets, PacketSize,
          INBUF_SIZE,    \* of either program's buffer
          REFILL_THRESH, \* AUDIO_REFILL_THRESH
          MaxDelay       \* bound: frames that a decoder may keep

VARIABLES
  style, pc, step, status,    \* status: what main returns or exit is given
  file, data_size, eof,       \* bytes unread and bytes in the buffer
  parsed, given,              \* the parser: bytes taken, packets handed out
  delay, queue, flushed,      \* the decoder: the frames that are in it
  saved,                      \* the frames written
  ioError                     \* history: reading the input or writing a frame has failed

inputVars == <<file, data_size, eof>>
codecVars == <<queue, flushed>>
vars == <<style, pc, step, status, inputVars, parsed, given, delay, codecVars, saved, ioError>>

(* The calls before the first read, each of which may fail. *)
VideoCalls == <<"fopen log", "av_packet_alloc", "avcodec_find_decoder", "av_parser_init",
                "avcodec_alloc_context3", "avcodec_open2", "fopen input", "av_frame_alloc">>
AudioCalls == <<"fopen log", "av_packet_alloc", "avcodec_find_decoder", "av_parser_init",
                "avcodec_alloc_context3", "avcodec_open2", "fopen input", "fopen output">>
Calls == IF style = "video" THEN VideoCalls ELSE AudioCalls

Init ==
  /\ style \in {"video", "audio"} /\ delay \in 0..MaxDelay
  /\ pc = "setup" /\ step = 1 /\ status = 0
  /\ file = Packets * PacketSize /\ data_size = 0 /\ eof = FALSE
  /\ parsed = 0 /\ given = 0 /\ queue = <<>> /\ flushed = FALSE
  /\ saved = <<>> /\ ioError = FALSE

Exit(code) == pc' = "exit" /\ status' = code

Setup ==
  /\ pc = "setup"
  /\ \/ step < Len(Calls) /\ step' = step + 1 /\ UNCHANGED <<pc, status>>
     \/ step = Len(Calls) /\ pc' = "fread" /\ UNCHANGED <<step, status>>
     \/ Exit(1) /\ UNCHANGED step
  /\ UNCHANGED <<style, inputVars, parsed, given, delay, codecVars, saved, ioError>>

-----------------------------------------------------------------------------
Least(m, n) == IF m < n THEN m ELSE n

Take(n) == file' = file - n /\ data_size' = data_size + n

(* decode_video reads when the buffer is used up, and knows the end by a   *)
(* read of nothing; decode_audio's first read.                             *)
Fread ==
  /\ pc = "fread"
  /\ Take(Least(INBUF_SIZE, file))
  /\ eof' = (style = "video" /\ file = 0)
  /\ pc' = "parse"
  /\ UNCHANGED <<style, step, status, parsed, given, delay, codecVars, saved, ioError>>

(* Only decode_video asks ferror, and stops reading then.  To decode_audio *)
(* an error is a short read like that at the end of the file.              *)
FreadFails ==
  /\ ioError' = TRUE
  /\ \/ /\ style = "video" /\ pc = "fread" /\ pc' = "flush"
        /\ UNCHANGED inputVars
     \/ /\ style = "audio" /\ (pc = "fread" \/ (pc = "refill" /\ data_size < REFILL_THRESH))
        /\ \E n \in 0..Least(INBUF_SIZE - data_size, file) : Take(n)
        /\ pc' = "parse"
        /\ UNCHANGED eof
  /\ UNCHANGED <<style, step, status, parsed, given, delay, codecVars, saved>>

(* Mutant of Refill: what is left in the buffer is overwritten. *)
RefillOver ==
  /\ pc = "refill"
  /\ IF data_size < REFILL_THRESH
       THEN /\ file' = file - Least(INBUF_SIZE, file)
            /\ data_size' = Least(INBUF_SIZE, file)
       ELSE UNCHANGED <<file, data_size>>
  /\ pc' = "parse"
  /\ UNCHANGED <<style, step, status, eof, parsed, given, delay, codecVars, saved, ioError>>

(* decode_audio moves what is left to the front and reads behind it. *)
Refill ==
  /\ pc = "refill"
  /\ IF data_size < REFILL_THRESH
       THEN Take(Least(INBUF_SIZE - data_size, file))
       ELSE UNCHANGED <<file, data_size>>
  /\ pc' = "parse"
  /\ UNCHANGED <<style, step, status, eof, parsed, given, delay, codecVars, saved, ioError>>

-----------------------------------------------------------------------------
(* av_parser_parse2: it takes bytes of one packet, and hands the packet    *)
(* out as soon as it knows its end: an audio packet's header has its size, *)
(* a video packet ends where the next one or the stream does.              *)
Missing == (given + 1) * PacketSize - parsed

Complete ==
  IF style = "audio" THEN data_size >= Missing
  ELSE data_size > Missing \/ (data_size = 0 /\ Missing < PacketSize)

ParserTakes(n) == parsed' = parsed + n /\ data_size' = data_size - n

Parse ==
  /\ pc = "parse" /\ (data_size > 0 \/ eof)
  /\ ParserTakes(Least(data_size, Missing))
  /\ IF Complete
       THEN given' = given + 1 /\ pc' = "send"
       ELSE /\ UNCHANGED given
            /\ pc' = IF style = "audio" THEN "refill" ELSE IF eof THEN "flush" ELSE "parse"
  /\ UNCHANGED <<style, step, status, file, eof, delay, codecVars, saved, ioError>>

ParseFails ==
  /\ pc = "parse" /\ (data_size > 0 \/ eof)
  /\ Exit(1)
  /\ UNCHANGED <<style, step, inputVars, parsed, given, delay, codecVars, saved, ioError>>

(* The buffer is used up: read on, or (decode_audio) flush the decoder. *)
LoopEnds ==
  /\ pc = "parse" /\ data_size = 0 /\ ~eof
  /\ pc' = IF style = "video" THEN "fread" ELSE "flush"
  /\ UNCHANGED <<style, step, status, inputVars, parsed, given, delay, codecVars, saved, ioError>>

-----------------------------------------------------------------------------
(* decode. *)
FrameReady == Len(queue) > delay \/ (flushed /\ queue # <<>>)

SendPacket ==
  /\ pc = "send"
  /\ \/ ~FrameReady /\ queue' = Append(queue, given) /\ pc' = "receive" /\ UNCHANGED status
     \/ Exit(1) /\ UNCHANGED queue
  /\ UNCHANGED <<style, step, inputVars, parsed, given, delay, flushed, saved, ioError>>

Flush ==
  /\ pc = "flush"
  /\ flushed' = TRUE /\ pc' = "receive"
  /\ UNCHANGED <<style, step, status, inputVars, parsed, given, delay, queue, saved, ioError>>

(* pgm_save, or the samples of all channels in turn: one frame. *)
ReceiveFrame ==
  /\ pc = "receive" /\ FrameReady
  /\ \/ saved' = Append(saved, Head(queue)) /\ queue' = Tail(queue) /\ UNCHANGED <<pc, status>>
     \/ Exit(1) /\ UNCHANGED <<queue, saved>>
  /\ UNCHANGED <<style, step, inputVars, parsed, given, delay, flushed, ioError>>

(* pgm_save cannot open its file, or fwrite fails, whose result neither    *)
(* program looks at: decoding goes on.                                     *)
FrameLost ==
  /\ pc = "receive" /\ FrameReady
  /\ queue' = Tail(queue) /\ ioError' = TRUE
  /\ UNCHANGED <<style, pc, step, status, inputVars, parsed, given, delay, flushed, saved>>

NoFrameReady ==
  /\ pc = "receive" /\ ~FrameReady
  /\ IF flushed THEN Exit(0)
     ELSE pc' = (IF style = "audio" THEN "refill" ELSE "parse") /\ UNCHANGED status
  /\ UNCHANGED <<style, step, inputVars, parsed, given, delay, codecVars, saved, ioError>>

Next ==
  \/ Setup \/ Fread \/ FreadFails \/ Refill \/ Parse \/ ParseFails \/ LoopEnds
  \/ SendPacket \/ Flush \/ ReceiveFrame \/ FrameLost \/ NoFrameReady

Spec == Init /\ [][Next]_vars

-----------------------------------------------------------------------------
(* Unless reading the input or writing a frame has failed, which neither   *)
(* program reports, one that reports success has written every frame of    *)
(* the file, in order: the bytes are neither lost nor read twice at the    *)
(* end of a buffer, the last packet leaves the parser and the last frames  *)
(* the decoder.  No frame is written twice or late in any case             *)
(* (decode_video.c:34-50, 153-187, decode_audio.c:103-113, 195-242).       *)
EveryFrameSaved ==
  /\ \A j, k \in DOMAIN saved : j < k => saved[j] < saved[k]
  /\ pc = "exit" /\ status = 0 /\ ~ioError => saved = [k \in 1..Packets |-> k]
==============================================================================
