------------------------------- MODULE MCSamples -----------------------------
(***************************************************************************)
(* The programs that study something on its own: the producers and         *)
(* consumers of cpp/thread (ProducerConsumer); of library-study/ffmpeg,    *)
(* the stream puller (StreamPuller), the decoders of compressed files      *)
(* (DecodeFiles), the demultiplexer (DemuxFile) and the encoders           *)
(* (EncodeFiles); and the classes of algorithm/ (Collections).  The        *)
(* variable program says which one a behaviour runs; the others keep       *)
(* still.                                                                  *)
(***************************************************************************)
EXTENDS Integers, Sequences, FiniteSets

CONSTANTS Producers, Consumers, Quota, Capacity, Values,
          MaxFrames,
          Packets, PacketSize, INBUF_SIZE, REFILL_THRESH, DecodeDelay,
          MaxPackets, DemuxDelay,
          Frames, EncodeDelay,
          Numbers, MaxHeld, MaxHour, Rooms, MaxIntervals

ASSUME ThreadsAssumption ==
  /\ Producers \cap Consumers = {}
  /\ IsFiniteSet(Producers) /\ IsFiniteSet(Consumers)
ASSUME CapacityAssumption == Capacity \in Int
ASSUME QuotaAssumption == Quota \in [Producers \cup Consumers -> Nat]
ASSUME BufferAssumption ==
  /\ Packets \in Nat /\ PacketSize \in Nat /\ PacketSize > 0
  /\ INBUF_SIZE \in Nat /\ REFILL_THRESH \in 1..INBUF_SIZE
ASSUME CodecAssumption ==
  /\ DecodeDelay \in Nat /\ DemuxDelay \in Nat /\ EncodeDelay \in Nat
  /\ MaxPackets \in Nat /\ Frames \in Nat
ASSUME ObjectsAssumption ==
  Numbers \subseteq Int /\ MaxHeld \in Nat /\ MaxHour \in Nat /\ Rooms \subseteq Nat

(* Two producers of three numbers each, three consumers of two. *)
MCProducers == {"producer", "producer2"}
MCConsumers == {"consumer", "consumer2", "consumer3"}
MCQuota == [t \in MCProducers \cup MCConsumers |-> IF t \in MCProducers THEN 3 ELSE 2]

VARIABLES program
VARIABLES slots, g_counter, left, state
VARIABLES main, step, held, decoder, frame, running, shared_frame, frame_ready,
          local_frame, shown, taken, spoiled
VARIABLES dStyle, dPc, dStep, dStatus, file, data_size, eof, parsed, given,
          dDelay, dQueue, dFlushed, saved, ioError
VARIABLES xPc, ret, xStatus, input, stream, xHeld, dec, xDelay, xQueue, xFlushed,
          submitted, xWritten, failed
VARIABLES eStyle, ePc, eStep, eStatus, eHeld, broken, available, count, buffer,
          image, eDelay, eQueue, eFlushed, overtaken, eWritten
VARIABLES class, heap, linked, val, booked, size, seats, pq, seating,
          ideal, returned, expected

Slot   == INSTANCE ProducerConsumer
Puller == INSTANCE StreamPuller

Decode == INSTANCE DecodeFiles WITH
  MaxDelay <- DecodeDelay, style <- dStyle, pc <- dPc, step <- dStep,
  status <- dStatus, delay <- dDelay, queue <- dQueue, flushed <- dFlushed

Demux == INSTANCE DemuxFile WITH
  MaxDelay <- DemuxDelay, pc <- xPc, status <- xStatus, held <- xHeld,
  delay <- xDelay, queue <- xQueue, flushed <- xFlushed, written <- xWritten

Encode == INSTANCE EncodeFiles WITH
  MaxDelay <- EncodeDelay, style <- eStyle, pc <- ePc, step <- eStep,
  status <- eStatus, held <- eHeld, delay <- eDelay, queue <- eQueue,
  flushed <- eFlushed, written <- eWritten

Object == INSTANCE Collections WITH
  MaxLen <- MaxHeld, MaxTime <- MaxHour, next <- linked

slotVars   == <<slots, g_counter, left, state>>
pullerVars == <<main, step, held, decoder, frame, running, shared_frame, frame_ready,
                local_frame, shown, taken, spoiled>>
decodeVars == <<dStyle, dPc, dStep, dStatus, file, data_size, eof, parsed, given,
                dDelay, dQueue, dFlushed, saved, ioError>>
demuxVars  == <<xPc, ret, xStatus, input, stream, xHeld, dec, xDelay, xQueue, xFlushed,
                submitted, xWritten, failed>>
encodeVars == <<eStyle, ePc, eStep, eStatus, eHeld, broken, available, count, buffer,
                image, eDelay, eQueue, eFlushed, overtaken, eWritten>>
objectVars == <<class, heap, linked, val, booked, size, seats, pq, seating,
                ideal, returned, expected>>
vars == <<program, slotVars, pullerVars, decodeVars, demuxVars, encodeVars, objectVars>>

(* The inputs of the programs that do not run are the smallest ones. *)
Init ==
  /\ program \in {"slot", "puller", "decode", "demux", "encode", "object"}
  /\ Slot!Init /\ Puller!Init /\ Decode!Init /\ Demux!Init /\ Encode!Init
  /\ program # "decode" => dStyle = "video" /\ dDelay = 0
  /\ program # "demux" => input = <<>> /\ xDelay = [s \in Demux!Streams |-> 0]
  /\ program # "encode" => eStyle = "video" /\ available = 0 /\ eDelay = 0
  /\ program # "object" => class = "list"
  /\ Object!Init

InSlot(A) ==
  /\ program = "slot" /\ A
  /\ UNCHANGED <<program, pullerVars, decodeVars, demuxVars, encodeVars, objectVars>>
InPuller(A) ==
  /\ program = "puller" /\ A
  /\ UNCHANGED <<program, slotVars, decodeVars, demuxVars, encodeVars, objectVars>>
InDecode(A) ==
  /\ program = "decode" /\ A
  /\ UNCHANGED <<program, slotVars, pullerVars, demuxVars, encodeVars, objectVars>>
InDemux(A) ==
  /\ program = "demux" /\ A
  /\ UNCHANGED <<program, slotVars, pullerVars, decodeVars, encodeVars, objectVars>>
InEncode(A) ==
  /\ program = "encode" /\ A
  /\ UNCHANGED <<program, slotVars, pullerVars, decodeVars, demuxVars, objectVars>>

InObject(A) ==
  /\ program = "object" /\ A
  /\ UNCHANGED <<program, slotVars, pullerVars, decodeVars, demuxVars, encodeVars>>

(* A program of one thread that has ended. *)
Ended ==
  /\ CASE program = "decode" -> dPc = "exit"
       [] program = "demux"  -> xPc \in {"exit", "gone", "crashed"}
       [] program = "encode" -> ePc = "exit"
       [] OTHER              -> FALSE
  /\ UNCHANGED vars

Next ==
  \/ InSlot(Slot!Next)
  \/ InPuller(Puller!Next)
  \/ InDecode(Decode!Next)
  \/ InDemux(Demux!Next)
  \/ InEncode(Encode!Next)
  \/ InObject(Object!Next)
  \/ Ended

(* The fairness of the programs with threads: that of their specifications. *)
SlotFairness ==
  /\ \A p \in Producers : SF_vars(InSlot(Slot!Produce(p))) /\ WF_vars(InSlot(Slot!ProducerSleeps(p)))
  /\ \A c \in Consumers : SF_vars(InSlot(Slot!Consume(c))) /\ WF_vars(InSlot(Slot!ConsumerSleeps(c)))
  /\ \A t \in Producers \cup Consumers : WF_vars(InSlot(Slot!Join(t)))

PullerFairness == WF_vars(InPuller(Puller!Main)) /\ WF_vars(InPuller(Puller!Decoder))

FairSpec == Init /\ [][Next]_vars /\ SlotFairness /\ PullerFairness

-----------------------------------------------------------------------------
(* Single notifications are enough on both conditions of the slots         *)
(* (5_producer_consumer.cpp:41, 61).                                       *)
WakeupsSuffice == Slot!WakeupsSuffice

(* A frame waits for main exactly if the newest published one has not been *)
(* taken, and what was taken is shown unless a reference could not be made *)
(* (pull_ipc.cpp:108-123, 419-479).                                        *)
NewestWaits == Puller!NewestWaits

(* The decoding thread has its contexts as long as it runs, and main       *)
(* returns with nothing held (pull_ipc.cpp:154-376, 492-523).              *)
ContextsOutliveDecoder == Puller!ContextsOutliveDecoder

(* Every producer and consumer ends, and g_counter is empty then           *)
(* (5_producer_consumer.cpp:92-101); neither thread of the puller outlives *)
(* the other for long, though a frame without memory ends both by a crash  *)
(* (pull_ipc.cpp:113, 133, 389, 489).                                      *)
ThreadsEnd ==
  /\ program = "slot"   => Slot!EveryoneJoins
  /\ program = "puller" => Puller!StopsTogether

(* Whatever the ends of buffers, packets and delays of a codec, a program  *)
(* that reports success has written every frame, unless reading or writing *)
(* a file failed unnoticed; and no frame is written twice, or out of order *)
(* but for a B frame behind the one that follows it                        *)
(* (decode_video.c:34-50, 153-187, decode_audio.c:103-113, 195-242,        *)
(* demux_decode.c:50-129, 331-349, encode_video.c:54-76, 151, 189-247).    *)
EveryFrameWritten ==
  Decode!EveryFrameSaved /\ Demux!EveryFrameDemuxed /\ Encode!EveryFrameEncoded

(* Whichever call fails, demux_decode releases what it has acquired by the *)
(* time it jumps to its end, and read_one_video_frame what it has acquired *)
(* (demux_decode.c:134-177, 387-400; read_one_video_frame.c:27-307).       *)
ReleasesAll == Demux!ReleasesAll /\ Encode!ReleasesAll

(* An object of algorithm/ holds what it should and answers as it should,  *)
(* whatever was called before, and only deleteAtIndex of an empty list,    *)
(* with an index above 0, follows a null pointer                           *)
(* (min_heap_array_impl.cpp:4-108, 707.cpp:13-84, 72, 729.cpp:52-65,       *)
(* 855.cpp:32-72).                                                         *)
ObjectsAgree == Object!ObjectsAgree
==============================================================================
