\* Two producers and three consumers for two slots, more threads on either side
\* than slots; three frames of the stream; packets that end inside a buffer and
\* buffers that end inside a packet, codecs that keep up to two frames;
\* heaps and lists of four numbers, a day of five hours, rooms of up to seven seats.
CONSTANTS
  Producers <- MCProducers
  Consumers <- MCConsumers
  Quota <- MCQuota
  Capacity = 2
  Values = {0, 1}
  MaxFrames = 3
  Packets = 4
  PacketSize = 3
  INBUF_SIZE = 5
  REFILL_THRESH = 3
  DecodeDelay = 2
  MaxPackets = 3
  DemuxDelay = 2
  Frames = 4
  EncodeDelay = 2
  Numbers = {1, 2, 3}
  MaxHeld = 4
  MaxHour = 5
  Rooms = {1, 4, 5, 6, 7}
  MaxIntervals = 6
SPECIFICATION FairSpec
INVARIANTS
  WakeupsSuffice
  NewestWaits
  ContextsOutliveDecoder
  EveryFrameWritten
  ReleasesAll
  ObjectsAgree
PROPERTY
  ThreadsEnd
