SPECIFICATION FairSpec
CONSTANTS
  PacketBytes = 3
  SamplesPerPacket = 1
  SeqModulus = 3
  TsModulus = 2
  ChunkSizes = {1, 3, 7}
  MaxBytes = 8
INVARIANTS
  TypeOK
  QueueIsContiguous
  BargeInDropsAudio
PROPERTIES
  PacketsContinue
  HeadMoves
