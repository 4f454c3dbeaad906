\* Sequences of frames, with any number of their bytes read by the handshake.
\* The reader stops at a close, an error, or when nothing more comes.
SPECIFICATION FramesSpec
CONSTANTS
  Streams <- MCStreams
  MaxMessageSize = 4
  Word = 24
INVARIANTS
  FramesTypeOK
  ReadsInStep
  MessagesAsSent
CHECK_DEADLOCK FALSE
