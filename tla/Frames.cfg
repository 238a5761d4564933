SPECIFICATION MCSpec
CONSTANTS
  Payloads <- SomePayloads
  Corrupt = Corrupt
  Inflate <- SomeInflate
  Unparsable <- SomeUnparsable
  TrailerSays <- SomeTrailers
  MaxFrames = 3
INVARIANT InTime
PROPERTY Promise
PROPERTY Ends
