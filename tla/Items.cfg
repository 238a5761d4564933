SPECIFICATION Spec
CONSTANTS
  Calls = {c1, c2}
  Custom = {c2}
  NoCall = NoCall
  Interleaved = FALSE
  MaxEvents = 6
INVARIANT CallsWhole
INVARIANT WellBracketed
 
INVARIANT FinalIsStreamed
INVARIANT TransportsAgree
\* Every behaviour ends with the response.
CHECK_DEADLOCK FALSE
