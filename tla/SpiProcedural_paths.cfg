\* Lengths below, at and above one and two chunks; a reply that is too long or negative.
SPECIFICATION Spec
CONSTANTS
  Chunk = 2
  MaxData = 5
  Lengths = {1, 2, 3, 5}
  Replies <- BoardSays
INVARIANTS MemoryAccounted BoardReleased SuccessIsComplete
CHECK_DEADLOCK FALSE
