SPECIFICATION Spec
CONSTANTS
  Threads = {pnp, c1, c2}
  Pnp = pnp
  Readers = {r1}
  Waiting = 2
  Limit = 1
INVARIANTS
  BufferHasOneUser
