CONSTANTS
  x = x
  y = y
  z = z
  loader = loader
  other = other
  adder = adder
  dropper = dropper
  shuffler = shuffler
  flusher = flusher
  None = None
  Song = {x, y, z}
  Client = {loader, other, adder, flusher}
  Verb <- Verbs
  Files <- SomeFiles
  Mark <- Marks
  Resolvable = {x, y}
  fd4 = fd4
  fd5 = fd5
  Fd = {fd4, fd5}
SYMMETRY Descriptors
SPECIFICATION Spec
INVARIANTS ControlTypeOK LockIsOwned AnswersAreTrue
PROPERTY Atomic
CHECK_DEADLOCK FALSE
