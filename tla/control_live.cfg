CONSTANTS
  x = x
  y = y
  z = z
  loader = loader
  other = other
  adder = adder
  dropper = dropper
  shuffler = shuffler
  flusher = flusher
  None = None
  Song = {x, y, z}
  Client = {other, adder, dropper, shuffler}
  Verb <- Verbs
  Files <- ShortFiles
  Mark <- Marks
  Resolvable = {x, y}
  fd4 = fd4
  fd5 = fd5
  Fd = {fd4, fd5}
SPECIFICATION FairSpec
PROPERTIES Answered LockReleased ListensAgain
CHECK_DEADLOCK FALSE
