SPECIFICATION FairSpec
CONSTANTS
  Inits = {i1}
  Registers = {r1}
  Uses = {u1, u2}
  Shutdowns = {s1}
  Goroutines = {g1}
  None = None
  Unread = Unread
PROPERTIES
  EveryCallAnswered
