SPECIFICATION PlaybackSpec
CONSTANTS
  sender = sender
  receiver = receiver
  short = short
  long = long
  nofile = nofile
  Players <- MCPlayers
  Sender = sender
  MaxCommands = 2
  Files <- MCFiles
  Length <- MCLength
  NoFile = nofile
  MaxChanges = 1
CHECK_DEADLOCK FALSE
INVARIANTS
  CloseWaitsForThread
