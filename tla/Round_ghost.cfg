SPECIFICATION Spec
CONSTANTS
  Player = {1, 2}
  Teams = 2
  TeamSize = 1
  MinPlayers = 2
  Countdown = 1
  RespawnDelay = 1
INVARIANT MembersPresent
