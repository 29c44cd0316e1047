SPECIFICATION FairSpec
CONSTANTS
  Top = 5
  Digest <- MCDigest
  Genesis <- MCGenesis
  Mmr = {1, 2, 3, 4, 5}
  Validator <- MCValidator
  Self = "self"
  Wrong = {"w"}
  MinDelta = 1
  Starts = {0, 5}
  VotedFor = {3, 5}
  MaxMessages = 2
  MaxFaults = 1
INVARIANTS
  JustificationsProven
  SessionsExact
  
PROPERTIES
  MandatoryKept
  MandatoryFinalized
