SPECIFICATION FairSpec
CONSTANTS
  Freqs = {2, 3, 1024}
  Keys = {29, 30, 42, 46, 54, 56, 58, 60}
  ClockKeys = {29, 46}
  MaxHeld = 2
INVARIANTS TypeOK GateForInterrupt ModifiersFollowKeys
PROPERTIES KeysHandled RtcReadReturns RateProgrammed LettersTyped
