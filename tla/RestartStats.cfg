SPECIFICATION Spec
CONSTANTS
  Types = {"CALL_INLINE_ASM", "PAGE_FAULT", "TIMER"}
  Ips = {i1, i2, i3, i4}
  NumIps = 3
  MaxRestarts = 7
INVARIANTS
  TypeOK ListCorrect CountersAgree
