SPECIFICATION MarketingSpec
CONSTANTS
  Accounts = {"a", "b"}
  Texts = {"t"}
  Logos <- MCLogos
  Absent = Absent
  Blank = Blank
  SizeCap = 5
INVARIANT LogoAsAnnounced
CHECK_DEADLOCK FALSE
