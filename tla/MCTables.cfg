SPECIFICATION MCSpec
CONSTANTS
  Words <- WordSet
  Directives <- DirectiveSet
  NumberOf <- Numerals
  RefclockOf <- ClockAddresses
  Lower <- LowerMap
  Files <- FileSet
  Keywords <- KeywordSet
  Pieces <- PieceMap
  Literals <- LiteralSet
  FileWords = {"week"}
  MaxId = 2
  Configured <- ConfiguredSeq
  Given <- GivenSeq
  TrustedIds = {2}
  Contents <- ContentSet
  Generated <- GeneratedSet
  LeapFiles <- LeapFileSet
  Gap = 100
  LastDay = 10
  Smear = 2
  Entries <- EntrySet
  Days <- DaySet
  SizeLimit = 1
  MaxBackup = 4
  SizeBackup = 5
  MaxLines = 8
  Starts <- StartSet
  DaysWalked = 1096
  Clocks <- ClockSet
  Zones <- ZoneSet
  Formats <- FormatSet
  Bad = Bad
  Empty = Empty
INVARIANTS DirectivesAreTheLines AssociationsServed TwoReadingsAgree
INVARIANTS KeysWhole LeapWhole KeptLongEnough CalendarsAgree SentencesAgree
CHECK_DEADLOCK FALSE
