CONSTANTS
  None = None
  Blank = Blank
  Junk = Junk
  Forms = {"add", "repair"}
  Urls = {"u1", "u2"}
  Locales = {"en", "de"}
  Bodies = {"offer", "bundle"}
  Expressions = {"css", "path"}
  Prices = {1, 2}
  ModeOf <- MCModeOf
  Automatic <- MCAutomatic
  Reads <- MCReads
  MaxEdits = 5
SPECIFICATION Spec
CHECK_DEADLOCK FALSE
INVARIANTS   PinReadsTyped
PROPERTY AnswersInTheEnd
