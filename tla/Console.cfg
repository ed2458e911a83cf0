SPECIFICATION Spec
CONSTANTS
  SCREEN_LENGTH = 3
  SCREEN_HEIGHT = 2
  TAB_SZ = 2
  Printable <- MCPrintable
  MaxChars = 6
  CPUs = {c1, c2, c3}
  Letters = 2
  FIFO_SZ = 3
  POLLS = 1
  MEM = 5
  Bytes = {0, 65, 200}
  WORD = 256
  Widths = {0, 2, 5, 10}
INVARIANTS
  ScreenShowsLastRows
  SentIsTransmitted
  StringsAreExact
  FormatsArePrinted
PROPERTIES
  PrintingEnds
