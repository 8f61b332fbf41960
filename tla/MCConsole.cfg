CONSTANTS
  Printable <- MCPrintable
  Size <- MCSize
  Prompt = 2
  VGA_WIDTH = 6
  VGA_HEIGHT = 2
  Memory = 6
  Letters = {3, 4}
  MAX_ARGS = 2
  Bits = 4
  Cells = 13
  MaxWidth = 4
  Formats <- MCFormats
SPECIFICATION MCSpec
INVARIANTS
  ScreenShowsLine
  StringsAgree
  WordsFound
  
  StubKeepsCaller
PROPERTIES
  EditsAtCursor
