SPECIFICATION ScreenSpec
CONSTANTS
  BUFF_SIZE = 5
  ReadSize = 3
  Chars = {"a", "b"}
  Limits = {"length", "room", "lastcell", "erase"}
  Rows = 2
  Cols = 2
  Width = 8
  Texts <- MCTexts
  Messages <- MCMessages
INVARIANTS
  TypeOK
  CountMatchesRing
  EchoShowsLine
  NumbersReadBack
PROPERTIES
  ImplementsLineQueue
  StatusApart
  TextMovesUpWhole
