SPECIFICATION DataSpec
CONSTANTS
  MaxNesting = 2
  StackBits = 2
  HexDigits = 1
  Chunk = 7
  Bits32 = 4
  Bits64 = 6
  Capacity = 10
  MaxEdited = 6
  Int32Size = 2
  DoubleSize = 4
  Unit = 100
  Strings <- MCStrings
  Names <- MCNames
  Ints <- MCInts
  Doubles <- MCDoubles
  Texts <- MCTexts
  Symbols <- MCSymbols
  Numerals <- MCNumerals
  Nodes = {1, 2, 3, 4}
  Nil = 0
  PairRemovals = FALSE
  Keys = {1, 2, 3}
  MaxNodes = 4
  Commands <- MCCommands
  Roots = {"run", "db"}
  Tokens <- MCTokens
  Numeral <- MCNumeral
  MaxArgv = 5
  MaxParsed = 3
  Letters = {"a", "-"}
  MaxText = 5
  Delimiters <- MCDelimiters
  Sizes = 8
  NumberBits = 5
  Room = {0, 1, 2, 3}
  Octets = {0, 85, 250, 255}
  MaxOctets = 4
INVARIANT WriterReaderAgree
INVARIANT VerdictIsGrammar
 
INVARIANT TreeIsTraversed
 
 
INVARIANT NumbersSurvive
INVARIANT DecodeInvertsEncode
 
CHECK_DEADLOCK FALSE
