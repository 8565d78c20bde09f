CONSTANTS
  Chars <- MCChars
  Letters <- MCLetters
  Samples <- MCSamples
  Chunks <- MCChunks
  EOF = "EOF"
  Size = 3
  MaxPeek = 2
  MaxDigits = 6
  QueueSize = 4
  MaxTokens = 60
SPECIFICATION FairSpec
INVARIANTS
  TypeOK
  ReaderInStep
  TokensAsWritten
PROPERTY
  ReachesEnd
CHECK_DEADLOCK FALSE
