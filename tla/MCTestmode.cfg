SPECIFICATION FairSpec
CONSTANTS
  Builds = {TRUE, FALSE}
  NUM = 3
  Pieces <- MCPieces
  BufLens <- MCBufLens
INVARIANTS TypeOK ReplyOfThisCommand SuccessMeansExecuted ReportIsFilled ReportFits
PROPERTY CommandEnds
