SPECIFICATION Spec
CONSTANTS
  n1 = n1
  n2 = n2
  h1 = h1
  h2 = h2
  Names = {n1, n2}
  Hosts = {h1, h2}
  Resolvable = {h1, h2}
  Lines <- CommentedLines
  MaxLines = 4
  NoName = NoName
  NoEntry = NoEntry
  NoHost = NoHost
INVARIANT DecisionsFollowFile
