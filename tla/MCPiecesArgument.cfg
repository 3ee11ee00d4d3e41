SPECIFICATION PiecesSpec
CONSTANTS
  NonText <- MCNonText
  NotUtf8 <- MCNonText
  FieldType <- MCFieldType
  SimpleFunctions <- MCSimpleFunctions
  ListTypes <- MCListTypes
  MaxTokens = 6
  Alphabets <- MCAlphabets
  MaxChars <- MCMaxChars
  Utf8 <- MCUtf8
  MaxInt = 127
  MaxHashes = 2
  MaxIndex = 10
  FieldNames <- MCFieldNames
  ContainerTypes <- MCContainerTypes
  Scalars <- MCScalars
  Keys <- MCKeys
  Docs <- MCDocs
  MaxElements = 2
  Roots <- MCRoots
  Parts <- MCParts
  IndexPaths <- MCIndexPaths
  Fragments <- MCFragments
  MaxBytes = 4
  Substitute = 26
  Width = 5
  MaxLayers = 6
  Points = {0, 1, 2, 3, 4}
  MaxRanges = 3
  Threads = {t1, t2}
  Installers = {t1}
  MaxDepth = 2
  MaxPanics = 2
  NoThread = NoThread
  ExprFieldType <- MCExprFieldType
  ExprFunctions <- MCExprFunctions
  ExprListTypes <- MCExprListTypes
  Implementation <- MCImplementation
  IsMatch <- MCIsMatch
  FilterTexts <- MCFilterTexts
  ValueTexts <- MCValueTexts
  FieldValues <- MCFieldValues
  ListContents <- MCListContents
INVARIANT IntArgumentsAreRead
CHECK_DEADLOCK FALSE
