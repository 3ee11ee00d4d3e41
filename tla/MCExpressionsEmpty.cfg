SPECIFICATION ExpressionsSpec
CONSTANTS
  NonText <- MCNonText
  FieldType <- MCFieldType
  SimpleFunctions <- MCSimpleFunctions
  ListTypes <- MCListTypes
  Implementation <- MCImplementation
  IsMatch <- MCIsMatch
  FilterTexts <- EmptyTexts
  ValueTexts <- MCValueTexts
  FieldValues <- MCFieldValues
  ListContents <- MCListContents
INVARIANT
  AnswersNeverPanic
