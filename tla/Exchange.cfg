CONSTANTS
  a = a
  A = A
  Slash = Slash
  Question = Question
  NoBuffer = NoBuffer
  Nothing = Nothing
  MaxHeaderSize = 4
  Chars <- MCChars
  Lower <- MCLower
  Messages <- MCMessages
  Methods <- MCMethods
  IdHeader <- MCIdHeader
  Uuids <- MCUuids
  Random <- MCRandom
  Rest <- MCRest
  Decoded <- MCDecoded
  Objects <- MCObjects
  Greeting <- MCGreeting
SPECIFICATION Spec
INVARIANTS ExchangeTypeOK RequestAsSent RequestIdentified ReplyFramed AnswersThisRequest
CHECK_DEADLOCK FALSE
