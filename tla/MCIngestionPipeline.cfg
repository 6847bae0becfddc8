\* A message with pixels or one with an attachment and a bounce address, every
\* fault and a user who moves the email; or three messages of one conversation.
SPECIFICATION FairSpec
CONSTANTS
  advert = advert
  letter = letter
  m1 = m1
  m2 = m2
  m3 = m3
  b1 = b1
  b2 = b2
  Msg <- MCMsg
  MailboxOf <- MCMailboxOf
  Workloads <- MCWorkloads
  RefersTo <- MCRefersTo
  Traits <- AllTraits
  Senders <- SomeSenders
  Actions <- SomeActions
  Images <- MCImages
  Domain <- MCDomain
  Spamminess <- SomeAnswers
  Threshold = 5
  Classifier = "claude"
  Replies <- SomeReplies
  MaxLostRows = 1
  UserMoves <- UserStatuses
  Faults <- AllFaults
INVARIANTS
  ScreenedBeforeInbox
  HonestIngestion
  NothingDangles
  LogIsOneRun
  RepliesJoin
PROPERTIES
  EveryIngestionCloses
CHECK_DEADLOCK FALSE
