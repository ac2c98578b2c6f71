CONSTANTS
  Number <- Numbers
  FalseWords <- FalseCases
  NoFile = none
  UserFiles <- SomeFiles
  OtherNames <- Unlisted
SPECIFICATION Spec
INVARIANTS CommentedMeansLocalhost
