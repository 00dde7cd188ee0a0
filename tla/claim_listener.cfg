SPECIFICATION FairSpec
CONSTANTS
  Clients = {viewer}
  Readonly = {viewer}
  OneShot = {}
  MaxQuestions = 2
  None = None
PROPERTIES
  QuestionEnds
