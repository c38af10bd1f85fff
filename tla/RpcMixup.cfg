SPECIFICATION Spec
CONSTANTS
  Threads = {t1, t2}
  Operations <- MCOperations
  Method <- DioxMethod
  Keys <- DioxKeys
  Reads <- DioxReads
  Fields <- AnswerFields
  Effectful <- Sending
  Unset = Unset
INVARIANT
  AnswersMatchQuestions
