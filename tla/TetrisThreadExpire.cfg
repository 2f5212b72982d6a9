SPECIFICATION Spec
CONSTANT
  MaxWaitPauseTime = 3
PROPERTY ResumedGoesOn
