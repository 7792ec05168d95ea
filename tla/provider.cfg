SPECIFICATION FairProvider
CONSTANTS
  n1 = n1
  n2 = n2
  n3 = n3
  Lists <- MCLists
  Timeout = 2
INVARIANT MembersGiven
PROPERTIES AnsweredCallEnds
