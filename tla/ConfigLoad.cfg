\* Every short user file, with and without the other two.
SPECIFICATION Spec
CONSTANTS
  Keys <- MCKeys
  Matches <- MCMatches
  ArgFiles <- MCArgFiles
  UserFiles <- MCUserFiles
  SystemFiles <- MCSystemFiles
  Absent = Absent
  Unreadable = Unreadable
  NotGiven = NotGiven
  Beyond <- MCBeyond
INVARIANTS IInv RunsAsWritten FailureIsDeserved
