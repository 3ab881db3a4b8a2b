\* A file of --config beside a user's file.
SPECIFICATION Spec
CONSTANTS
  Keys <- MCKeys
  Matches <- MCMatches
  ArgFiles <- MCArgFiles
  UserFiles <- FewUserFiles
  SystemFiles <- MCSystemFiles
  Absent = Absent
  Unreadable = Unreadable
  NotGiven = NotGiven
  Beyond <- MCBeyond
INVARIANTS ExplicitConfigWins
