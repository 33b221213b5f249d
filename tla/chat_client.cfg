\* One command of the menu after the login, one answer that was not asked for.
CONSTANTS
  Me = Me
  Other = Other
  Admin = Admin
  NoName = NoName
  MaxCommands = 1
  MaxIncoming = 1
SPECIFICATION FairSpec
INVARIANTS TypeOK OneAtATime SessionAfterAnswer ListingWasReceived LoginKeepsAsking
PROPERTY EndsWithServer
\* The client may end, or wait for an answer for ever.
CHECK_DEADLOCK FALSE
