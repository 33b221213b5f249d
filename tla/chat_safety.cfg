\* Two slots, three connections, one request besides the polls.
CONSTANTS
  Fds = {1, 2, 3}
  a = a
  b = b
  Names = {a, b}
  User <- Users
  Registered = {a}
  Admin = Admin
  NoName = NoName
  FD_SETSIZE = 2
  FlashLen = 2
  MaxRequests = 1
  MaxClients = 3
SPECIFICATION Spec
INVARIANTS TypeOK Seated ListSound NamesRegistered WritesOnlyToAsking ReadsNeverBlock
PROPERTY RoundServesAll
\* The server ends on several errors.
CHECK_DEADLOCK FALSE
