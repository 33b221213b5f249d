\* Three descriptors, four connections that only poll.
CONSTANTS
  Fds = {1, 2, 3}
  a = a
  b = b
  Names = {a, b}
  User <- Users
  Registered = {a}
  Admin = Admin
  NoName = NoName
  FD_SETSIZE = 3
  FlashLen = 2
  MaxRequests = 0
  MaxClients = 4
SPECIFICATION FairSpec
PROPERTY RequestIsRead
\* The server ends on several errors.
CHECK_DEADLOCK FALSE
