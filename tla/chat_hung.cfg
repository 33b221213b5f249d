\* One client.
CONSTANTS
  Fds = {1}
  a = a
  b = b
  Names = {a, b}
  User <- Users
  Registered = {a}
  Admin = Admin
  NoName = NoName
  FD_SETSIZE = 2
  FlashLen = 2
  MaxRequests = 2
  MaxClients = 1
SPECIFICATION PollingSpec
PROPERTY RequestIsAnswered
\* The server ends on several errors.
CHECK_DEADLOCK FALSE
