\* Two clients, one request.
CONSTANTS
  Fds = {1, 2}
  a = a
  b = b
  Names = {a, b}
  User <- Users
  Registered = {a}
  Admin = Admin
  NoName = NoName
  FD_SETSIZE = 2
  FlashLen = 2
  MaxRequests = 1
  MaxClients = 2
SPECIFICATION Spec
PROPERTY CrossedOutIsSent
\* The server ends on several errors.
CHECK_DEADLOCK FALSE
