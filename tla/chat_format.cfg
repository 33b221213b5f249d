\* Fields of up to two characters: "$", "@" and a letter; LOGIN and RESPONSE.
CONSTANTS
  Chars = {36, 64, 97}
  MaxLen = 2
  Commands = {1, 7}
SPECIFICATION Spec
INVARIANTS RoundTrip TornIsIgnored FirstOfJoined
\* One message is read once.
CHECK_DEADLOCK FALSE
