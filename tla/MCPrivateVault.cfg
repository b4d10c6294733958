SPECIFICATION Spec
CONSTANTS
  Tabs = {t1, t2}
  Slots = {1, 2}
  Views = {messages}
  Passwords = {a, b}
  MaxMade = 7
  MaxEvents = 3
  
PROPERTIES MdkKept
SYMMETRY Alike
CHECK_DEADLOCK FALSE
