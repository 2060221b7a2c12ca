\* One turn reaches its naming step while the user renames the room.
SPECIFICATION Spec
CONSTANTS
  Bots = {b1}
  Editors = {}
  UserTitles = {u1}
  AutoTitle = AutoTitle
  NoTitle = NoTitle
  MaxTurns = 1
PROPERTIES
  UserTitleKept
