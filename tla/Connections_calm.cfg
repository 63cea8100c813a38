SPECIFICATION ConnectionsSpec
CONSTANTS
  Names = {a, b}
  FirstName = a
  OwnEdits = {e1}
  OtherEdits = {f1}
  Garble = Garble
  NoFile = NoFile
  NoName = NoName
CHECK_DEADLOCK FALSE
PROPERTIES
 OtherIsNotOverwritten
 EntriesKeepCanvases
 EditsReachDisk
