SPECIFICATION Spec
CONSTANTS
  Words = 2
  Sets = 1
  Tags = 2
  Ways = {w1}
  Stored <- FirstWord
  Targets <- EachLine
  SbSize = 1
  BusyCycles = 9
  None = None
PROPERTIES
  CodeIsSynchronised
