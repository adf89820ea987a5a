SPECIFICATION Spec
CONSTANTS
  first = first
  second = second
  none = none
  edited = edited
  broken = broken
  x = x
  None = None
  NoRules = none
  Rules = {none, edited, broken}
  Broken = {broken}
  Sources = {x}
  Entries = {first, second}
  MaxInputs = 4
PROPERTY ReviewedIsSelected
CHECK_DEADLOCK FALSE
