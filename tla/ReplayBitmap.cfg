CONSTANTS
  WordBits = 3
  Words = 3
  MaxCtr = 20
SPECIFICATION Spec
INVARIANT BitmapIsTheWindow
