SPECIFICATION Spec
CONSTANTS
  Keys = {addr, mask}
  old = old
  new = new
  Versions <- OldAndNew
  Values = {old, new}
  Cut = cut
  Readers = {c, page}
  Locking = {c}
INVARIANT TypeOK
PROPERTY IsARegister
SYMMETRY Alike
