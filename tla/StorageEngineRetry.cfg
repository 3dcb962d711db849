SPECIFICATION Spec
CONSTANTS
  Keys = {k1}
  Uploads = {u1}
  NoUpload = NoUpload
  NoKey = NoKey
  Capacity = 2
  MaxPieces = 1
INVARIANT AbsentIsWritable
