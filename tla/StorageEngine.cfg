SPECIFICATION FairSpec
CONSTANTS
  Keys = {k1, k2}
  Uploads = {u1, u2}
  NoUpload = NoUpload
  NoKey = NoKey
  Capacity = 3
  MaxPieces = 2
INVARIANTS
  TypeOK
  CapacityRespected
  NoStrayFiles
  CountersCoverClaims
  OneUploadPerKey
PROPERTIES
  ImplementsObjectStore
  UploadsSettle
