SPECIFICATION FairSpec
CONSTANTS
  FrameLen = 5
  SyncLen = 2
  PixelsSize = 5
  MaxResets = 1
INVARIANTS TypeOK
PROPERTIES PictureWhole RestFromFrameBefore OnePictureEach Recovers
