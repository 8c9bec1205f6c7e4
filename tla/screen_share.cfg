CONSTANT ENCODE_SLOTS = 3
SPECIFICATION FairSpec
INVARIANTS SlotDiscipline NoDeltaAfterLoss
PROPERTIES PublishedIsTaken KeyframeIsServed
