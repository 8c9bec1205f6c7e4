CONSTANTS
  Senders = {voice, stream}
  MaxQueued = 2
  MaxDelay = 1
  Holdoff = 2
  MaxLag = 1
  MaxControls = 1
  MaxUnacked = 1
SPECIFICATION FairSpec
INVARIANTS DatagramAccounting HoldoffHolds
PROPERTIES MediaFlows
