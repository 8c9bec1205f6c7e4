CONSTANTS
  Channels = {c1, c2}
  NoChannel = NoChannel
  MaxClicks = 4
SPECIFICATION FairCameraSpec
CHECK_DEADLOCK FALSE
INVARIANTS CaptureDiscipline CameraAgrees StreamDescribed
PROPERTIES OpenResolves
