SPECIFICATION VolumeSpec
CONSTANTS
  Volumes = {10, 20, 30}
  VolumeInstances <- Cases
  None = None
INVARIANTS VolumeSafe WishShown
PROPERTIES ShowsServer LastWishWins
