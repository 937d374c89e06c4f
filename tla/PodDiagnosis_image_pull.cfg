SPECIFICATION Spec
CONSTANTS
  Containers = {"c", "d"}
  Reasons = {"", "ContainerCreating", "CrashLoopBackOff", "ErrImagePull", "ImagePullBackOff"}
  Beginnings <- MCBeginnings
  OtherReasons = {"ImagePullBackOff", "FailedAttachVolume", "FailedMountOnFilesystemMismatch"}
  Steps = {4, 1500}
  MaxHappenings = 3
  Limit = 2
  Substrings <- MCSubstrings
INVARIANT PullErrorsAreImagePull
