SPECIFICATION Spec
CONSTANTS
  Depth = 2
  StackCount = 2
  Deaf = {}
  Ways = {"skip", "copy", "set"}
  Invokes = {{"success", "error", "cancel"}, {"success"}, {"error", "cancel"}}
  Retries = 0
INVARIANT CalledForInstaller
