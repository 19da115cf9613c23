SPECIFICATION Spec
CONSTANTS
  Procs = {1, 2}
  Frames = {1, 2}
  Slots = {1, 2}
  Casts <- MCCasts
  MAX_GLOBAL_MAPPINGS = 1
INVARIANTS
  PageContentsKept
  FrameTableSound
  SwapSlotsSound
