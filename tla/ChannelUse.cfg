CONSTANTS
  Procs = {1, 2, 3}
  Chids = {1}
  Messages = {5, 12}
SPECIFICATION Spec
INVARIANT ChannelsTypeOK
PROPERTIES EndsStay OutsidersHarmless
