SPECIFICATION FairSpec
CONSTANTS
  Threads = {t1, t2, t3}
  Paths = {"msvc", "msvc_arm", "msvc_asm", "gcc", "gcc_sync", "gcc_asm", "chibicc"}
INVARIANTS
  TypeOK
  MutualExclusion
  HandedOver
  WordIsHeld
PROPERTY SomebodyEnters
