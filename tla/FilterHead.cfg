\* One module, as main.cpp:1453 and 1280 load it.
CONSTANTS
  N = 1
  MaxChunks = 0
  MaxCalls = 2
SPECIFICATION SafeSpec
INVARIANT HeadOnce
CHECK_DEADLOCK FALSE
