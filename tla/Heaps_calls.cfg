SPECIFICATION HeapSpec
CONSTANTS
  Managers = {"FIRSTFIT", "BUDDY"}
  Units = 11
  BLOCK_SIZE = 16
  Word = 4096
  Sizes = {1, 17, 40, 64}
  Pages = 9
  BaseFrame = 5
  MAX_ORDER = 2
  PAGE_SIZE = 16
  PageRequests = {1, 16, 17, 64, 65}
INVARIANTS
  BlocksApart
  FreeListExact
  PagesExact
PROPERTIES
  HeapAllocates
  CallsReturn
