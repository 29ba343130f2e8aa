CONSTANTS
    Writers = {w1}
    Scanners = {r1}
    Blocks = {1, 2}
    Ctids <- MCCtids
    StoreIds = {1, 2}
    Capacity = 8
    Width = 2
    Loaded = {}
SPECIFICATION Spec
INVARIANT ScanCoversRowStores
VIEW MCView
