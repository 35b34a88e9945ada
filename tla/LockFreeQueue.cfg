SPECIFICATION RingFairSpec
CONSTANTS
    RingValues = {a, b}
    RingCapacity <- MCRingCapacity
    RingNone = RingNone
INVARIANTS NoDataRace 
PROPERTIES ImplementsFifo Delivered ProducerProgress
