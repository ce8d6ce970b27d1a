CONSTANTS
    Capacity = 2
    Laps = 3
    Item = {a, b}
    NoItem = NoItem
SPECIFICATION FairSpec
INVARIANTS TypeOK NoDataRace RingInv SizeApproxSound
PROPERTIES ImplementsFifo ImplementsFairFifo PushNotStarved
