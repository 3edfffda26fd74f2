SPECIFICATION Spec
CONSTANTS
    BurstKeys = {b1}
    CommandKeys = {c1}
    Processor = proc
    Collector = coll
    Clients = {h1}
    Free = free
    Cooldown = 1
    MaxLifetime = 1
    Lifetimes = {0, 1, 2}
    Skews = {0}
    MaxNow = 2
    MaxBoots = 2
INVARIANTS TypeOK PulseOncePerKey NoPhantomMarker EventsAccounted
PROPERTIES ImplementsGate
