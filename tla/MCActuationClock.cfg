SPECIFICATION Spec
CONSTANTS
    BurstKeys = {}
    CommandKeys = {c1, c2}
    Processor = proc
    Collector = coll
    Clients = {h1}
    Free = free
    Cooldown = 1
    MaxLifetime = 1
    Lifetimes = {1}
    Skews <- SteppedSkews
    MaxNow = 2
    MaxBoots = 2
INVARIANTS MarkerOutlivesPulse
PROPERTIES CooldownSpacing
