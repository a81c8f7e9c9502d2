CONSTANTS
 Clients = {c1}
 BufferLimit = 3
 QueueLimit = 2
 MaxEvents = 4
 EventFaults = {}
 MaxRestarts = 1
SPECIFICATION EventSpec
INVARIANT StreamsStart
CHECK_DEADLOCK FALSE
