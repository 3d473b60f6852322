SPECIFICATION SessionSpec
CONSTANTS
    SessionRequests = {r1, r2, r3}
    SessionHandlers = {h1, h2, h3}
    SocketHandlers = {h1, h2, h3}
    NoRequest = NoRequest
    MaxDisturbances = 1
    SessionFaults = {}
INVARIANT OneTurnAtATime
