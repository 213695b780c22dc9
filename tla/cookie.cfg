\* A TTL as long as the cookie lives, as docs/deployment.md:59 recommends: six
\* ticks, two to a second.  Time for two changes of the cookie and a third
\* session beside the first, which the bound allows, and four requests.
SPECIFICATION Spec
CONSTANTS
    MaxAge = 6
    MaxSkew = 2
    Second = 2
    TTL = 6
    NoCookie = NoCookie
    MaxRequests = 4
    MaxTime = 13
\* The clock stops at its bound.
CHECK_DEADLOCK FALSE
INVARIANTS
    TypeOK
    ActiveSessionsBounded
