---------------------------- MODULE MCAutoBlocking ----------------------------
EXTENDS AutoBlocking

\* Four connections in five seconds: too short a time to act on, until there are
\* four more.
Burst == [syn |-> 4, ack |-> 4, failed |-> 0, ports |-> 1, hits |-> 8, window |-> 5]

\* Both at once, in the other direction.
LongBurst == [syn |-> 8, ack |-> 8, failed |-> 0, ports |-> 1, hits |-> 16, window |-> 10]

MCArrivals == {<<"inbound", Burst>>, <<"outbound", LongBurst>>}
=============================================================================
