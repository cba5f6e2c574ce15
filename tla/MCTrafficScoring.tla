--------------------------- MODULE MCTrafficScoring ---------------------------
EXTENDS TrafficScoring

\* Two ports that are reached, and a peer that is called.
Web == [port |-> 1, direction |-> "inbound"]
Ssh == [port |-> 2, direction |-> "inbound"]
Out == [port |-> 1, direction |-> "outbound"]
MCKeys == {Web, Ssh, Out}

Event(k, n, agent) == [key |-> k, syn |-> n, ack |-> n, failed |-> 0, ports |-> 1,
                       services |-> 0, window |-> 20, agent |-> agent,
                       level |-> classifyThreat(agent)]

\* A visit, a flood, visits the agent has found malicious, and a call out.
MCEvents == {Event(Web, 1, 0), Event(Web, 600, 0), Event(Ssh, 2, 82), Event(Out, 1, 0)}
=============================================================================
