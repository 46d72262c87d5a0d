-------------------------- MODULE LLDPPortIterator --------------------------
(***************************************************************************)
(* The local ports and the port iterator of src/src/common/pf_lldp.h:      *)
(* pf_lldp_get_port_list, pf_lldp_init_port_iterator and                   *)
(* pf_lldp_get_next_port.  The iterator runs over the physical ports       *)
(* 1..N in order (the management port is not among them) and answers 0,    *)
(* the end sentinel, once they are exhausted.  An iterator value is the    *)
(* port the next call would return, N + 1 once the ports are exhausted.    *)
(***************************************************************************)
EXTENDS Naturals

CONSTANT NumPorts    \* N: local ports are 1..N (management port excluded)

ASSUME NumPortsAssumption == NumPorts \in Nat \ {0}

\* pf_lldp_get_port_list: the physical ports, management port excluded.
Ports == 1..NumPorts

\* The values a pf_port_iterator_t takes.
Iterators == 1..(NumPorts + 1)

\* pf_lldp_init_port_iterator: the iterator stands before the first port.
InitIter == 1

\* Mutants of pf_lldp_get_next_port: the sentinel comes one port early,
\* or one port late (N + 1 is handed out as a port).
NextPortStopsEarly(it) == IF it < NumPorts THEN it ELSE 0
NextPortPastEnd(it) == IF it <= NumPorts + 1 THEN it ELSE 0

\* pf_lldp_get_next_port: the port it returns, 0 once no port is left ...
NextPort(it) == IF it <= NumPorts THEN it ELSE 0

\* ... and the iterator it leaves behind (an exhausted one stays so).
Advance(it) == IF it <= NumPorts THEN it + 1 ELSE it

=============================================================================
