---- MODULE MCPcapReader ----
(***************************************************************************)
(* PcapReader for TLC: one capture of each interesting make-up.            *)
(***************************************************************************)
EXTENDS PcapReader, Bitwise

BitXor(a, b) == a ^^ b

Tcp(addresses, ports) == <<1, 1, addresses, ports>>
TcpWithOption(addresses, ports) == <<1, 2, addresses, 0, ports>>
Arp == <<0, 1, 1>>
Icmp == <<1, 0, 1, 1>>

SomeCaptures ==
  { <<>>,
    <<Tcp(1, 1), TcpWithOption(1, 1), Tcp(2, 1)>>,
    <<Arp, Tcp(2, 3), Icmp, Tcp(2, 3)>>,
    <<TcpWithOption(3, 2), Arp, TcpWithOption(0, 1)>>,
    <<<<1>>, Tcp(1, 2), <<1, 1, 2>>, Tcp(1, 2)>>,
    <<<<>>, Tcp(0, 1), <<1, 2, 1, 0>>, Arp>> }
====
