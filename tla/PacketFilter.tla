---------------------------- MODULE PacketFilter ----------------------------
(***************************************************************************)
(* What the XDP program does with a frame:                                 *)
(*   agent/ebpf/xdp_firewall.c   xdp_firewall, check_cidr_block            *)
(*                                                                         *)
(* A frame has a length, the 16-bit numbers in network order at the three  *)
(* places where a type may stand, and the version and length of its IP     *)
(* header.  The program puts the two bytes of a type together in network   *)
(* order and compares the number with bpf_htons of a constant, which swaps *)
(* the bytes on a little-endian host, such as the x86 the build is for.    *)
(*                                                                         *)
(* The result is named by the counter that the frame is counted under.     *)
(***************************************************************************)
EXTENDS Integers, Sequences

CONSTANT LittleEndian   \* the program is compiled for a little-endian host

ASSUME ByteOrderAssumption == LittleEndian \in BOOLEAN

ETH_P_IP == 2048        \* 0x0800
ETH_P_IPV6 == 34525     \* 0x86DD
ETH_P_8021Q == 33024    \* 0x8100
ETH_P_8021AD == 34984   \* 0x88A8

bpf_htons(x) == IF LittleEndian THEN 256 * (x % 256) + x \div 256 ELSE x

\* The VLAN headers that are skipped: a second one only after a first.
Tags(f) ==
    IF f.types[1] \notin {bpf_htons(ETH_P_8021Q), bpf_htons(ETH_P_8021AD)} THEN 0
    ELSE IF f.types[2] # bpf_htons(ETH_P_8021Q) THEN 1 ELSE 2

Offset(f) == 14 + 4 * Tags(f)
EtherType(f) == f.types[Tags(f) + 1]

IPv4Header(f) ==
    /\ f.version = 4 /\ f.ihl \in 5 .. 15
    /\ f.len >= Offset(f) + 4 * f.ihl

IPv6Header(f) == f.version = 6 /\ f.len >= Offset(f) + 40

\* listed: the block map of the frame's family, or the trie of IPv4 ranges, has
\* an entry for the source that has not expired.  over: check_rate_limit finds the
\* source over its limit in this window; it is asked for IPv4 only.
Counter(f, listed, over) ==
    CASE f.len < 14 -> "passed"
      [] f.len >= 14 /\ f.len < Offset(f) -> "errors"
      [] f.len >= 14 /\ f.len >= Offset(f) ->
            IF EtherType(f) = bpf_htons(ETH_P_IP)
            THEN IF ~IPv4Header(f) THEN "errors"
                 ELSE IF listed THEN "dropped"
                 ELSE IF over THEN "ratelimit" ELSE "passed"
            ELSE IF EtherType(f) = bpf_htons(ETH_P_IPV6)
            THEN IF ~IPv6Header(f) THEN "errors"
                 ELSE IF listed THEN "dropped" ELSE "passed"
            ELSE "passed"

\* XDP_DROP or XDP_PASS.
xdp_firewall(f, listed, over) ==
    IF Counter(f, listed, over) \in {"dropped", "ratelimit"} THEN "drop" ELSE "pass"

\* An IPv4 segment as it arrives: untagged, or in one or two VLANs.
Frame(types, len) == [types |-> types, len |-> len, version |-> 4, ihl |-> 5]
Frames == {Frame(<<ETH_P_IP, 0, 0>>, 60),
           Frame(<<ETH_P_8021Q, ETH_P_IP, 0>>, 64),
           Frame(<<ETH_P_8021AD, ETH_P_8021Q, ETH_P_IP>>, 68)}
=============================================================================
