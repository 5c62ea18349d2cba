---------------------------- MODULE MCSocksProxy ----------------------------
(* A render behind the proxy: addresses at the edges of the registries, some *)
(* in more than one spelling, and lookups that mix them.                     *)
EXTENDS SocksProxy

CONSTANTS store, nas   \* a shop, and a host of the operator's own

Ipv4(a, b, c, d) == [family |-> "ipv4", text |-> <<a, b, c, d>>]
Whole(groups) == [family |-> "ipv6", text |-> <<[i \in DOMAIN groups |-> <<groups[i]>>]>>]
Halves(left, right) == [family |-> "ipv6", text |-> <<left, right>>]

\* The last address of a block, its neighbour, and other names of the same host.
MCPrivate == {
    Ipv4(10, 0, 0, 8),
    Ipv4(169, 254, 169, 254), Ipv4(172, 31, 255, 255), Ipv4(100, 127, 0, 1),
    Halves(<<>>, <<<<65535>>, <<10, 0, 0, 1>>>>),                    \* ::ffff:10.0.0.1
    Halves(<<<<100>>, <<65435>>>>, <<<<169, 254, 169, 254>>>>),      \* 64:ff9b::169.254.169.254
    Whole(<<65215, 0, 0, 0, 0, 0, 0, 1>>),                           \* fe80::/10
    Halves(<<<<8193>>, <<3512>>>>, <<<<1>>>>),                       \* 2001:db8::1
    Halves(<<<<8193>>, <<0>>>>, <<<<1>>>>)}                          \* 2001::1, in 2001::/23
MCPublic == {
    Ipv4(172, 32, 0, 0), Ipv4(9, 9, 9, 9),
    Halves(<<<<100>>, <<65435>>>>, <<<<9, 9, 9, 9>>>>),              \* 64:ff9b::9.9.9.9
    Halves(<<<<8193>>, <<1>>>>, <<<<1>>>>),                          \* 2001:1::1, PCP anycast
    Whole(<<9734, 18176, 0, 0, 0, 0, 0, 4369>>)}
Unreadable == Halves(<<<<1>>, <<300, 1, 1, 1>>>>, <<>>)

MCLiterals == MCPrivate \cup MCPublic \cup {Unreadable, Ipv4(10, 0, 0, 8)}
MCAnswers == {
    <<Ipv4(9, 9, 9, 9)>>,
    <<Ipv4(9, 9, 9, 9), Ipv4(172, 31, 255, 255)>>,
    <<Ipv4(169, 254, 169, 254)>>}
MCNames == {store, nas}
MCExempt == {nas, Ipv4(10, 0, 0, 8)}
=============================================================================
