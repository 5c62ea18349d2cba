------------------------------ MODULE Routable ------------------------------
(***************************************************************************)
(* Which addresses the application talks to: packages/core/src/net/address *)
(* reads an address and judges it by the special-purpose registries, and   *)
(* packages/core/src/net/guard asks it for literals and for every answer   *)
(* of a DNS lookup.                                                        *)
(*                                                                         *)
(* An IPv4 text is its four numbers.  An IPv6 text is what is left and     *)
(* right of its "::" (one part when it has none), each a sequence of       *)
(* pieces, and a piece is one group <<g>> or a dotted quad; a zone index   *)
(* is cut off by the reader.  Network masks are compared group by group,   *)
(* 8 bits wide for IPv4 and 16 for IPv6.                                   *)
(***************************************************************************)
EXTENDS Integers, Sequences

CONSTANTS
    Exempt,    \* the hosts ALLOWED_PRIVATE_HOSTS names
    None

-----------------------------------------------------------------------------
(* Reading an address. *)

\* A dotted quad's numbers have up to three digits; 010 is ten.
Ipv4Valid(octets) == Len(octets) = 4 /\ \A i \in 1..4 : octets[i] \in 0..255

\* Only the last piece of a part may be a dotted quad, which fills two groups.
PieceValid(part, i) ==
    \/ Len(part[i]) = 1
    \/ i = Len(part) /\ Ipv4Valid(part[i])
Groups(piece) ==
    IF Len(piece) = 1 THEN piece
    ELSE <<piece[1] * 256 + piece[2], piece[3] * 256 + piece[4]>>
Expand(part) ==
    IF part = <<>> THEN <<>>
    ELSE [i \in 1..(Len(part) - 1) |-> part[i][1]] \o Groups(part[Len(part)])

Zeros(n) == [i \in 1..n |-> 0]
ParseIpv6(halves) ==
    IF \E h \in DOMAIN halves : \E i \in DOMAIN halves[h] : ~PieceValid(halves[h], i)
    THEN None
    ELSE IF Len(halves) = 1
         THEN IF Len(Expand(halves[1])) = 8 THEN Expand(halves[1]) ELSE None
         ELSE LET missing == 8 - Len(Expand(halves[1])) - Len(Expand(halves[2]))
              IN IF missing < 1 THEN None
                 ELSE Expand(halves[1]) \o Zeros(missing) \o Expand(halves[2])

-----------------------------------------------------------------------------
(* The registries. *)

Ipv4Blocked == {
    [base |-> <<0>>, bits |-> 8], [base |-> <<10>>, bits |-> 8],
    [base |-> <<100, 64>>, bits |-> 10], [base |-> <<127>>, bits |-> 8],
    [base |-> <<169, 254>>, bits |-> 16], [base |-> <<172, 16>>, bits |-> 12],
    [base |-> <<192, 0, 0>>, bits |-> 24], [base |-> <<192, 0, 2>>, bits |-> 24],
    [base |-> <<192, 88, 99>>, bits |-> 24], [base |-> <<192, 168>>, bits |-> 16],
    [base |-> <<198, 18>>, bits |-> 15], [base |-> <<198, 51, 100>>, bits |-> 24],
    [base |-> <<203, 0, 113>>, bits |-> 24], [base |-> <<224>>, bits |-> 4],
    [base |-> <<240>>, bits |-> 4]}

Reachable(base, bits) == [base |-> base, bits |-> bits, reachable |-> TRUE]
Unreachable(base, bits) == [base |-> base, bits |-> bits, reachable |-> FALSE]
Ipv6Policy == {
    Reachable(<<8192>>, 3),                          \* 2000::/3
    Unreachable(<<0, 0, 0, 0, 0, 0, 0, 1>>, 128),    \* ::1
    Unreachable(<<0, 0, 0, 0, 0, 0, 0, 0>>, 128),    \* ::
    Unreachable(<<0, 0, 0, 0, 0, 65535>>, 96),       \* IPv4-mapped
    Reachable(<<8193, 1, 0, 0, 0, 0, 0, 1>>, 128),   \* PCP, TURN, DNS-SD anycast
    Reachable(<<8193, 1, 0, 0, 0, 0, 0, 2>>, 128),
    Reachable(<<8193, 1, 0, 0, 0, 0, 0, 3>>, 128),
    Reachable(<<8193, 32>>, 28), Reachable(<<8193, 48>>, 28),
    Reachable(<<8193, 4, 274>>, 48), Reachable(<<8193, 3>>, 32),
    Unreachable(<<8193, 2, 0>>, 48), Unreachable(<<8193, 3512>>, 32),
    Unreachable(<<8193, 0>>, 23),                    \* 2001::/23
    Unreachable(<<8194>>, 16),                       \* 6to4
    Unreachable(<<100, 65435, 1>>, 48), Reachable(<<100, 65435, 0, 0, 0, 0>>, 96),
    Unreachable(<<256, 0, 0, 0>>, 64), Unreachable(<<256, 0, 0, 1>>, 64),
    Unreachable(<<16383, 0>>, 20), Unreachable(<<24320>>, 16),
    Unreachable(<<64512>>, 7), Unreachable(<<65152>>, 10), Unreachable(<<65280>>, 8)}

\* The leading bits of two groups agree.
SameBits(a, b, bits, width) == a \div 2^(width - bits) = b \div 2^(width - bits)

WithinPrefix(groups, prefix, width) ==
    LET whole == prefix.bits \div width
    IN /\ \A i \in 1..whole : groups[i] = prefix.base[i]
       /\ prefix.bits % width # 0 =>
              SameBits(groups[whole + 1], prefix.base[whole + 1], prefix.bits % width, width)

IsIpv4Routable(octets) == ~\E block \in Ipv4Blocked : WithinPrefix(octets, block, 8)

Matching(groups) == {p \in Ipv6Policy : WithinPrefix(groups, p, 16)}
\* A slip to check against: one reachable block that matches is enough.
AnyReachable(groups) == {p \in Matching(groups) : p.reachable}
\* The longest prefix decides.
MostSpecific(groups) ==
    {p \in Matching(groups) : \A q \in Matching(groups) : q.bits <= p.bits}

\* NAT64: the address stands for the IPv4 host in its last two groups.
EmbeddedIpv4(groups) ==
    <<groups[7] \div 256, groups[7] % 256, groups[8] \div 256, groups[8] % 256>>
GroupsMatch(groups, prefix) == \A i \in DOMAIN prefix : groups[i] = prefix[i]
IsNat64(groups) == GroupsMatch(groups, <<100, 65435, 0, 0, 0, 0>>)

IsIpv6Routable(groups) ==
    /\ \E p \in MostSpecific(groups) : p.reachable
    /\ IsNat64(groups) => IsIpv4Routable(EmbeddedIpv4(groups))

\* What cannot be read is refused.
IsGloballyRoutable(address) ==
    IF address.family = "ipv4"
    THEN Ipv4Valid(address.text) /\ IsIpv4Routable(address.text)
    ELSE LET groups == ParseIpv6(address.text)
         IN groups # None /\ IsIpv6Routable(groups)

-----------------------------------------------------------------------------
(* The policy. *)

IsAllowedPrivateHost(host) == host \in Exempt

CheckLiteralHost(address) == IsAllowedPrivateHost(address) \/ IsGloballyRoutable(address)

\* The answers a lookup holds back for: every one is asked, not just the first.
Blocked(host, answers) ==
    IF IsAllowedPrivateHost(host) THEN {}
    ELSE {i \in DOMAIN answers : ~IsGloballyRoutable(answers[i])}

=============================================================================
