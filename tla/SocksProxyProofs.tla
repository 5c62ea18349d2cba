-------------------------- MODULE SocksProxyProofs --------------------------
(***************************************************************************)
(* Theorems about SocksProxy, for any number of connections, any names,    *)
(* literals and lookups, and any exempt hosts.                             *)
(*                                                                         *)
(* A socket's address was judged before the socket was opened, and neither *)
(* it nor the host it was asked for changes afterwards: only a handler     *)
(* that has no upstream yet writes them (Dialled).                         *)
(***************************************************************************)
EXTENDS SocksProxy, WellFoundedInduction, TLAPS

(* A connection not accepted has no handler, there is no upstream before   *)
(* the request is answered, and no lookup but of the host it asked for.    *)
Dialled ==
    \A c \in Clients :
        /\ client[c] = "none" => step[c] = "none"
        /\ step[c] \in {"none", "greeting", "request"} => upstream[c] = "none"
        /\ upstream[c] = "resolving" => target[c] \in Literals \cup Names

IInv == TypeOK /\ Dialled /\ OnlyPublicPeers /\ NothingAfterAbort
-----------------------------------------------------------------------------
(* There is a first among the answers a lookup was held back for.          *)
LEMMA FirstBlocked ==
    ASSUME NEW S \in SUBSET Nat, S # {}
    PROVE  (CHOOSE i \in S : \A j \in S : i <= j) \in S
<1>1. \E i \in S : \A j \in S : i <= j
  <2> DEFINE Less == {ss \in Nat \X Nat : ss[1] < ss[2]}
  <2>1. IsWellFoundedOn(Less, Nat)
    <3>1. Less = OpToRel(<, Nat)
      BY Zenon DEF OpToRel
    <3> QED
      BY <3>1, NatLessThanWellFounded, Zenon
  <2>2. PICK i \in S : \A j \in S : ~(<<j, i>> \in Less)
    <3> HIDE DEF Less
    <3> QED
      BY <2>1, WFMin
  <2>3. ASSUME NEW j \in S
        PROVE  i <= j
    <3>1. i \in Nat /\ j \in Nat
      OBVIOUS
    <3>2. j < i => <<j, i>> \in Less
      BY <3>1
    <3>3. ~(j < i)
      BY <2>2, <3>2
    <3> QED
      BY <3>1, <3>3
  <2> QED
    BY <2>3
<1> QED
  BY <1>1

(* What a lookup is held back for is refused, and only hosts that are not  *)
(* exempt are.                                                             *)
LEMMA HeldBack ==
    ASSUME NEW host, NEW found \in Answers, Blocked(host, found) # {}
    PROVE  LET B == Blocked(host, found)
               first == CHOOSE i \in B : \A j \in B : i <= j
           IN  /\ first \in DOMAIN found
               /\ ~IsGloballyRoutable(found[first])
               /\ host \notin Exempt
<1> DEFINE B == Blocked(host, found)
           first == CHOOSE i \in B : \A j \in B : i <= j
<1>1. B \subseteq DOMAIN found /\ host \notin Exempt
  BY DEF Blocked, IsAllowedPrivateHost
<1>2. \A i \in B : ~IsGloballyRoutable(found[i])
  BY DEF Blocked
<1>3. B \in SUBSET Nat
  BY <1>1, ProxyAssumption
<1>4. first \in B
  <2>1. B # {}
    OBVIOUS
  <2> HIDE DEF B
  <2> QED
    BY <1>3, <2>1, FirstBlocked
<1> QED
  BY <1>1, <1>2, <1>4

-----------------------------------------------------------------------------
(* The types.                                                              *)

LEMMA Found ==
    ASSUME NEW found \in Answers, NEW i \in DOMAIN found
    PROVE  found[i] \in Addresses
BY DEF Addresses

LEMMA RefuseTypes ==
    ASSUME TypeOK, NEW host \in Literals \cup Names, NEW address \in Addresses,
           Refuse(host, address)
    PROVE  refused' \in Refusal \cup {None}
BY DEF TypeOK, Refuse, Refusal

LEMMA TypesStep ==
    ASSUME TypeOK, Dialled, Next
    PROVE  TypeOK'
<1> USE DEF TypeOK
<1>1. ASSUME NEW s \in Sockets
      PROVE  Ended(s) \in Sockets /\ Destroyed(s) \in Sockets
  BY DEF Ended, Destroyed, Sockets
<1>2. ASSUME NEW c \in Clients, GivesUp(c)
      PROVE  /\ step' \in [Clients -> {"none", "greeting", "request", "connecting",
                                       "bridged", "done"}]
             /\ client' \in [Clients -> Sockets]
  BY <1>1, <1>2 DEF GivesUp
<1>3. CASE RenderEnds
  <2>1. client' \in [Clients -> Sockets]
    BY <1>1, <1>3 DEF RenderEnds
  <2>2. upstream' \in [Clients -> Sockets \cup {"resolving", "connecting"}]
    BY <1>3 DEF RenderEnds, AbortUpstream, Destroyed, Sockets
  <2>3. answer' \in Outcomes \cup {None}
    BY <1>3 DEF RenderEnds, Outcomes
  <2> QED
    BY <1>3, <2>1, <2>2, <2>3 DEF RenderEnds
<1>4. ASSUME NEW c \in Clients, Connect(c) \/ Negotiate(c) \/ HandshakeStops(c)
      PROVE  TypeOK'
  BY <1>4 DEF Connect, Negotiate, HandshakeStops, Sockets
<1>5. ASSUME NEW c \in Clients, Malformed(c) \/ DialRejects(c)
      PROVE  TypeOK'
  BY <1>2, <1>5 DEF Malformed, DialRejects
<1>6. ASSUME NEW c \in Clients, RefuseLiteral(c)
      PROVE  TypeOK'
  <2>1. PICK a \in Literals : Refuse(a, a) /\ target' = [target EXCEPT ![c] = a]
    BY <1>6 DEF RefuseLiteral
  <2>2. refused' \in Refusal \cup {None}
    BY <2>1, RefuseTypes DEF Addresses
  <2> QED
    BY <1>2, <1>6, <2>1, <2>2 DEF RefuseLiteral
<1>7. ASSUME NEW c \in Clients, Dial(c)
      PROVE  TypeOK'
  BY <1>7 DEF Dial, Addresses
<1>8. ASSUME NEW c \in Clients, Resolve(c)
      PROVE  TypeOK'
  <2>1. PICK found \in Answers :
           IF Blocked(target[c], found) = {}
           THEN /\ \E i \in DOMAIN found : peer' = [peer EXCEPT ![c] = found[i]]
                /\ upstream' = [upstream EXCEPT ![c] = "connecting"]
                /\ UNCHANGED <<step, client, refused>>
           ELSE /\ upstream' = [upstream EXCEPT ![c] = "closed"]
                /\ LET first == CHOOSE i \in Blocked(target[c], found) :
                                   \A j \in Blocked(target[c], found) : i <= j
                   IN Refuse(target[c], found[first])
                /\ GivesUp(c)
                /\ UNCHANGED peer
    BY <1>8 DEF Resolve
  <2>2. UNCHANGED <<target, answer>>
    BY <1>8 DEF Resolve
  <2>3. CASE Blocked(target[c], found) = {}
    BY <2>1, <2>2, <2>3, Found
  <2>4. CASE Blocked(target[c], found) # {}
    <3> DEFINE first == CHOOSE i \in Blocked(target[c], found) :
                           \A j \in Blocked(target[c], found) : i <= j
    <3>1. /\ upstream' = [upstream EXCEPT ![c] = "closed"]
          /\ Refuse(target[c], found[first])
          /\ GivesUp(c)
          /\ UNCHANGED peer
      BY <2>1, <2>4
    <3>2. found[first] \in Addresses
      BY <2>4, HeldBack, Found
    <3> HIDE DEF first
    <3>3. refused' \in Refusal \cup {None}
      <4>1. target[c] \in Literals \cup Names
        BY <1>8 DEF Resolve, Dialled
      <4> QED
        BY <3>1, <3>2, <4>1, RefuseTypes
    <3> QED
      BY <1>2, <2>2, <3>1, <3>3 DEF Sockets
  <2> QED
    BY <2>3, <2>4
<1>9. ASSUME NEW c \in Clients, UpstreamFails(c)
      PROVE  TypeOK'
  BY <1>2, <1>9 DEF UpstreamFails, Sockets
<1>10. ASSUME NEW c \in Clients, Bridge(c)
       PROVE  TypeOK'
  BY <1>10 DEF Bridge, Sockets
<1>11. ASSUME NEW c \in Clients, ClientLeaves(c) \/ UpstreamLeaves(c) \/ TunnelBreaks(c)
       PROVE  TypeOK'
  BY <1>11 DEF ClientLeaves, UpstreamLeaves, TunnelBreaks, Ended, Sockets
<1> QED
  BY <1>3, <1>4, <1>5, <1>6, <1>7, <1>8, <1>9, <1>10, <1>11 DEF Next, Handler

LEMMA DialledStep ==
    ASSUME TypeOK, Dialled, Next
    PROVE  Dialled'
<1> USE DEF TypeOK
<1>1. CASE RenderEnds
  BY <1>1 DEF RenderEnds, Dialled, AbortUpstream, Destroyed
<1>2. ASSUME NEW c \in Clients, GivesUp(c), NEW b \in Clients
      PROVE  step'[b] \in {"none", "greeting", "request"} => b # c /\ step'[b] = step[b]
  BY <1>2 DEF GivesUp
<1>0. ASSUME NEW c \in Clients, GivesUp(c), Dialled, step[c] # "none"
      PROVE  \A b \in Clients : client'[b] = "none" => step'[b] = "none"
  BY <1>0 DEF GivesUp, Ended, Dialled
<1>3. ASSUME NEW c \in Clients,
             \/ Connect(c) \/ Negotiate(c) \/ HandshakeStops(c) \/ Malformed(c)
             \/ DialRejects(c)
      PROVE  Dialled'
  <2>1. CASE Connect(c)
    BY <2>1 DEF Connect, Dialled
  <2>2. CASE Negotiate(c)
    BY <2>2 DEF Negotiate, Dialled
  <2>3. CASE HandshakeStops(c)
    BY <2>3 DEF HandshakeStops, Dialled
  <2>4. CASE Malformed(c) \/ DialRejects(c)
    BY <1>0, <1>2, <2>4 DEF Malformed, DialRejects, Dialled
  <2> QED
    BY <1>3, <2>1, <2>2, <2>3, <2>4
<1>4. ASSUME NEW c \in Clients, RefuseLiteral(c)
      PROVE  Dialled'
  BY <1>0, <1>2, <1>4 DEF RefuseLiteral, Dialled
<1>5. ASSUME NEW c \in Clients, Dial(c)
      PROVE  Dialled'
  BY <1>5 DEF Dial, Dialled
<1>6. ASSUME NEW c \in Clients, Resolve(c)
      PROVE  Dialled'
  <2>1. /\ step[c] \notin {"none", "greeting", "request"}
        /\ UNCHANGED target
        /\ \E s \in {"connecting", "closed"} : upstream' = [upstream EXCEPT ![c] = s]
        /\ UNCHANGED <<step, client>> \/ GivesUp(c)
    BY <1>6 DEF Resolve, Dialled
  <2> QED
    BY <1>0, <1>2, <2>1 DEF Dialled
<1>7. ASSUME NEW c \in Clients, UpstreamFails(c)
      PROVE  Dialled'
  BY <1>0, <1>2, <1>7 DEF UpstreamFails, Dialled, Dialling
<1>8. ASSUME NEW c \in Clients, Bridge(c)
      PROVE  Dialled'
  BY <1>8 DEF Bridge, Dialled
<1>9. ASSUME NEW c \in Clients, ClientLeaves(c) \/ UpstreamLeaves(c) \/ TunnelBreaks(c)
      PROVE  Dialled'
  BY <1>9 DEF ClientLeaves, UpstreamLeaves, TunnelBreaks, Ended, Dialled
<1> QED
  BY <1>1, <1>3, <1>4, <1>5, <1>6, <1>7, <1>8, <1>9 DEF Next, Handler

-----------------------------------------------------------------------------
(***************************************************************************)
(* The registries, read as ranges.  Masks compare bits; what they compare  *)
(* is stated here by bounds on the numbers, for every address, and IPv6's  *)
(* longest prefix by the exceptions inside each block.                     *)
(***************************************************************************)

SpecialIpv4(o) ==
    \/ o[1] \in {0, 10, 127} \cup 224..255
    \/ o[1] = 100 /\ o[2] \in 64..127
    \/ o[1] = 169 /\ o[2] = 254
    \/ o[1] = 172 /\ o[2] \in 16..31
    \/ o[1] = 192 /\ \/ o[2] = 168
                     \/ o[2] = 0 /\ o[3] \in {0, 2}
                     \/ o[2] = 88 /\ o[3] = 99
    \/ o[1] = 198 /\ (o[2] \in {18, 19} \/ (o[2] = 51 /\ o[3] = 100))
    \/ o[1] = 203 /\ o[2] = 0 /\ o[3] = 113

(* The assignments of 2001::/23 that are reachable although the block is not. *)
Assigned(g) ==
    \/ /\ g[2] = 1 /\ g[3] = 0 /\ g[4] = 0 /\ g[5] = 0 /\ g[6] = 0 /\ g[7] = 0
       /\ g[8] \in {1, 2, 3}
    \/ g[2] = 3
    \/ g[2] = 4 /\ g[3] = 274
    \/ 32 <= g[2] /\ g[2] <= 63

(* 2000::/3 without 6to4, documentation and the unassigned protocol blocks. *)
GlobalUnicast(g) ==
    /\ 8192 <= g[1] /\ g[1] <= 16383 /\ g[1] # 8194
    /\ g[1] = 8193 => g[2] # 3512 /\ (g[2] < 512 => Assigned(g))
    /\ g[1] = 16383 => g[2] >= 4096

GlobalIpv6(g) ==
    \/ GlobalUnicast(g)
    \/ IsNat64(g) /\ ~SpecialIpv4(EmbeddedIpv4(g))

Octets == [1..4 -> 0..255]
Group == {x \in Nat : x <= 65535}
Groups8 == [1..8 -> Group]

LEMMA GroupIsNumber ==
    ASSUME NEW x \in Group
    PROVE  x \in Nat /\ x <= 65535
BY DEF Group

LEMMA GroupsAreNumbers ==
    ASSUME NEW g \in Groups8, NEW i \in 1..8
    PROVE  g[i] \in Nat /\ g[i] <= 65535
<1>1. g[i] \in Group
  BY DEF Groups8
<1> QED
  BY <1>1, GroupIsNumber

(* The IPv4 registry blocks exactly these addresses.                       *)
THEOREM Ipv4ByRange ==
    ASSUME NEW o \in Octets
    PROVE  IsIpv4Routable(o) <=> ~SpecialIpv4(o)
<1> DEFINE In(base, bits) == WithinPrefix(o, [base |-> base, bits |-> bits], 8)
<1>0. o[1] \in 0..255 /\ o[2] \in 0..255 /\ o[3] \in 0..255
  BY DEF Octets
<1>1. In(<<0>>, 8) <=> o[1] = 0
  BY <1>0 DEF WithinPrefix, SameBits
<1>2. In(<<10>>, 8) <=> o[1] = 10
  BY <1>0 DEF WithinPrefix, SameBits
<1>3. In(<<100, 64>>, 10) <=> o[1] = 100 /\ o[2] \in 64..127
  BY <1>0 DEF WithinPrefix, SameBits
<1>4. In(<<127>>, 8) <=> o[1] = 127
  BY <1>0 DEF WithinPrefix, SameBits
<1>5. In(<<169, 254>>, 16) <=> o[1] = 169 /\ o[2] = 254
  BY <1>0 DEF WithinPrefix, SameBits
<1>6. In(<<172, 16>>, 12) <=> o[1] = 172 /\ o[2] \in 16..31
  BY <1>0 DEF WithinPrefix, SameBits
<1>7. In(<<192, 0, 0>>, 24) <=> o[1] = 192 /\ o[2] = 0 /\ o[3] = 0
  BY <1>0 DEF WithinPrefix, SameBits
<1>8. In(<<192, 0, 2>>, 24) <=> o[1] = 192 /\ o[2] = 0 /\ o[3] = 2
  BY <1>0 DEF WithinPrefix, SameBits
<1>9. In(<<192, 88, 99>>, 24) <=> o[1] = 192 /\ o[2] = 88 /\ o[3] = 99
  BY <1>0 DEF WithinPrefix, SameBits
<1>10. In(<<192, 168>>, 16) <=> o[1] = 192 /\ o[2] = 168
  BY <1>0 DEF WithinPrefix, SameBits
<1>11. In(<<198, 18>>, 15) <=> o[1] = 198 /\ o[2] \in {18, 19}
  BY <1>0 DEF WithinPrefix, SameBits
<1>12. In(<<198, 51, 100>>, 24) <=> o[1] = 198 /\ o[2] = 51 /\ o[3] = 100
  BY <1>0 DEF WithinPrefix, SameBits
<1>13. In(<<203, 0, 113>>, 24) <=> o[1] = 203 /\ o[2] = 0 /\ o[3] = 113
  BY <1>0 DEF WithinPrefix, SameBits
<1>14. In(<<224>>, 4) <=> o[1] \in 224..239
  BY <1>0 DEF WithinPrefix, SameBits
<1>15. In(<<240>>, 4) <=> o[1] \in 240..255
  BY <1>0 DEF WithinPrefix, SameBits
<1>16. IsIpv4Routable(o) <=>
         ~(\/ In(<<0>>, 8)
           \/ In(<<10>>, 8)
           \/ In(<<100, 64>>, 10)
           \/ In(<<127>>, 8)
           \/ In(<<169, 254>>, 16)
           \/ In(<<172, 16>>, 12)
           \/ In(<<192, 0, 0>>, 24)
           \/ In(<<192, 0, 2>>, 24)
           \/ In(<<192, 88, 99>>, 24)
           \/ In(<<192, 168>>, 16)
           \/ In(<<198, 18>>, 15)
           \/ In(<<198, 51, 100>>, 24)
           \/ In(<<203, 0, 113>>, 24)
           \/ In(<<224>>, 4)
           \/ In(<<240>>, 4))
  BY DEF IsIpv4Routable, Ipv4Blocked
<1> HIDE DEF In
<1> QED
  BY <1>0, <1>1, <1>2, <1>3, <1>4, <1>5, <1>6, <1>7, <1>8, <1>9, <1>10, <1>11, <1>12, <1>13, <1>14, <1>15, <1>16 DEF SpecialIpv4

(* Which blocks an address is in.                                          *)
LEMMA InBlocks ==
    ASSUME NEW g \in Groups8, NEW p \in Ipv6Policy
    PROVE  p \in Matching(g) <=>
             \/ p = Reachable(<<8192>>, 3) /\ 8192 <= g[1] /\ g[1] <= 16383
             \/ /\ p = Unreachable(<<0, 0, 0, 0, 0, 0, 0, 1>>, 128)
                /\ g[1] = 0 /\ g[2] = 0 /\ g[3] = 0 /\ g[4] = 0 /\ g[5] = 0 /\ g[6] = 0 /\ g[7] = 0 /\ g[8] = 1
             \/ /\ p = Unreachable(<<0, 0, 0, 0, 0, 0, 0, 0>>, 128)
                /\ g[1] = 0 /\ g[2] = 0 /\ g[3] = 0 /\ g[4] = 0 /\ g[5] = 0 /\ g[6] = 0 /\ g[7] = 0 /\ g[8] = 0
             \/ /\ p = Unreachable(<<0, 0, 0, 0, 0, 65535>>, 96)
                /\ g[1] = 0 /\ g[2] = 0 /\ g[3] = 0 /\ g[4] = 0 /\ g[5] = 0 /\ g[6] = 65535
             \/ /\ p = Reachable(<<8193, 1, 0, 0, 0, 0, 0, 1>>, 128)
                /\ g[1] = 8193 /\ g[2] = 1 /\ g[3] = 0 /\ g[4] = 0 /\ g[5] = 0 /\ g[6] = 0 /\ g[7] = 0 /\ g[8] = 1
             \/ /\ p = Reachable(<<8193, 1, 0, 0, 0, 0, 0, 2>>, 128)
                /\ g[1] = 8193 /\ g[2] = 1 /\ g[3] = 0 /\ g[4] = 0 /\ g[5] = 0 /\ g[6] = 0 /\ g[7] = 0 /\ g[8] = 2
             \/ /\ p = Reachable(<<8193, 1, 0, 0, 0, 0, 0, 3>>, 128)
                /\ g[1] = 8193 /\ g[2] = 1 /\ g[3] = 0 /\ g[4] = 0 /\ g[5] = 0 /\ g[6] = 0 /\ g[7] = 0 /\ g[8] = 3
             \/ p = Reachable(<<8193, 32>>, 28) /\ g[1] = 8193 /\ 32 <= g[2] /\ g[2] <= 47
             \/ p = Reachable(<<8193, 48>>, 28) /\ g[1] = 8193 /\ 48 <= g[2] /\ g[2] <= 63
             \/ p = Reachable(<<8193, 4, 274>>, 48) /\ g[1] = 8193 /\ g[2] = 4 /\ g[3] = 274
             \/ p = Reachable(<<8193, 3>>, 32) /\ g[1] = 8193 /\ g[2] = 3
             \/ p = Unreachable(<<8193, 2, 0>>, 48) /\ g[1] = 8193 /\ g[2] = 2 /\ g[3] = 0
             \/ p = Unreachable(<<8193, 3512>>, 32) /\ g[1] = 8193 /\ g[2] = 3512
             \/ p = Unreachable(<<8193, 0>>, 23) /\ g[1] = 8193 /\ g[2] < 512
             \/ p = Unreachable(<<8194>>, 16) /\ g[1] = 8194
             \/ p = Unreachable(<<100, 65435, 1>>, 48) /\ g[1] = 100 /\ g[2] = 65435 /\ g[3] = 1
             \/ /\ p = Reachable(<<100, 65435, 0, 0, 0, 0>>, 96)
                /\ g[1] = 100 /\ g[2] = 65435 /\ g[3] = 0 /\ g[4] = 0 /\ g[5] = 0 /\ g[6] = 0
             \/ /\ p = Unreachable(<<256, 0, 0, 0>>, 64)
                /\ g[1] = 256 /\ g[2] = 0 /\ g[3] = 0 /\ g[4] = 0
             \/ /\ p = Unreachable(<<256, 0, 0, 1>>, 64)
                /\ g[1] = 256 /\ g[2] = 0 /\ g[3] = 0 /\ g[4] = 1
             \/ p = Unreachable(<<16383, 0>>, 20) /\ g[1] = 16383 /\ g[2] < 4096
             \/ p = Unreachable(<<24320>>, 16) /\ g[1] = 24320
             \/ p = Unreachable(<<64512>>, 7) /\ 64512 <= g[1] /\ g[1] <= 65023
             \/ p = Unreachable(<<65152>>, 10) /\ 65152 <= g[1] /\ g[1] <= 65215
             \/ p = Unreachable(<<65280>>, 8) /\ 65280 <= g[1]
<1> DEFINE In(q) == WithinPrefix(g, q, 16)
<1>0. /\ g[1] \in Nat /\ g[1] <= 65535
      /\ g[2] \in Nat /\ g[2] <= 65535
  BY GroupsAreNumbers
<1>1. In(Reachable(<<8192>>, 3)) <=> 8192 <= g[1] /\ g[1] <= 16383
  BY <1>0 DEF WithinPrefix, SameBits, Reachable
<1>2. In(Unreachable(<<0, 0, 0, 0, 0, 0, 0, 1>>, 128)) <=>
         g[1] = 0 /\ g[2] = 0 /\ g[3] = 0 /\ g[4] = 0 /\ g[5] = 0 /\ g[6] = 0 /\ g[7] = 0 /\ g[8] = 1
  BY <1>0 DEF WithinPrefix, SameBits, Unreachable
<1>3. In(Unreachable(<<0, 0, 0, 0, 0, 0, 0, 0>>, 128)) <=>
         g[1] = 0 /\ g[2] = 0 /\ g[3] = 0 /\ g[4] = 0 /\ g[5] = 0 /\ g[6] = 0 /\ g[7] = 0 /\ g[8] = 0
  BY <1>0 DEF WithinPrefix, SameBits, Unreachable
<1>4. In(Unreachable(<<0, 0, 0, 0, 0, 65535>>, 96)) <=>
         g[1] = 0 /\ g[2] = 0 /\ g[3] = 0 /\ g[4] = 0 /\ g[5] = 0 /\ g[6] = 65535
  BY <1>0 DEF WithinPrefix, SameBits, Unreachable
<1>5. In(Reachable(<<8193, 1, 0, 0, 0, 0, 0, 1>>, 128)) <=>
         g[1] = 8193 /\ g[2] = 1 /\ g[3] = 0 /\ g[4] = 0 /\ g[5] = 0 /\ g[6] = 0 /\ g[7] = 0 /\ g[8] = 1
  BY <1>0 DEF WithinPrefix, SameBits, Reachable
<1>6. In(Reachable(<<8193, 1, 0, 0, 0, 0, 0, 2>>, 128)) <=>
         g[1] = 8193 /\ g[2] = 1 /\ g[3] = 0 /\ g[4] = 0 /\ g[5] = 0 /\ g[6] = 0 /\ g[7] = 0 /\ g[8] = 2
  BY <1>0 DEF WithinPrefix, SameBits, Reachable
<1>7. In(Reachable(<<8193, 1, 0, 0, 0, 0, 0, 3>>, 128)) <=>
         g[1] = 8193 /\ g[2] = 1 /\ g[3] = 0 /\ g[4] = 0 /\ g[5] = 0 /\ g[6] = 0 /\ g[7] = 0 /\ g[8] = 3
  BY <1>0 DEF WithinPrefix, SameBits, Reachable
<1>8. In(Reachable(<<8193, 32>>, 28)) <=> g[1] = 8193 /\ 32 <= g[2] /\ g[2] <= 47
  BY <1>0 DEF WithinPrefix, SameBits, Reachable
<1>9. In(Reachable(<<8193, 48>>, 28)) <=> g[1] = 8193 /\ 48 <= g[2] /\ g[2] <= 63
  BY <1>0 DEF WithinPrefix, SameBits, Reachable
<1>10. In(Reachable(<<8193, 4, 274>>, 48)) <=> g[1] = 8193 /\ g[2] = 4 /\ g[3] = 274
  BY <1>0 DEF WithinPrefix, SameBits, Reachable
<1>11. In(Reachable(<<8193, 3>>, 32)) <=> g[1] = 8193 /\ g[2] = 3
  BY <1>0 DEF WithinPrefix, SameBits, Reachable
<1>12. In(Unreachable(<<8193, 2, 0>>, 48)) <=> g[1] = 8193 /\ g[2] = 2 /\ g[3] = 0
  BY <1>0 DEF WithinPrefix, SameBits, Unreachable
<1>13. In(Unreachable(<<8193, 3512>>, 32)) <=> g[1] = 8193 /\ g[2] = 3512
  BY <1>0 DEF WithinPrefix, SameBits, Unreachable
<1>14. In(Unreachable(<<8193, 0>>, 23)) <=> g[1] = 8193 /\ g[2] < 512
  BY <1>0 DEF WithinPrefix, SameBits, Unreachable
<1>15. In(Unreachable(<<8194>>, 16)) <=> g[1] = 8194
  BY <1>0 DEF WithinPrefix, SameBits, Unreachable
<1>16. In(Unreachable(<<100, 65435, 1>>, 48)) <=> g[1] = 100 /\ g[2] = 65435 /\ g[3] = 1
  BY <1>0 DEF WithinPrefix, SameBits, Unreachable
<1>17. In(Reachable(<<100, 65435, 0, 0, 0, 0>>, 96)) <=>
         g[1] = 100 /\ g[2] = 65435 /\ g[3] = 0 /\ g[4] = 0 /\ g[5] = 0 /\ g[6] = 0
  BY <1>0 DEF WithinPrefix, SameBits, Reachable
<1>18. In(Unreachable(<<256, 0, 0, 0>>, 64)) <=>
         g[1] = 256 /\ g[2] = 0 /\ g[3] = 0 /\ g[4] = 0
  BY <1>0 DEF WithinPrefix, SameBits, Unreachable
<1>19. In(Unreachable(<<256, 0, 0, 1>>, 64)) <=>
         g[1] = 256 /\ g[2] = 0 /\ g[3] = 0 /\ g[4] = 1
  BY <1>0 DEF WithinPrefix, SameBits, Unreachable
<1>20. In(Unreachable(<<16383, 0>>, 20)) <=> g[1] = 16383 /\ g[2] < 4096
  BY <1>0 DEF WithinPrefix, SameBits, Unreachable
<1>21. In(Unreachable(<<24320>>, 16)) <=> g[1] = 24320
  BY <1>0 DEF WithinPrefix, SameBits, Unreachable
<1>22. In(Unreachable(<<64512>>, 7)) <=> 64512 <= g[1] /\ g[1] <= 65023
  BY <1>0 DEF WithinPrefix, SameBits, Unreachable
<1>23. In(Unreachable(<<65152>>, 10)) <=> 65152 <= g[1] /\ g[1] <= 65215
  BY <1>0 DEF WithinPrefix, SameBits, Unreachable
<1>24. In(Unreachable(<<65280>>, 8)) <=> 65280 <= g[1]
  BY <1>0 DEF WithinPrefix, SameBits, Unreachable
<1> HIDE DEF In
<1>25. p \in Matching(g) <=> In(p)
  BY DEF Matching, In
<1> QED
  BY <1>25, <1>1, <1>2, <1>3, <1>4, <1>5, <1>6, <1>7, <1>8, <1>9, <1>10, <1>11, <1>12, <1>13, <1>14, <1>15, <1>16, <1>17, <1>18, <1>19, <1>20, <1>21, <1>22, <1>23, <1>24 DEF Ipv6Policy

LEMMA ReachableWins ==
    ASSUME NEW g, NEW p \in Matching(g), p.reachable, \A q \in Matching(g) : q.bits <= p.bits
    PROVE  \E q \in MostSpecific(g) : q.reachable
BY DEF MostSpecific

LEMMA UnreachableWins ==
    ASSUME NEW g, NEW u \in Matching(g), \A p \in Matching(g) : p.reachable => ~(u.bits <= p.bits)
    PROVE  ~\E q \in MostSpecific(g) : q.reachable
BY DEF MostSpecific

LEMMA EmbeddedOctets ==
    ASSUME NEW g \in Groups8
    PROVE  EmbeddedIpv4(g) \in Octets
<1>1. \A x \in Nat : x <= 65535 => x \div 256 \in 0..255 /\ x % 256 \in 0..255
  OBVIOUS
<1>2. /\ g[7] \in Nat /\ g[7] <= 65535
      /\ g[8] \in Nat /\ g[8] <= 65535
  BY GroupsAreNumbers
<1> QED
  BY <1>1, <1>2 DEF EmbeddedIpv4, Octets

(* 2000::/3 where no more specific block lies.                             *)
LEMMA PlainUnicast ==
    ASSUME NEW g \in Groups8, 8192 <= g[1], g[1] <= 16383, g[1] # 8194,
           g[1] = 8193 => g[2] >= 512 /\ g[2] # 3512,
           g[1] = 16383 => g[2] >= 4096
    PROVE  \E q \in MostSpecific(g) : q.reachable
<1> DEFINE unicast == Reachable(<<8192>>, 3)
<1>0. g[1] \in Nat /\ g[2] \in Nat
  BY GroupsAreNumbers
<1>1. unicast \in Ipv6Policy /\ \A q \in Matching(g) : q \in Ipv6Policy
  BY DEF Ipv6Policy, Matching
<1>2. unicast \in Matching(g)
  BY <1>1, InBlocks
<1>3. \A q \in Matching(g) : q = unicast
  BY <1>0, <1>1, InBlocks
<1>4. unicast.reachable /\ unicast.bits = 3
  BY DEF Reachable, Unreachable
<1> QED
  BY <1>2, <1>3, <1>4, ReachableWins

(* Blocks of 2000::/3 that are not reachable.                              *)
LEMMA Carved ==
    ASSUME NEW g \in Groups8,
           \/ g[1] = 8194
           \/ g[1] = 16383 /\ g[2] < 4096
           \/ g[1] = 8193 /\ g[2] = 3512
           \/ g[1] = 8193 /\ g[2] < 512 /\ ~Assigned(g)
    PROVE  ~\E q \in MostSpecific(g) : q.reachable
<1> DEFINE unicast == Reachable(<<8192>>, 3)
<1>0. g[1] \in Nat /\ g[2] \in Nat
  BY GroupsAreNumbers
<1>1. \A q \in Matching(g) : q \in Ipv6Policy
  BY DEF Matching
<1>2. /\ unicast.bits = 3
      /\ \A base, bits : Unreachable(base, bits).reachable = FALSE
                         /\ Unreachable(base, bits).bits = bits
  BY DEF Reachable, Unreachable
<1>3. \A p \in Matching(g) : p.reachable => p = unicast
  BY <1>0, <1>1, <1>2, InBlocks DEF Assigned
<1>4. \E u \in Matching(g) : u.bits \in {16, 20, 23, 32}
  <2>1. /\ Unreachable(<<8194>>, 16) \in Ipv6Policy
        /\ Unreachable(<<16383, 0>>, 20) \in Ipv6Policy
        /\ Unreachable(<<8193, 3512>>, 32) \in Ipv6Policy
        /\ Unreachable(<<8193, 0>>, 23) \in Ipv6Policy
    BY DEF Ipv6Policy
  <2>2. CASE g[1] = 8194
    <3>1. Unreachable(<<8194>>, 16) \in Matching(g)
      BY <2>1, <2>2, InBlocks
    <3> QED
      BY <1>2, <3>1
  <2>3. CASE g[1] = 16383 /\ g[2] < 4096
    <3>1. Unreachable(<<16383, 0>>, 20) \in Matching(g)
      BY <2>1, <2>3, InBlocks
    <3> QED
      BY <1>2, <3>1
  <2>4. CASE g[1] = 8193 /\ g[2] = 3512
    <3>1. Unreachable(<<8193, 3512>>, 32) \in Matching(g)
      BY <2>1, <2>4, InBlocks
    <3> QED
      BY <1>2, <3>1
  <2>5. CASE g[1] = 8193 /\ g[2] < 512
    <3>1. Unreachable(<<8193, 0>>, 23) \in Matching(g)
      BY <2>1, <2>5, InBlocks
    <3> QED
      BY <1>2, <3>1
  <2> QED
    BY <2>2, <2>3, <2>4, <2>5
<1>5. PICK u \in Matching(g) : u.bits \in {16, 20, 23, 32}
  BY <1>4
<1>6. \A p \in Matching(g) : p.reachable => ~(u.bits <= p.bits)
  BY <1>2, <1>3, <1>5
<1> QED
  BY <1>6, UnreachableWins

(* The reachable assignments of 2001::/23 are more specific than the block. *)
LEMMA AssignedWins ==
    ASSUME NEW g \in Groups8, g[1] = 8193, g[2] < 512, Assigned(g)
    PROVE  \E q \in MostSpecific(g) : q.reachable
<1> DEFINE unicast == Reachable(<<8192>>, 3)
           block == Unreachable(<<8193, 0>>, 23)
<1>0. g[1] \in Nat /\ g[2] \in Nat
  BY GroupsAreNumbers
<1>1. \A q \in Matching(g) : q \in Ipv6Policy
  BY DEF Matching
<1>2. unicast.bits = 3 /\ block.bits = 23
  BY DEF Reachable, Unreachable
<1>3. ASSUME NEW p \in Ipv6Policy, NEW base, NEW bits \in {28, 32, 48, 128},
             p = Reachable(base, bits), p \in Matching(g),
             \A q \in Matching(g) : q \in {unicast, block, p}
      PROVE  \E q \in MostSpecific(g) : q.reachable
  <2>1. p.reachable /\ p.bits = bits
    BY <1>3 DEF Reachable
  <2>2. \A q \in Matching(g) : q.bits <= p.bits
    BY <1>2, <1>3, <2>1
  <2> QED
    BY <1>3, <2>1, <2>2, ReachableWins
<1>4. /\ \A n \in {1, 2, 3} : Reachable(<<8193, 1, 0, 0, 0, 0, 0, n>>, 128) \in Ipv6Policy
      /\ Reachable(<<8193, 3>>, 32) \in Ipv6Policy
      /\ Reachable(<<8193, 4, 274>>, 48) \in Ipv6Policy
      /\ Reachable(<<8193, 32>>, 28) \in Ipv6Policy /\ Reachable(<<8193, 48>>, 28) \in Ipv6Policy
  BY DEF Ipv6Policy
<1>5. ASSUME NEW n \in {1, 2, 3}, g[2] = 1, g[3] = 0, g[4] = 0, g[5] = 0, g[6] = 0, g[7] = 0,
             g[8] = n
      PROVE  \E q \in MostSpecific(g) : q.reachable
  <2> DEFINE p == Reachable(<<8193, 1, 0, 0, 0, 0, 0, n>>, 128)
  <2>1. p \in Matching(g) /\ \A q \in Matching(g) : q \in {unicast, block, p}
    BY <1>0, <1>1, <1>4, <1>5, InBlocks
  <2> QED
    BY <1>3, <1>4, <2>1
<1>6. CASE g[2] = 3
  <2> DEFINE p == Reachable(<<8193, 3>>, 32)
  <2>1. p \in Matching(g) /\ \A q \in Matching(g) : q \in {unicast, block, p}
    BY <1>0, <1>1, <1>4, <1>6, InBlocks
  <2> QED
    BY <1>3, <1>4, <2>1
<1>7. CASE g[2] = 4 /\ g[3] = 274
  <2> DEFINE p == Reachable(<<8193, 4, 274>>, 48)
  <2>1. p \in Matching(g) /\ \A q \in Matching(g) : q \in {unicast, block, p}
    BY <1>0, <1>1, <1>4, <1>7, InBlocks
  <2> QED
    BY <1>3, <1>4, <2>1
<1>8. CASE 32 <= g[2] /\ g[2] <= 47
  <2> DEFINE p == Reachable(<<8193, 32>>, 28)
  <2>1. p \in Matching(g) /\ \A q \in Matching(g) : q \in {unicast, block, p}
    BY <1>0, <1>1, <1>4, <1>8, InBlocks
  <2> QED
    BY <1>3, <1>4, <2>1
<1>9. CASE 48 <= g[2] /\ g[2] <= 63
  <2> DEFINE p == Reachable(<<8193, 48>>, 28)
  <2>1. p \in Matching(g) /\ \A q \in Matching(g) : q \in {unicast, block, p}
    BY <1>0, <1>1, <1>4, <1>9, InBlocks
  <2> QED
    BY <1>3, <1>4, <2>1
<1> QED
  BY <1>0, <1>5, <1>6, <1>7, <1>8, <1>9 DEF Assigned

(* The IPv6 registry, longest prefix first and embedded IPv4 hosts judged  *)
(* again, reaches exactly these addresses.                                 *)
THEOREM Ipv6ByRange ==
    ASSUME NEW g \in Groups8
    PROVE  IsIpv6Routable(g) <=> GlobalIpv6(g)
<1>0. g[1] \in Nat /\ g[2] \in Nat
  BY GroupsAreNumbers
<1>1. IsNat64(g) <=> /\ g[1] = 100 /\ g[2] = 65435 /\ g[3] = 0
                     /\ g[4] = 0 /\ g[5] = 0 /\ g[6] = 0
  BY DEF IsNat64, GroupsMatch
<1>2. \A q \in Matching(g) : q \in Ipv6Policy
  BY DEF Matching
<1>3. CASE 8192 <= g[1] /\ g[1] <= 16383
  <2>1. ~IsNat64(g)
    BY <1>0, <1>1, <1>3
  <2>2. (\E q \in MostSpecific(g) : q.reachable) <=> GlobalUnicast(g)
    BY <1>0, <1>3, PlainUnicast, Carved, AssignedWins DEF GlobalUnicast
  <2> QED
    BY <2>1, <2>2 DEF IsIpv6Routable, GlobalIpv6
<1>4. CASE ~(8192 <= g[1] /\ g[1] <= 16383) /\ ~IsNat64(g)
  <2>1. \A base, bits : Unreachable(base, bits).reachable = FALSE
    BY DEF Reachable, Unreachable
  <2>2. \A q \in Matching(g) : ~q.reachable
    BY <1>0, <1>1, <1>2, <1>4, <2>1, InBlocks
  <2> QED
    BY <1>4, <2>2 DEF IsIpv6Routable, GlobalIpv6, GlobalUnicast, MostSpecific
<1>5. CASE IsNat64(g)
  <2> DEFINE nat64 == Reachable(<<100, 65435, 0, 0, 0, 0>>, 96)
  <2>1. nat64 \in Ipv6Policy
    BY DEF Ipv6Policy
  <2>2. nat64 \in Matching(g)
    BY <1>1, <1>5, <2>1, InBlocks
  <2>3. \A q \in Matching(g) : q = nat64
    BY <1>1, <1>2, <1>5, InBlocks
  <2>4. nat64.reachable /\ nat64.bits = 96
    BY DEF Reachable, Unreachable
  <2>5. \E q \in MostSpecific(g) : q.reachable
    BY <2>2, <2>3, <2>4, ReachableWins
  <2>6. IsIpv4Routable(EmbeddedIpv4(g)) <=> ~SpecialIpv4(EmbeddedIpv4(g))
    BY EmbeddedOctets, Ipv4ByRange
  <2>7. ~GlobalUnicast(g)
    BY <1>1, <1>5 DEF GlobalUnicast
  <2> QED
    BY <1>5, <2>5, <2>6, <2>7 DEF IsIpv6Routable, GlobalIpv6
<1> QED
  BY <1>3, <1>4, <1>5

(* The texts of addresses: what a dotted quad and the pieces of an IPv6    *)
(* address may be, readable or not.                                        *)
Quad == [1..4 -> 0..999]
Piece == [1..1 -> Group] \cup Quad
Address ==
    [family : {"ipv4"}, text : Quad] \cup
    [family : {"ipv6"}, text : {halves \in Seq(Seq(Piece)) : Len(halves) \in {1, 2}}]

LEMMA NumberIsGroup ==
    ASSUME NEW x \in Nat, x <= 65535
    PROVE  x \in Group
BY DEF Group

LEMMA PieceGroups ==
    ASSUME NEW part \in Seq(Piece), NEW i \in DOMAIN part, PieceValid(part, i)
    PROVE  /\ Groups(part[i]) \in Seq(Group)
           /\ i # Len(part) => part[i][1] \in Group
<1>1. part[i] \in Piece
  OBVIOUS
<1>2. CASE part[i] \in [1..1 -> Group]
  <2>1. part[i][1] \in Group
    BY <1>2
  <2>2. part[i] \in Seq(Group)
    <3>1. \A n \in Nat : [1..n -> Group] \subseteq Seq(Group)
      OBVIOUS
    <3>2. 1 \in Nat /\ part[i] \in [1..1 -> Group]
      BY <1>2
    <3> QED
      BY <3>1, <3>2, Zenon
  <2>3. Len(part[i]) = 1
    BY <1>2
  <2> QED
    BY <2>1, <2>2, <2>3 DEF Groups
<1>3. CASE part[i] \in Quad
  <2>1. Len(part[i]) = 4
    BY <1>3 DEF Quad
  <2>2. i = Len(part) /\ \A k \in 1..4 : part[i][k] \in 0..255
    BY <2>1 DEF PieceValid, Ipv4Valid
  <2>3. \A x, y \in 0..255 : x * 256 + y \in Group
    <3>1. \A x, y \in 0..255 : x * 256 + y \in Nat /\ x * 256 + y <= 65535
      OBVIOUS
    <3> QED
      BY <3>1, NumberIsGroup
  <2>4. /\ part[i][1] * 256 + part[i][2] \in Group
        /\ part[i][3] * 256 + part[i][4] \in Group
    <3>1. /\ part[i][1] \in 0..255 /\ part[i][2] \in 0..255
          /\ part[i][3] \in 0..255 /\ part[i][4] \in 0..255
      BY <2>2
    <3> QED
      BY <2>3, <3>1
  <2>5. Groups(part[i]) = <<part[i][1] * 256 + part[i][2], part[i][3] * 256 + part[i][4]>>
    BY <2>1 DEF Groups
  <2> QED
    BY <2>2, <2>4, <2>5
<1> QED
  BY <1>1, <1>2, <1>3 DEF Piece

LEMMA ExpandGroups ==
    ASSUME NEW part \in Seq(Piece), \A i \in DOMAIN part : PieceValid(part, i)
    PROVE  Expand(part) \in Seq(Group)
<1>1. CASE part = <<>>
  BY <1>1 DEF Expand
<1>2. CASE part # <<>>
  <2> DEFINE firsts == [i \in 1..(Len(part) - 1) |-> part[i][1]]
  <2>1. Len(part) \in Nat /\ Len(part) >= 1 /\ Len(part) \in DOMAIN part
    BY <1>2
  <2>2. \A i \in 1..(Len(part) - 1) : part[i][1] \in Group
    BY <2>1, PieceGroups
  <2>3. firsts \in Seq(Group)
    BY <2>1, <2>2
  <2>4. Groups(part[Len(part)]) \in Seq(Group)
    BY <2>1, PieceGroups
  <2> HIDE DEF firsts
  <2>5. firsts \o Groups(part[Len(part)]) \in Seq(Group)
    BY <2>3, <2>4
  <2> QED
    BY <1>2, <2>5 DEF Expand, firsts
<1> QED
  BY <1>1, <1>2

(* What can be read has eight groups.                                      *)
LEMMA ParsedGroups ==
    ASSUME NEW halves \in Seq(Seq(Piece)), Len(halves) \in {1, 2}
    PROVE  ParseIpv6(halves) = None \/ ParseIpv6(halves) \in Groups8
<1>1. CASE \E h \in DOMAIN halves : \E i \in DOMAIN halves[h] : ~PieceValid(halves[h], i)
  BY <1>1 DEF ParseIpv6
<1>2. CASE \A h \in DOMAIN halves : \A i \in DOMAIN halves[h] : PieceValid(halves[h], i)
  <2>1. ASSUME NEW h \in DOMAIN halves
        PROVE  Expand(halves[h]) \in Seq(Group)
    BY <1>2, ExpandGroups
  <2>2. \A s \in Seq(Group) : Len(s) = 8 => s \in Groups8
    <3>1. \A s \in Seq(Group) : s \in [1..Len(s) -> Group]
      OBVIOUS
    <3> QED
      BY <3>1 DEF Groups8
  <2>3. CASE Len(halves) = 1
    BY <1>2, <2>1, <2>2, <2>3 DEF ParseIpv6
  <2>4. CASE Len(halves) = 2
    <3> DEFINE left == Expand(halves[1])
               right == Expand(halves[2])
               missing == 8 - Len(left) - Len(right)
               whole == left \o Zeros(missing) \o right
    <3>1. left \in Seq(Group) /\ right \in Seq(Group)
      BY <2>1, <2>4
    <3>2. ParseIpv6(halves) = IF missing < 1 THEN None ELSE whole
      BY <1>2, <2>4 DEF ParseIpv6
    <3> HIDE DEF left, right
    <3>3. missing \in Int /\ Len(left) \in Nat /\ Len(right) \in Nat
      BY <3>1
    <3>4. ASSUME missing >= 1
          PROVE  whole \in Seq(Group) /\ Len(whole) = 8
      <4>1. 0 \in Group
        BY DEF Group
      <4>2. Zeros(missing) \in Seq(Group) /\ Len(Zeros(missing)) = missing
        <5> HIDE DEF missing
        <5> QED
          BY <3>3, <3>4, <4>1 DEF Zeros
      <4>3. left \o Zeros(missing) \in Seq(Group)
            /\ Len(left \o Zeros(missing)) = Len(left) + missing
        <5> HIDE DEF missing
        <5> QED
          BY <3>1, <3>3, <4>2
      <4> QED
        BY <3>1, <3>3, <4>3
    <3>5. CASE missing < 1
      BY <3>2, <3>5
    <3>6. CASE ~(missing < 1)
      <4>1. whole \in Seq(Group) /\ Len(whole) = 8
        BY <3>3, <3>4, <3>6
      <4> HIDE DEF whole
      <4>2. whole \in Groups8
        BY <2>2, <4>1
      <4> QED
        BY <3>2, <3>6, <4>2
    <3> QED
      BY <3>5, <3>6
  <2> QED
    BY <2>3, <2>4
<1> QED
  BY <1>1, <1>2

(* The addresses outside the special ranges.                               *)
Global(address) ==
    IF address.family = "ipv4"
    THEN Ipv4Valid(address.text) /\ ~SpecialIpv4(address.text)
    ELSE LET groups == ParseIpv6(address.text)
         IN  groups # None /\ GlobalIpv6(groups)

(* An address is talked to if, and only if, it can be read and lies in no  *)
(* special range, however it is spelled (isGloballyRoutable).              *)
THEOREM AddressesByRange ==
    ASSUME NEW a \in Address
    PROVE  IsGloballyRoutable(a) <=> Global(a)
<1>1. CASE a \in [family : {"ipv4"}, text : Quad]
  <2>1. a.family = "ipv4" /\ a.text \in Quad
    BY <1>1
  <2>2. Ipv4Valid(a.text) => a.text \in Octets
    BY <2>1 DEF Ipv4Valid, Quad, Octets
  <2> QED
    BY <2>1, <2>2, Ipv4ByRange DEF IsGloballyRoutable, Global
<1>2. CASE a \in [family : {"ipv6"}, text : {halves \in Seq(Seq(Piece)) : Len(halves) \in {1, 2}}]
  <2>1. a.family = "ipv6" /\ a.text \in Seq(Seq(Piece)) /\ Len(a.text) \in {1, 2}
    BY <1>2
  <2>2. ParseIpv6(a.text) = None \/ ParseIpv6(a.text) \in Groups8
    BY <2>1, ParsedGroups
  <2> QED
    BY <2>1, <2>2, Ipv6ByRange DEF IsGloballyRoutable, Global
<1> QED
  BY <1>1, <1>2 DEF Address

-----------------------------------------------------------------------------
(* Where the sockets go.                                                   *)

(* The registries say of the addresses known to be private, and of those   *)
(* known to be public, that they are.                                      *)
Judged ==
    /\ \A a \in Private : ~IsGloballyRoutable(a)
    /\ \A a \in Public : IsGloballyRoutable(a)

Live(socket) == socket \in {"connecting", "open", "ended"}

(* The socket of c goes where it may.                                      *)
Fit(c) == Live(upstream[c]) => peer[c] \notin Private \/ target[c] \in Exempt

(* So does one that was open already.                                      *)
LEMMA FitKept ==
    ASSUME NEW c \in Clients, Fit(c), peer'[c] = peer[c], target'[c] = target[c],
           Live(upstream'[c]) => Live(upstream[c])
    PROVE  Fit(c)'
BY DEF Fit

LEMMA PeersStep ==
    ASSUME Judged, TypeOK, Dialled, OnlyPublicPeers, Next
    PROVE  OnlyPublicPeers'
<1>0. TypeOK /\ \A b \in Clients : Fit(b)
  BY DEF OnlyPublicPeers, Fit, Live
<1>1. ASSUME NEW host, NEW address, Refuse(host, address),
             ~IsGloballyRoutable(address), host \notin Exempt
      PROVE  refused' # None => refused'.address \notin Public /\ refused'.host \notin Exempt
  BY <1>1 DEF Refuse, Judged, OnlyPublicPeers
<1>2. UNCHANGED refused =>
         (refused' # None => refused'.address \notin Public /\ refused'.host \notin Exempt)
  BY DEF OnlyPublicPeers
<1>3. ASSUME NEW c \in Clients, NEW b \in Clients, b # c,
             Connect(c) \/ Handler(c) \/ ClientLeaves(c) \/ UpstreamLeaves(c) \/ TunnelBreaks(c)
      PROVE  Fit(b)'
  <2>1. peer'[b] = peer[b] /\ target'[b] = target[b] /\ upstream'[b] = upstream[b]
    BY <1>3
    DEF TypeOK, Connect, Handler, Negotiate, Malformed, HandshakeStops, RefuseLiteral, Dial,
        Resolve, UpstreamFails, Bridge, DialRejects, ClientLeaves, UpstreamLeaves,
        TunnelBreaks
  <2> QED
    BY <1>0, <2>1, FitKept
<1>4. CASE RenderEnds
  <2>1. \A b \in Clients : Fit(b)'
    BY <1>4 DEF RenderEnds, AbortUpstream, Destroyed, Fit, Live
  <2> QED
    BY <1>2, <1>4, <2>1 DEF OnlyPublicPeers, Fit, Live, RenderEnds
<1>5. ASSUME NEW c \in Clients,
             \/ Connect(c) \/ Negotiate(c) \/ Malformed(c) \/ HandshakeStops(c)
             \/ UpstreamFails(c) \/ Bridge(c) \/ DialRejects(c)
             \/ ClientLeaves(c) \/ UpstreamLeaves(c) \/ TunnelBreaks(c)
      PROVE  Fit(c)' /\ UNCHANGED refused
  <2>1. /\ peer'[c] = peer[c] /\ target'[c] = target[c] /\ UNCHANGED refused
        /\ Live(upstream'[c]) => Live(upstream[c])
    BY <1>0, <1>5
    DEF TypeOK, Connect, Negotiate, Malformed, HandshakeStops, UpstreamFails, Bridge,
        DialRejects, ClientLeaves, UpstreamLeaves, TunnelBreaks, Live, Ended
  <2> QED
    BY <1>0, <2>1, FitKept
<1>6. ASSUME NEW c \in Clients, RefuseLiteral(c)
      PROVE  OnlyPublicPeers'
  <2>1. ~Live(upstream'[c])
    BY <1>6 DEF RefuseLiteral, Dialled, Live
  <2>2. PICK a \in Literals : ~CheckLiteralHost(a) /\ Refuse(a, a)
    BY <1>6 DEF RefuseLiteral
  <2>3. ~IsGloballyRoutable(a) /\ a \notin Exempt
    BY <2>2 DEF CheckLiteralHost, IsAllowedPrivateHost
  <2>4. refused' # None => refused'.address \notin Public /\ refused'.host \notin Exempt
    BY <1>1, <2>2, <2>3
  <2>5. \A b \in Clients : Fit(b)'
    BY <1>3, <1>6, <2>1 DEF Handler, Fit
  <2> QED
    BY <2>4, <2>5 DEF OnlyPublicPeers, Fit, Live
<1>7. ASSUME NEW c \in Clients, Dial(c)
      PROVE  OnlyPublicPeers'
  <2>1. PICK host \in {a \in Literals : CheckLiteralHost(a)} \cup Names :
           /\ target' = [target EXCEPT ![c] = host]
           /\ peer' = [peer EXCEPT ![c] = IF host \in Literals THEN host ELSE None]
           /\ upstream' = [upstream EXCEPT ![c] =
                             IF host \in Literals THEN "connecting" ELSE "resolving"]
    BY <1>7 DEF Dial
  <2>2. /\ target'[c] = host
        /\ peer'[c] = IF host \in Literals THEN host ELSE None
        /\ upstream'[c] = IF host \in Literals THEN "connecting" ELSE "resolving"
    BY <2>1 DEF TypeOK
  <2>3. Fit(c)'
    <3>1. CASE host \notin Literals
      BY <2>2, <3>1 DEF Fit, Live
    <3>2. CASE host \in Exempt
      BY <2>2, <3>2 DEF Fit
    <3>3. CASE host \in Literals /\ host \notin Exempt
      <4>1. IsGloballyRoutable(host)
        BY <3>3, ProxyAssumption DEF CheckLiteralHost, IsAllowedPrivateHost
      <4> QED
        BY <2>2, <3>3, <4>1 DEF Fit, Judged
    <3> QED
      BY <3>1, <3>2, <3>3
  <2>4. \A b \in Clients : Fit(b)'
    BY <1>3, <1>7, <2>3 DEF Handler
  <2> QED
    BY <1>2, <1>7, <2>4 DEF OnlyPublicPeers, Fit, Live, Dial
<1>8. ASSUME NEW c \in Clients, Resolve(c)
      PROVE  OnlyPublicPeers'
  <2>1. PICK found \in Answers :
           IF Blocked(target[c], found) = {}
           THEN /\ \E i \in DOMAIN found : peer' = [peer EXCEPT ![c] = found[i]]
                /\ upstream' = [upstream EXCEPT ![c] = "connecting"]
                /\ UNCHANGED <<step, client, refused>>
           ELSE /\ upstream' = [upstream EXCEPT ![c] = "closed"]
                /\ LET first == CHOOSE i \in Blocked(target[c], found) :
                                   \A j \in Blocked(target[c], found) : i <= j
                   IN Refuse(target[c], found[first])
                /\ GivesUp(c)
                /\ UNCHANGED peer
    BY <1>8 DEF Resolve
  <2>2. target'[c] = target[c]
    BY <1>8 DEF Resolve
  <2>3. CASE Blocked(target[c], found) = {}
    <3>1. PICK i \in DOMAIN found : peer' = [peer EXCEPT ![c] = found[i]]
      BY <2>1, <2>3
    <3>2. peer'[c] = found[i] /\ UNCHANGED refused
      BY <2>1, <2>3, <3>1 DEF TypeOK
    <3>3. target[c] \in Exempt \/ IsGloballyRoutable(found[i])
      BY <2>3 DEF Blocked, IsAllowedPrivateHost
    <3>4. Fit(c)'
      BY <2>2, <3>2, <3>3 DEF Fit, Judged
    <3>5. \A b \in Clients : Fit(b)'
      BY <1>3, <1>8, <3>4 DEF Handler
    <3> QED
      BY <1>2, <3>2, <3>5 DEF OnlyPublicPeers, Fit, Live
  <2>4. CASE Blocked(target[c], found) # {}
    <3> DEFINE first == CHOOSE i \in Blocked(target[c], found) :
                           \A j \in Blocked(target[c], found) : i <= j
    <3>1. upstream'[c] = "closed" /\ Refuse(target[c], found[first])
      BY <2>1, <2>4 DEF TypeOK
    <3>2. ~IsGloballyRoutable(found[first]) /\ target[c] \notin Exempt
      BY <2>4, HeldBack
    <3> HIDE DEF first
    <3>3. refused' # None => refused'.address \notin Public /\ refused'.host \notin Exempt
      BY <1>1, <3>1, <3>2
    <3>4. Fit(c)'
      BY <3>1 DEF Fit, Live
    <3>5. \A b \in Clients : Fit(b)'
      BY <1>3, <1>8, <3>4 DEF Handler
    <3> QED
      BY <3>3, <3>5 DEF OnlyPublicPeers, Fit, Live
  <2> QED
    BY <2>3, <2>4
<1>9. ASSUME NEW c \in Clients,
             \/ Connect(c) \/ Negotiate(c) \/ Malformed(c) \/ HandshakeStops(c)
             \/ UpstreamFails(c) \/ Bridge(c) \/ DialRejects(c)
             \/ ClientLeaves(c) \/ UpstreamLeaves(c) \/ TunnelBreaks(c)
      PROVE  OnlyPublicPeers'
  <2>1. \A b \in Clients : Fit(b)'
    BY <1>3, <1>5, <1>9 DEF Handler
  <2>2. UNCHANGED refused
    BY <1>5, <1>9
  <2> QED
    BY <1>2, <2>1, <2>2 DEF OnlyPublicPeers, Fit, Live
<1> QED
  BY <1>4, <1>6, <1>7, <1>8, <1>9 DEF Next, Handler

LEMMA AbortStep ==
    ASSUME TypeOK, NothingAfterAbort, Next
    PROVE  NothingAfterAbort'
<1> USE DEF TypeOK
<1>1. CASE RenderEnds
  BY <1>1
  DEF RenderEnds, NothingAfterAbort, Held, Tracked, Dialling, AbortUpstream, Destroyed, Sockets
<1>2. CASE ~Aborted /\ ~RenderEnds
  BY <1>2
  DEF Aborted, NothingAfterAbort, Next, Connect, Handler, Negotiate, Malformed,
      HandshakeStops, RefuseLiteral, Dial, Resolve, UpstreamFails, Bridge, DialRejects,
      ClientLeaves, UpstreamLeaves, TunnelBreaks
<1>3. CASE Aborted /\ ~RenderEnds
  <2>1. \A c \in Clients : client[c] \notin {"open", "ended"} /\ upstream[c] \notin Tracked
    BY <1>3 DEF NothingAfterAbort, Held
  <2>2. ASSUME NEW c \in Clients, GivesUp(c), NEW b \in Clients
        PROVE  client'[b] \notin {"open", "ended"}
    BY <2>1, <2>2 DEF GivesUp, Ended
  <2>3. ASSUME NEW c \in Clients, Connect(c) \/ HandshakeStops(c) \/ DialRejects(c)
        PROVE  \A b \in Clients : client'[b] \notin {"open", "ended"}
                                  /\ upstream'[b] = upstream[b]
    BY <1>3, <2>1, <2>2, <2>3 DEF Connect, HandshakeStops, DialRejects
  <2>4. ASSUME NEW c \in Clients,
               \/ Negotiate(c) \/ Malformed(c) \/ RefuseLiteral(c) \/ Dial(c)
               \/ Resolve(c) \/ UpstreamFails(c) \/ Bridge(c)
               \/ ClientLeaves(c) \/ UpstreamLeaves(c) \/ TunnelBreaks(c)
        PROVE  FALSE
    BY <2>1, <2>4
    DEF Negotiate, Malformed, RefuseLiteral, Dial, Resolve, UpstreamFails, Bridge,
        ClientLeaves, UpstreamLeaves, TunnelBreaks, Tracked, Dialling
  <2>5. \A b \in Clients : client'[b] \notin {"open", "ended"} /\ upstream'[b] \notin Tracked
    BY <1>3, <2>1, <2>3, <2>4 DEF Next, Handler
  <2> QED
    BY <2>5 DEF NothingAfterAbort, Held, Tracked, Dialling
<1> QED
  BY <1>1, <1>2, <1>3

-----------------------------------------------------------------------------
LEMMA InitInv == Init => IInv
<1> SUFFICES ASSUME Init PROVE IInv
  OBVIOUS
<1>1. TypeOK /\ Dialled
  BY DEF Init, TypeOK, Dialled, Sockets
<1>2. OnlyPublicPeers /\ NothingAfterAbort
  BY DEF Init, OnlyPublicPeers, NothingAfterAbort, Aborted
<1> QED
  BY <1>1, <1>2 DEF IInv

LEMMA StepInv ==
    ASSUME Judged
    PROVE  IInv /\ [Next]_vars => IInv'
<1> SUFFICES ASSUME IInv, [Next]_vars PROVE IInv'
  OBVIOUS
<1>1. CASE Next
  BY <1>1, TypesStep, DialledStep, PeersStep, AbortStep DEF IInv
<1>2. CASE UNCHANGED vars
  BY <1>2
  DEF vars, IInv, TypeOK, Dialled, OnlyPublicPeers, NothingAfterAbort, Held, Aborted
<1> QED
  BY <1>1, <1>2

(* Every variable holds a value of its type.                               *)
THEOREM ProxyTypes == Spec => []TypeOK
<1> DEFINE Inv == TypeOK /\ Dialled
<1>1. Init => Inv
  BY InitInv DEF IInv
<1>2. Inv /\ [Next]_vars => Inv'
  <2>1. CASE UNCHANGED vars
    BY <2>1 DEF vars, TypeOK, Dialled
  <2> QED
    BY <2>1, TypesStep, DialledStep
<1> QED
  BY <1>1, <1>2, PTL DEF Spec

(* However a host is named and whatever its lookups answer, no socket is   *)
(* being opened or open to a private address, but for exempt hosts; and a  *)
(* refusal never names a public one.                                       *)
THEOREM PeersArePublic ==
    ASSUME Judged
    PROVE  Spec => []OnlyPublicPeers
<1>1. IInv => OnlyPublicPeers
  BY DEF IInv
<1>2. IInv /\ [Next]_vars => IInv'
  BY StepInv
<1> QED
  BY <1>1, <1>2, InitInv, PTL DEF Spec

(* The private addresses lie in the special ranges and the public ones do  *)
(* not; every address may be in one of the sets.                           *)
Known ==
    /\ \A a \in Private : a \in Address /\ ~Global(a)
    /\ \A a \in Public : a \in Address /\ Global(a)

(* No socket goes to an address of a special range, in whatever spelling,  *)
(* unless its host is exempt, and none outside them is refused: what the   *)
(* registries' masks say need not be assumed.                              *)
THEOREM PeersOutsideRanges ==
    ASSUME Known
    PROVE  Spec => []OnlyPublicPeers
<1>1. Judged
  BY AddressesByRange DEF Known, Judged
<1> QED
  BY <1>1, PeersArePublic

(* Once the render has returned nothing of it is on the network, whichever *)
(* step its connections were in, and none comes back (abort).              *)
THEOREM AbortLeavesNothing == Spec => []NothingAfterAbort
<1> DEFINE Inv == TypeOK /\ Dialled /\ NothingAfterAbort
<1>1. Init => Inv
  BY InitInv DEF IInv
<1>2. Inv /\ [Next]_vars => Inv'
  <2>1. CASE UNCHANGED vars
    BY <2>1 DEF vars, TypeOK, Dialled, NothingAfterAbort, Held, Aborted
  <2> QED
    BY <2>1, TypesStep, DialledStep, AbortStep
<1>3. Inv => NothingAfterAbort
  OBVIOUS
<1> QED
  BY <1>1, <1>2, <1>3, PTL DEF Spec
=============================================================================
