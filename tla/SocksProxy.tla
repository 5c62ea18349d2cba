----------------------------- MODULE SocksProxy -----------------------------
(***************************************************************************)
(* The socket proxy of one render (apps/renderer/src/guarded-socks-proxy): *)
(* Chromium reaches the network only through it.  A connection greets,     *)
(* asks for a target, waits for the upstream socket and is then bridged to *)
(* it; an address literal is judged when it is asked for, a name when it   *)
(* resolves.  The render may end, and abort the proxy, between any two of  *)
(* these steps.                                                            *)
(*                                                                         *)
(* A socket that was ended but not destroyed stays until its peer leaves   *)
(* ("ended").  The reads of one phase are one step, bytes are left out,    *)
(* and the sets of open sockets are read off the sockets themselves.       *)
(***************************************************************************)
EXTENDS Routable, FiniteSets

CONSTANTS
    Clients,         \* connections Chromium makes in one render
    Literals,        \* the address literals it may ask for
    Names,           \* the host names it may ask for
    Answers,         \* what a DNS lookup may answer: sequences of addresses
    MaxConnections   \* the connections served at once

Addresses == Literals \cup UNION {{a[i] : i \in DOMAIN a} : a \in Answers}
Refusal == [host : Literals \cup Names, address : Addresses]
Outcomes == {"page", "failed", "network_error"}

ASSUME ProxyAssumption ==
    /\ MaxConnections \in Nat \ {0}
    /\ Literals \cap Names = {}
    /\ None \notin Literals \cup Names \cup Refusal \cup Outcomes
    /\ \A found \in Answers : Len(found) \in Nat \ {0} /\ DOMAIN found = 1..Len(found)

VARIABLES
    step,       \* client -> where its handler is
    client,     \* client -> its socket
    upstream,   \* client -> the socket opened for it
    target,     \* client -> the host it asked for
    peer,       \* client -> the address its upstream is opened to
    refused,    \* the host and address of the first refusal, or None
    answer      \* what the render returned, or None while it runs

vars == <<step, client, upstream, target, peer, refused, answer>>

Sockets == {"none", "open", "ended", "closed"}

TypeOK ==
    /\ step \in [Clients -> {"none", "greeting", "request", "connecting", "bridged", "done"}]
    /\ client \in [Clients -> Sockets]
    /\ upstream \in [Clients -> Sockets \cup {"resolving", "connecting"}]
    /\ target \in [Clients -> Literals \cup Names \cup {None}]
    /\ peer \in [Clients -> Addresses \cup {None}]
    /\ refused \in Refusal \cup {None}
    /\ answer \in Outcomes \cup {None}

Init ==
    /\ step = [c \in Clients |-> "none"]
    /\ client = [c \in Clients |-> "none"] /\ upstream = [c \in Clients |-> "none"]
    /\ target = [c \in Clients |-> None] /\ peer = [c \in Clients |-> None]
    /\ refused = None /\ answer = None

-----------------------------------------------------------------------------
(* Sockets. *)

Aborted == answer # None
Held == {c \in Clients : client[c] \in {"open", "ended"}}
Dialling == {"resolving", "connecting"}
Tracked == Dialling \cup {"open", "ended"}

\* end() lets the peer finish; a socket destroyed already is left alone.
Ended(socket) == IF socket = "open" THEN "ended" ELSE socket
Destroyed(socket) == IF socket = "none" THEN "none" ELSE "closed"

Refuse(host, address) ==
    refused' = IF refused = None THEN [host |-> host, address |-> address] ELSE refused

\* The catch of handleClient: reply if it can, end the client.
GivesUp(c) ==
    /\ step' = [step EXCEPT ![c] = "done"]
    /\ client' = [client EXCEPT ![c] = Ended(@)]

-----------------------------------------------------------------------------
(* The handler of one connection. *)

\* A connection too many is destroyed before it is read.
Connect(c) ==
    /\ client[c] = "none"
    /\ IF Aborted \/ Cardinality(Held) >= MaxConnections
       THEN /\ client' = [client EXCEPT ![c] = "closed"]
            /\ step' = [step EXCEPT ![c] = "done"]
       ELSE /\ client' = [client EXCEPT ![c] = "open"]
            /\ step' = [step EXCEPT ![c] = "greeting"]
    /\ UNCHANGED <<upstream, target, peer, refused, answer>>

Negotiate(c) ==
    /\ step[c] = "greeting" /\ client[c] = "open"
    /\ step' = [step EXCEPT ![c] = "request"]
    /\ UNCHANGED <<client, upstream, target, peer, refused, answer>>

\* A greeting or a request that breaks the protocol.
Malformed(c) ==
    /\ step[c] \in {"greeting", "request"} /\ client[c] = "open"
    /\ GivesUp(c)
    /\ UNCHANGED <<upstream, target, peer, refused, answer>>

\* A slip to check against: the timer of a read goes with its socket.
HandshakeStopsOpen(c) ==
    /\ step[c] \in {"greeting", "request"} /\ client[c] = "open"
    /\ step' = [step EXCEPT ![c] = "done"]
    /\ client' = [client EXCEPT ![c] = "closed"]
    /\ UNCHANGED <<upstream, target, peer, refused, answer>>

\* A read timed out, or was sent too much: the client is destroyed.
HandshakeStops(c) ==
    /\ step[c] \in {"greeting", "request"}
    /\ step' = [step EXCEPT ![c] = "done"]
    /\ client' = [client EXCEPT ![c] = "closed"]
    /\ UNCHANGED <<upstream, target, peer, refused, answer>>

RefuseLiteral(c) ==
    /\ step[c] = "request" /\ client[c] = "open"
    /\ \E a \in Literals :
        /\ ~CheckLiteralHost(a)
        /\ Refuse(a, a)
        /\ target' = [target EXCEPT ![c] = a]
    /\ GivesUp(c)
    /\ UNCHANGED <<upstream, peer, answer>>

\* connectUpstream; a literal is not looked up.
Dial(c) ==
    /\ step[c] = "request" /\ client[c] = "open"
    /\ \E host \in {a \in Literals : CheckLiteralHost(a)} \cup Names :
        /\ target' = [target EXCEPT ![c] = host]
        /\ peer' = [peer EXCEPT ![c] = IF host \in Literals THEN host ELSE None]
        /\ upstream' = [upstream EXCEPT ![c] =
                          IF host \in Literals THEN "connecting" ELSE "resolving"]
    /\ step' = [step EXCEPT ![c] = "connecting"]
    /\ UNCHANGED <<client, refused, answer>>

\* guardedLookup: every address is asked, then one of them is tried.
Resolve(c) ==
    /\ upstream[c] = "resolving"
    /\ \E found \in Answers :
        IF Blocked(target[c], found) = {}
        THEN /\ \E i \in DOMAIN found : peer' = [peer EXCEPT ![c] = found[i]]
             /\ upstream' = [upstream EXCEPT ![c] = "connecting"]
             /\ UNCHANGED <<step, client, refused>>
        ELSE /\ upstream' = [upstream EXCEPT ![c] = "closed"]
             /\ LET first == CHOOSE i \in Blocked(target[c], found) :
                               \A j \in Blocked(target[c], found) : i <= j
                IN Refuse(target[c], found[first])
             /\ GivesUp(c)
             /\ UNCHANGED peer
    /\ UNCHANGED <<target, answer>>

\* The address tried did not answer: autoSelectFamily tries another of them,
\* or the client is told.  The deadline, too, destroys the socket.
UpstreamFails(c) ==
    /\ upstream[c] \in Dialling
    /\ upstream' = [upstream EXCEPT ![c] = "closed"]
    /\ GivesUp(c)
    /\ UNCHANGED <<target, peer, refused, answer>>

\* A client that left meanwhile is bridged all the same.
Bridge(c) ==
    /\ upstream[c] = "connecting"
    /\ upstream' = [upstream EXCEPT ![c] = "open"]
    /\ step' = [step EXCEPT ![c] = "bridged"]
    /\ UNCHANGED <<client, target, peer, refused, answer>>

\* An upstream that abort destroyed rejects once its close is seen.
DialRejects(c) ==
    /\ step[c] = "connecting" /\ upstream[c] = "closed"
    /\ GivesUp(c)
    /\ UNCHANGED <<upstream, target, peer, refused, answer>>

-----------------------------------------------------------------------------
(* The two ends. *)

\* Chromium closes its connection, or acknowledges that the proxy has.
ClientLeaves(c) ==
    /\ client[c] \in {"open", "ended"}
    /\ client' = [client EXCEPT ![c] = "closed"]
    /\ step' = IF step[c] \in {"greeting", "request"} THEN [step EXCEPT ![c] = "done"] ELSE step
    /\ upstream' = IF step[c] = "bridged" THEN [upstream EXCEPT ![c] = Ended(@)] ELSE upstream
    /\ UNCHANGED <<target, peer, refused, answer>>

\* The store closes; the pipe ends the client.
UpstreamLeaves(c) ==
    /\ step[c] = "bridged" /\ upstream[c] \in {"open", "ended"}
    /\ upstream' = [upstream EXCEPT ![c] = "closed"]
    /\ client' = [client EXCEPT ![c] = Ended(@)]
    /\ UNCHANGED <<step, target, peer, refused, answer>>

\* An error on either side of a tunnel destroys both.
TunnelBreaks(c) ==
    /\ step[c] = "bridged" /\ client[c] \in {"open", "ended"} /\ upstream[c] \in {"open", "ended"}
    /\ client' = [client EXCEPT ![c] = "closed"]
    /\ upstream' = [upstream EXCEPT ![c] = "closed"]
    /\ UNCHANGED <<step, target, peer, refused, answer>>

-----------------------------------------------------------------------------
(* The render. *)

\* A slip to check against: upstreams are known once they are connected.
AbortConnected(c) == IF upstream[c] \in Dialling THEN upstream[c] ELSE Destroyed(upstream[c])
\* abort() destroys every socket it holds, on both sides.
AbortUpstream(c) == Destroyed(upstream[c])

\* renderPage returns what the navigation came to, unless something was
\* refused meanwhile, and its finally aborts the proxy.
RenderEnds ==
    /\ ~Aborted
    /\ \E outcome \in {"page", "failed"} :
        answer' = IF refused = None THEN outcome ELSE "network_error"
    /\ client' = [c \in Clients |-> Destroyed(client[c])]
    /\ upstream' = [c \in Clients |-> AbortUpstream(c)]
    /\ UNCHANGED <<step, target, peer, refused>>

Handler(c) ==
    \/ Negotiate(c) \/ Malformed(c) \/ HandshakeStops(c) \/ RefuseLiteral(c) \/ Dial(c)
    \/ Resolve(c) \/ UpstreamFails(c) \/ Bridge(c) \/ DialRejects(c)

Next ==
    \/ RenderEnds
    \/ \E c \in Clients : Connect(c) \/ Handler(c)
                          \/ ClientLeaves(c) \/ UpstreamLeaves(c) \/ TunnelBreaks(c)

\* Each read and each dial runs against a timer of its own.
Spec == Init /\ [][Next]_vars /\ \A c \in Clients : WF_vars(Handler(c))

-----------------------------------------------------------------------------
(* Properties. *)

CONSTANTS Private, Public   \* addresses known to be the one and the other

\* However a host is named and whatever its lookups answer, no socket is being
\* opened or open to a private address, but for the hosts the operator exempts;
\* and a refusal never names a public one (guardedLookup, checkLiteralHost).
OnlyPublicPeers ==
    /\ \A c \in Clients :
        upstream[c] \in {"connecting", "open", "ended"} =>
            peer[c] \notin Private \/ target[c] \in Exempt
    /\ refused # None => refused.address \notin Public /\ refused.host \notin Exempt

\* Once the render has returned nothing of it is on the network, whichever step
\* its connections were in, and none comes back (abort).
NothingAfterAbort ==
    Aborted => \A c \in Clients : Held = {} /\ upstream[c] \notin Tracked

\* No handler waits for good on a client that stays silent or a store that does
\* not answer (createReader and connectUpstream: a timer for each wait).
HandlersFinish ==
    \A c \in Clients : []<>(step[c] \in {"none", "bridged", "done"})

=============================================================================
