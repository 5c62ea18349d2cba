---------------------------- MODULE SignupProofs ----------------------------
(***************************************************************************)
(* Theorems about Signup, for any browsers, desks, addresses and tokens.   *)
(*                                                                         *)
(* The guard of a sign-up matches the address with the invitation; the     *)
(* hooks after it look at the token alone.  What carries the match from    *)
(* the one to the others is that a token is drawn once (LinkMatches), that *)
(* a row names an address somebody vouched for (Vouched), and that no link *)
(* was ever out while sign-up was open (Claimed).                          *)
(***************************************************************************)
EXTENDS Signup, TLAPS

(* A link is mailed to the address its row names.                          *)
Vouched == \A t \in Tokens : invitation[t] # None => invitation[t].email \in proven

(* What only an install with an account can have got to.                   *)
Claimed ==
    SignupOpen =>
        /\ issued = {}
        /\ \A d \in Desks : creating[d].step = "idle"
        /\ \A b \in Browsers :
              /\ request[b].step \notin {"closed", "hook"}
              /\ request[b].step = "born" => request[b].role = "admin"

(* The row of the link a sign-up was posted with, if it is still there, is *)
(* its address's, once the guard let it in.                                *)
LinkMatches(b) ==
    LET t == request[b].token IN
    /\ t \in issued \cup {None}
    /\ request[b].step \in {"admitted", "hook", "born"} /\ t # None
       /\ invitation[t] # None => invitation[t].email = Lower[request[b].email]
    /\ request[b].step = "created" /\ t # None /\ invitation[t] # None =>
          Registered(invitation[t].email)

(* What is being born is the admin, or is verified by a proof.             *)
BornProven(b) ==
    LET r == request[b] IN
    /\ r.step \in {"guard", "closed", "admitted", "hook", "born"} => r.email # None
    /\ r.step # "born" => r.role = "user"
    /\ r.role = "admin" => r.verified
    /\ r.step = "born" /\ r.verified => r.role = "admin" \/ Lower[r.email] \in proven

(* A call of invites.create has its address, and the seed script the row   *)
(* it inserted.                                                            *)
CallKnown == \A d \in Desks : creating[d].step # "idle" => creating[d].email # None
SeedKnown == seed = "user" => Registered(SeedAddress)

IInv ==
    /\ TypeOK
    /\ Vouched
    /\ Claimed
    /\ \A b \in Browsers : LinkMatches(b) /\ BornProven(b)
    /\ CallKnown
    /\ SeedKnown
    /\ BurnedMeansRegistered
    /\ VerifiedMeansProven
    /\ ClosedMeansAdmin
-----------------------------------------------------------------------------
(* What a step may do to the accounts and to the links.                    *)

(* An account stays, and so do its role and its verification.              *)
Grows ==
    /\ users' \in [Addresses -> Account \cup {None}]
    /\ proven \subseteq proven' /\ proven' \subseteq Addresses
    /\ \A a \in Addresses : users[a] # None =>
          /\ users'[a] # None
          /\ users'[a].role = users[a].role
          /\ users[a].verified => users'[a].verified

LEMMA Replace ==
    ASSUME TypeOK, NEW a \in Addresses, NEW u \in Account,
           users' = [users EXCEPT ![a] = u],
           proven \subseteq proven', proven' \subseteq Addresses,
           users[a] = None \/ /\ u.role = users[a].role
                              /\ users[a].verified => u.verified
    PROVE  Grows
<1>1. None \notin Account
  BY SignupAssumption
<1>2. users \in [Addresses -> Account \cup {None}]
  BY DEF TypeOK
<1>3. users' \in [Addresses -> Account \cup {None}]
  BY <1>2
<1>4. ASSUME NEW c \in Addresses, users[c] # None
      PROVE  /\ users'[c] # None
             /\ users'[c].role = users[c].role
             /\ users[c].verified => users'[c].verified
  BY <1>1, <1>2, <1>4
<1> QED
  BY <1>3, <1>4 DEF Grows

LEMMA AccountsStep ==
    ASSUME IInv, Next
    PROVE  Grows
<1> USE DEF Registered
<1>1. CASE UNCHANGED accounts
  BY <1>1 DEF Grows, IInv, TypeOK, accounts
<1>2. ASSUME NEW b \in Browsers, InsertUser(b)
      PROVE  Grows
  <2> DEFINE r == request[b]
             a == Lower[r.email]
             u == [role |-> r.role, verified |-> r.verified, credential |-> TRUE]
  <2>1. r \in Request /\ r.email # None
    BY <1>2 DEF IInv, TypeOK, BornProven, InsertUser
  <2>2. a \in Addresses /\ u \in Account
    BY <2>1, SignupAssumption DEF Request, Account
  <2>3. CASE users[a] # None
    BY <1>2, <2>3 DEF InsertUser, Grows, IInv, TypeOK
  <2>4. CASE users[a] = None
    <3>1. users' = [users EXCEPT ![a] = u] /\ UNCHANGED proven
      BY <1>2, <2>4 DEF InsertUser
    <3>2. TypeOK /\ proven \subseteq Addresses
      BY DEF IInv, TypeOK
    <3> HIDE DEF u, a
    <3> QED
      BY <2>2, <2>4, <3>1, <3>2, Replace
  <2> QED
    BY <2>3, <2>4
<1>3. ASSUME NEW a \in Addresses, Registered(a), NEW f \in {"verified", "credential"},
             users' = [users EXCEPT ![a] = IF f = "verified"
                         THEN [users[a] EXCEPT !.verified = TRUE]
                         ELSE [users[a] EXCEPT !.credential = TRUE]],
             proven' \in {proven, proven \cup {a}}
      PROVE  Grows
  <2> DEFINE u == IF f = "verified" THEN [users[a] EXCEPT !.verified = TRUE]
                                    ELSE [users[a] EXCEPT !.credential = TRUE]
  <2>1. users[a] \in Account
    BY <1>3 DEF IInv, TypeOK
  <2>2. /\ u \in Account /\ u.role = users[a].role
        /\ users[a].verified => u.verified
    BY <2>1 DEF Account
  <2>3. users' = [users EXCEPT ![a] = u]
    BY <1>3
  <2>4. TypeOK /\ proven \subseteq Addresses
    BY DEF IInv, TypeOK
  <2> HIDE DEF u
  <2> QED
    BY <1>3, <2>2, <2>3, <2>4, Replace
<1>4. CASE OpenVerification
  BY <1>3, <1>4 DEF OpenVerification
<1>5. CASE VerifyByHand
  BY <1>3, <1>5 DEF VerifyByHand
<1>6. CASE ResetPassword
  BY <1>3, <1>6 DEF ResetPassword
<1>7. CASE SeedInsertsAccount
  BY <1>3, <1>7, SignupAssumption DEF SeedInsertsAccount, IInv, SeedKnown
<1>8. CASE SeedInsertsUser
  <2> DEFINE u == [role |-> "admin", verified |-> TRUE, credential |-> FALSE]
  <2>1. u \in Account /\ SeedAddress \in Addresses
    BY SignupAssumption DEF Account
  <2>2. TypeOK /\ proven \subseteq Addresses /\ UNCHANGED proven
    BY <1>8 DEF IInv, TypeOK, SeedInsertsUser
  <2>3. CASE users[SeedAddress] # None
    BY <1>1, <1>8, <2>3 DEF SeedInsertsUser, accounts
  <2>4. CASE users[SeedAddress] = None
    <3>1. users' = [users EXCEPT ![SeedAddress] = u]
      BY <1>8, <2>4 DEF SeedInsertsUser
    <3> HIDE DEF u
    <3> QED
      BY <2>1, <2>2, <2>4, <3>1, Replace
  <2> QED
    BY <2>3, <2>4
<1>9. ASSUME NEW d \in Desks, InsertInvite(d)
      PROVE  Grows
  <2>1. creating[d].email \in Addresses
    BY <1>9 DEF InsertInvite, IInv, TypeOK, CallKnown, Call
  <2> QED
    BY <1>9, <2>1 DEF InsertInvite, Grows, IInv, TypeOK
<1>10. CASE \/ \E b \in Browsers : SignUpStep(b) /\ ~InsertUser(b)
            \/ \E b \in Browsers, e \in Spellings, t \in issued \cup {None} : Post(b, e, t)
            \/ \E d \in Desks : BeginInvite(d) \/ (InviteStep(d) /\ ~InsertInvite(d))
            \/ \E t \in Tokens : Revoke(t) \/ Expires(t)
            \/ SeedLooks \/ Crash
  <2>1. UNCHANGED accounts
    BY <1>10
    DEF SignUpStep, GuardAsksOpen, GuardAsksInvite, BeforeAsksOpen, BeforeAsksInvite,
        BurnInvite, Post, BeginInvite, InviteStep, CheckRegistered, ClearPending, Revoke,
        Expires, SeedLooks, Crash
  <2> QED
    BY <1>1, <2>1
<1> QED
  BY <1>2, <1>4, <1>5, <1>6, <1>7, <1>8, <1>9, <1>10
  DEF Next, SignUpStep, InviteStep

(* A token is drawn once, so the row of one that is out is the same row,   *)
(* with the same address, until it is gone.                                *)
Kept ==
    /\ invitation' \in [Tokens -> Invitation \cup {None}]
    /\ issued \subseteq issued' /\ issued' \subseteq Tokens
    /\ \A t \in Tokens : invitation'[t] # None => t \in issued'
    /\ \A t \in issued : invitation'[t] # None =>
          invitation[t] # None /\ invitation'[t].email = invitation[t].email

LEMMA LinksStep ==
    ASSUME IInv, Next
    PROVE  Kept
<1>1. /\ invitation \in [Tokens -> Invitation \cup {None}] /\ issued \subseteq Tokens
      /\ \A t \in Tokens : invitation[t] # None => t \in issued
      /\ None \notin Invitation /\ None \notin Tokens
  BY SignupAssumption DEF IInv, TypeOK
<1>2. CASE UNCHANGED links
  BY <1>1, <1>2 DEF Kept, links
<1>3. ASSUME NEW b \in Browsers, BurnInvite(b)
      PROVE  Kept
  <2> DEFINE t == request[b].token
  <2>1. invitation' = [u \in Tokens |-> IF u = t /\ invitation[t] # None
                                          THEN [invitation[t] EXCEPT !.accepted = TRUE]
                                          ELSE invitation[u]]
        /\ issued' = issued
    BY <1>3 DEF BurnInvite, Accept
  <2> HIDE DEF t
  <2>2. ASSUME NEW u \in Tokens, u = t, invitation[u] # None
        PROVE  /\ invitation'[u] \in Invitation
               /\ invitation'[u].email = invitation[u].email
    BY <1>1, <2>1, <2>2 DEF Invitation
  <2>3. ASSUME NEW u \in Tokens, u # t \/ invitation[u] = None
        PROVE  invitation'[u] = invitation[u]
    BY <2>1, <2>3
  <2> QED
    BY <1>1, <2>1, <2>2, <2>3 DEF Kept
<1>4. ASSUME NEW d \in Desks, ClearPending(d)
      PROVE  Kept
  BY <1>1, <1>4 DEF ClearPending, Kept
<1>5. ASSUME NEW d \in Desks, InsertInvite(d)
      PROVE  Kept
  <2> DEFINE i == [email |-> creating[d].email, accepted |-> FALSE, expired |-> FALSE]
  <2>1. i \in Invitation
    BY <1>5 DEF InsertInvite, IInv, TypeOK, CallKnown, Call, Invitation
  <2>2. PICK t \in Tokens \ issued :
           invitation' = [invitation EXCEPT ![t] = i] /\ issued' = issued \cup {t}
    BY <1>5 DEF InsertInvite
  <2> HIDE DEF i
  <2> QED
    BY <1>1, <2>1, <2>2 DEF Kept
<1>6. ASSUME NEW t \in Tokens, Revoke(t)
      PROVE  Kept
  BY <1>1, <1>6 DEF Revoke, Kept
<1>7. ASSUME NEW t \in Tokens, Expires(t)
      PROVE  Kept
  <2> DEFINE i == [invitation[t] EXCEPT !.expired = TRUE]
  <2>1. i \in Invitation /\ i.email = invitation[t].email /\ invitation[t] # None
    BY <1>1, <1>7 DEF Expires, Pending, Invitation
  <2>2. invitation' = [invitation EXCEPT ![t] = i] /\ issued' = issued
    BY <1>7 DEF Expires
  <2> HIDE DEF i
  <2> QED
    BY <1>1, <2>1, <2>2 DEF Kept
<1>8. CASE \/ \E b \in Browsers : SignUpStep(b) /\ ~BurnInvite(b)
           \/ \E b \in Browsers, e \in Spellings, t \in issued \cup {None} : Post(b, e, t)
           \/ \E d \in Desks : BeginInvite(d) \/ CheckRegistered(d)
           \/ OpenVerification \/ ResetPassword \/ VerifyByHand
           \/ SeedLooks \/ SeedInsertsUser \/ SeedInsertsAccount \/ Crash
  <2>1. UNCHANGED links
    BY <1>8
    DEF SignUpStep, GuardAsksOpen, GuardAsksInvite, BeforeAsksOpen, BeforeAsksInvite,
        InsertUser, Post, BeginInvite, CheckRegistered, OpenVerification, ResetPassword,
        VerifyByHand, SeedLooks, SeedInsertsUser, SeedInsertsAccount, Crash
  <2> QED
    BY <1>2, <2>1
<1> QED
  BY <1>3, <1>4, <1>5, <1>6, <1>7, <1>8 DEF Next, SignUpStep, InviteStep
-----------------------------------------------------------------------------
(* The sign-up requests, one browser after the other.                      *)

(* What a step does to the request of browser b.                           *)
Moved(b) ==
    LET r == request[b] IN
    \/ request'[b] = r
    \/ request'[b] = NoRequest
    \/ \E e \in Spellings, t \in issued \cup {None} :
          request'[b] = [NoRequest EXCEPT !.step = "guard", !.email = e, !.token = t]
    \/ /\ r.step = "guard"
       /\ request'[b] = [r EXCEPT !.step = IF SignupOpen THEN "admitted" ELSE "closed"]
    \/ /\ r.step = "closed" /\ InvitedAs(r.email, r.token)
       /\ request'[b] = [r EXCEPT !.step = "admitted"]
    \/ /\ r.step = "admitted" /\ SignupOpen /\ request'[b] = Bootstrap(r)
    \/ /\ r.step = "admitted" /\ ~SignupOpen /\ request'[b] = [r EXCEPT !.step = "hook"]
    \/ /\ r.step = "hook"
       /\ request'[b] = [r EXCEPT !.step = "born", !.verified = Pending(r.token)]
    \/ /\ r.step = "born" /\ users'[Lower[r.email]] # None
       /\ request'[b] = [NoRequest EXCEPT !.step = "created", !.token = r.token]

LEMMA RequestStep ==
    ASSUME IInv, Next, NEW b \in Browsers
    PROVE  Moved(b)
<1>0. request \in [Browsers -> Request]
  BY DEF IInv, TypeOK
<1>1. CASE UNCHANGED request
  BY <1>1 DEF Moved
<1>2. CASE Crash
  BY <1>2 DEF Crash, Moved
<1>3. ASSUME NEW c \in Browsers, NEW e \in Spellings, NEW t \in issued \cup {None}, Post(c, e, t)
      PROVE  Moved(b)
  BY <1>0, <1>3 DEF Post, Advance, Moved
<1>4. ASSUME NEW c \in Browsers, NEW r, Advance(c, r)
      PROVE  request'[c] = r /\ (b # c => request'[b] = request[b])
  BY <1>0, <1>4 DEF Advance
<1>5. ASSUME NEW c \in Browsers, GuardAsksOpen(c)
      PROVE  Moved(b)
  BY <1>4, <1>5 DEF GuardAsksOpen, Moved
<1>6. ASSUME NEW c \in Browsers, GuardAsksInvite(c)
      PROVE  Moved(b)
  BY <1>4, <1>6 DEF GuardAsksInvite, Moved
<1>7. ASSUME NEW c \in Browsers, BeforeAsksOpen(c)
      PROVE  Moved(b)
  BY <1>4, <1>7 DEF BeforeAsksOpen, Moved
<1>8. ASSUME NEW c \in Browsers, BeforeAsksInvite(c)
      PROVE  Moved(b)
  BY <1>4, <1>8 DEF BeforeAsksInvite, Moved
<1>9. ASSUME NEW c \in Browsers, BurnInvite(c)
      PROVE  Moved(b)
  BY <1>4, <1>9 DEF BurnInvite, Moved
<1>10. ASSUME NEW c \in Browsers, InsertUser(c)
       PROVE  Moved(b)
  <2> DEFINE r == request[c]
             a == Lower[r.email]
  <2>1. a \in Addresses
    BY <1>10, SignupAssumption DEF InsertUser, IInv, TypeOK, Request, BornProven
  <2>2. CASE Registered(a)
    BY <1>4, <1>10, <2>2 DEF InsertUser, Moved
  <2>3. CASE ~Registered(a)
    <3>1. users'[a] # None
      <4>1. [role |-> r.role, verified |-> r.verified, credential |-> TRUE] \in Account
        BY DEF IInv, TypeOK, Request, Account
      <4> DEFINE u == [role |-> r.role, verified |-> r.verified, credential |-> TRUE]
      <4>2. users' = [users EXCEPT ![a] = u] /\ None \notin Account
        BY <1>10, <2>3, SignupAssumption DEF InsertUser
      <4> HIDE DEF u, a
      <4> QED
        BY <2>1, <4>1, <4>2 DEF IInv, TypeOK, u
    <3>2. Advance(c, [NoRequest EXCEPT !.step = "created", !.token = r.token])
          /\ r.step = "born"
      BY <1>10, <2>3 DEF InsertUser
    <3> HIDE DEF a
    <3> QED
      BY <1>4, <3>1, <3>2 DEF Moved, a
  <2> QED
    BY <2>2, <2>3
<1>11. CASE \/ \E d \in Desks : BeginInvite(d) \/ InviteStep(d)
            \/ \E t \in Tokens : Revoke(t) \/ Expires(t)
            \/ OpenVerification \/ ResetPassword \/ VerifyByHand
            \/ SeedLooks \/ SeedInsertsUser \/ SeedInsertsAccount
  <2>1. UNCHANGED request
    BY <1>11
    DEF BeginInvite, InviteStep, CheckRegistered, ClearPending, InsertInvite, Revoke,
        Expires, OpenVerification, ResetPassword, VerifyByHand, SeedLooks,
        SeedInsertsUser, SeedInsertsAccount
  <2> QED
    BY <1>1, <2>1
<1> QED
  BY <1>2, <1>3, <1>5, <1>6, <1>7, <1>8, <1>9, <1>10, <1>11 DEF Next, SignUpStep

LEMMA TypesStep ==
    ASSUME IInv, Next
    PROVE  TypeOK'
<1>1. users' \in [Addresses -> Account \cup {None}] /\ proven' \subseteq Addresses
  BY AccountsStep DEF Grows
<1>2. /\ invitation' \in [Tokens -> Invitation \cup {None}] /\ issued' \subseteq Tokens
      /\ \A t \in Tokens : invitation'[t] # None => t \in issued'
  BY LinksStep DEF Kept
<1>3. request' \in [Browsers -> Request]
  <2>1. ASSUME NEW b \in Browsers
        PROVE  request'[b] \in Request
    <3>1. request[b] \in Request /\ issued \subseteq Tokens
      BY DEF IInv, TypeOK
    <3>2. \A t : Pending(t) \in BOOLEAN
      BY DEF Pending
    <3> DEFINE r == request[b]
    <3>3. NoRequest \in Request
      BY DEF NoRequest, Request, Steps
    <3>4. /\ \A s \in Steps : [r EXCEPT !.step = s] \in Request
          /\ \A v \in BOOLEAN : [r EXCEPT !.step = "born", !.verified = v] \in Request
          /\ Bootstrap(r) \in Request
      BY <3>1 DEF Request, Steps, Bootstrap
    <3>5. /\ \A e \in Spellings, t \in issued \cup {None} :
                [NoRequest EXCEPT !.step = "guard", !.email = e, !.token = t] \in Request
          /\ [NoRequest EXCEPT !.step = "created", !.token = r.token] \in Request
      BY <3>1 DEF Request, Steps, NoRequest
    <3>6. {"admitted", "closed", "hook"} \subseteq Steps
      BY DEF Steps
    <3>7. /\ [r EXCEPT !.step = IF SignupOpen THEN "admitted" ELSE "closed"] \in Request
          /\ [r EXCEPT !.step = "admitted"] \in Request
          /\ [r EXCEPT !.step = "hook"] \in Request
          /\ [r EXCEPT !.step = "born", !.verified = Pending(r.token)] \in Request
      BY <3>2, <3>4, <3>6
    <3>8. Moved(b)
      BY RequestStep
    <3> QED
      BY <3>1, <3>3, <3>4, <3>5, <3>7, <3>8, Zenon DEF Moved
  <2>2. \E f : request' = [b \in Browsers |-> f[b]]
    <3>1. request = [b \in Browsers |-> request[b]]
      BY DEF IInv, TypeOK
    <3>2. CASE UNCHANGED request
      BY <3>1, <3>2
    <3>3. CASE Crash
      BY <3>3 DEF Crash
    <3>4. ASSUME NEW b \in Browsers, NEW r, Advance(b, r)
          PROVE  request' = [c \in Browsers |-> request'[c]]
      BY <3>1, <3>4 DEF Advance
    <3> QED
      BY <3>2, <3>3, <3>4
      DEF Next, SignUpStep, GuardAsksOpen, GuardAsksInvite, BeforeAsksOpen, BeforeAsksInvite,
          InsertUser, BurnInvite, Post, BeginInvite, InviteStep, CheckRegistered,
          ClearPending, InsertInvite, Revoke, Expires, OpenVerification, ResetPassword,
          VerifyByHand, SeedLooks, SeedInsertsUser, SeedInsertsAccount
  <2> QED
    BY <2>1, <2>2
<1>4. creating' \in [Desks -> Call]
  <2>1. creating \in [Desks -> Call] /\ NoCall \in Call
    BY DEF IInv, TypeOK, NoCall, Call
  <2>2. CASE UNCHANGED creating
    BY <2>1, <2>2
  <2>3. ASSUME NEW d \in Desks, BeginInvite(d)
        PROVE  creating' \in [Desks -> Call]
    BY <2>1, <2>3, SignupAssumption DEF BeginInvite, Call
  <2>4. ASSUME NEW d \in Desks, InviteStep(d)
        PROVE  creating' \in [Desks -> Call]
    <3>1. \E r \in Call : creating' = [creating EXCEPT ![d] = r]
      BY <2>1, <2>4 DEF InviteStep, CheckRegistered, ClearPending, InsertInvite, Call
    <3> QED
      BY <2>1, <3>1
  <2>5. CASE Crash
    BY <2>1, <2>5 DEF Crash
  <2> QED
    BY <2>2, <2>3, <2>4, <2>5
    DEF Next, SignUpStep, GuardAsksOpen, GuardAsksInvite, BeforeAsksOpen, BeforeAsksInvite,
        InsertUser, BurnInvite, Post, Revoke, Expires, OpenVerification, ResetPassword,
        VerifyByHand, SeedLooks, SeedInsertsUser, SeedInsertsAccount
<1>5. /\ seed' \in {"idle", "absent", "user", "done"}
      /\ faults' = faults \/ (faults < MaxFaults /\ faults' = faults + 1)
  BY DEF IInv, TypeOK, Next, SignUpStep, GuardAsksOpen, GuardAsksInvite,  BeforeAsksOpen,
      BeforeAsksInvite, InsertUser, BurnInvite, Post, BeginInvite, InviteStep,
      CheckRegistered, ClearPending, InsertInvite, Revoke, Expires, OpenVerification,
      ResetPassword, VerifyByHand, SeedLooks, SeedInsertsUser, SeedInsertsAccount,
      Crash, install
<1>6. faults' \in 0..MaxFaults
  BY <1>5, SignupAssumption DEF IInv, TypeOK
<1> QED
  BY <1>1, <1>2, <1>3, <1>4, <1>5, <1>6 DEF TypeOK

(* The address of a link that was let in stays that of the request.        *)
LEMMA LinkMatchesStep ==
    ASSUME IInv, Next, NEW b \in Browsers
    PROVE  LinkMatches(b)'
<1> DEFINE r == request[b]
           q == request'[b]
           t == request[b].token
<1>1. /\ LinkMatches(b) /\ Moved(b) /\ Kept /\ Grows
      /\ r \in Request
      /\ None \notin Tokens /\ None \notin Spellings
  BY RequestStep, LinksStep, AccountsStep, SignupAssumption DEF IInv, TypeOK
<1>2. \A u \in issued : invitation'[u] # None =>
         invitation[u] # None /\ invitation'[u].email = invitation[u].email
  BY <1>1 DEF Kept
<1>3. \A a \in Addresses : Registered(a) => Registered(a)'
  BY <1>1 DEF Grows, Registered
<1>4. \A u \in Tokens : invitation[u] # None => invitation[u].email \in Addresses
  BY DEF IInv, TypeOK, Invitation
<1>5. CASE q = NoRequest
  BY <1>5 DEF LinkMatches, NoRequest
<1>6. ASSUME NEW e \in Spellings, NEW u \in issued \cup {None},
             q = [NoRequest EXCEPT !.step = "guard", !.email = e, !.token = u]
      PROVE  LinkMatches(b)'
  BY <1>1, <1>6 DEF LinkMatches, NoRequest, Kept
<1>7. CASE /\ q.token = t /\ q.email = r.email
           /\ \/ q.step = r.step
              \/ q.step = "closed"
              \/ q.step = "admitted" /\ (SignupOpen \/ InvitedAs(r.email, t))
              \/ q.step \in {"hook", "born"} /\ r.step \in {"admitted", "hook"}
  <2>1. SignupOpen => t = None
    BY <1>1 DEF IInv, Claimed, LinkMatches
  <2>2. t \in issued' \cup {None}
    BY <1>1 DEF Kept, LinkMatches
  <2>3. ASSUME q.step \in {"admitted", "hook", "born"}, t # None, invitation'[t] # None
        PROVE  invitation'[t].email = Lower[q.email]
    <3>1. t \in issued /\ invitation[t] # None /\ invitation'[t].email = invitation[t].email
      BY <1>1, <1>2, <2>3 DEF LinkMatches
    <3> QED
      BY <1>1, <1>7, <2>1, <2>3, <3>1 DEF LinkMatches, InvitedAs
  <2>4. ASSUME q.step = "created", t # None, invitation'[t] # None
        PROVE  users'[invitation'[t].email] # None
    <3>1. t \in issued /\ invitation[t] # None /\ invitation'[t].email = invitation[t].email
      BY <1>1, <1>2, <2>4 DEF LinkMatches
    <3>2. t \in Tokens /\ Registered(invitation[t].email)
      BY <1>1, <1>7, <2>4, <3>1 DEF LinkMatches, IInv, TypeOK
    <3>3. users'[invitation[t].email] # None
      BY <1>3, <1>4, <3>1, <3>2 DEF Registered
    <3> QED
      BY <3>1, <3>3
  <2> QED
    BY <1>7, <2>2, <2>3, <2>4 DEF LinkMatches, Registered
<1>8. CASE /\ r.step = "born" /\ users'[Lower[r.email]] # None
           /\ q = [NoRequest EXCEPT !.step = "created", !.token = r.token]
  <2>1. q.step = "created" /\ q.token = t
    BY <1>8 DEF NoRequest
  <2>2. t \in issued' \cup {None}
    BY <1>1 DEF Kept, LinkMatches
  <2>3. ASSUME t # None, invitation'[t] # None
        PROVE  invitation'[t].email = Lower[r.email]
    BY <1>1, <1>2, <1>8, <2>3 DEF LinkMatches
  <2>4. users'[Lower[r.email]] # None
    BY <1>8
  <2> QED
    BY <2>1, <2>2, <2>3, <2>4 DEF LinkMatches, Registered
<1>9. \/ q = NoRequest
      \/ \E e \in Spellings, u \in issued \cup {None} :
            q = [NoRequest EXCEPT !.step = "guard", !.email = e, !.token = u]
      \/ /\ q.token = t /\ q.email = r.email
         /\ \/ q.step = r.step
            \/ q.step = "closed"
            \/ q.step = "admitted" /\ (SignupOpen \/ InvitedAs(r.email, t))
            \/ q.step \in {"hook", "born"} /\ r.step \in {"admitted", "hook"}
      \/ /\ r.step = "born" /\ users'[Lower[r.email]] # None
         /\ q = [NoRequest EXCEPT !.step = "created", !.token = r.token]
  BY <1>1 DEF Moved, Bootstrap, Request
<1> QED
  BY <1>5, <1>6, <1>7, <1>8, <1>9
(* Whoever is being born as verified is the admin or has a proof: the hook *)
(* verifies by the token, whose row names the address of the request.      *)
LEMMA BornProvenStep ==
    ASSUME IInv, Next, NEW b \in Browsers
    PROVE  BornProven(b)'
<1> DEFINE r == request[b]
           q == request'[b]
<1>1. /\ BornProven(b) /\ LinkMatches(b) /\ Moved(b)
      /\ r \in Request /\ proven \subseteq proven' /\ None \notin Spellings
  BY RequestStep, AccountsStep, SignupAssumption DEF IInv, TypeOK, Grows
<1>2. CASE r.step = "hook" /\ q = [r EXCEPT !.step = "born", !.verified = Pending(r.token)]
  <2>1. q.step = "born" /\ q.role = "user" /\ q.email = r.email /\ r.email # None
        /\ (q.verified <=> Pending(r.token))
    BY <1>1, <1>2 DEF BornProven, Request
  <2>2. ASSUME Pending(r.token)
        PROVE  Lower[r.email] \in proven
    <3>1. /\ r.token \in Tokens /\ invitation[r.token] # None
          /\ invitation[r.token].email = Lower[r.email]
      BY <1>1, <1>2, <2>2 DEF Pending, LinkMatches, Request
    <3> QED
      BY <3>1 DEF IInv, Vouched
  <2> QED
    BY <1>1, <2>1, <2>2 DEF BornProven
<1>3. CASE r.step = "admitted" /\ q = Bootstrap(r)
  BY <1>1, <1>3 DEF BornProven, Bootstrap, Request
<1>4. CASE q = r
  BY <1>1, <1>4 DEF BornProven
<1>5. CASE \/ q = NoRequest
           \/ \E e \in Spellings, t \in issued \cup {None} :
                 q = [NoRequest EXCEPT !.step = "guard", !.email = e, !.token = t]
           \/ q = [NoRequest EXCEPT !.step = "created", !.token = r.token]
  <2>1. q.step \in {"idle", "guard", "created"} /\ q.role = "user"
        /\ (q.step = "guard" => q.email # None)
    <3>1. CASE q = NoRequest
      BY <3>1 DEF NoRequest
    <3>2. ASSUME NEW e \in Spellings, NEW t \in issued \cup {None},
                 q = [NoRequest EXCEPT !.step = "guard", !.email = e, !.token = t]
          PROVE  q.step = "guard" /\ q.role = "user" /\ q.email = e
      BY <3>2 DEF NoRequest
    <3>3. CASE q = [NoRequest EXCEPT !.step = "created", !.token = r.token]
      BY <3>3 DEF NoRequest
    <3> QED
      BY <1>1, <1>5, <3>1, <3>2, <3>3
  <2> QED
    BY <2>1 DEF BornProven
<1>6. CASE \/ /\ r.step = "guard"
              /\ q = [r EXCEPT !.step = IF SignupOpen THEN "admitted" ELSE "closed"]
           \/ r.step = "closed" /\ q = [r EXCEPT !.step = "admitted"]
           \/ r.step = "admitted" /\ q = [r EXCEPT !.step = "hook"]
  <2>1. /\ q.step \in {"admitted", "closed", "hook"} /\ r.step # "born"
        /\ q.role = r.role /\ q.email = r.email /\ q.verified = r.verified
        /\ r.email # None
    BY <1>1, <1>6 DEF BornProven, Request
  <2> QED
    BY <1>1, <2>1 DEF BornProven
<1> QED
  BY <1>1, <1>2, <1>3, <1>4, <1>5, <1>6 DEF Moved

(* invites.create, the only step that hands a link out, vouches for the    *)
(* address it is for.                                                      *)
LEMMA VouchedStep ==
    ASSUME IInv, Next
    PROVE  Vouched'
<1> SUFFICES ASSUME NEW t \in Tokens, invitation'[t] # None
             PROVE  invitation'[t].email \in proven'
  BY DEF Vouched
<1>1. Kept /\ proven \subseteq proven'
  BY LinksStep, AccountsStep DEF Grows
<1>2. CASE t \in issued
  BY <1>1, <1>2 DEF Kept, IInv, Vouched
<1>3. CASE t \notin issued
  <2>1. invitation[t] = None
    BY <1>3 DEF IInv, TypeOK
  <2>2. t \in issued'
    BY <1>1 DEF Kept
  <2>3. PICK d \in Desks : InsertInvite(d)
    BY <1>3, <2>2
    DEF Next, SignUpStep, GuardAsksOpen, GuardAsksInvite, BeforeAsksOpen, BeforeAsksInvite,
        InsertUser, BurnInvite, Post, BeginInvite, InviteStep, CheckRegistered,
        ClearPending, Revoke, Expires, OpenVerification, ResetPassword, VerifyByHand,
        SeedLooks, SeedInsertsUser, SeedInsertsAccount, Crash, links
  <2> QED
    BY <2>1, <2>3 DEF InsertInvite, IInv, TypeOK
<1> QED
  BY <1>2, <1>3

(* While there is no account, no link is out and nobody is past the guard. *)
LEMMA ClaimedStep ==
    ASSUME IInv, Next
    PROVE  Claimed'
<1> SUFFICES ASSUME SignupOpen'
             PROVE  /\ issued' = {}
                    /\ \A d \in Desks : creating'[d].step = "idle"
                    /\ \A b \in Browsers :
                          /\ request'[b].step \notin {"closed", "hook"}
                          /\ request'[b].step = "born" => request'[b].role = "admin"
  BY DEF Claimed
<1>1. SignupOpen
  BY AccountsStep DEF Grows, SignupOpen, Registered
<1>2. /\ issued = {}
      /\ \A d \in Desks : creating[d].step = "idle"
      /\ \A b \in Browsers :
            /\ request[b].step \notin {"closed", "hook"}
            /\ request[b].step = "born" => request[b].role = "admin"
  BY <1>1 DEF IInv, Claimed
<1>3. \A d \in Desks : ~BeginInvite(d) /\ ~InviteStep(d)
  BY <1>1, <1>2
  DEF BeginInvite, AdminSignsIn, MaySignIn, SignupOpen, InviteStep, CheckRegistered,
      ClearPending, InsertInvite
<1>4. issued' = issued
  BY <1>3
  DEF Next, SignUpStep, GuardAsksOpen, GuardAsksInvite, BeforeAsksOpen, BeforeAsksInvite,
      InsertUser, BurnInvite, Post, Revoke, Expires, OpenVerification, ResetPassword,
      VerifyByHand, SeedLooks, SeedInsertsUser, SeedInsertsAccount, Crash, links
<1>5. creating' = creating \/ Crash
  BY <1>3
  DEF Next, SignUpStep, GuardAsksOpen, GuardAsksInvite, BeforeAsksOpen, BeforeAsksInvite,
      InsertUser, BurnInvite, Post, Revoke, Expires, OpenVerification, ResetPassword,
      VerifyByHand, SeedLooks, SeedInsertsUser, SeedInsertsAccount
<1>6. \A d \in Desks : creating'[d].step = "idle"
  BY <1>2, <1>5 DEF Crash, NoCall
<1>7. ASSUME NEW b \in Browsers
      PROVE  /\ request'[b].step \notin {"closed", "hook"}
             /\ request'[b].step = "born" => request'[b].role = "admin"
  <2>1. Moved(b) /\ request[b] \in Request
    BY RequestStep DEF IInv, TypeOK
  <2> QED
    <3> DEFINE r == request[b]
               q == request'[b]
    <3>1. CASE r.step = "guard" /\ q = [r EXCEPT !.step = IF SignupOpen THEN "admitted" ELSE "closed"]
      BY <1>1, <2>1, <3>1 DEF Request
    <3>2. CASE r.step = "admitted" /\ q = Bootstrap(r)
      BY <2>1, <3>2 DEF Request, Bootstrap
    <3>3. CASE q = r \/ q.step \in {"idle", "guard", "created"}
      BY <1>2, <3>3
    <3>4. CASE q = NoRequest
      BY <3>3, <3>4 DEF NoRequest
    <3>5. ASSUME NEW e, NEW t,
                 \/ q = [NoRequest EXCEPT !.step = "guard", !.email = e, !.token = t]
                 \/ q = [NoRequest EXCEPT !.step = "created", !.token = t]
          PROVE  q.step \in {"guard", "created"}
      BY <3>5 DEF NoRequest
    <3>6. r.step \notin {"closed", "hook"}
      BY <1>2
    <3> QED
      BY <1>1, <2>1, <3>1, <3>2, <3>3, <3>4, <3>5, <3>6, Zenon DEF Moved
<1> QED
  BY <1>2, <1>4, <1>6, <1>7

LEMMA CallAndSeedStep ==
    ASSUME IInv, Next
    PROVE  CallKnown' /\ SeedKnown'
<1>1. CallKnown'
  <2>1. CASE UNCHANGED creating
    BY <2>1 DEF IInv, CallKnown
  <2>2. CASE Crash
    BY <2>2 DEF Crash, CallKnown, NoCall
  <2>3. ASSUME NEW d \in Desks, BeginInvite(d)
        PROVE  CallKnown'
    BY <2>3, SignupAssumption DEF BeginInvite, CallKnown, IInv, TypeOK
  <2>4. ASSUME NEW d \in Desks, InviteStep(d)
        PROVE  CallKnown'
    BY <2>4
    DEF InviteStep, CheckRegistered, ClearPending, InsertInvite, CallKnown, NoCall, IInv,
        TypeOK, Call
  <2> QED
    BY <2>1, <2>2, <2>3, <2>4
    DEF Next, SignUpStep, GuardAsksOpen, GuardAsksInvite, BeforeAsksOpen, BeforeAsksInvite,
        InsertUser, BurnInvite, Post, Revoke, Expires, OpenVerification, ResetPassword,
        VerifyByHand, SeedLooks, SeedInsertsUser, SeedInsertsAccount
<1>2. SeedKnown'
  <2>1. users[SeedAddress] # None => users'[SeedAddress] # None
    BY AccountsStep, SignupAssumption DEF Grows
  <2>2. CASE SeedInsertsUser
    <3> DEFINE u == [role |-> "admin", verified |-> TRUE, credential |-> FALSE]
    <3>1. u # None
      <4>1. u \in Account
        BY DEF Account
      <4> QED
        BY <4>1, SignupAssumption
    <3> HIDE DEF u
    <3>2. seed' = "user" => users' = [users EXCEPT ![SeedAddress] = u]
      BY <2>2 DEF SeedInsertsUser, u
    <3> QED
      BY <3>1, <3>2, SignupAssumption DEF SeedKnown, Registered, IInv, TypeOK
  <2>3. CASE seed' = "user" => seed = "user"
    BY <2>1, <2>3 DEF SeedKnown, Registered, IInv
  <2> QED
    BY <2>2, <2>3
    DEF Next, SignUpStep, GuardAsksOpen, GuardAsksInvite, BeforeAsksOpen, BeforeAsksInvite,
        InsertUser, BurnInvite, Post, BeginInvite, InviteStep, CheckRegistered,
        ClearPending, InsertInvite, Revoke, Expires, OpenVerification, ResetPassword,
        VerifyByHand, SeedLooks, SeedInsertsAccount, Crash, install
<1> QED
  BY <1>1, <1>2

LEMMA BurnedStep ==
    ASSUME IInv, Next
    PROVE  BurnedMeansRegistered'
<1> SUFFICES ASSUME NEW t \in Tokens, invitation'[t] # None, invitation'[t].accepted
             PROVE  users'[invitation'[t].email] # None
  BY DEF BurnedMeansRegistered, Registered
<1>1. Kept /\ Grows /\ invitation \in [Tokens -> Invitation \cup {None}]
  BY LinksStep, AccountsStep DEF IInv, TypeOK
<1>2. ASSUME invitation[t] # None, Registered(invitation[t].email)
      PROVE  users'[invitation'[t].email] # None
  <2>1. t \in issued /\ invitation[t].email \in Addresses
    BY <1>2 DEF IInv, TypeOK, Invitation
  <2>2. invitation'[t].email = invitation[t].email
    BY <1>1, <2>1 DEF Kept
  <2> QED
    BY <1>1, <1>2, <2>1, <2>2 DEF Grows, Registered
<1>3. CASE invitation[t] # None /\ invitation[t].accepted
  BY <1>2, <1>3 DEF IInv, BurnedMeansRegistered
<1>4. ASSUME NEW b \in Browsers, BurnInvite(b), ~(invitation[t] # None /\ invitation[t].accepted)
      PROVE  users'[invitation'[t].email] # None
  <2>1. t = request[b].token /\ invitation[t] # None
    BY <1>4 DEF BurnInvite, Accept
  <2> QED
    BY <1>2, <1>4, <2>1, SignupAssumption DEF BurnInvite, IInv, LinkMatches
<1>5. CASE /\ ~(invitation[t] # None /\ invitation[t].accepted)
           /\ \A b \in Browsers : ~BurnInvite(b)
  <2>1. CASE UNCHANGED invitation
    BY <1>5, <2>1
  <2>2. ASSUME NEW d \in Desks, InsertInvite(d)
        PROVE  FALSE
    BY <1>1, <1>5, <2>2 DEF InsertInvite
  <2>3. ASSUME NEW d \in Desks, ClearPending(d)
        PROVE  FALSE
    BY <1>5, <2>3 DEF ClearPending
  <2>4. ASSUME NEW u \in Tokens, Revoke(u) \/ Expires(u)
        PROVE  FALSE
    BY <1>1, <1>5, <2>4 DEF Revoke, Expires, Pending, Invitation
  <2> QED
    BY <1>5, <2>1, <2>2, <2>3, <2>4
    DEF Next, SignUpStep, GuardAsksOpen, GuardAsksInvite, BeforeAsksOpen, BeforeAsksInvite,
        InsertUser, Post, BeginInvite, InviteStep, CheckRegistered, OpenVerification,
        ResetPassword, VerifyByHand, SeedLooks, SeedInsertsUser, SeedInsertsAccount, Crash,
        links
<1> QED
  BY <1>3, <1>4, <1>5

(* What the account of address a is after a step.                          *)
LEMMA AccountKinds ==
    ASSUME IInv, Next, NEW a \in Addresses
    PROVE  \/ users'[a] = users[a]
           \/ users[a] # None /\ users'[a].verified = users[a].verified
           \/ users[a] # None /\ a \in proven'
           \/ users[a] = None /\ users'[a].role = "admin" /\ users'[a].verified
           \/ \E b \in Browsers :
                 /\ request[b].step = "born" /\ a = Lower[request[b].email]
                 /\ users'[a].role = request[b].role
                 /\ users'[a].verified = request[b].verified
<1>1. users \in [Addresses -> Account \cup {None}]
  BY DEF IInv, TypeOK
<1>2. CASE UNCHANGED users
  BY <1>2
<1>3. ASSUME NEW b \in Browsers, InsertUser(b), ~UNCHANGED users, a = Lower[request[b].email]
      PROVE  /\ request[b].step = "born"
             /\ users'[a].role = request[b].role
             /\ users'[a].verified = request[b].verified
  BY <1>1, <1>3 DEF InsertUser
<1>4. ASSUME NEW b \in Browsers, InsertUser(b), a # Lower[request[b].email]
      PROVE  users'[a] = users[a]
  BY <1>1, <1>4 DEF InsertUser
<1>5. CASE OpenVerification
  BY <1>1, <1>5 DEF OpenVerification, Registered
<1>6. CASE VerifyByHand
  BY <1>1, <1>6 DEF VerifyByHand, Registered
<1>7. CASE ResetPassword
  BY <1>1, <1>7 DEF ResetPassword, Registered, Account
<1>8. CASE SeedInsertsUser
  BY <1>1, <1>8, SignupAssumption DEF SeedInsertsUser, Registered
<1>9. CASE SeedInsertsAccount
  <2>1. Registered(SeedAddress)
    BY <1>9 DEF SeedInsertsAccount, IInv, SeedKnown
  <2> QED
    BY <1>1, <1>9, <2>1, SignupAssumption DEF SeedInsertsAccount, Registered, Account
<1> QED
  BY <1>2, <1>3, <1>4, <1>5, <1>6, <1>7, <1>8, <1>9
  DEF Next, SignUpStep, GuardAsksOpen, GuardAsksInvite, BeforeAsksOpen, BeforeAsksInvite,
      BurnInvite, Post, BeginInvite, InviteStep, CheckRegistered, ClearPending,
      InsertInvite, Revoke, Expires, SeedLooks, Crash, accounts

LEMMA VerifiedStep ==
    ASSUME IInv, Next
    PROVE  VerifiedMeansProven'
<1> SUFFICES ASSUME NEW a \in Addresses, users'[a] # None, users'[a].verified
             PROVE  users'[a].role = "admin" \/ a \in proven'
  BY DEF VerifiedMeansProven, Registered
<1>1. Grows /\ proven \subseteq proven'
  BY AccountsStep DEF Grows
<1>2. users[a] # None /\ users[a].verified => users[a].role = "admin" \/ a \in proven
  BY DEF IInv, VerifiedMeansProven, Registered
<1>3. users[a] # None => users'[a].role = users[a].role
  BY <1>1 DEF Grows
<1>4. ASSUME NEW b \in Browsers, request[b].step = "born", a = Lower[request[b].email],
             users'[a].verified = request[b].verified, users'[a].role = request[b].role
      PROVE  users'[a].role = "admin" \/ a \in proven'
  BY <1>1, <1>4 DEF IInv, BornProven
<1> QED
  BY <1>1, <1>2, <1>3, <1>4, AccountKinds

LEMMA ClosedStep ==
    ASSUME IInv, Next
    PROVE  ClosedMeansAdmin'
<1>1. CASE ~SignupOpen
  <2>1. PICK a \in Addresses : Registered(a) /\ users[a].role = "admin" /\ users[a].verified
    BY <1>1 DEF IInv, ClosedMeansAdmin
  <2>2. users'[a] # None /\ users'[a].role = "admin" /\ users'[a].verified
    BY <2>1, AccountsStep DEF Grows, Registered
  <2> QED
    BY <2>2 DEF ClosedMeansAdmin, Registered
<1>2. CASE SignupOpen
  <2> SUFFICES ASSUME NEW a \in Addresses, users'[a] # None
               PROVE  users'[a].role = "admin" /\ users'[a].verified
    BY DEF ClosedMeansAdmin, SignupOpen, Registered
  <2>1. users[a] = None
    BY <1>2 DEF SignupOpen, Registered
  <2>2. ASSUME NEW b \in Browsers, request[b].step = "born",
               users'[a].verified = request[b].verified, users'[a].role = request[b].role
        PROVE  users'[a].role = "admin" /\ users'[a].verified
    BY <1>2, <2>2 DEF IInv, Claimed, BornProven
  <2> QED
    BY <2>1, <2>2, AccountKinds
<1> QED
  BY <1>1, <1>2

-----------------------------------------------------------------------------
LEMMA InitInv == Init => IInv
<1> SUFFICES ASSUME Init PROVE IInv
  OBVIOUS
<1>1. TypeOK
  BY SignupAssumption DEF Init, TypeOK, NoRequest, NoCall, Request, Steps, Call
<1>2. \A b \in Browsers : LinkMatches(b) /\ BornProven(b)
  BY DEF Init, LinkMatches, BornProven, NoRequest
<1>3. Vouched /\ Claimed /\ CallKnown /\ SeedKnown
  BY DEF Init, Vouched, Claimed, CallKnown, SeedKnown, NoRequest, NoCall
<1>4. BurnedMeansRegistered /\ VerifiedMeansProven /\ ClosedMeansAdmin
  BY DEF Init, BurnedMeansRegistered, VerifiedMeansProven, ClosedMeansAdmin, SignupOpen,
         Registered
<1> QED
  BY <1>1, <1>2, <1>3, <1>4 DEF IInv

LEMMA StepInv == IInv /\ [Next]_vars => IInv'
<1> SUFFICES ASSUME IInv, [Next]_vars PROVE IInv'
  OBVIOUS
<1>1. CASE Next
  BY <1>1, TypesStep, VouchedStep, ClaimedStep, LinkMatchesStep, BornProvenStep,
     CallAndSeedStep, BurnedStep, VerifiedStep, ClosedStep DEF IInv
<1>2. CASE UNCHANGED vars
  <2> USE <1>2 DEF vars, accounts, links, install, IInv
  <2>1. TypeOK' /\ Vouched'
    BY DEF TypeOK, Vouched
  <2>2. Claimed' /\ CallKnown' /\ SeedKnown'
    BY DEF Claimed, CallKnown, SeedKnown, SignupOpen, Registered
  <2>3. \A b \in Browsers : LinkMatches(b)' /\ BornProven(b)'
    BY DEF LinkMatches, BornProven, Registered
  <2>4. BurnedMeansRegistered' /\ VerifiedMeansProven' /\ ClosedMeansAdmin'
    BY DEF BurnedMeansRegistered, VerifiedMeansProven, ClosedMeansAdmin, SignupOpen,
           Registered
  <2> QED
    BY <2>1, <2>2, <2>3, <2>4
<1> QED
  BY <1>1, <1>2

LEMMA InvHolds == Spec => []IInv
BY InitInv, StepInv, PTL DEF Spec

(* Every variable holds a value of its type.                               *)
THEOREM SignupTypes == Spec => []TypeOK
<1>1. IInv => TypeOK
  BY DEF IInv
<1> QED
  BY <1>1, InvHolds, PTL

(* A link is spent only on an account: a sign-up that dies halfway leaves  *)
(* it usable (create.after burns it, by the token alone).                  *)
THEOREM LinksBurnOnAccounts == Spec => []BurnedMeansRegistered
<1>1. IInv => BurnedMeansRegistered
  BY DEF IInv
<1> QED
  BY <1>1, InvHolds, PTL

(* A verified account is an admin's, or somebody vouched for its address,  *)
(* however sign-ups, revocations and replacements interleave.              *)
THEOREM NobodyVerifiesAnother == Spec => []VerifiedMeansProven
<1>1. IInv => VerifiedMeansProven
  BY DEF IInv
<1> QED
  BY <1>1, InvHolds, PTL

(* Sign-up never closes on an install without a verified admin.            *)
THEOREM ClosesWithAnAdmin == Spec => []ClosedMeansAdmin
<1>1. IInv => ClosedMeansAdmin
  BY DEF IInv
<1> QED
  BY <1>1, InvHolds, PTL
=============================================================================
