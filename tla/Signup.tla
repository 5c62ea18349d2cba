------------------------------- MODULE Signup -------------------------------
(***************************************************************************)
(* How accounts come to be: the bootstrap account of an empty install, the *)
(* seed script, and the invitations an admin issues (packages/auth/src/    *)
(* index.ts, packages/db/src/invites.ts and signup.ts, the invites router  *)
(* and the web pages in front of them).                                    *)
(*                                                                         *)
(* Every statement of a request is a step of its own: nothing here runs in *)
(* a transaction.  A browser posts one sign-up at a time, but the endpoint *)
(* is exposed: it may post any address with any link that was ever issued. *)
(* What a page shows adds no post to those, so pages keep no state.  A     *)
(* token names its row; that only its hash is stored, and passwords, names *)
(* and wording, are left out.                                              *)
(***************************************************************************)
EXTENDS Naturals, FiniteSets

CONSTANTS
    Browsers,     \* the browsers people sign up in
    Desks,        \* the tabs in which an admin issues invitations
    Addresses,    \* e-mail addresses in lower case
    Spellings,    \* addresses as typed
    Lower,        \* toLowerCase of a spelling
    Tokens,       \* the random tokens invitations may draw
    SeedAddress,  \* SEED_ADMIN_EMAIL, lower-cased
    Mailer,       \* is RESEND_API_KEY set
    MaxFaults,    \* crashes
    None

Account == [role : {"admin", "user"}, verified : BOOLEAN, credential : BOOLEAN]
Invitation == [email : Addresses, accepted : BOOLEAN, expired : BOOLEAN]

ASSUME SignupAssumption ==
    /\ SeedAddress \in Addresses
    /\ Lower \in [Spellings -> Addresses]
    /\ Mailer \in BOOLEAN
    /\ MaxFaults \in Nat
    /\ None \notin Spellings \cup Addresses \cup Tokens \cup Account \cup Invitation

VARIABLES
    users,        \* address -> account or None (unique on e-mail)
    proven,       \* addresses an admin, an operator or an opened mail vouched for
    invitation,   \* token -> row or None
    issued,       \* tokens handed out so far
    request,      \* browser -> its sign-up request
    creating,     \* desk -> its call of invites.create
    seed,         \* the step of the seed script
    faults        \* crashes so far

accounts == <<users, proven>>
links == <<invitation, issued>>
install == <<seed, faults>>
vars == <<accounts, links, request, creating, install>>

Steps == {"idle", "guard", "closed", "admitted", "hook", "born", "created"}
Request == [step : Steps, email : Spellings \cup {None}, token : Tokens \cup {None},
            role : {"admin", "user"}, verified : BOOLEAN]
Call == [step : {"idle", "asked", "checked", "cleared"}, email : Addresses \cup {None}]

Registered(a) == users[a] # None

TypeOK ==
    /\ users \in [Addresses -> Account \cup {None}] /\ proven \subseteq Addresses
    /\ invitation \in [Tokens -> Invitation \cup {None}] /\ issued \subseteq Tokens
    /\ \A t \in Tokens : invitation[t] # None => t \in issued
    /\ request \in [Browsers -> Request]
    /\ creating \in [Desks -> Call]
    /\ seed \in {"idle", "absent", "user", "done"}
    /\ faults \in 0..MaxFaults

NoRequest == [step |-> "idle", email |-> None, token |-> None, role |-> "user", verified |-> FALSE]
NoCall == [step |-> "idle", email |-> None]

Init ==
    /\ users = [a \in Addresses |-> None] /\ proven = {}
    /\ invitation = [t \in Tokens |-> None] /\ issued = {}
    /\ request = [b \in Browsers |-> NoRequest]
    /\ creating = [d \in Desks |-> NoCall]
    /\ seed = "idle" /\ faults = 0

-----------------------------------------------------------------------------
(* What the queries answer. *)

SignupOpen == \A a \in Addresses : ~Registered(a)

(* findPendingInvite: neither accepted, expired, replaced nor revoked. *)
Pending(t) == t # None /\ invitation[t] # None
                /\ ~invitation[t].accepted /\ ~invitation[t].expired

(* listPendingInvites: expired ones included. *)
Outstanding == {t \in Tokens : invitation[t] # None /\ ~invitation[t].accepted}

(* Better Auth's sign-in under requireEmailVerification: mailer. *)
MaySignIn(a) == Registered(a) /\ users[a].credential /\ (Mailer => users[a].verified)

(* adminProcedure: somebody's session, and the role of its user.           *)
AdminSignsIn == \E a \in Addresses : MaySignIn(a) /\ users[a].role = "admin"

-----------------------------------------------------------------------------
(* POST /sign-up/email: the guard, the hooks and Better Auth between them. *)

Advance(b, r) == request' = [request EXCEPT ![b] = r]

Post(b, e, t) ==
    /\ request[b].step = "idle"
    /\ Advance(b, [NoRequest EXCEPT !.step = "guard", !.email = e, !.token = t])
    /\ UNCHANGED <<accounts, links, creating, install>>

(* guardSignup asks for an account first, then for the invite. *)
GuardAsksOpen(b) ==
    /\ request[b].step = "guard"
    /\ Advance(b, [request[b] EXCEPT !.step = IF SignupOpen THEN "admitted" ELSE "closed"])
    /\ UNCHANGED <<accounts, links, creating, install>>

InvitedAsAnyone(e, t) == Pending(t)
InvitedAs(e, t) == Pending(t) /\ Lower[e] = invitation[t].email

GuardAsksInvite(b) ==
    /\ request[b].step = "closed"
    /\ Advance(b, IF InvitedAs(request[b].email, request[b].token)
                    THEN [request[b] EXCEPT !.step = "admitted"] ELSE NoRequest)
    /\ UNCHANGED <<accounts, links, creating, install>>

(* create.before: who is being born. *)
BootstrapUnverified(r) == [r EXCEPT !.step = "born", !.role = "admin"]
Bootstrap(r) == [r EXCEPT !.step = "born", !.role = "admin", !.verified = TRUE]

BeforeAsksOpen(b) ==
    /\ request[b].step = "admitted"
    /\ Advance(b, IF SignupOpen THEN Bootstrap(request[b])
                                ELSE [request[b] EXCEPT !.step = "hook"])
    /\ UNCHANGED <<accounts, links, creating, install>>

(* markInviteAccepted, by the token alone.                                 *)
Accept(t) == [u \in Tokens |-> IF u = t /\ invitation[t] # None
                                 THEN [invitation[t] EXCEPT !.accepted = TRUE]
                                 ELSE invitation[u]]

(* A plausible slip: the link is burned before the user row is there.      *)
BeforeBurnsInvite(b) ==
    /\ request[b].step = "hook"
    /\ Advance(b, [request[b] EXCEPT !.step = "born", !.verified = Pending(request[b].token)])
    /\ invitation' = Accept(request[b].token)
    /\ UNCHANGED <<accounts, issued, creating, install>>

BeforeAsksInvite(b) ==
    /\ request[b].step = "hook"
    /\ Advance(b, [request[b] EXCEPT !.step = "born", !.verified = Pending(request[b].token)])
    /\ UNCHANGED <<accounts, links, creating, install>>

(* The insert of the user and its credential; a taken address is refused.  *)
InsertUser(b) ==
    LET r == request[b]  a == Lower[r.email] IN
    /\ r.step = "born"
    /\ IF Registered(a)
         THEN Advance(b, NoRequest) /\ UNCHANGED users
         ELSE /\ users' = [users EXCEPT ![a] =
                   [role |-> r.role, verified |-> r.verified, credential |-> TRUE]]
              /\ Advance(b, [NoRequest EXCEPT !.step = "created", !.token = r.token])
    /\ UNCHANGED <<proven, links, creating, install>>

(* create.after.  What remains is the answer, and sendOnSignUp's mail to an *)
(* account that is not verified: one that fails turns the answer into an   *)
(* error, but the account is there and the mail can be asked for again.    *)
BurnInvite(b) ==
    /\ request[b].step = "created"
    /\ invitation' = Accept(request[b].token)
    /\ Advance(b, NoRequest)
    /\ UNCHANGED <<accounts, issued, creating, install>>

SignUpStep(b) == GuardAsksOpen(b) \/ GuardAsksInvite(b) \/ BeforeAsksOpen(b)
                 \/ BeforeAsksInvite(b) \/ InsertUser(b) \/ BurnInvite(b)

-----------------------------------------------------------------------------
(* What the links in the mails do: the forms that ask for a mail answer    *)
(* alike whether or not the address has an account.                        *)

(* The verification mail of the sign-up, or one sent again.                *)
OpenVerification ==
    \E a \in Addresses :
      /\ Mailer /\ Registered(a) /\ ~users[a].verified
      /\ users' = [users EXCEPT ![a].verified = TRUE]
      /\ proven' = proven \cup {a}
      /\ UNCHANGED <<links, request, creating, install>>

ResetPassword ==
    \E a \in Addresses :
      /\ Mailer /\ Registered(a) /\ ~users[a].credential
      /\ users' = [users EXCEPT ![a].credential = TRUE]
      /\ UNCHANGED <<proven, links, request, creating, install>>

(* pnpm db:verify-user. *)
VerifyByHand ==
    \E a \in Addresses :
      /\ Registered(a) /\ ~users[a].verified
      /\ users' = [users EXCEPT ![a].verified = TRUE]
      /\ proven' = proven \cup {a}
      /\ UNCHANGED <<links, request, creating, install>>

-----------------------------------------------------------------------------
(* The invite desk.  Its buttons are disabled while a creation is pending. *)

BeginInvite(d) ==
    /\ AdminSignsIn /\ creating[d].step = "idle"
    /\ \E e \in Spellings :
         creating' = [creating EXCEPT ![d] = [step |-> "asked", email |-> Lower[e]]]
    /\ UNCHANGED <<accounts, links, request, install>>

(* createInvite, its three statements: is there an account, *)
CheckRegistered(d) ==
    /\ creating[d].step = "asked"
    /\ creating' = [creating EXCEPT ![d] =
          IF Registered(@.email) THEN NoCall ELSE [@ EXCEPT !.step = "checked"]]
    /\ UNCHANGED <<accounts, links, request, install>>

(* delete what is pending for the address, *)
Replaced(e) == {t \in Outstanding : invitation[t].email = e}

ClearPending(d) ==
    /\ creating[d].step = "checked"
    /\ LET gone == Replaced(creating[d].email) IN
         invitation' = [t \in Tokens |-> IF t \in gone THEN None ELSE invitation[t]]
    /\ creating' = [creating EXCEPT ![d].step = "cleared"]
    /\ UNCHANGED <<accounts, issued, request, install>>

(* and insert the new one.  The link is mailed, or copied by hand when no  *)
(* mailer is set or the mail fails: either way it is out.                  *)
InsertInvite(d) ==
    /\ creating[d].step = "cleared"
    /\ \E t \in Tokens \ issued :
         /\ invitation' = [invitation EXCEPT ![t] =
               [email |-> creating[d].email, accepted |-> FALSE, expired |-> FALSE]]
         /\ issued' = issued \cup {t}
    /\ proven' = proven \cup {creating[d].email}
    /\ creating' = [creating EXCEPT ![d] = NoCall]
    /\ UNCHANGED <<users, request, install>>

InviteStep(d) == CheckRegistered(d) \/ ClearPending(d) \/ InsertInvite(d)

(* Revoke a row some list showed; it may be gone or accepted by now.       *)
Revoke(t) ==
    /\ AdminSignsIn /\ invitation[t] # None
    /\ invitation' = [invitation EXCEPT ![t] = None]
    /\ UNCHANGED <<accounts, issued, request, creating, install>>

(* Forty-eight hours pass.                                                 *)
Expires(t) ==
    /\ Pending(t)
    /\ invitation' = [invitation EXCEPT ![t].expired = TRUE]
    /\ UNCHANGED <<accounts, issued, request, creating, install>>

-----------------------------------------------------------------------------
(* The seed script: look for the admin, insert the user, insert the        *)
(* account row that holds the password.                                    *)

SeedLooks ==
    /\ seed = "idle"
    /\ seed' = IF Registered(SeedAddress) THEN "done" ELSE "absent"
    /\ UNCHANGED <<accounts, links, request, creating, faults>>

SeedInsertsUser ==
    /\ seed = "absent"
    /\ IF Registered(SeedAddress)
         THEN seed' = "done" /\ UNCHANGED users
         ELSE /\ users' = [users EXCEPT ![SeedAddress] =
                   [role |-> "admin", verified |-> TRUE, credential |-> FALSE]]
              /\ seed' = "user"
    /\ UNCHANGED <<proven, links, request, creating, faults>>

SeedInsertsAccount ==
    /\ seed = "user"
    /\ users' = [users EXCEPT ![SeedAddress].credential = TRUE]
    /\ seed' = "done"
    /\ UNCHANGED <<proven, links, request, creating, faults>>

(* A crash: whatever was in flight ends where it is, and the seed script   *)
(* may be run again.                                                       *)
Crash ==
    /\ faults < MaxFaults
    /\ faults' = faults + 1
    /\ request' = [b \in Browsers |-> NoRequest]
    /\ creating' = [d \in Desks |-> NoCall]
    /\ seed' = "idle"
    /\ UNCHANGED <<accounts, links>>

Next ==
    \/ \E b \in Browsers :
         SignUpStep(b) \/ \E e \in Spellings, t \in issued \cup {None} : Post(b, e, t)
    \/ \E d \in Desks : BeginInvite(d) \/ InviteStep(d)
    \/ \E t \in Tokens : Revoke(t) \/ Expires(t)
    \/ OpenVerification \/ ResetPassword \/ VerifyByHand
    \/ SeedLooks \/ SeedInsertsUser \/ SeedInsertsAccount
    \/ Crash

Spec == Init /\ [][Next]_vars

-----------------------------------------------------------------------------
(* The properties.                                                         *)

(* A link is spent only on an account: a sign-up that dies halfway leaves  *)
(* it usable (the comment above create.after).                             *)
BurnedMeansRegistered ==
    \A t \in Tokens : invitation[t] # None /\ invitation[t].accepted
                        => Registered(invitation[t].email)

(* An account counts as verified only if it is the admin of an unclaimed   *)
(* install or somebody vouched for its very address, however sign-ups,     *)
(* revocations and replacements interleave.                                *)
VerifiedMeansProven ==
    \A a \in Addresses : Registered(a) /\ users[a].verified
                           => users[a].role = "admin" \/ a \in proven

(* Sign-up never closes on an install without an admin who may still sign  *)
(* in, or reset the password, once a mailer is configured.                 *)
ClosedMeansAdmin ==
    SignupOpen \/ \E a \in Addresses : Registered(a) /\ users[a].role = "admin"
                                          /\ users[a].verified

(* Sign-up is open for exactly one bootstrap account (guardSignup).        *)
OneBootstrap ==
    Cardinality({a \in Addresses : Registered(a) /\ users[a].role = "admin"}) <= 1
=============================================================================
