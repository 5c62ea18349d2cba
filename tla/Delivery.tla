------------------------------ MODULE Delivery ------------------------------
(***************************************************************************)
(* Where an alert goes and whether it got there: the settings row, the     *)
(* owner's account, the channels the two leave, and a send on all of them  *)
(* at once (packages/db/src/settings.ts, packages/core/src/notify).        *)
(*                                                                         *)
(* A column of the row is set or null; what it is set to is not kept.      *)
(***************************************************************************)
EXTENDS AlertRules

CONSTANTS
    DefaultThreshold, \* failure_threshold's default
    Environment,      \* the columns HA_URL and HA_WEBHOOK_ID seed
    Mailer            \* emailEnabled(): is RESEND_API_KEY set?

ASSUME DeliveryAssumption ==
    /\ DefaultThreshold \in Nat \ {0}
    /\ Environment \subseteq {"haUrl", "haWebhookId"}
    /\ Mailer \in BOOLEAN
    /\ None \notin BOOLEAN \cup Nat

(* The columns that make each channel of the instance configured.          *)
Needs == [webhook  |-> {"haUrl", "haWebhookId"},
          ntfy     |-> {"ntfyUrl"},
          discord  |-> {"discordWebhookUrl"},
          telegram |-> {"telegramBotToken", "telegramChatId"}]
Instance == DOMAIN Needs
Columns == UNION {Needs[c] : c \in Instance} \cup {"ntfyToken"}
ChannelNames == Instance \cup {"email"}

SettingsRow == [alertsEnabled : BOOLEAN, failureThreshold : Nat \ {0},
                columns : SUBSET Columns]

(* What loadSettings inserts when there is no row.                         *)
SeedRow == [alertsEnabled |-> TRUE, failureThreshold |-> DefaultThreshold,
            columns |-> Environment]

(* SettingsPatch: a field of the form that was left alone is None.         *)
SettingsPatch == [alertsEnabled : BOOLEAN \cup {None},
                  failureThreshold : (Nat \ {0}) \cup {None},
                  written : SUBSET Columns, cleared : SUBSET Columns]
EmptyPatch == [alertsEnabled |-> None, failureThreshold |-> None,
               written |-> {}, cleared |-> {}]

Patched(s, p) ==
    [alertsEnabled |-> IF p.alertsEnabled = None THEN s.alertsEnabled ELSE p.alertsEnabled,
     failureThreshold |-> IF p.failureThreshold = None THEN s.failureThreshold
                                                       ELSE p.failureThreshold,
     columns |-> (s.columns \ p.cleared) \cup p.written]

(* The account of a product's owner, as productOwner reads it.             *)
Owner == [role : {"admin", "user"}, emailAlertsEnabled : BOOLEAN,
          emailVerified : BOOLEAN]

(* alertTargets takes two things to agree: the row offers a channel ...    *)
Offered(s) == {c \in ChannelNames :
    s.alertsEnabled /\ (c \in Instance => Needs[c] \subseteq s.columns)}

(* ... and its owner may have it: the instance's channels are the admin's, *)
(* mail goes to a verified address that wants it, if there is a mailer.    *)
Allowed(owner) == {c \in ChannelNames :
    IF c \in Instance THEN owner.role = "admin"
    ELSE Mailer /\ owner.emailAlertsEnabled /\ owner.emailVerified}

(* What one channel's server answers: a status, or None for no answer.     *)
Answers == {200, 400, None}
Lands(answer) == answer # None /\ answer < 400

(* deliverAlert: all channels at once, and one that lands is enough.       *)
Delivered(answers) == \E c \in DOMAIN answers : Lands(answers[c])
=============================================================================
