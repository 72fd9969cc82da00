--------------------------------- MODULE Mails ---------------------------------
(***************************************************************************)
(* Mails with a code, from the row to the transport: sendCode and          *)
(* sendVerificationMail, NotificationService, MailChannel, MailService     *)
(* (src/src/libs/notification, src/src/libs/mail), while staff save the    *)
(* settings of the mail server.                                            *)
(*                                                                         *)
(* The handler stores the code and answers; nobody waits for the mail.     *)
(* The settings are saved key by key, by calls that may overlap, and read   *)
(* by each mail at once.                                                   *)
(***************************************************************************)
EXTENDS Naturals

CONSTANTS
    Sends,      \* calls that send a mail; each draws its own code
    Savers,     \* calls that save settings
    People,     \* users or staff who are sent a code
    Values,     \* values of the host and of the password
    env,        \* the value of an environment variable
    MaxSaves,   \* bound on the saves of settings
    Null

BoundsAssumption == MaxSaves \in Nat

VARIABLES
    setting,    \* the rows of the group of mail settings
    save,       \* what each save has yet to write
    asked,      \* the value that the last save of each key has asked for
    unsure,     \* keys whose last save began beside another one or stopped
    saves,      \* how many saves there were
    code,       \* the code in the row of each person
    mail,       \* the mails
    inbox,      \* the last mail each person got
    overlapped  \* people whose last mail began while another was on its way

vars == <<setting, save, asked, unsure, saves, code, mail, inbox, overlapped>>

Keys == {"mail_driver", "mail_host", "mail_password"}
Drivers == {"smtp", "log"}
Settings == [mail_driver: Drivers \cup {Null}, mail_host: Values \cup {Null},
             mail_password: Values \cup {Null}]
Config == [mail_driver: Drivers, mail_host: Values \cup {env},
           mail_password: Values \cup {env}]
Mail == [at: {"idle", "template", "settings", "transport", "sending", "delivered", "failed"},
         to: People \cup {Null}, code: Sends \cup {Null}, config: Config \cup {Null}]

TypeOK ==
    /\ setting \in Settings /\ asked \in Settings
    /\ DOMAIN save = Savers
    /\ \A c \in Savers : DOMAIN save[c] \subseteq Keys
    /\ \A c \in Savers : \E f \in Settings : \A k \in DOMAIN save[c] : save[c][k] = f[k]
    /\ unsure \subseteq Keys /\ saves \in 0..MaxSaves
    /\ code \in [People -> Sends \cup {Null}]
    /\ mail \in [Sends -> Mail]
    /\ inbox \in [People -> Sends \cup {Null}]
    /\ overlapped \subseteq People

Nothing == [k \in {} |-> Null]

(* The seeds leave rows whose value is null. *)
Init ==
    /\ setting = [k \in Keys |-> Null] /\ asked = setting
    /\ save = [c \in Savers |-> Nothing]
    /\ unsure = {} /\ saves = 0
    /\ code = [p \in People |-> Null]
    /\ mail = [s \in Sends |-> [at |-> "idle", to |-> Null, code |-> Null, config |-> Null]]
    /\ inbox = [p \in People |-> Null] /\ overlapped = {}

OnItsWay(s) == mail[s].at \in {"template", "settings", "transport", "sending"}
Step(s, from, to) == mail[s].at = from /\ mail' = [mail EXCEPT ![s].at = to]
SettingsKept == UNCHANGED <<setting, save, asked, unsure, saves>>
PeopleKept == UNCHANGED <<code, inbox, overlapped>>

--------------------------------------------------------------------------------
Pending == UNION {DOMAIN save[c] : c \in Savers}

(* settingSave writes the keys that its payload has, one row after another. *)
beginSave(c, given, payload) ==
    /\ DOMAIN save[c] = {}
    /\ saves < MaxSaves /\ saves' = saves + 1
    /\ save' = [save EXCEPT ![c] = [k \in given |-> payload[k]]]
    /\ asked' = [k \in Keys |-> IF k \in given THEN payload[k] ELSE asked[k]]
    /\ unsure' = (unsure \ given) \cup (given \cap Pending)
    /\ UNCHANGED <<setting, mail>> /\ PeopleKept

Written(c, k) == [save EXCEPT ![c] = [j \in DOMAIN save[c] \ {k} |-> save[c][j]]]

(* Variant: an empty value is not written. *)
insertOrUpdateSettings_IfGiven(c, k) ==
    /\ k \in DOMAIN save[c]
    /\ setting' = [setting EXCEPT ![k] = IF save[c][k] = Null THEN @ ELSE save[c][k]]
    /\ save' = Written(c, k)
    /\ UNCHANGED <<asked, unsure, saves, mail>> /\ PeopleKept

insertOrUpdateSettings(c, k) ==
    /\ k \in DOMAIN save[c]
    /\ setting' = [setting EXCEPT ![k] = save[c][k]]
    /\ save' = Written(c, k)
    /\ UNCHANGED <<asked, unsure, saves, mail>> /\ PeopleKept

failSave(c) ==
    /\ DOMAIN save[c] # {}
    /\ save' = [save EXCEPT ![c] = Nothing] /\ unsure' = unsure \cup DOMAIN save[c]
    /\ UNCHANGED <<setting, asked, saves, mail>> /\ PeopleKept

--------------------------------------------------------------------------------
(* The code is stored and the notification sent with it; the promise of the *)
(* mail is dropped.                                                        *)
sendCode(s, p) ==
    /\ mail[s].at = "idle"
    /\ code' = [code EXCEPT ![p] = s]
    /\ mail' = [mail EXCEPT ![s].at = "template", ![s].to = p, ![s].code = s]
    /\ overlapped' = IF \E t \in Sends : OnItsWay(t) /\ mail[t].to = p
                     THEN overlapped \cup {p} ELSE overlapped \ {p}
    /\ UNCHANGED inbox /\ SettingsKept

(* resolveChannel and toMail, with the settings of the layout. *)
toMail(s) == Step(s, "template", "settings") /\ PeopleKept /\ SettingsKept

(* MailConfig, with no MAIL_MAILER in the environment. *)
environment == [mail_driver |-> "smtp", mail_host |-> env, mail_password |-> env]

(* A setting that is null, like one that has no row, leaves the environment. *)
mailConfig(mailSettings) ==
    [k \in Keys |-> IF mailSettings[k] = Null THEN environment[k] ELSE mailSettings[k]]

getSettingsGroup(s) ==
    /\ mail[s].at = "settings"
    /\ mail' = [mail EXCEPT ![s].at = "transport", ![s].config = mailConfig(setting)]
    /\ PeopleKept /\ SettingsKept

(* There is one transport; another driver has none to create. *)
resolveTransport(s) ==
    /\ mail[s].at = "transport"
    /\ Step(s, "transport",
            IF mail[s].config.mail_driver = "smtp" THEN "sending" ELSE "failed")
    /\ PeopleKept /\ SettingsKept

(* The transport is created for the mail, with the mail's configuration. *)
sendMail(s) ==
    /\ Step(s, "sending", "delivered")
    /\ inbox' = [inbox EXCEPT ![mail[s].to] = s]
    /\ UNCHANGED <<code, overlapped>> /\ SettingsKept

(* A template cannot be read, a statement fails, or the server refuses:     *)
(* nobody waits, and that may end the process with all that is in it.      *)
failMail(s) ==
    /\ OnItsWay(s)
    /\ \/ /\ mail' = [mail EXCEPT ![s].at = "failed"]
          /\ UNCHANGED <<save, unsure>>
       \/ /\ mail' = [t \in Sends |-> IF OnItsWay(t) THEN [mail[t] EXCEPT !.at = "failed"]
                                      ELSE mail[t]]
          /\ save' = [c \in Savers |-> Nothing] /\ unsure' = unsure \cup Pending
    /\ UNCHANGED <<setting, asked, saves>> /\ PeopleKept

Deliver(s) == toMail(s) \/ getSettingsGroup(s) \/ resolveTransport(s) \/ sendMail(s)

Next ==
    \/ \E c \in Savers :
          \/ \E payload \in Settings, given \in SUBSET Keys \ {{}} :
                /\ \A k \in Keys \ given : payload[k] = Null
                /\ beginSave(c, given, payload)
          \/ (\E k \in Keys : insertOrUpdateSettings(c, k)) \/ failSave(c)
    \/ \E s \in Sends : Deliver(s) \/ failMail(s) \/ \E p \in People : sendCode(s, p)

Spec == Init /\ [][Next]_vars

(* Awaited calls come back; the transport has timeouts. *)
FairSpec == Spec /\ \A s \in Sends : WF_vars(Deliver(s))

--------------------------------------------------------------------------------
(* Saves write one row after another and may overlap or stop, and a mail    *)
(* may read anywhere between two writes.  A key that no save has yet to     *)
(* write, and whose last save ran alone to its end, has in the mail the     *)
(* value that this save asked for, or that of the environment if it asked   *)
(* for none; so old and new settings mix only where a save is under way or  *)
(* was disturbed.                                                          *)
ConfigAsAsked ==
    \A s \in Sends : getSettingsGroup(s) =>
        \A k \in Keys \ (unsure \cup Pending) :
            mail'[s].config[k] = IF asked[k] = Null THEN environment[k] ELSE asked[k]
ConfigIsAsAsked == [][ConfigAsAsked]_vars

(* The answers come before the mails, and mails of one person may overtake  *)
(* each other.  Who asked for a code when no mail was on its way, and has   *)
(* not asked again before it came, finds in the last mail the stored code,  *)
(* whatever overlapped earlier.                                            *)
LastMailHasTheCode ==
    \A p \in People \ overlapped :
        code[p] # Null /\ mail[code[p]].at = "delivered" =>
            mail[inbox[p]].code = code[p]

(* Each mail is delivered or fails. *)
MailsEnd == \A s \in Sends : OnItsWay(s) ~> ~OnItsWay(s)
================================================================================
