------------------------------- MODULE MCLiveness -------------------------------
(***************************************************************************)
(* What must eventually happen in logins, mints and mails, on small        *)
(* instances.  The modules share no variable, so one run explores them     *)
(* side by side: `part` is the one that moves, the variables of the others *)
(* are Off.                                                                *)
(***************************************************************************)
EXTENDS Naturals

CONSTANTS
    Wallets, Codes, RowIds, Requests, Mints,
    Unissued, NoRow, NoWallet, None, Null, Off

VARIABLES
    part,
    status, challenge, live, returned, signed, pc, found, missing, tokens,
    txNonce, txCount, others, pool, mint, mintsOverlapped,
    setting, save, asked, unsure, saves, code, mail, inbox, mailsOverlapped

Login == INSTANCE WalletLogin

Nonces == INSTANCE MintNonces
    WITH FirstCount <- 2, MaxOthers <- 1, Faults <- FALSE,
         BLOCK_CONFIRMATION_TO_WAIT <- 2, overlapped <- mintsOverlapped

Mails == INSTANCE Mails
    WITH Sends <- Requests, Savers <- {"c1"}, People <- {"p1"}, Values <- {"value"}, env <- "env",
         MaxSaves <- 1, overlapped <- mailsOverlapped

loginVars == <<status, challenge, live, returned, signed, pc, found, missing, tokens>>
nonceVars == <<txNonce, txCount, others, pool, mint, mintsOverlapped>>
mailVars == <<setting, save, asked, unsure, saves, code, mail, inbox, mailsOverlapped>>
vars == <<part, loginVars, nonceVars, mailVars>>

LoginOff ==
    /\ status = Off /\ challenge = Off /\ live = Off /\ returned = Off /\ signed = Off
    /\ pc = Off /\ found = Off /\ missing = Off /\ tokens = Off
NoncesOff ==
    /\ txNonce = Off /\ txCount = Off /\ others = Off /\ pool = Off
    /\ mint = Off /\ mintsOverlapped = Off
MailsOff ==
    /\ setting = Off /\ save = Off /\ asked = Off /\ unsure = Off /\ saves = Off
    /\ code = Off /\ mail = Off /\ inbox = Off /\ mailsOverlapped = Off

Init ==
    \/ part = "login" /\ Login!Init /\ NoncesOff /\ MailsOff
    \/ part = "nonces" /\ LoginOff /\ Nonces!Init /\ MailsOff
    \/ part = "mails" /\ LoginOff /\ NoncesOff /\ Mails!Init

LoginNext == part = "login" /\ Login!Serve /\ UNCHANGED <<part, nonceVars, mailVars>>
NoncesNext == part = "nonces" /\ Nonces!Next /\ UNCHANGED <<part, loginVars, mailVars>>
MailsNext == part = "mails" /\ Mails!Next /\ UNCHANGED <<part, loginVars, nonceVars>>

(* Fairness as in ReliableSpec and FairSpec: node's event loop resumes the  *)
(* handlers whose awaited calls are back, and the chain goes on making     *)
(* blocks.                                                                 *)
Fairness ==
    /\ \A r \in Requests : WF_vars(part = "login" /\ Login!Answer(r)
                                   /\ UNCHANGED <<part, nonceVars, mailVars>>)
    /\ \A m \in Mints : /\ WF_vars(part = "nonces" /\ Nonces!Serve(m)
                                   /\ UNCHANGED <<part, loginVars, mailVars>>)
                        /\ WF_vars(part = "nonces" /\ Nonces!MineMint(m)
                                   /\ UNCHANGED <<part, loginVars, mailVars>>)
    /\ WF_vars(part = "nonces" /\ Nonces!MineEmpty /\ UNCHANGED <<part, loginVars, mailVars>>)
    /\ \A s \in Requests : WF_vars(part = "mails" /\ Mails!Deliver(s)
                                   /\ UNCHANGED <<part, loginVars, nonceVars>>)

Spec == Init /\ [][LoginNext \/ NoncesNext \/ MailsNext]_vars /\ Fairness

--------------------------------------------------------------------------------
(* When calls are not lost, a verified login means the challenge yields its *)
(* token: of the calls that race for it one wins.                          *)
VerifiedLoginIsAnswered ==
    \A k \in RowIds :
        (part = "login" /\ \E r \in Requests : pc[r] = "verified" /\ found[r] = k)
            ~> (part = "login" /\ tokens[k] = 1)

(* A mint that began returns with its confirmations or fails, as long as    *)
(* mints neither overlap nor lose calls.                                   *)
MintsEnd ==
    [](part = "nonces" => ~mintsOverlapped) =>
        \A m \in Mints :
            (part = "nonces" /\ mint[m].at = "counted")
                ~> (part = "nonces" /\ mint[m].at \in {"returned", "failed"})

(* Each mail is delivered or fails.                                         *)
MailsEnd ==
    \A s \in Requests :
        (part = "mails" /\ Mails!OnItsWay(s)) ~> (part = "mails" /\ ~Mails!OnItsWay(s))

(* Nothing that was begun stays on its way: neither a mint that waits for   *)
(* blocks nor a mail that waits for settings and for its server.           *)
CallsEnd == MintsEnd /\ MailsEnd
================================================================================
