----------------------------- MODULE Onboarding -----------------------------
(***************************************************************************)
(* Self-service registration and email verification:                        *)
(* app/domain/onboarding (service.py, controller.py), with what an          *)
(* administrator may do to the account meanwhile.                           *)
(*                                                                         *)
(* A registration that gets as far as the INSERT makes one account and one  *)
(* token; both are named by the same id.  An action is the code between two *)
(* statements that reach PostgreSQL, Valkey or the mail server: requests    *)
(* are on different workers, or at different awaits of one.                 *)
(***************************************************************************)
EXTENDS Naturals, FiniteSets

CONSTANTS
    Address,
    Id,         \* one per account created
    Handler,    \* slots for requests in flight
    KindsOf,    \* KindsOf[o]: the requests slot o takes
    Failures,   \* whether Valkey and the mail server may fail, and workers die
    Blank

Kind == {"register", "verify"}

ASSUME OnboardingAssumption ==
    /\ KindsOf \in [Handler -> SUBSET Kind]
    /\ Failures \in BOOLEAN
    /\ Blank \notin Id
    /\ Blank \notin Address

VARIABLES
    holder,     \* holder[e]: the account whose sensitive_data row has email e
    row,        \* the accounts with a row of non-critical data
    active,     \* those with is_active = True
    token,      \* the tokens in Valkey
    mailbox,    \* the links that were delivered
    task,       \* the request of each slot
    used,       \* history: the ids given to accounts so far
    verified,   \* history: the accounts a verification has activated
    disturbed   \* history: ids with a request that failed half way, or with two
                \* verifications at once

database == <<holder, row, active>>
marks == <<used, verified, disturbed>>
onboardingVars == <<database, token, mailbox, task, marks>>

TaskPc == {"idle", "check", "insert", "token", "mail", "get", "activate", "delete"}

Task == [pc : TaskPc, email : Address \cup {Blank}, id : Id \cup {Blank}]

TaskAt(pc, email, id) == [pc |-> pc, email |-> email, id |-> id]

NoTask == TaskAt("idle", Blank, Blank)

OnboardingTypeOK ==
    /\ holder \in [Address -> Id \cup {Blank}]
    /\ row \subseteq used
    /\ active \subseteq row
    /\ token \subseteq used
    /\ mailbox \subseteq used
    /\ task \in [Handler -> Task]
    /\ used \subseteq Id
    /\ verified \subseteq used
    /\ disturbed \subseteq used

OnboardingInit ==
    /\ holder = [e \in Address |-> Blank]
    /\ row = {}
    /\ active = {}
    /\ token = {}
    /\ mailbox = {}
    /\ task = [o \in Handler |-> NoTask]
    /\ used = {}
    /\ verified = {}
    /\ disturbed = {}

\* Ids differ in nothing but their name: the next one stands for any new one.
NewId == CHOOSE i \in Id \ used : TRUE

Continue(o, pc, id) == task' = [task EXCEPT ![o] = TaskAt(pc, task[o].email, id)]

Finish(o) == task' = [task EXCEPT ![o] = NoTask]

-----------------------------------------------------------------------------
(* POST /onboarding/register *)

Register(o) ==
    /\ task[o].pc = "idle"
    /\ "register" \in KindsOf[o]
    /\ \E e \in Address : task' = [task EXCEPT ![o] = TaskAt("check", e, Blank)]
    /\ UNCHANGED <<database, token, mailbox, marks>>

\* A known email raises, and the controller answers as usual.
CheckEmail(o) ==
    /\ task[o].pc = "check"
    /\ IF holder[task[o].email] = Blank THEN Continue(o, "insert", Blank) ELSE Finish(o)
    /\ UNCHANGED <<database, token, mailbox, marks>>

\* The three rows are committed together; email is unique, so the second of two
\* registrations that both passed the check fails and is answered as usual.
Insert(o) ==
    LET e == task[o].email
    IN  /\ task[o].pc = "insert"
        /\ \/ /\ holder[e] # Blank
              /\ Finish(o)
              /\ UNCHANGED <<holder, row, used>>
           \/ /\ holder[e] = Blank
              /\ Id \ used # {}
              /\ holder' = [holder EXCEPT ![e] = NewId]
              /\ row' = row \cup {NewId}
              /\ used' = used \cup {NewId}
              /\ Continue(o, "token", NewId)
        /\ UNCHANGED <<active, token, mailbox, verified, disturbed>>

StoreToken(o) ==
    /\ task[o].pc = "token"
    /\ token' = token \cup {task[o].id}
    /\ Continue(o, "mail", task[o].id)
    /\ UNCHANGED <<database, mailbox, marks>>

\* The answer goes out and the mail is forgotten.
SendMail_Skipped(o) ==
    /\ task[o].pc = "mail"
    /\ Finish(o)
    /\ UNCHANGED <<database, token, mailbox, marks>>

SendMail(o) ==
    /\ task[o].pc = "mail"
    /\ mailbox' = mailbox \cup {task[o].id}
    /\ Finish(o)
    /\ UNCHANGED <<database, token, marks>>

\* Valkey or the mail server raises: the controller swallows it and answers as
\* usual, with the account committed.
Swallow(o) ==
    /\ Failures
    /\ task[o].pc \in {"token", "mail"}
    /\ Finish(o)
    /\ disturbed' = disturbed \cup {task[o].id}
    /\ UNCHANGED <<database, token, mailbox, used, verified>>

-----------------------------------------------------------------------------
(* GET /onboarding/verify *)

Verifying(i) == \E o \in Handler : task[o].pc \in {"get", "activate", "delete"} /\ task[o].id = i

Verify(o) ==
    /\ task[o].pc = "idle"
    /\ "verify" \in KindsOf[o]
    /\ \E i \in mailbox :
         /\ task' = [task EXCEPT ![o] = TaskAt("get", Blank, i)]
         /\ disturbed' = IF Verifying(i) THEN disturbed \cup {i} ELSE disturbed
    /\ UNCHANGED <<database, token, mailbox, used, verified>>

GetToken(o) ==
    LET i == task[o].id
    IN  /\ task[o].pc = "get"
        /\ IF i \in token THEN Continue(o, "activate", i) ELSE Finish(o)
        /\ UNCHANGED <<database, token, mailbox, marks>>

Activate_NoCheck(o) ==
    LET i == task[o].id
    IN  /\ task[o].pc = "activate"
        /\ active' = active \cup {i}
        /\ verified' = verified \cup {i}
        /\ Continue(o, "delete", i)
        /\ UNCHANGED <<holder, row, token, mailbox, used, disturbed>>

\* An account that is gone ends the request and keeps the token; one that goes
\* between the SELECT and the UPDATE makes the commit fail, to the same effect.
Activate(o) ==
    LET i == task[o].id
    IN  /\ task[o].pc = "activate"
        /\ \/ i \notin row /\ Finish(o) /\ UNCHANGED <<active, verified>>
           \/ /\ i \in row
              /\ active' = active \cup {i}
              /\ verified' = verified \cup {i}
              /\ Continue(o, "delete", i)
        /\ UNCHANGED <<holder, row, token, mailbox, used, disturbed>>

\* A verification that leaves its token to the TTL.
DeleteToken_Kept(o) ==
    /\ task[o].pc = "delete"
    /\ Finish(o)
    /\ UNCHANGED <<database, token, mailbox, marks>>

DeleteToken(o) ==
    /\ task[o].pc = "delete"
    /\ token' = token \ {task[o].id}
    /\ Finish(o)
    /\ UNCHANGED <<database, mailbox, marks>>

\* The worker dies; a verification whose command raises is answered 500.
Abort(o) ==
    /\ Failures
    /\ task[o].pc # "idle"
    /\ Finish(o)
    /\ disturbed' = IF task[o].pc \in {"token", "mail", "delete"}
                    THEN disturbed \cup {task[o].id} ELSE disturbed
    /\ UNCHANGED <<database, token, mailbox, used, verified>>

-----------------------------------------------------------------------------
(* The token's TTL, and an administrator's PATCH with is_active = False and     *)
(* DELETE: the row with the email goes first, the one with is_active in a       *)
(* commit of its own, which a failure may take away.                           *)

ExpireToken(i) ==
    /\ i \in token
    /\ token' = token \ {i}
    /\ UNCHANGED <<database, mailbox, task, marks>>

Deactivate(i) ==
    /\ i \in active
    /\ active' = active \ {i}
    /\ UNCHANGED <<holder, row, token, mailbox, task, marks>>

DeleteSensitive(e) ==
    /\ holder[e] # Blank
    /\ holder' = [holder EXCEPT ![e] = Blank]
    /\ UNCHANGED <<row, active, token, mailbox, task, marks>>

DeleteNonCritical(i) ==
    /\ i \in row
    /\ \A e \in Address : holder[e] # i
    /\ row' = row \ {i}
    /\ active' = active \ {i}
    /\ UNCHANGED <<holder, token, mailbox, task, marks>>

Handle(o) ==
    \/ CheckEmail(o) \/ Insert(o) \/ StoreToken(o) \/ SendMail(o)
    \/ GetToken(o) \/ Activate(o) \/ DeleteToken(o)

OnboardingNext ==
    \/ \E o \in Handler : Register(o) \/ Verify(o) \/ Handle(o) \/ Swallow(o) \/ Abort(o)
    \/ \E i \in Id : ExpireToken(i) \/ Deactivate(i) \/ DeleteNonCritical(i)
    \/ \E e \in Address : DeleteSensitive(e)

OnboardingSpec == OnboardingInit /\ [][OnboardingNext]_onboardingVars

FairSpec == OnboardingSpec /\ \A o \in Handler : WF_onboardingVars(Handle(o))

-----------------------------------------------------------------------------
(* Properties *)

\* A link activates its account once: an administrator who deactivates a
\* verified account is not overruled by the link (verify deletes the token
\* after its commit), unless two verifications overlapped or one died.
NotReactivated ==
    [][\A o \in Handler :
         task[o].pc = "activate" /\ task'[o].pc = "delete" /\ task[o].id \notin disturbed
           => task[o].id \notin verified]_onboardingVars

\* Every account that is created gets its link, unless it is deleted first or
\* its registration failed half way (register, send_verification_email).
LinkDelivered ==
    \A i \in Id : i \in row ~> (i \in mailbox \/ i \notin row \/ i \in disturbed)
=============================================================================
