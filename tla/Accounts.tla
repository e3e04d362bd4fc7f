------------------------------ MODULE Accounts ------------------------------
(***************************************************************************)
(* Accounts in three tables, and the audit log: PersonalDataService         *)
(* (app/domain/personal_data/service.py) over BaseService and BaseRepository *)
(* (app/shared/base_domain), which commit one row at a time and then an entry *)
(* of audit_log, and seed_admin.py, which commits all three rows at once.   *)
(*                                                                         *)
(* The rows of a person are the row of an account (administrator, manager or *)
(* user), its row of sensitive_data and its row of                          *)
(* non_critical_personal_data.  An action is one transaction with the code  *)
(* up to the next one.                                                      *)
(***************************************************************************)
EXTENDS Naturals, Sequences

CONSTANTS
    Person,     \* the keys of the three rows of an account
    Email,      \* what must be unique in sensitive_data
    Slot,       \* slots for requests in flight
    None

Table == {"noncritical", "sensitive", "account"}

ASSUME ConstantsAssumption ==
    /\ None \notin Table
    /\ None \notin Email
    /\ None \notin Person

VARIABLES
    enforced,   \* foreign keys: PostgreSQL checks them, SQLite does not
    noncritical,
    sensitive,  \* the email of the row of a person, None without a row
    account,
    referenced, \* accounts that a row of another table points to
    op,         \* the request of each slot
    log,        \* audit_log
    broken      \* history: persons with a request that ended half way

tables == <<noncritical, sensitive, account>>
aside == <<log, broken>>
vars == <<enforced, tables, referenced, op, aside>>

Do == {"create", "update", "delete"}
Change == [do : Do, table : Table, person : Person]

\* todo holds the tables still to commit; audit names the one committed last, while
\* its refresh and its _log_audit are to come.
Operation ==
    [do : Do \cup {"seed", "idle"}, person : Person \cup {None}, email : Email \cup {None},
     todo : UNION {[1 .. n -> Table] : n \in 0 .. 3},
     audit : Table \cup {None}]

Idle == [do |-> "idle", person |-> None, email |-> None,
         todo |-> <<>>, audit |-> None]

TypeOK ==
    /\ enforced \in BOOLEAN
    /\ noncritical \subseteq Person
    /\ sensitive \in [Person -> Email \cup {None}]
    /\ account \subseteq Person
    /\ \A p, r \in Person : sensitive[p] = sensitive[r] /\ sensitive[p] # None => p = r
    /\ referenced \subseteq Person
    /\ enforced => referenced \subseteq account
    /\ op \in [Slot -> Operation]
    /\ log \subseteq Change
    /\ broken \subseteq Person

Init ==
    /\ enforced \in BOOLEAN
    /\ noncritical = {}
    /\ sensitive = [p \in Person |-> None]
    /\ account = {}
    /\ referenced = {}
    /\ op = [o \in Slot |-> Idle]
    /\ log = {}
    /\ broken = {}

InFlight(p) == {o \in Slot : op[o].person = p}

\* email_exists
Known(e) == \E p \in Person : sensitive[p] = e

Begin(o, state) ==
    /\ op[o].do = "idle"
    /\ op' = [op EXCEPT ![o] = state]

Done(o) == op' = [op EXCEPT ![o] = Idle]

Unused(p) == p \notin noncritical \cup account /\ sensitive[p] = None /\ InFlight(p) = {}

\* New keys; what is remembered of a person is only about the last one.
BeginNew(o, do, todo) ==
    \E p \in Person, e \in Email :
       /\ Unused(p)
       /\ ~Known(e)
       /\ Begin(o, [Idle EXCEPT !.do = do, !.person = p, !.email = e, !.todo = todo])
       /\ referenced' = referenced \ {p}
       /\ broken' = broken \ {p}
       /\ UNCHANGED log

-----------------------------------------------------------------------------
(* Requests *)

Creation == <<"noncritical", "sensitive", "account">>

Create(o) ==
    /\ BeginNew(o, "create", Creation)
    /\ UNCHANGED <<enforced, tables>>

\* An update may give the account another email; nothing looks for it first.
Update(o) ==
    /\ \E p \in account, e \in Email \cup {None} :
         Begin(o, [Idle EXCEPT !.do = "update", !.person = p, !.email = e, !.todo = Creation])
    /\ UNCHANGED <<enforced, tables, referenced, aside>>

\* The rows an account points to first.
Deletion_Reverse == <<"noncritical", "sensitive", "account">>

\* The non-critical row forgotten.
Deletion_Partial == <<"account", "sensitive">>

Deletion == <<"account", "sensitive", "noncritical">>

Delete(o) ==
    /\ \E p \in account :
         Begin(o, [Idle EXCEPT !.do = "delete", !.person = p, !.todo = Deletion])
    /\ UNCHANGED <<enforced, tables, referenced, aside>>

\* create_initial_admin, up to its commit.
Seed(o) ==
    /\ BeginNew(o, "seed", <<>>)
    /\ UNCHANGED <<enforced, tables>>

\* GET, PATCH or DELETE of an account that is not there.
NotFound(p) ==
    /\ p \notin account
    /\ UNCHANGED vars

-----------------------------------------------------------------------------
(* Commits.  The email of a person must be nobody else's, and with foreign keys *)
(* a row that another one points to stays.                                      *)

\* Without the unique constraint.
Taken_Never(q) == q.email # q.email

Taken(q) == q.email # None /\ \E p \in Person \ {q.person} : sensitive[p] = q.email

\* The foreign keys of the three tables and those of the others to an account.
PointedTo(t, p) ==
    /\ enforced
    /\ CASE t = "account" -> p \in referenced
         [] t = "sensitive" -> p \in account
         [] t = "noncritical" -> sensitive[p] # None

Break(p) ==
    /\ broken' = broken \cup {p}
    /\ UNCHANGED log

\* A request that fails after a commit leaves what it has committed.
Fail(o) ==
    /\ Done(o)
    /\ IF op[o].todo \in {Creation, Deletion} THEN UNCHANGED aside
       ELSE Break(op[o].person)
    /\ UNCHANGED <<enforced, tables, referenced>>

\* The row is committed.
Committed(o) ==
    LET q == op[o]
    IN  /\ op' = [op EXCEPT ![o] = [q EXCEPT !.todo = Tail(@), !.audit = Head(q.todo)]]
        /\ UNCHANGED <<enforced, referenced, aside>>

Next_Table(o, do, t) ==
    op[o].do = do /\ op[o].audit = None /\ op[o].todo # <<>> /\ Head(op[o].todo) = t

\* repository.create
CreateRow(o) ==
    LET q == op[o]
        p == q.person
    IN  \/ /\ Next_Table(o, "create", "noncritical")
           /\ noncritical' = noncritical \cup {p}
           /\ Committed(o)
           /\ UNCHANGED <<sensitive, account>>
        \/ /\ Next_Table(o, "create", "sensitive")
           /\ IF Taken(q) THEN Fail(o)
              ELSE /\ sensitive' = [sensitive EXCEPT ![p] = q.email]
                   /\ Committed(o)
                   /\ UNCHANGED <<noncritical, account>>
        \/ /\ Next_Table(o, "create", "account")
           /\ account' = account \cup {p}
           /\ Committed(o)
           /\ UNCHANGED <<noncritical, sensitive>>

\* repository.update: the row must still be there.
UpdateRow(o) ==
    LET q == op[o]
        p == q.person
    IN  \/ /\ Next_Table(o, "update", "noncritical")
           /\ IF p \in noncritical THEN Committed(o) /\ UNCHANGED tables
              ELSE Fail(o)
        \/ /\ Next_Table(o, "update", "sensitive")
           /\ IF sensitive[p] # None /\ ~Taken(q)
              THEN /\ sensitive' = [sensitive EXCEPT ![p] = IF q.email = None THEN @ ELSE q.email]
                   /\ Committed(o)
                   /\ UNCHANGED <<noncritical, account>>
              ELSE Fail(o)
        \/ /\ Next_Table(o, "update", "account")
           /\ IF p \in account THEN Committed(o) /\ UNCHANGED tables
              ELSE Fail(o)

\* repository.delete.  The account was read when the request began, so its DELETE
\* may find no row; the other two are read again.
DeleteRow(o) ==
    LET q == op[o]
        p == q.person
    IN  \/ /\ Next_Table(o, "delete", "account")
           /\ IF PointedTo("account", p) THEN Fail(o)
              ELSE /\ account' = account \ {p}
                   /\ Committed(o)
                   /\ UNCHANGED <<noncritical, sensitive>>
        \/ /\ Next_Table(o, "delete", "sensitive")
           /\ IF sensitive[p] = None \/ PointedTo("sensitive", p) THEN Fail(o)
              ELSE /\ sensitive' = [sensitive EXCEPT ![p] = None]
                   /\ Committed(o)
                   /\ UNCHANGED <<noncritical, account>>
        \/ /\ Next_Table(o, "delete", "noncritical")
           /\ IF p \notin noncritical \/ PointedTo("noncritical", p) THEN Fail(o)
              ELSE /\ noncritical' = noncritical \ {p}
                   /\ Committed(o)
                   /\ UNCHANGED <<sensitive, account>>

\* session.refresh raises after the commit of a creation or an update, as when the
\* row is gone by then: the request ends with what it has committed.
RefreshFails(o) ==
    /\ op[o].audit # None
    /\ op[o].do # "delete"
    /\ Done(o)
    /\ IF op[o].todo = <<>> THEN UNCHANGED aside ELSE Break(op[o].person)
    /\ UNCHANGED <<enforced, tables, referenced>>

Entry(q, t) == [do |-> q.do, table |-> t, person |-> q.person]

\* get_current_user_from_context() in a handler: require_permission, the only one to
\* set it, runs in the thread pool in its own copy of the context.
ContextAccount == None

\* _log_audit: nothing without an account.
Audit(o) ==
    LET q == op[o]
    IN  /\ q.audit # None
        /\ op' = [op EXCEPT ![o] = IF q.todo = <<>> THEN Idle ELSE [q EXCEPT !.audit = None]]
        /\ log' = IF ContextAccount = None THEN log ELSE log \cup {Entry(q, q.audit)}
        /\ UNCHANGED <<enforced, tables, referenced, broken>>

\* All three rows of the first administrator, or none.
SeedCommit(o) ==
    LET q == op[o]
    IN  /\ q.do = "seed"
        /\ \/ /\ ~Taken(q)
              /\ noncritical' = noncritical \cup {q.person}
              /\ sensitive' = [sensitive EXCEPT ![q.person] = q.email]
              /\ account' = account \cup {q.person}
           \/ /\ Taken(q)
              /\ UNCHANGED tables
        /\ Done(o)
        /\ UNCHANGED <<enforced, referenced, aside>>

-----------------------------------------------------------------------------
(* Surroundings *)

\* Services, applications, roles, links and tickets come and go.
Refer(p) ==
    /\ p \in account
    /\ referenced' = referenced \cup {p}
    /\ UNCHANGED <<enforced, tables, op, aside>>

Release(p) ==
    /\ referenced' = referenced \ {p}
    /\ UNCHANGED <<enforced, tables, op, aside>>

\* The worker dies between two transactions.
Crash(o) ==
    /\ op[o].do # "idle"
    /\ Done(o)
    /\ Break(op[o].person)
    /\ UNCHANGED <<enforced, tables, referenced>>

Next ==
    \/ \E o \in Slot :
         \/ Create(o) \/ Update(o) \/ Delete(o) \/ Seed(o)
         \/ CreateRow(o) \/ UpdateRow(o) \/ DeleteRow(o) \/ RefreshFails(o) \/ Audit(o)
         \/ SeedCommit(o) \/ Crash(o)
    \/ \E p \in Person : NotFound(p) \/ Refer(p) \/ Release(p)

Spec == Init /\ [][Next]_vars

-----------------------------------------------------------------------------
(* Properties *)

\* An account always has the rows it is read through, and an email belongs to
\* personal data: the three commits of a creation, an update or a deletion never
\* leave an account without them, whatever dies or overlaps, with foreign keys
\* and without (PersonalDataService; UserPlainAttribute follows both relations).
Whole ==
    /\ \A p \in account : sensitive[p] # None
    /\ \A p \in Person : sensitive[p] # None => p \in noncritical

\* No rows are left over without an account, so that their email and identity
\* stay taken: only by a request that ended half way, since it died or since its
\* email was taken after the check.  A deletion that is refused leaves all three
\* (PersonalDataService.create_entity, delete_entity).
NoLeftovers ==
    \A p \in Person \ broken : InFlight(p) = {} =>
        (p \in noncritical \/ sensitive[p] # None => p \in account)

\* What a request has committed and passed to _log_audit.
Passed(q) ==
    LET all == IF q.do = "delete" THEN Deletion ELSE Creation
    IN  {all[i] : i \in 1 .. Len(all) - Len(q.todo)} \ {q.audit}

\* A row a request has committed has its entry in audit_log before the request goes
\* on to the next row ("registra toda mutacion autenticada",
\* docs/manual-interno.md:199; BaseService._log_audit).
MutationsLogged ==
    \A o \in Slot : op[o].do \in Do => \A t \in Passed(op[o]) : Entry(op[o], t) \in log
=============================================================================
