----------------------------- MODULE PolicyStore -----------------------------
(***************************************************************************)
(* Authorization rules: the Casbin enforcers of                             *)
(* app/shared/authorization/enforcer.py, one or more per worker process,    *)
(* over the table casbin_rule, and the rule management of                   *)
(* app/domain/policy/service.py.                                            *)
(*                                                                         *)
(* Handlers run in the thread pool of their worker: an action is the code   *)
(* between two points where another thread can be scheduled to matter.  An  *)
(* enforcer is named by the slot whose request built it.  Casbin itself     *)
(* (auto-save: memory first, then the adapter) is external.  Equal rows of  *)
(* the table are one row here, since a removal deletes all of them.         *)
(***************************************************************************)
EXTENDS Naturals, Sequences

CONSTANTS
    Rule,       \* (role, resource, action) triples
    Master,     \* the rule master_admin, *, *
    Seed,       \* policy.csv: a sequence of rules that starts with Master
    Worker,
    Slot,       \* threads: slots for requests in flight
    WorkerOf,
    None

ASSUME ConstantsAssumption ==
    /\ Seed \in Seq(Rule)
    /\ Len(Seed) > 0
    /\ Seed[1] = Master
    /\ WorkerOf \in [Slot -> Worker]
    /\ None \notin Slot
    /\ None \notin Rule

VARIABLES
    db,        \* the rules in casbin_rule
    mem,       \* mem[o]: the rules of the enforcer built in slot o
    current,   \* current[w]: the enforcer in _enforcer of worker w
    op,        \* the request of each slot
    revoked,   \* history: rules whose removal was answered, not added since
    unsure     \* history: unsure[x]: the rules enforcer x may hold unlike the table

vars == <<db, mem, current, op, revoked, unsure>>

Kind == {"check", "add", "remove"}
Pc == {"idle", "get", "load", "seed", "publish", "authorize", "again", "act",
       "mem", "db"}

Operation == [pc : Pc, kind : Kind, rule : Rule \cup {None}, enf : Slot \cup {None},
              n : 0 .. Len(Seed)]

State(pc, kind, rule, enf, n) ==
    [pc |-> pc, kind |-> kind, rule |-> rule, enf |-> enf, n |-> n]

Idle == State("idle", "check", None, None, 0)

TypeOK ==
    /\ db \subseteq Rule
    /\ mem \in [Slot -> SUBSET Rule]
    /\ current \in [Worker -> Slot \cup {None}]
    /\ op \in [Slot -> Operation]
    /\ revoked \subseteq Rule
    /\ unsure \in [Slot -> SUBSET Rule]

Init ==
    /\ db = {}
    /\ mem = [o \in Slot |-> {}]
    /\ current = [w \in Worker |-> None]
    /\ op = [o \in Slot |-> Idle]
    /\ revoked = {}
    /\ unsure = [x \in Slot |-> Rule]

Goto(o, pc, enf) ==
    op' = [op EXCEPT ![o] = State(pc, op[o].kind, op[o].rule, enf, 0)]

\* The answer ends the request; nothing depends on its status.
Done(o) == op' = [op EXCEPT ![o] = Idle]

history == <<revoked, unsure>>

\* The enforcers xs no longer know whether rule r is in the table.
Doubt(xs, r) == unsure' = [x \in Slot |-> IF x \in xs THEN unsure[x] \cup {r} ELSE unsure[x]]

-----------------------------------------------------------------------------
(* get_enforcer *)

\* A request that needs a permission; what it asks for is first read in Authorize.
Arrive(o) ==
    /\ op[o].pc = "idle"
    /\ op' = [op EXCEPT ![o] = State("get", "check", None, None, 0)]
    /\ UNCHANGED <<db, mem, current, history>>

\* The global is tested without a lock: two threads may both find it unset.
GetEnforcer(o) ==
    LET w == WorkerOf[o]
    IN  /\ op[o].pc = "get"
        /\ \/ current[w] = None /\ Goto(o, "load", None)
           \/ current[w] # None /\ Goto(o, "authorize", current[w])
        /\ UNCHANGED <<db, mem, current, history>>

\* Seeding at every start.
Load_AlwaysSeed(o) ==
    /\ op[o].pc = "load"
    /\ mem' = [mem EXCEPT ![o] = db]
    /\ unsure' = [unsure EXCEPT ![o] = {}]
    /\ Goto(o, "seed", None)
    /\ UNCHANGED <<db, current, revoked>>

\* The Enforcer loads the table; _seed_if_empty looks at what was loaded.
Load(o) ==
    /\ op[o].pc = "load"
    /\ mem' = [mem EXCEPT ![o] = db]
    /\ unsure' = [unsure EXCEPT ![o] = {}]
    /\ Goto(o, IF db = {} THEN "seed" ELSE "publish", None)
    /\ UNCHANGED <<db, current, revoked>>

\* One line of policy.csv; each add_policy commits a row of its own.
SeedRule(o) ==
    LET i == op[o].n + 1
    IN  /\ op[o].pc = "seed"
        /\ mem' = [mem EXCEPT ![o] = @ \cup {Seed[i]}]
        /\ db' = IF Seed[i] \in mem[o] THEN db ELSE db \cup {Seed[i]}
        /\ IF i < Len(Seed)
           THEN op' = [op EXCEPT ![o] = State("seed", op[o].kind, op[o].rule, None, i)]
           ELSE Goto(o, "publish", None)
        /\ IF Seed[i] \in mem[o]
           THEN UNCHANGED unsure
           ELSE unsure' = [x \in Slot |-> IF x = o THEN unsure[x] \ {Seed[i]}
                                          ELSE unsure[x] \cup {Seed[i]}]
        /\ UNCHANGED <<current, revoked>>

\* The adapter raises while it loads or commits a line: HTTP 500.  The enforcer is
\* dropped, the rows committed so far stay.
BuildFails(o) ==
    /\ op[o].pc \in {"load", "seed"}
    /\ mem' = [mem EXCEPT ![o] = {}]
    /\ unsure' = [unsure EXCEPT ![o] = Rule]
    /\ Done(o)
    /\ UNCHANGED <<db, current, revoked>>

\* _enforcer = _build_enforcer(); what is returned is the global, read again.
Publish(o) ==
    /\ op[o].pc = "publish"
    /\ current' = [current EXCEPT ![WorkerOf[o]] = o]
    /\ Goto(o, "get", None)
    /\ UNCHANGED <<db, mem, history>>

-----------------------------------------------------------------------------
(* require_permission and PolicyService *)

\* is_allowed: the request is refused or has nothing to do with the rules; or it
\* manages them, for which "administer" is needed, the master's wildcard alone
\* grants.
Authorize(o) ==
    /\ op[o].pc = "authorize"
    /\ \/ Done(o)
       \/ /\ Master \in mem[op[o].enf]
          /\ \E kind \in {"add", "remove"}, r \in Rule :
               op' = [op EXCEPT ![o] = State("again", kind, r, None, 0)]
    /\ UNCHANGED <<db, mem, current, history>>

\* An enforcer looked up per worker and taken for the one it names.
Again_Worker(o) ==
    /\ op[o].pc = "again"
    /\ Goto(o, "act", WorkerOf[o])
    /\ UNCHANGED <<db, mem, current, history>>

\* The service asks for the enforcer once more.
Again(o) ==
    /\ op[o].pc = "again"
    /\ Goto(o, "act", current[WorkerOf[o]])
    /\ UNCHANGED <<db, mem, current, history>>

\* remove_rule without the immutable rules.
Act_NoImmutable(o) ==
    LET has == op[o].rule \in mem[op[o].enf]
    IN  /\ op[o].pc = "act"
        /\ \/ op[o].kind = "add" /\ has /\ Done(o)
           \/ op[o].kind = "remove" /\ ~has /\ Done(o)
           \/ op[o].kind = "add" /\ ~has /\ Goto(o, "mem", op[o].enf)
           \/ op[o].kind = "remove" /\ has /\ Goto(o, "mem", op[o].enf)
        /\ UNCHANGED <<db, mem, current, history>>

\* add_rule and remove_rule up to the enforcer's own call.
Act(o) ==
    LET has == op[o].rule \in mem[op[o].enf]
    IN  /\ op[o].pc = "act"
        /\ \/ op[o].kind = "add" /\ has /\ Done(o)
           \/ op[o].kind = "remove" /\ op[o].rule = Master /\ Done(o)
           \/ op[o].kind = "remove" /\ op[o].rule # Master /\ ~has /\ Done(o)
           \/ op[o].kind = "add" /\ ~has /\ Goto(o, "mem", op[o].enf)
           \/ /\ op[o].kind = "remove" /\ op[o].rule # Master /\ has
              /\ Goto(o, "mem", op[o].enf)
        /\ UNCHANGED <<db, mem, current, history>>

\* Request o has changed rule r in enforcer x and not yet in the table.
Editing(o, x, r) == op[o].pc = "db" /\ op[o].enf = x /\ op[o].rule = r

\* Casbin changes the model; when there is nothing to change it stops there.
\* An edit with no other one of its rule under way settles what x holds.
Change(o) ==
    LET r == op[o].rule
        x == op[o].enf
    IN  /\ op[o].pc = "mem"
        /\ mem' = [mem EXCEPT ![x] = IF op[o].kind = "add" THEN @ \cup {r} ELSE @ \ {r}]
        /\ IF mem'[x] = mem[x]
           THEN Done(o) /\ UNCHANGED unsure
           ELSE /\ Goto(o, "db", x)
                /\ IF \E p \in Slot : Editing(p, x, r)
                   THEN Doubt({x}, r)
                   ELSE unsure' = [unsure EXCEPT ![x] = @ \ {r}]
        /\ revoked' = IF op[o].kind = "add" THEN revoked \ {r} ELSE revoked
        /\ UNCHANGED <<db, current>>

\* Nobody is about to commit rule r that has it in hand from before.
Settled(r) ==
    \A p \in Slot : /\ op[p].pc # "seed"
                    /\ ~(op[p].pc = "db" /\ op[p].kind = "add" /\ op[p].rule = r)

Revoke(r) == revoked' = IF Settled(r) THEN revoked \cup {r} ELSE revoked

\* An enforcer without auto-save.
Save_MemoryOnly(o) ==
    LET r == op[o].rule
    IN  /\ op[o].pc = "db"
        /\ IF op[o].kind = "remove" THEN Revoke(r) ELSE UNCHANGED revoked
        /\ Doubt(Slot \ {op[o].enf}, r)
        /\ Done(o)
        /\ UNCHANGED <<db, mem, current>>

\* The adapter commits the change.
Save(o) ==
    LET r == op[o].rule
    IN  /\ op[o].pc = "db"
        /\ \/ /\ op[o].kind = "add"
              /\ db' = db \cup {r}
              /\ UNCHANGED revoked
           \/ /\ op[o].kind = "remove"
              /\ db' = db \ {r}
              /\ Revoke(r)
        /\ Doubt(Slot \ {op[o].enf}, r)
        /\ Done(o)
        /\ UNCHANGED <<mem, current>>

\* The commit raises: HTTP 500, and the change stays in memory.
SaveFails(o) ==
    /\ op[o].pc = "db"
    /\ Doubt({op[o].enf}, op[o].rule)
    /\ Done(o)
    /\ UNCHANGED <<db, mem, current, revoked>>

\* The worker process dies and is started again with _enforcer = None.
Restart(w) ==
    LET mine == {o \in Slot : WorkerOf[o] = w}
    IN  /\ current' = [current EXCEPT ![w] = None]
        /\ mem' = [o \in Slot |-> IF o \in mine THEN {} ELSE mem[o]]
        /\ op' = [o \in Slot |-> IF o \in mine THEN Idle ELSE op[o]]
        /\ unsure' = [o \in Slot |-> IF o \in mine THEN Rule ELSE unsure[o]]
        /\ UNCHANGED <<db, revoked>>

Step(o) ==
    \/ Arrive(o) \/ GetEnforcer(o) \/ Load(o) \/ SeedRule(o) \/ BuildFails(o)
    \/ Publish(o) \/ Authorize(o) \/ Again(o) \/ Act(o) \/ Change(o) \/ Save(o) \/ SaveFails(o)

Next ==
    \/ \E o \in Slot : Step(o)
    \/ \E w \in Worker : Restart(w)

Spec == Init /\ [][Next]_vars

-----------------------------------------------------------------------------
(* Properties *)

\* Whatever the order in which workers start, crash in the middle of the seeding
\* and edit the rules, an enforcer in service grants the master administrator
\* everything: the wildcard is the first rule seeded and cannot be removed
\* (_seed_if_empty, remove_rule).
MasterInService ==
    \A w \in Worker : current[w] # None => Master \in mem[current[w]]

\* A rule is in the memory of an enforcer in service exactly when it is in the
\* table ("All mutations go through the DB-backed enforcer, so changes persist
\* immediately", policy/service.py:3), with any number of workers and threads.
\* The ways they come apart are those of `unsure`: another enforcer wrote the rule
\* since this one was loaded, two edits of it overlapped, its commit raised.  Until
\* then, and again from the next edit on that no other one overlaps, they agree
\* whenever no edit of the rule is between memory and table.
MemoryIsTable ==
    \A w \in Worker : current[w] # None =>
        \A r \in Rule \ unsure[current[w]] :
            (\A o \in Slot : ~Editing(o, current[w], r)) => (r \in mem[current[w]] <=> r \in db)

\* A rule whose removal was answered is not stored again until someone adds it, with
\* any number of workers, restarts and failed commits, so that no enforcer loaded
\* later enforces it: the seeding never brings it back, because the immutable rule
\* keeps the table from being empty.  An addition or a seeding that had begun when
\* the removal was committed may still write the rule.
RevokedForGood == revoked \cap db = {}
=============================================================================
