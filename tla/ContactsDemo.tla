---------------------------- MODULE ContactsDemo ----------------------------
(***************************************************************************)
(* The callers of ContactManager in examples/python-embedded/contacts.py:  *)
(* any program (the actions of Contacts in any order, with exits and       *)
(* reopening), or the script's own main(), which runs                      *)
(* demo_basic_operations (with demo_value_types), demo_sort_keys and       *)
(* demo_in_memory in turn.  Init chooses the caller.                       *)
(*                                                                         *)
(* main() is straight-line code.  Its ContactManager calls are the actions *)
(* of Contacts (instance Script, over the script's three names); its       *)
(* direct Database calls (db.put, put_with_sk, get_with_sk, ...) are steps *)
(* of this module that raise, as the Contacts calls do, on a FaultyOps     *)
(* operation.  A call outside any try that raises ends main() with a      *)
(* traceback (pc = "raised").  The sort-key and in-memory databases are   *)
(* the sets of keys they hold; their item contents are never compared.    *)
(***************************************************************************)
EXTENDS Naturals, Sequences, FiniteSets

CONSTANTS
  Names, Lower, Emails, Phones, Companies, None, Absent,
  FaultyOps, MaxFaults, MaxOps, CreateReplaces,
  Alice, Bob, Charlie,       \* the names main() passes to add_contact
  Email, Phone, NewPhone,    \* main()'s email and phone arguments
  DemoCompanies,             \* company arguments of main(), "" included
  Acme, Tech, NewCompany,    \* Alice's and Bob's companies; Bob's new one
  DemoMaxFaults              \* bound: Database calls that raise in main()

VARIABLES
  manager, fileExists, mem, disk, log, flushed, faults, ops, result,
  caller,  \* "any" program, or contacts.py's "main"
  pc,      \* the statement main() is at
  diana,   \* b"contact#diana-prince" was put by demo_value_types
  skdb,    \* keys of demo_sort_keys' database
  memdb    \* keys of demo_in_memory's database

store == <<manager, fileExists, mem, disk, log, flushed, faults, ops, result>>
vars == <<store, caller, pc, diana, skdb, memdb>>

DemoNames == {Alice, Bob, Charlie}

\* The ContactManager calls of main(): nine on one ContactManager.
Script == INSTANCE Contacts
            WITH Names <- DemoNames, Companies <- DemoCompanies,
                 MaxOps <- 9, MaxFaults <- DemoMaxFaults

Anyone == INSTANCE Contacts

\* The (pk, sk) pairs demo_sort_keys puts, in the order of its loops.
SkOrder == <<"acme/alice", "acme/bob", "tech/charlie", "tech/diana">>
\* The session keys demo_in_memory puts, in dict order.
MemOrder == <<"abc123", "def456", "ghi789">>

Labels == {"main", "start", "add", "get_alice", "update_bob", "get_bob",
           "delete_charlie", "check_charlie", "flush", "put_diana",
           "get_diana", "sk_put", "sk_get", "sk_delete", "sk_check",
           "mem_put", "mem_get", "mem_delete", "done", "raised"}

Init ==
  /\ \/ caller = "any" /\ Anyone!Init
     \/ caller = "main" /\ Script!Init
  /\ pc = "main"
  /\ diana = FALSE
  /\ skdb = {}
  /\ memdb = {}

AnyCaller ==
  /\ caller = "any"
  /\ Anyone!Next
  /\ UNCHANGED <<caller, pc, diana, skdb, memdb>>

(***************************************************************************)
(* main()                                                                  *)
(***************************************************************************)

\* A ContactManager call that may raise (update_contact) ends main().
After(next) == pc' = IF result'.ret = "raised" THEN "raised" ELSE next

Demo(from, A, next) ==
  /\ caller = "main"
  /\ pc = from
  /\ A
  /\ After(next)
  /\ UNCHANGED <<caller, diana, skdb, memdb>>

\* A Database call outside any try: it raises out of main() or succeeds.
Unguarded(from, op, next) ==
  /\ caller = "main"
  /\ pc = from
  /\ \/ Script!Raises(op) /\ pc' = "raised"
     \/ Script!Succeeds /\ pc' = next
  /\ UNCHANGED <<manager, fileExists, mem, disk, log, flushed, ops, result,
                 caller>>

\* main(): "--help" prints the docstring and returns; else the demos run.
Main ==
  /\ caller = "main"
  /\ pc = "main"
  /\ pc' \in {"done", "start"}
  /\ UNCHANGED <<store, caller, diana, skdb, memdb>>

\* ContactManager(db_path) in a fresh temporary directory.
DemoStart == Demo("start", Script!Start, "add")

\* The three add_contact calls; Charlie has no company.
DemoAdd ==
  LET args == <<<<Alice, Acme>>, <<Bob, Tech>>, <<Charlie, None>>>>[ops + 1]
  IN  /\ ops < 3
      /\ Demo("add", Script!add_contact(args[1], Email, Phone, args[2]),
              IF ops + 1 = 3 THEN "get_alice" ELSE "add")

DemoGetAlice == Demo("get_alice", Script!get_contact(Alice), "update_bob")

DemoUpdateBob ==
  /\ Demo("update_bob",
          Script!update_contact(Bob, [email |-> None, phone |-> NewPhone,
                                      company |-> NewCompany]),
          "get_bob")

DemoGetBob == Demo("get_bob", Script!get_contact(Bob), "delete_charlie")

DemoDeleteCharlie == Demo("delete_charlie", Script!delete_contact(Charlie), "check_charlie")

\* "if deleted is None: print('Contact successfully deleted')": a failed
\* get_contact also returns None, so the line does not tell the two apart.
DemoCheckCharlie == Demo("check_charlie", Script!get_contact(Charlie), "flush")

DemoFlush == Demo("flush", Script!flush, "put_diana")

\* demo_value_types: manager.db.put and manager.db.get, no try.
PutDiana == Unguarded("put_diana", "put", "get_diana")
              /\ diana' = (pc' = "get_diana")
              /\ UNCHANGED <<skdb, memdb>>

GetDiana == Unguarded("get_diana", "get", "sk_put") /\ UNCHANGED <<diana, skdb, memdb>>

\* demo_sort_keys: Database.create on a fresh path, then put_with_sk for
\* each employee, get_with_sk, delete_with_sk, none of them in a try.
SkPut ==
  LET k == SkOrder[Cardinality(skdb) + 1] IN
  /\ Unguarded("sk_put", "put",
               IF Cardinality(skdb) + 1 = Len(SkOrder) THEN "sk_get" ELSE "sk_put")
  /\ skdb' = IF pc' = "raised" THEN skdb ELSE skdb \cup {k}
  /\ UNCHANGED <<diana, memdb>>

SkGet == Unguarded("sk_get", "get", "sk_delete") /\ UNCHANGED <<diana, skdb, memdb>>

SkDelete ==
  /\ Unguarded("sk_delete", "delete", "sk_check")
  /\ skdb' = IF pc' = "raised" THEN skdb ELSE skdb \ {"tech/charlie"}
  /\ UNCHANGED <<diana, memdb>>

\* The check of the removal is in a try: a raise prints the same line.
SkCheck ==
  /\ caller = "main"
  /\ pc = "sk_check"
  /\ Script!Raises("get") \/ Script!Succeeds
  /\ pc' = "mem_put"
  /\ UNCHANGED <<manager, fileExists, mem, disk, log, flushed, ops, result,
                 caller, diana, skdb, memdb>>

\* demo_in_memory: create_in_memory, three puts, a get, a delete; no try.
MemPut ==
  LET k == MemOrder[Cardinality(memdb) + 1] IN
  /\ Unguarded("mem_put", "put",
               IF Cardinality(memdb) + 1 = Len(MemOrder) THEN "mem_get" ELSE "mem_put")
  /\ memdb' = IF pc' = "raised" THEN memdb ELSE memdb \cup {k}
  /\ UNCHANGED <<diana, skdb>>

MemGet == Unguarded("mem_get", "get", "mem_delete") /\ UNCHANGED <<diana, skdb, memdb>>

\* The last delete, after which main() prints "All demos completed".
MemDelete ==
  /\ caller = "main"
  /\ pc = "mem_delete"
  /\ \/ Script!Raises("delete") /\ pc' = "raised" /\ UNCHANGED memdb
     \/ /\ Script!Succeeds
        /\ pc' = "done"
        /\ memdb' = memdb \ {"abc123"}
  /\ UNCHANGED <<manager, fileExists, mem, disk, log, flushed, ops, result,
                 caller, diana, skdb>>

MainCaller ==
  \/ Main \/ DemoStart \/ DemoAdd \/ DemoGetAlice \/ DemoUpdateBob
  \/ DemoGetBob \/ DemoDeleteCharlie \/ DemoCheckCharlie \/ DemoFlush
  \/ PutDiana \/ GetDiana \/ SkPut \/ SkGet \/ SkDelete \/ SkCheck
  \/ MemPut \/ MemGet \/ MemDelete

Next == AnyCaller \/ MainCaller

Spec == Init /\ [][Next]_vars

(***************************************************************************)
(* Properties                                                              *)
(***************************************************************************)

TypeOK ==
  /\ caller \in {"any", "main"}
  /\ IF caller = "any" THEN Anyone!TypeOK ELSE Script!TypeOK
  /\ pc \in Labels
  /\ diana \in BOOLEAN
  /\ skdb \subseteq {SkOrder[i] : i \in DOMAIN SkOrder}
  /\ memdb \subseteq {MemOrder[i] : i \in DOMAIN MemOrder}

\* Whichever program calls it, a running ContactManager serves exactly the
\* contacts its accepted add/update/delete calls imply (Contacts).
StoreMatchesWrites ==
  IF caller = "any" THEN Anyone!StoreMatchesWrites ELSE Script!StoreMatchesWrites

====
