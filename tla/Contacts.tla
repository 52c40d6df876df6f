------------------------------ MODULE Contacts ------------------------------
(***************************************************************************)
(* ContactManager of examples/python-embedded/contacts.py over the         *)
(* embedded keystonedb.Database at one db_path.  The process may exit at   *)
(* any point between two manager calls and a new ContactManager(db_path)   *)
(* is then constructed on the same file.  Database calls may raise; which  *)
(* of them may is the constant FaultyOps.                                  *)
(*                                                                         *)
(* The Database itself (a Rust extension, not in this repository) is       *)
(* modelled by what test_smoke.py asserts of it: put replaces the item,    *)
(* get returns it or None, delete removes it, and what was written before  *)
(* flush() is there after the file is reopened.  Whether writes after the  *)
(* last flush survive an exit is not stated anywhere, so reopening may     *)
(* recover either.  What Database.create does to an existing file is not   *)
(* stated either: it raises or replaces the file by an empty database, as  *)
(* the constant CreateReplaces says.                                       *)
(***************************************************************************)
EXTENDS Naturals, Sequences, SequencesExt

CONSTANTS
  Names,      \* contact names, each a sequence of characters
  Lower,      \* str.lower on the characters the names use
  Emails, Phones,
  Companies,  \* company arguments; "" is falsy
  None,       \* Python None
  Absent,     \* no item under a key / no such field in an item
  FaultyOps,  \* Database calls that may raise: subset of DbOps
  MaxFaults,  \* bound: Database calls that raise
  MaxOps,     \* bound: ContactManager calls
  CreateReplaces  \* Database.create on an existing file replaces it (else raises)

DbOps == {"open", "get", "put", "delete", "flush"}

ASSUME FaultyOps \subseteq DbOps /\ "" \in Companies /\ CreateReplaces \in BOOLEAN

\* contact_id = f"contact#{name.lower().replace(' ', '-')}"; .encode() is
\* injective, so keys are equal exactly when the ids are.
ContactId(name) ==
  <<"contact#">> \o [i \in DOMAIN name |->
                       IF Lower[name[i]] = " " THEN "-" ELSE Lower[name[i]]]

Ids == {ContactId(n) : n \in Names}

\* A stored contact: its dict, a field being Absent when the key is missing.
Items == [name : Names, email : Emails, phone : Phones,
          company : Companies \cup {Absent}]

\* The keyword arguments of update_contact; None when not passed.
UpdateArgs == [email : Emails \cup {None}, phone : Phones \cup {None},
               company : Companies \cup {None}]

EmptyStore == [i \in Ids |-> Absent]

Results == [op : {"none", "__init__", "add_contact", "get_contact",
                  "update_contact", "delete_contact", "flush"},
            name : Names \cup {None},
            ret : {"True", "False", "None", "item", "raised"},
            item : Items \cup {Absent}]

VARIABLES
  manager,     \* "ready" while a ContactManager exists, else "none"
  fileExists,  \* db_path holds a database file
  mem,         \* the items as self.db serves them
  disk,        \* the items as of the file's last successful flush
  log,         \* history: manager writes the database accepted, in order
  flushed,     \* how many entries of log the last flush made durable
  faults,      \* Database calls that raised so far
  ops,         \* ContactManager calls so far
  result       \* what the last ContactManager call returned or raised

vars == <<manager, fileExists, mem, disk, log, flushed, faults, ops, result>>

Return(op, name, ret, item) == [op |-> op, name |-> name, ret |-> ret, item |-> item]

Init ==
  /\ manager = "none"
  /\ fileExists = FALSE
  /\ mem = EmptyStore
  /\ disk = EmptyStore
  /\ log = <<>>
  /\ flushed = 0
  /\ faults = 0
  /\ ops = 0
  /\ result = Return("none", None, "None", Absent)

\* The Database call op raises (an I/O error of the binding).
Raises(op) ==
  /\ op \in FaultyOps
  /\ faults < MaxFaults
  /\ faults' = faults + 1

\* The Database call op returns normally.
Succeeds == UNCHANGED faults

(***************************************************************************)
(* Process lifetime                                                        *)
(***************************************************************************)

\* The process exits without closing anything: the manager and self.db go.
Exit ==
  /\ manager = "ready"
  /\ manager' = "none"
  /\ UNCHANGED <<fileExists, mem, disk, log, flushed, faults, ops, result>>

\* ContactManager.__init__: try Database.open(db_path); on any exception,
\* Database.create(db_path).  Reopening recovers the flushed items, or all
\* items when the writes after the last flush reached the file as well.
Start ==
  /\ manager = "none"
  /\ \/ /\ fileExists
        /\ Succeeds
        /\ \/ /\ mem' = disk
              /\ log' = SubSeq(log, 1, flushed)
           \/ UNCHANGED <<mem, log>>
        /\ manager' = "ready"
        /\ result' = Return("__init__", None, "None", Absent)
        /\ UNCHANGED <<fileExists, disk, flushed>>
     \/ /\ \/ ~fileExists /\ Succeeds
           \/ fileExists /\ Raises("open")
        /\ \/ /\ ~fileExists \/ CreateReplaces
              /\ manager' = "ready"
              /\ fileExists' = TRUE
              /\ mem' = EmptyStore
              /\ disk' = EmptyStore
              /\ log' = SubSeq(log, 1, flushed)
              /\ result' = Return("__init__", None, "None", Absent)
           \/ /\ fileExists /\ ~CreateReplaces
              /\ result' = Return("__init__", None, "raised", Absent)
              /\ UNCHANGED <<manager, fileExists, mem, disk, log>>
        /\ UNCHANGED flushed
  /\ UNCHANGED ops

(***************************************************************************)
(* ContactManager operations                                               *)
(***************************************************************************)

Call ==
  /\ manager = "ready"
  /\ ops < MaxOps
  /\ ops' = ops + 1

Truthy(v) == v \notin {None, ""}

\* Mutant of ContactData: contact_data["company"] = company without the
\* "if company:" test.
ContactData_always_company(n, e, p, co) ==
  [name |-> n, email |-> e, phone |-> p, company |-> co]

\* contact_data holds name, email, phone, and company only when truthy.
ContactData(n, e, p, co) ==
  [name |-> n, email |-> e, phone |-> p,
   company |-> IF Truthy(co) THEN co ELSE Absent]

\* add_contact: self.db.put(contact_id.encode(), contact_data) in a try;
\* True on success, False when put raises.
add_contact(n, e, p, co) ==
  LET id == ContactId(n) IN
  /\ Call
  /\ \/ /\ Succeeds
        /\ mem' = [mem EXCEPT ![id] = ContactData(n, e, p, co)]
        /\ log' = Append(log, [op |-> "add", id |-> id, data |-> ContactData(n, e, p, co)])
        /\ result' = Return("add_contact", n, "True", Absent)
     \/ /\ Raises("put")
        /\ result' = Return("add_contact", n, "False", Absent)
        /\ UNCHANGED <<mem, log>>
  /\ UNCHANGED <<manager, fileExists, disk, flushed>>

\* get_contact: the item if get returns a truthy dict, else None; an
\* exception of get is caught and also gives None.
get_contact(n) ==
  LET id == ContactId(n) IN
  /\ Call
  /\ \/ /\ Succeeds
        /\ result' = IF mem[id] # Absent
                       THEN Return("get_contact", n, "item", mem[id])
                       ELSE Return("get_contact", n, "None", Absent)
     \/ /\ Raises("get")
        /\ result' = Return("get_contact", n, "None", Absent)
  /\ UNCHANGED <<manager, fileExists, mem, disk, log, flushed>>

\* Mutant of Merged: "if value:" instead of "if value is not None:", so
\* an empty company is not written.
Merged_truthy(existing, upd) ==
  [f \in DOMAIN existing |->
     IF f \in DOMAIN upd /\ Truthy(upd[f]) THEN upd[f] ELSE existing[f]]

\* existing[key] = value for every keyword argument that is not None.
Merged(existing, upd) ==
  [f \in DOMAIN existing |->
     IF f \in DOMAIN upd /\ upd[f] # None THEN upd[f] ELSE existing[f]]

\* update_contact: existing = self.db.get(...) OUTSIDE any try, so an
\* exception of get propagates to the caller; False when there is no
\* contact; else merge the arguments and put in a try (True / False).
update_contact(n, upd) ==
  LET id == ContactId(n) IN
  /\ Call
  /\ \/ /\ Raises("get")
        /\ result' = Return("update_contact", n, "raised", Absent)
        /\ UNCHANGED <<mem, log>>
     \/ /\ Succeeds
        /\ mem[id] = Absent
        /\ result' = Return("update_contact", n, "False", Absent)
        /\ UNCHANGED <<mem, log>>
     \/ /\ mem[id] # Absent
        /\ \/ /\ Succeeds
              /\ mem' = [mem EXCEPT ![id] = Merged(mem[id], upd)]
              /\ log' = Append(log, [op |-> "update", id |-> id, data |-> upd])
              /\ result' = Return("update_contact", n, "True", Absent)
           \/ /\ Raises("put")
              /\ result' = Return("update_contact", n, "False", Absent)
              /\ UNCHANGED <<mem, log>>
  /\ UNCHANGED <<manager, fileExists, disk, flushed>>

\* delete_contact: self.db.delete(...) in a try; True / False.
delete_contact(n) ==
  LET id == ContactId(n) IN
  /\ Call
  /\ \/ /\ Succeeds
        /\ mem' = [mem EXCEPT ![id] = Absent]
        /\ log' = Append(log, [op |-> "delete", id |-> id, data |-> None])
        /\ result' = Return("delete_contact", n, "True", Absent)
     \/ /\ Raises("delete")
        /\ result' = Return("delete_contact", n, "False", Absent)
        /\ UNCHANGED <<mem, log>>
  /\ UNCHANGED <<manager, fileExists, disk, flushed>>

\* flush: self.db.flush() in a try; an exception is printed and swallowed.
flush ==
  /\ Call
  /\ \/ /\ Succeeds
        /\ disk' = mem
        /\ flushed' = Len(log)
     \/ /\ Raises("flush")
        /\ UNCHANGED <<disk, flushed>>
  /\ result' = Return("flush", None, "None", Absent)
  /\ UNCHANGED <<manager, fileExists, mem, log>>

Next ==
  \/ Exit
  \/ Start
  \/ flush
  \/ \E n \in Names :
       \/ get_contact(n)
       \/ delete_contact(n)
       \/ \E upd \in UpdateArgs : update_contact(n, upd)
       \/ \E e \in Emails, p \in Phones, co \in Companies \cup {None} :
            add_contact(n, e, p, co)

Spec == Init /\ [][Next]_vars

(***************************************************************************)
(* Reference: what the accepted writes say a contact is.  A contact exists *)
(* after its last add unless a delete came later; each of its fields has   *)
(* the value of the last add or update after that which set it.           *)
(***************************************************************************)

Fields == {"name", "email", "phone", "company"}

Touches(L, id) == {j \in DOMAIN L : L[j].id = id}

Resets(L, id) == {j \in Touches(L, id) : L[j].op \in {"add", "delete"}}

Sets(L, id, f) ==
  {j \in Touches(L, id) :
     \/ L[j].op = "add"
     \/ L[j].op = "update" /\ f \in DOMAIN L[j].data /\ L[j].data[f] # None}

Expected(L) ==
  [id \in Ids |->
     IF Resets(L, id) = {} \/ L[Max(Resets(L, id))].op = "delete" THEN Absent
     ELSE [f \in Fields |-> L[Max(Sets(L, id, f))].data[f]]]

(***************************************************************************)
(* Properties                                                              *)
(***************************************************************************)

\* Types; in particular no stored contact ever holds None: add_contact
\* omits a falsy company and update_contact skips None arguments.
TypeOK ==
  /\ manager \in {"none", "ready"}
  /\ fileExists \in BOOLEAN
  /\ mem \in [Ids -> Items \cup {Absent}]
  /\ disk \in [Ids -> Items \cup {Absent}]
  /\ flushed \in 0..Len(log)
  /\ faults \in 0..MaxFaults
  /\ ops \in 0..MaxOps
  /\ result \in Results

\* Across faults, exits and reopening, the contacts a running ContactManager
\* serves are exactly what its accepted add/update/delete calls imply, for
\* the writes that survived: those up to the last flush at least.
StoreMatchesWrites == manager = "ready" => mem = Expected(log)

\* get_contact(name) ("Retrieve a contact by name") returns a contact with
\* that name.
GetReturnsNamedContact ==
  result.op = "get_contact" /\ result.ret = "item" => result.item.name = result.name

\* Every ContactManager method reports a database failure by its return
\* value (False or None), as add, get, delete and flush do.
ErrorsReturned == result.op # "__init__" => result.ret # "raised"

=============================================================================
