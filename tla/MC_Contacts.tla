----------------------------- MODULE MC_Contacts -----------------------------
(***************************************************************************)
(* Model-checking instance of Contacts.  "A a" and "a-a" are distinct      *)
(* names with one contact id (contact#a-a); "B" has its own.               *)
(***************************************************************************)
EXTENDS Contacts, TLC

CONSTANTS m1, p1, p2, co1

MCNames == {<<"A", " ", "a">>, <<"a", "-", "a">>, <<"B">>}

\* str.lower on the characters of MCNames.
MCLower == [ch \in {"A", "a", "B", " ", "-"} |->
              CASE ch = "A" -> "a" [] ch = "B" -> "b" [] OTHER -> ch]

MCEmails == {m1}
MCPhones == {p1, p2}
MCCompanies == {"", co1}

=============================================================================
