--------------------------- MODULE MC_ContactsDemo ---------------------------
(***************************************************************************)
(* Model-checking instance of ContactsDemo.  Any program uses the names of *)
(* MC_Contacts ("A a" and "a-a" share contact#a-a); main() uses three      *)
(* names with distinct ids, as "Alice Johnson", "Bob Smith" and "Charlie   *)
(* Brown" have.                                                            *)
(***************************************************************************)
EXTENDS ContactsDemo, TLC

CONSTANTS m1, p1, p2, co1, co2, co3

MCNames == {<<"A", " ", "a">>, <<"a", "-", "a">>, <<"B">>}

MCAlice == <<"A", " ", "J">>
MCBob == <<"B", " ", "S">>
MCCharlie == <<"C", " ", "B">>

\* str.lower on the characters of every name above.
MCLower == [ch \in {"A", "a", "B", "C", "J", "S", " ", "-"} |->
              CASE ch = "A" -> "a" [] ch = "B" -> "b" [] ch = "C" -> "c"
                [] ch = "J" -> "j" [] ch = "S" -> "s" [] OTHER -> ch]

MCEmails == {m1}
MCPhones == {p1, p2}
MCCompanies == {"", co1}
MCDemoCompanies == {"", co1, co2, co3}

=============================================================================
