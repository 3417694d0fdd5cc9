---------------------------- MODULE MCAdminAuth ----------------------------
(* Small instances of AdminAuth. *)
EXTENDS AdminAuth, TLC

CONSTANTS a1, a2, c1, c2, p1, p2

OneAdmin == {a1}
TwoAdmins == {a1, a2}
OneClient == {c1}
TwoClients == {c1, c2}
OnePassword == {p1}
TwoPasswords == {p1, p2}
SecondAdmin == {a2}
Nobody == {}

AnyAccount == [c \in Clients |-> Admins \union {Unknown}]
SharedAccount == [c \in Clients |-> {a1}]

OneDay == {1}
DayOrLonger == {1, 2}
=============================================================================
