------------------------------- MODULE ReportLog -------------------------------
(***************************************************************************)
(* What the nodes /reports/<uid> promise to whoever works through them:    *)
(* a report stays where it was filed, under the account that sent it, and  *)
(* reports are filed in the order in which the app wrote them.             *)
(***************************************************************************)
EXTENDS Naturals

CONSTANTS
  Accounts,   \* the users that send reports
  Report      \* reports: records with the fields id and author

VARIABLE log  \* the reports of each account

Init == log = [u \in Accounts |-> {}]

\* createReport, seen from the server: one report, younger than all others.
File(u) ==
  \E r \in log'[u] :
    /\ r \in Report
    /\ r.author = u
    /\ \A v \in Accounts : \A q \in log[v] : q.id < r.id
    /\ log' = [log EXCEPT ![u] = @ \cup {r}]

Next == \E u \in Accounts : File(u)

Spec == Init /\ [][Next]_log

=============================================================================
