---------------------------- MODULE DurableNames ----------------------------
(* What the named results promise their clients: a book of records that      *)
(* changes one name at a time, and only by the saves and deletes the daemon  *)
(* performs; crashes, restarts and failing writes do not touch it.  A client *)
(* may be left without an answer, and then it does not know.                *)
CONSTANTS Names, Records, None

VARIABLES
  book,   \* name -> what is recorded under it, or None
  told,   \* name -> what the last answered save or delete of it said
  doubt   \* names whose last save or delete was never answered

vars == <<book, told, doubt>>

Init ==
  /\ book = [n \in Names |-> None]
  /\ told = [n \in Names |-> None]
  /\ doubt = {}

Write(n, r) ==
  /\ book' = [book EXCEPT ![n] = r]
  /\ \/ told' = [told EXCEPT ![n] = r] /\ doubt' = doubt \ {n}
     \/ told' = told /\ doubt' = doubt \cup {n}

Save(n, r) == book[n] = None /\ Write(n, r)
Delete(n) == book[n] # None /\ Write(n, None)

Next == \E n \in Names : Delete(n) \/ \E r \in Records : Save(n, r)

Spec == Init /\ [][Next]_vars

(* Whoever was answered last about a name was told the truth about it.       *)
Promise == \A n \in Names \ doubt : told[n] = book[n]

=============================================================================
