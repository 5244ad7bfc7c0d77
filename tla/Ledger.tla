---- MODULE Ledger ----
(***************************************************************************)
(* What the audit record promises: one page per request and scope, of      *)
(* which only the last entry shows.  A page never becomes blank again, and *)
(* it is written over only for another change made by a later commit, so   *)
(* its git history is the history of the request.                          *)
(***************************************************************************)
EXTENDS Integers

CONSTANTS Pages, Blank

VARIABLE ledger     \* page -> Blank or [change, commit]

\* It starts with whatever was recorded before.
Init == DOMAIN ledger = Pages

Later(old, new) == old = Blank \/ (new.commit > old.commit /\ new.change # old.change)

Enter ==
    /\ ledger' # ledger
    /\ DOMAIN ledger' = Pages
    /\ \A p \in Pages :
          \/ ledger'[p] = ledger[p]
          \/ ledger'[p] # Blank /\ Later(ledger[p], ledger'[p])

Spec == Init /\ [][Enter]_ledger
====
