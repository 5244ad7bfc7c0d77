---- MODULE RuleOrder ----
(***************************************************************************)
(* Rulebase order, as orderdrift.py and enrich.py compute it.  A rulebase  *)
(* is a sequence of distinct rule names, first match first.  It holds the  *)
(* rules this platform manages and rules it does not; only the mutual      *)
(* order of the managed ones is the platform's to assert.                  *)
(***************************************************************************)
EXTENDS Selection

Without(rulebase, r) == RemoveAt(rulebase, PositionOf(rulebase, r))

----
(* An SCM :move is absolute (top) or anchored to another rule.             *)

MoveTop(rulebase, r) == <<r>> \o Without(rulebase, r)

MoveBefore(rulebase, r, anchor) ==
    LET rest == Without(rulebase, r)
    IN  InsertAt(rest, PositionOf(rest, anchor), r)

MoveAfter(rulebase, r, anchor) ==
    LET rest == Without(rulebase, r)
    IN  InsertAt(rest, PositionOf(rest, anchor) + 1, r)

----
(* Detection (orderdrift.OrderReport): the expected order restricted to    *)
(* the rules that are present, against the managed rules in live order.    *)

Actual(expected, rulebase) == KeepOnly(rulebase, ToSet(expected))

Common(expected, rulebase) == KeepOnly(expected, ToSet(rulebase))

IsClean(expected, rulebase) == Common(expected, rulebase) = Actual(expected, rulebase)

====
