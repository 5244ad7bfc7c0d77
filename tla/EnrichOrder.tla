---- MODULE EnrichOrder ----
(***************************************************************************)
(* `fwgitops enrich <folder>`: the ordering half of the apply job, and the *)
(* only writer of rulebase order.  After terraform has created what was    *)
(* missing, enrich_folder checks that every declared rule exists and       *)
(* issues the moves the intents ask for; restore_deployment_order then     *)
(* re-asserts the order in which the intents first reached git.            *)
(*                                                                         *)
(* Each move is one call to SCM, decided from a map of the folder read     *)
(* earlier, so the console can change the rulebase between the read and    *)
(* any of the calls.  The nightly restore makes the job run again for ever.*)
(***************************************************************************)
EXTENDS RuleOrder, FiniteSets

CONSTANTS
    Deployed,     \* the managed rules, a sequence in deployment order
    NameOrder,    \* the same rules in name order, the order enrich walks them
    Foreign,      \* rules in the folder this platform did not create
    Directives,   \* the position directives an intent of this instance may carry
    MaxConsole,   \* bound on console edits
    MaxFaults     \* bound on calls that fail

Managed == ToSet(Deployed)

ASSUME RulesAreNamedOnce ==
    /\ Deployed \in Seq(Managed) /\ IsInjective(Deployed)
    /\ NameOrder \in Seq(Managed) /\ ToSet(NameOrder) = Managed
    /\ IsFiniteSet(Foreign) /\ Managed \cap Foreign = {}

VARIABLES
    rulebase,   \* the folder's pre-rulebase in the SCM candidate
    position,   \* rule -> the directive its intent carries
    pc,         \* the step the enrich command is at
    i,          \* index of the rule the current pass has reached
    ids,        \* the folder as last read by rule_ids_by_name
    counted,    \* records the JSON line reports as moved
    restored,   \* rules restore_deployment_order says it re-seated
    started,    \* the rulebase when the command started
    console,    \* console edits so far
    faults,     \* failed calls so far
    touched     \* whether the console edited the folder since the command started

vars == <<rulebase, position, pc, i, ids, counted, restored, started,
          console, faults, touched>>

NoOpinion == [rel |-> "none", target |-> "none"]

Init ==
    /\ rulebase \in UNION {SetToSeqs(Managed \cup f) : f \in SUBSET Foreign}
    /\ position \in [Managed -> Directives]
    /\ \A r \in Managed : position[r].target # r
    /\ pc = "ids"
    /\ i = 1
    /\ ids = <<>>
    /\ counted = {}
    /\ restored = {}
    /\ started = rulebase
    /\ console = 0
    /\ faults = 0
    /\ touched = FALSE

----
(* enrich_folder *)

\* Pass 1 - existence only: a declared rule that is absent is an EnrichError.
ReadIds ==
    /\ pc = "ids"
    /\ ids' = rulebase
    /\ pc' = IF Managed \subseteq ToSet(rulebase) THEN "order" ELSE "failed"
    /\ i' = 1
    /\ UNCHANGED <<rulebase, position, counted, restored, started, console, faults, touched>>

\* A move SCM refuses because the rule or its target is gone, or a target that
\* does not resolve, ends the command with exit 3.
Refused == /\ pc' = "failed"
           /\ UNCHANGED <<rulebase, counted, restored>>

IssueMove(r) ==
    LET rel == position[r].rel
        target == position[r].target
    IN  \/ /\ rel \in {"none", "bottom"}
           /\ UNCHANGED <<rulebase, counted, restored, pc>>
        \/ /\ rel = "top"
           /\ r \in ToSet(rulebase)
           /\ rulebase' = MoveTop(rulebase, r)
           /\ counted' = counted \cup {r}
           /\ UNCHANGED <<restored, pc>>
        \/ /\ rel \in {"before", "after"}
           /\ target \in ToSet(ids)
           /\ {r, target} \subseteq ToSet(rulebase)
           /\ rulebase' = IF rel = "before" THEN MoveBefore(rulebase, r, target)
                                            ELSE MoveAfter(rulebase, r, target)
           /\ counted' = counted \cup {r}
           /\ UNCHANGED <<restored, pc>>
        \/ /\ rel = "top" => r \notin ToSet(rulebase)
           /\ rel \in {"before", "after"} =>
                \/ target \notin ToSet(ids)
                \/ ~ {r, target} \subseteq ToSet(rulebase)
           /\ rel \in {"top", "before", "after"}
           /\ Refused

\* Pass 2 - one rule at a time, in name order.
ApplyOrdering ==
    /\ pc = "order"
    /\ i <= Len(NameOrder)
    /\ IssueMove(NameOrder[i])
    /\ i' = i + 1
    /\ UNCHANGED <<position, ids, started, console, faults, touched>>

OrderingDone ==
    /\ pc = "order"
    /\ i > Len(NameOrder)
    /\ pc' = IF Len(Deployed) >= 2 THEN "reread" ELSE "done"
    /\ UNCHANGED <<rulebase, position, i, ids, counted, restored, started,
                   console, faults, touched>>

----
(* restore_deployment_order *)

\* Slip: the early return is missing, so every apply re-seats every rule.
NeverInOrder == FALSE

\* Slip: the folder is compared with the expected rules, but not their order.
AllPresent == Managed \subseteq ToSet(rulebase)

NothingToRestore == IsClean(Deployed, rulebase)

\* Reads the folder again; a rulebase already in order is left alone.
ReadAgain ==
    /\ pc = "reread"
    /\ ids' = rulebase
    /\ pc' = IF NothingToRestore THEN "done" ELSE "restore"
    /\ i' = 2
    /\ UNCHANGED <<rulebase, position, counted, restored, started, console, faults, touched>>

\* Slip: the anchor does not advance with the loop.
FirstAnchor(j) == Deployed[1]

Anchor(j) == Deployed[j - 1]

\* Slip: each rule goes to the bottom in turn, as if nobody else had rules there.
ToBottom(r, previous) == Append(Without(rulebase, r), r)

Reseated(r, previous) == MoveAfter(rulebase, r, previous)

\* Each rule is anchored to its predecessor in deployment order, never to the
\* bottom; a rule missing from the folder as read is skipped.
Reseat ==
    /\ pc = "restore"
    /\ i <= Len(Deployed)
    /\ LET r == Deployed[i]
           previous == Anchor(i)
       IN  \/ /\ ~ {r, previous} \subseteq ToSet(ids)
              /\ UNCHANGED <<rulebase, counted, restored, pc>>
           \/ /\ {r, previous} \subseteq ToSet(ids)
              /\ {r, previous} \subseteq ToSet(rulebase)
              /\ rulebase' = Reseated(r, previous)
              /\ restored' = restored \cup {r}
              /\ UNCHANGED <<counted, pc>>
           \/ /\ {r, previous} \subseteq ToSet(ids)
              /\ ~ {r, previous} \subseteq ToSet(rulebase)
              /\ Refused
    /\ i' = i + 1
    /\ UNCHANGED <<position, ids, started, console, faults, touched>>

ReseatDone ==
    /\ pc = "restore"
    /\ i > Len(Deployed)
    /\ pc' = "done"
    /\ UNCHANGED <<rulebase, position, i, ids, counted, restored, started,
                   console, faults, touched>>

----
(* The next apply: terraform recreates the declared rules that are absent, *)
(* each at the bottom, before enrich starts.                               *)

Recreated == SetToSeqs(Managed \ ToSet(rulebase))

NextApply ==
    /\ pc \in {"done", "failed"}
    /\ \E created \in Recreated :
         /\ rulebase' = rulebase \o created
         /\ started' = rulebase'
    /\ pc' = "ids"
    /\ i' = 1
    /\ ids' = <<>>
    /\ counted' = {}
    /\ restored' = {}
    /\ touched' = FALSE
    /\ UNCHANGED <<position, console, faults>>

(* Somebody working in the SCM console: drags a rule, or deletes one.      *)
ConsoleEdit ==
    /\ console < MaxConsole
    /\ console' = console + 1
    /\ touched' = TRUE
    /\ \E r \in ToSet(rulebase) :
         \/ rulebase' = Without(rulebase, r)
         \/ rulebase' = MoveTop(rulebase, r)
         \/ \E anchor \in ToSet(rulebase) \ {r} : rulebase' = MoveAfter(rulebase, r, anchor)
    /\ UNCHANGED <<position, pc, i, ids, counted, restored, started, faults>>

\* A list or a move fails, or git cannot tell when the rules were deployed: the
\* command ends with what it has moved so far in the candidate.
FailCall ==
    /\ pc \in {"ids", "order", "reread", "restore"}
    /\ faults < MaxFaults
    /\ faults' = faults + 1
    /\ Refused
    /\ UNCHANGED <<position, i, ids, started, console, touched>>

Enrich ==
    \/ ReadIds
    \/ ApplyOrdering
    \/ OrderingDone
    \/ ReadAgain
    \/ Reseat
    \/ ReseatDone
    \/ NextApply

Next == Enrich \/ FailCall \/ ConsoleEdit

\* The command runs to its end once started, and the nightly restore starts it
\* again; nothing obliges anybody to touch the console.
Spec == Init /\ [][Next]_vars /\ WF_vars(Enrich)

----
(* Properties *)

\* The directives name rules that exist or that terraform will recreate.
TargetsExist ==
    \A r \in Managed : position[r].rel \in {"before", "after"} =>
        position[r].target \in Managed \cup ToSet(rulebase)

\* A completed enrich leaves the managed rules in deployment order, whatever
\* order terraform recreated them in and whatever moves the intents asked for,
\* provided nobody touched the folder meanwhile (restore_deployment_order).
RestoredInOrder == pc = "done" /\ ~touched => IsClean(Deployed, rulebase)

\* Restoring order never carries a managed rule past a foreign rule that has
\* all of them on one side: no such rule is re-fenced by a repair of our own
\* internal order (enrich.py:119, orderdrift.py:201), even when the console
\* edits the folder between two of the moves.
Fenced(rb, f) ==
    LET at == {PositionOf(rb, r) : r \in Managed \cap ToSet(rb)}
    IN  IF \A n \in at : n < PositionOf(rb, f) THEN "below"
        ELSE IF \A n \in at : n > PositionOf(rb, f) THEN "above" ELSE "between"

FencesStep ==
    pc = "restore" /\ console' = console =>
        \A f \in Foreign \cap ToSet(rulebase) :
            Fenced(rulebase, f) # "between" => Fenced(rulebase', f) = Fenced(rulebase, f)

FencesKept == [][FencesStep]_vars

\* A reorder record is filed only when there was something to restore: with no
\* console edit during the run and no directive of an intent moving anything,
\* the run must have found the rulebase out of order (enrich.py:132).
NoFalseReorderRecord ==
    restored # {} /\ ~touched /\ counted = {} => ~IsClean(Deployed, started)

\* Once the console is left alone, runs keep ending with the managed rules in
\* deployment order, whatever was dragged or deleted, unless an intent anchors
\* its rule to one that is gone for good.
EventuallyInOrder ==
    \/ []<>(pc = "done" /\ IsClean(Deployed, rulebase))
    \/ <>[](~TargetsExist)

====
