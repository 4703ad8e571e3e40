----------------------------- MODULE CatchTracker -----------------------------
(***************************************************************************)
(* TestCaseTracking: which section of a test case is to be entered in this *)
(* pass over it.  A tracker is named by its path from the root, the        *)
(* sequence of the keys it was acquired under; a context holds the states  *)
(* of the trackers, the current one and whether this cycle has already     *)
(* run a section to its end.                                               *)
(***************************************************************************)
EXTENDS Integers, SequencesExt

Root == << >>

NewTracker == [state |-> "NotStarted", children |-> << >>]

\* "illogical" is the std::logic_error of a tracker closed in a state it cannot have.
startRun == [nodes |-> [p \in {Root} |-> NewTracker], current |-> Root, run |-> "Executing", illogical |-> FALSE]

startCycle(ctx)    == [ctx EXCEPT !.current = Root, !.run = "Executing"]
completeCycle(ctx) == [ctx EXCEPT !.run = "CompletedCycle"]
completedCycle(ctx) == ctx.run = "CompletedCycle"

isComplete(ctx, p) == ctx.nodes[p].state \in {"CompletedSuccessfully", "Failed"}
isSuccessfullyCompleted(ctx, p) == ctx.nodes[p].state = "CompletedSuccessfully"
isOpen(ctx, p) == ctx.nodes[p].state # "NotStarted" /\ ~isComplete(ctx, p)
hasChildren(ctx, p) == ctx.nodes[p].children # << >>

SetState(ctx, p, s) == [ctx EXCEPT !.nodes[p].state = s]

addChild(node, key) == [node EXCEPT !.children = Append(@, key)]

\* From the parent upwards, as far as the first one that is executing children already.
openChild(ctx, parent) ==
    LET Reached == {q \in Prefixes(parent) :
                       \A r \in Prefixes(parent) : Len(r) > Len(q) => ctx.nodes[r].state # "ExecutingChildren"}
    IN  [ctx EXCEPT !.nodes = [p \in DOMAIN @ |->
            IF p \in Reached THEN [@[p] EXCEPT !.state = "ExecutingChildren"] ELSE @[p]]]

open(ctx, p) == openChild([SetState(ctx, p, "Executing") EXCEPT !.current = p], Front(p))

\* Closing any tracker but the current one would first close those below it
\* (generators); sections are always closed innermost first.
close(ctx, p) ==
    LET node == ctx.nodes[p]
        last == Append(p, Last(node.children))
        done == \/ node.state = "Executing"
                \/ node.state = "ExecutingChildren" /\ (node.children = << >> \/ isComplete(ctx, last))
        closed == IF done THEN SetState(ctx, p, "CompletedSuccessfully") ELSE ctx
    IN  IF ctx.current # p \/ node.state \in {"NotStarted", "CompletedSuccessfully", "Failed"}
        THEN [ctx EXCEPT !.illogical = TRUE]
        ELSE completeCycle([closed EXCEPT !.current = Front(p)])

fail(ctx, p) ==
    completeCycle([SetState(SetState(ctx, p, "Failed"), Front(p), "NeedsAnotherRun") EXCEPT !.current = Front(p)])

\* Finds the child of the current tracker or adds it, and opens it if it may run in this cycle.
acquire(ctx, key) ==
    LET p     == Append(ctx.current, key)
        found == IF p \in DOMAIN ctx.nodes THEN ctx
                 ELSE [ctx EXCEPT !.nodes = [q \in DOMAIN @ \cup {p} |->
                          IF q = p THEN NewTracker ELSE IF q = ctx.current THEN addChild(@[q], key) ELSE @[q]]]
    IN  IF completedCycle(found) \/ isComplete(found, p) THEN found ELSE open(found, p)
=============================================================================
