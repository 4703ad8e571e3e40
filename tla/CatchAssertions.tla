--------------------------- MODULE CatchAssertions ---------------------------
(***************************************************************************)
(* What an assertion macro makes of its expression, and the counts.        *)
(***************************************************************************)
EXTENDS Naturals

\* ResultWas: the types without the failure bit.
IsOkResult(type) == type \in {"Ok", "Info", "Warning"}

\* AssertionResult::isOk.  A disposition is the set of its flags.
isOk(result) == IsOkResult(result.type) \/ "SuppressFail" \in result.disposition

Result(type, disposition) == [type |-> type, disposition |-> disposition]

\* ResultBuilder::build: FalseTest flips a Boolean result.
build(type, disposition) ==
    CASE "FalseTest" \in disposition /\ type = "Ok"               -> Result("ExpressionFailed", disposition)
      [] "FalseTest" \in disposition /\ type = "ExpressionFailed" -> Result("Ok", disposition)
      [] OTHER                                                    -> Result(type, disposition)

\* useActiveException: the disposition is replaced.
useActiveException(disposition) == Result("ThrewException", disposition)

(***************************************************************************)
(* The macros.  An expression is true or false, or it throws what was      *)
(* expected or something else.                                             *)
(***************************************************************************)
INTERNAL_CATCH_TEST(outcome, disposition) ==
    CASE outcome = "true"  -> build("Ok", disposition)
      [] outcome = "false" -> build("ExpressionFailed", disposition)
      [] outcome \in {"throws", "throwsOther"} -> useActiveException({"Normal"})

INTERNAL_CATCH_NO_THROW(outcome, disposition) ==
    IF outcome \in {"true", "false"} THEN Result("Ok", disposition) ELSE useActiveException(disposition)

\* captureExpectedException: the message of what was thrown is matched.
captureExpectedException(outcome, disposition) ==
    Result(IF outcome = "throws" THEN "Ok" ELSE "ExpressionFailed", disposition)

INTERNAL_CATCH_THROWS(outcome, disposition, allowThrows) ==
    CASE ~allowThrows -> Result("Ok", disposition)
      [] allowThrows /\ outcome \in {"true", "false"} -> Result("DidntThrowException", disposition)
      [] OTHER -> captureExpectedException(outcome, disposition)

INTERNAL_CATCH_THROWS_AS(outcome, disposition, allowThrows) ==
    CASE ~allowThrows -> Result("Ok", disposition)
      [] allowThrows /\ outcome \in {"true", "false"} -> Result("DidntThrowException", disposition)
      [] allowThrows /\ outcome = "throws"            -> Result("Ok", disposition)
      [] OTHER                                        -> useActiveException(disposition)

INTERNAL_CHECK_THAT(outcome, disposition) ==
    CASE outcome = "true"  -> Result("Ok", disposition)
      [] outcome = "false" -> Result("ExpressionFailed", disposition)
      [] OTHER             -> useActiveException(disposition \cup {"ContinueOnFailure"})

\* WARN, FAIL and SUCCEED evaluate nothing.
INTERNAL_CATCH_MSG(messageType, disposition) == Result(messageType, disposition)

Asserted(macro, disposition, outcome, allowThrows) ==
    CASE macro = "TEST"      -> INTERNAL_CATCH_TEST(outcome, disposition)
      [] macro = "NO_THROW"  -> INTERNAL_CATCH_NO_THROW(outcome, disposition)
      [] macro = "THROWS"    -> INTERNAL_CATCH_THROWS(outcome, disposition, allowThrows)
      [] macro = "THROWS_AS" -> INTERNAL_CATCH_THROWS_AS(outcome, disposition, allowThrows)
      [] macro = "THAT"      -> INTERNAL_CHECK_THAT(outcome, disposition)
      [] OTHER               -> INTERNAL_CATCH_MSG(macro, disposition)
-----------------------------------------------------------------------------
(***************************************************************************)
(* Counts and Totals.                                                      *)
(***************************************************************************)
Counts == [passed |-> 0, failed |-> 0, failedButOk |-> 0]

Minus(a, b) == [f \in DOMAIN a |-> a[f] - b[f]]
Plus(a, b)  == [f \in DOMAIN a |-> a[f] + b[f]]
total(c)    == c.passed + c.failed + c.failedButOk

Totals == [assertions |-> Counts, testCases |-> Counts]

TotalsPlus(a, b) == [f \in DOMAIN a |-> Plus(a[f], b[f])]

\* What a test case did, and whether it counts as passed.
delta(totals, prev) ==
    LET done == Minus(totals.assertions, prev.assertions)
        kind == CASE done.failed > 0 -> "failed"
                  [] done.failed = 0 /\ done.failedButOk > 0 -> "failedButOk"
                  [] OTHER -> "passed"
    IN  [assertions |-> done,
         testCases  |-> [Minus(totals.testCases, prev.testCases) EXCEPT ![kind] = @ + 1]]
=============================================================================
