----------------------------- MODULE StepwiseFold -----------------------------
(***************************************************************************)
(* FoldLeft and FoldLeftDomain of SequencesExt, with the value of every    *)
(* step bound before the next one: the operator may use its first argument *)
(* many times, also where TLC evaluates ENABLED.                           *)
(***************************************************************************)
EXTENDS Naturals, Sequences

Fold(op(_, _), base, seq) ==
    LET after[n \in 0..Len(seq)] ==
          IF n = 0 THEN base ELSE CHOOSE v \in {op(u, seq[n]) : u \in {after[n - 1]}} : TRUE
    IN  after[Len(seq)]

FoldDomain(op(_, _), base, seq) == Fold(op, base, [i \in 1..Len(seq) |-> i])
=============================================================================
