------------------------------- MODULE Windows -------------------------------
(***************************************************************************)
(* Quota windows (reading.go): how one is built from a percentage or from  *)
(* amounts, when it is depleted, and the account verdict they add up to.   *)
(*                                                                         *)
(* A window keeps the fields the verdict and the metrics depend on.  The   *)
(* slice of windows is a set: nothing here depends on its order.  Amounts  *)
(* are whole, and a field that may be nil or undecodable is Absent.        *)
(***************************************************************************)
EXTENDS Reading

CONSTANT Absent     \* a nil pointer, or a flexNum that is not OK

ASSUME AbsentAssumption == Absent \notin Int

Known(x) == x # Absent

\* What a number of a payload decodes to.
Numbers == Int \cup {Absent}

\* The Kind constants; "unknown" is any other name a payload gives.
Kinds == {"five_hour", "daily", "weekly", "monthly", "credits", "balance", "unknown"}

\* Every window of an account, and one of a model class, pool or feature.
NoScope == "account"

ClampPct(v) == IF v < 0 THEN 0 ELSE IF v > 100 THEN 100 ELSE v

\* Wrong: a percentage above 100 is taken as it is.
PctWindowUnclamped(id, kind, usedPct) ==
    [id |-> id, kind |-> kind, binding |-> TRUE,
     remaining |-> 100 - usedPct, remainingPct |-> 100 - usedPct]

\* pctWindow
PctWindow(id, kind, usedPct) ==
    LET left == 100 - ClampPct(usedPct)
    IN  [id |-> id, kind |-> kind, binding |-> TRUE,
         remaining |-> left, remainingPct |-> left]

\* amountWindow: no percentage without a positive limit.
AmountWindow(id, kind, used, limit) ==
    [id |-> id, kind |-> kind, binding |-> TRUE, remaining |-> limit - used,
     remainingPct |-> IF limit > 0 THEN 100 - ClampPct((100 * used) \div limit)
                                   ELSE Absent]

\* A window that does not decide the state.
Informational(w) == [w EXCEPT !.binding = FALSE]

\* Window.Depleted
Depleted(w) ==
    IF Known(w.remaining) THEN w.remaining <= 0
    ELSE Known(w.remainingPct) /\ w.remainingPct <= 0

\* The binding windows with no headroom left.
UsedUp(ws) == {w \in ws : w.binding /\ Depleted(w)}

\* Wrong: a depleted window of any scope decides the state.
DeriveStateAnyWindow(ws) ==
    IF \E w \in ws : Depleted(w) THEN "limited" ELSE "ok"

\* deriveState: a depleted balance needs a top-up, any other window resets.
DeriveState(ws) ==
    IF \E w \in UsedUp(ws) : w.kind = "balance" THEN "exhausted"
    ELSE IF UsedUp(ws) # {} THEN "limited" ELSE "ok"

\* Reading.Binding: the binding windows with the least percentage left, of
\* which the code returns the first.
Tightest(ws) ==
    LET rated == {w \in ws : w.binding /\ Known(w.remainingPct)}
    IN  {w \in rated : \A v \in rated : w.remainingPct <= v.remainingPct}
=============================================================================
