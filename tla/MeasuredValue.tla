--------------------------- MODULE MeasuredValue ----------------------------
(***************************************************************************)
(* sunspec::MeasuredValue: the extremes of the values assigned to it, and    *)
(* whether the last assignment moved one; and SunSpecBlock, to which another *)
(* block is assigned key by key.                                             *)
(***************************************************************************)
EXTENDS Integers

(* m_data is empty until the first assignment.                               *)
NewValue == [known |-> FALSE, min |-> 0, max |-> 0, dirty |-> TRUE]

Lower(a, b) == IF a < b THEN a ELSE b
Higher(a, b) == IF a > b THEN a ELSE b

(* Mutants of Assign: the first value is compared as any other; the flag of   *)
(* an earlier value stays set.                                               *)
AssignFromZero(cell, value) ==
    LET min == Lower(cell.min, value)
        max == Higher(cell.max, value)
    IN  [known |-> TRUE, min |-> min, max |-> max,
         dirty |-> min # cell.min \/ max # cell.max]
AssignStaysDirty(cell, value) ==
    LET min == IF cell.known THEN Lower(cell.min, value) ELSE value
        max == IF cell.known THEN Higher(cell.max, value) ELSE value
    IN  [known |-> TRUE, min |-> min, max |-> max,
         dirty |-> cell.dirty \/ min # cell.min \/ max # cell.max]

(* operator=(T): the first value is both extremes and leaves the flag alone. *)
Assign(cell, value) ==
    LET min == Lower(cell.min, value)
        max == Higher(cell.max, value)
    IN  IF ~cell.known
        THEN [cell EXCEPT !.known = TRUE, !.min = value, !.max = value]
        ELSE [known |-> TRUE, min |-> min, max |-> max,
              dirty |-> min # cell.min \/ max # cell.max]

(* operator=(const MeasuredValue&): the other is one that was just made.     *)
AssignOther(cell, other) == Assign(cell, other.min)

(* SunSpecBlock<MeasuredValue>(const SunSpecBlock<double>&).                 *)
Converted(block) == [key \in DOMAIN block |-> Assign(NewValue, block[key])]

(* SunSpecBlock::operator=: the keys of the other are assigned, no others.   *)
AssignBlock(block, other) ==
    [key \in DOMAIN block \cup DOMAIN other |->
        IF key \notin DOMAIN other THEN block[key]
        ELSE AssignOther(IF key \in DOMAIN block THEN block[key] ELSE NewValue,
                         other[key])]
=============================================================================
