------------------------------- MODULE Widgets -------------------------------
(* The two widgets of ui/ncurses/nc-widgets.c that hold a choice.  A select     *)
(* shows options of which one is chosen; a subset holds options of which some  *)
(* are active, in an order the user arranges.  Options are known by their       *)
(* value (select) or by their index from 0 (subset): what an index stands for  *)
(* is up to the screen.  Layout, focus and text fields are left out.           *)
EXTENDS Naturals, Integers, Sequences, SequencesExt

\* widget_new_select(); chosen is selected_option + 1.
NewSelect == [vals |-> <<>>, chosen |-> 0]

\* widget_select_add_option(): the first option is chosen until another one is
\* added as selected.
SelectAdd(s, v, selected) ==
    [vals |-> Append(s.vals, v),
     chosen |-> IF s.vals = <<>> \/ selected THEN Len(s.vals) + 1 ELSE s.chosen]

\* A select with the values vs of which those in `marked' are added as selected.
SelectOf(vs, marked) == FoldLeft(LAMBDA s, v : SelectAdd(s, v, v \in marked), NewSelect, vs)

\* select_process_key() on option i.
SelectKey(s, i) == [s EXCEPT !.chosen = i]

\* widget_select_get_value(): -1 without options.
SelectValue(s) == IF s.vals = <<>> THEN -1 ELSE s.vals[s.chosen]

\* widget_new_subset() and n times widget_subset_add_option().
NewSubset(n) == [n |-> n, active |-> <<>>]

\* widget_subset_make_active(): an index that is active stays where it is.
MakeActive(b, i) ==
    IF i \in Range(b.active) THEN b ELSE [b EXCEPT !.active = Append(@, i)]

\* subset_process_key(): delete, move towards the front, move towards the end.
DeleteActive(b, k) == [b EXCEPT !.active = RemoveAt(@, k)]
Swap(b, j, k) == [b EXCEPT !.active[j] = b.active[k], !.active[k] = b.active[j]]
MoveFront(b, k) == IF k = 1 THEN b ELSE Swap(b, k, k - 1)
MoveBack(b, k) == IF k = Len(b.active) THEN b ELSE Swap(b, k, k + 1)

\* widget_subset_clear_active()
ClearActive(b) == [b EXCEPT !.active = <<>>]

\* widget_subset_show_inactive(): the other options, the first one chosen.
ShowInactive(b) ==
    SelectOf(SelectSeq([i \in 1..b.n |-> i - 1], LAMBDA i : i \notin Range(b.active)), {})
NInactive(b) == b.n - Len(b.active)
=============================================================================
