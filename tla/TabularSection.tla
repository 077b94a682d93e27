--------------------------- MODULE TabularSection ---------------------------
(***************************************************************************)
(* components/TabularSection: a table over rows it is given, with a search *)
(* term, a status filter, a sorted column and pages.  The state is the     *)
(* user's alone and survives a change of the rows.  A term is the set of   *)
(* the rows' ids it matches; the one column to sort by is the status,      *)
(* which has ties.                                                         *)
(***************************************************************************)
EXTENDS Naturals, FiniteSets, Sequences

CONSTANTS
  Terms,         \* the searches a user makes
  RowSizes,      \* rows per page
  FirstSize,     \* rows per page at first
  Order,         \* the statuses, ascending
  Unset          \* no term, no filter, no order

Directions == {"asc", "desc"}

FirstView == [term |-> Unset, status |-> Unset, dir |-> Unset, at |-> 1, size |-> FirstSize]

(* The items at some places, in an order of these: `upto' relates a place  *)
(* to itself and to those that come later.                                 *)
Arranged(items, places, upto) ==
  [n \in 1 .. Cardinality(places) |->
     items[CHOOSE i \in places : Cardinality({j \in places : <<j, i>> \in upto}) = n]]

(* Where the items are that pass every clause of the filter.               *)
Found(items, view) ==
  {i \in DOMAIN items : /\ view.term # Unset => items[i].id \in view.term
                        /\ view.status # Unset => items[i].status = view.status}

Position(status) == CHOOSE i \in DOMAIN Order : Order[i] = status

(* The comparison of the sort.                                             *)
Before(x, y, dir) ==
  \/ dir = "asc" /\ Position(x.status) < Position(y.status)
  \/ dir = "desc" /\ Position(y.status) < Position(x.status)

(* The sort is stable: rows that compare as equal keep their order.        *)
Sorted(items, view) ==
  {p \in (DOMAIN items) \X (DOMAIN items) :
     \/ Before(items[p[1]], items[p[2]], view.dir)
     \/ ~Before(items[p[2]], items[p[1]], view.dir) /\ p[1] <= p[2]}

Filtered(items, view) == Arranged(items, Found(items, view), Sorted(items, view))

PageCount(items, view) ==
  LET n == Len(Filtered(items, view))
  IN IF n = 0 THEN 1 ELSE (n + view.size - 1) \div view.size

(* slice(start, start + pageSize), which ends with the rows.               *)
SliceFromNext(rows, at, size) ==
  SubSeq(rows, at * size + 1, IF (at + 1) * size < Len(rows) THEN (at + 1) * size ELSE Len(rows))

Slice(rows, at, size) ==
  SubSeq(rows, (at - 1) * size + 1, IF at * size < Len(rows) THEN at * size ELSE Len(rows))

RowsShown(items, view) == Slice(Filtered(items, view), view.at, view.size)

(* What one control of the table makes of its view.  The filter offers the *)
(* statuses of the rows; the pages are left out when there is no row.      *)
Views(items, view) ==
  LET last == PageCount(items, view)
      to(at) == [view EXCEPT !.at = at]
      statuses == {items[i].status : i \in DOMAIN items} \cup {Unset}
  IN UNION {
       {[view EXCEPT !.term = term] : term \in Terms \cup {Unset}},
       {[view EXCEPT !.status = status] : status \in statuses},
       IF Filtered(items, view) = <<>> THEN {} ELSE
         UNION {
           {[view EXCEPT !.dir = IF @ = "asc" THEN "desc" ELSE "asc"]},
           {[view EXCEPT !.size = n, !.at = 1] : n \in RowSizes},
           IF view.at = 1 THEN {}
           ELSE {to(1), to(view.at - 1)},
           IF view.at = last THEN {}
           ELSE {to(last), to(IF view.at < last THEN view.at + 1 ELSE last)}}}

-----------------------------------------------------------------------------
(* The pages, one after the other, are the rows that pass the filter, each *)
(* of them once and in the order of the sort.                              *)
PagesCoverRows(items, view) ==
  LET rows == Filtered(items, view)
      Upto[n \in 0 .. PageCount(items, view)] ==
        IF n = 0 THEN <<>> ELSE Upto[n - 1] \o Slice(rows, n, view.size)
  IN /\ Upto[PageCount(items, view)] = rows
     /\ Len(rows) = Cardinality(Found(items, view))
     /\ \A i \in DOMAIN items :
          (\E j \in DOMAIN rows : rows[j] = items[i]) <=> i \in Found(items, view)
     /\ \A j \in 1 .. Len(rows) - 1 : ~Before(rows[j + 1], rows[j], view.dir)
=============================================================================
