-------------------------------- MODULE Table --------------------------------
(* The table every page of the panel is made of (DT in src/frontend/farm.js): *)
(* a filter under each column, sorting by any column, rows drawn a page at a  *)
(* time, and the download of what is listed.  A select filter says how many   *)
(* rows each of its options would give; a typed filter acts a fifth of a      *)
(* second after the last key, and by then the table may have been redrawn.    *)
(* The filters outlive the table: they are kept for the next one of its name. *)
EXTENDS Integers, Sequences, FiniteSets

CONSTANTS
    Row,      \* rows, numbered in the order the page gives them
    Val,      \* Val[c][r]: the value of row r in the select column c
    Num,      \* Num[r]: its number, or None
    Named,    \* rows the text typed in the tests below finds
    Expr,     \* what is typed into the filter of the number
    Given,    \* the sets of rows a page may give the table
    PageN,    \* rows drawn at a time (PAGE_N)
    MaxActs,  \* what the user does in all
    None

VARIABLES
    rows,  \* cfg.rows
    flt,   \* st.flt: the filters in force
    by,    \* st.sort: the column and whether it runs down
    list,  \* the rows that pass, in order
    n,     \* how many of them are drawn
    head,  \* what the filters under the columns show
    opts,  \* the numbers beside the options of the select filters
    timer, \* text typed and not yet acted on
    lost,  \* a filter is in force that its own field does not show
    acts

vars == <<rows, flt, by, list, n, head, opts, timer, lost, acts>>

Col    == DOMAIN Val
Typed  == {"text", "num"}
NoFlt  == [k \in Col \cup Typed |-> None]
Sorts  == [k : Col \cup {"num"}, desc : BOOLEAN]
Vals(c) == {Val[c][r] : r \in Row}

(* numMatch: a comparison, a bare number meaning "at least", a range from one *)
(* number to another; what is none of these lets every row through, and a row *)
(* without a number passes no filter of its column.                           *)
NumMatch(e, v) ==
    v # None /\ CASE e.op = "<"  -> v < e.a
                  [] e.op = ">"  -> v > e.a
                  [] e.op = "<=" -> v <= e.a
                  [] e.op = "="  -> v = e.a
                  [] e.op = "-"  -> v >= e.a /\ v <= e.b
                  [] e.op = "?"  -> TRUE
                  [] OTHER       -> v >= e.a

(* dtApply: the rows that pass every filter.                                  *)
Passing(R, x) ==
    {r \in R : /\ \A c \in Col : x[c] # None => Val[c][r] = x[c]
               /\ x["text"] # None => r \in Named
               /\ x["num"] # None => NumMatch(x["num"], Num[r])}

(* dtSort: rows without a value come last in both directions, and rows of one *)
(* value keep the order they were given in.                                   *)
Key(k, r) == IF k = "num" THEN Num[r] ELSE Val[k][r]
Before(s, a, b) ==
    LET x == Key(s.k, a)  y == Key(s.k, b) IN
    \/ x = y /\ a < b
    \/ x # y /\ x # None /\ (y = None \/ (IF s.desc THEN x > y ELSE x < y))
Sorted(S, s) ==  \* a row stands where the number of rows before it says
    [i \in 1..Cardinality(S) |-> CHOOSE r \in S : Cardinality({x \in S : Before(s, x, r)}) = i - 1]

(* selOpts: an option counts the rows that pass every other filter.           *)
Options(R, x) ==
    [c \in Col |-> [v \in Vals(c) |->
        Cardinality({r \in Passing(R, [x EXCEPT ![c] = None]) : Val[c][r] = v})]]

(* A select whose value has no option left shows "all".                       *)
Selected(x, o, c) == IF x[c] # None /\ o[c][x[c]] > 0 THEN x[c] ELSE None

Least(a, b) == IF a < b THEN a ELSE b

(* body(): the list is made anew and its first page drawn.                    *)
Body(R, x, s) ==
    /\ rows' = R /\ flt' = x /\ by' = s
    /\ list' = Sorted(Passing(R, x), s)
    /\ n' = Least(PageN, Len(list'))

(* head(): every field shows its filter.                                      *)
Rehead(R, x) ==
    /\ opts' = Options(R, x)
    /\ head' = [k \in Col \cup Typed |->
                  IF k \in Col THEN Selected(x, opts', k) ELSE x[k]]
    /\ lost' = FALSE

Orphan(live) ==
    timer' = IF timer = None THEN None
             ELSE [timer EXCEPT !.field = FALSE, !.live = @ /\ live]

Does == acts < MaxActs /\ acts' = acts + 1

(*--------------------------------- actions ---------------------------------*)
(* A page paints its table again: the old one is out of the document.         *)
Draw(R) == /\ Does /\ Body(R, flt, by) /\ Rehead(R, flt) /\ Orphan(FALSE)

Sort(k) ==
    /\ Does
    /\ Body(rows, flt, [k |-> k, desc |-> by.k = k /\ ~by.desc])
    /\ Rehead(rows, flt) /\ Orphan(TRUE)

Clear ==
    /\ Does /\ \E k \in DOMAIN flt : flt[k] # None
    /\ Body(rows, NoFlt, by) /\ Rehead(rows, NoFlt) /\ Orphan(TRUE)

(* upd(): the filter of one column changes.  Every select but that column's   *)
(* own is filled again.                                                       *)
Upd(k, v) ==
    LET x == [flt EXCEPT ![k] = v]
        o == Options(rows, x) IN
    /\ Body(rows, x, by)
    /\ opts' = [c \in Col |-> IF c = k THEN opts[c] ELSE o[c]]
    /\ head' = [j \in DOMAIN head |->
                  IF j = k /\ k \in Col THEN v
                  ELSE IF j \in Col THEN Selected(x, o, j) ELSE head[j]]

Choose(c, v) ==
    /\ Does /\ v # head[c]
    /\ v # None => opts[c][v] > 0
    /\ Upd(c, v) /\ UNCHANGED <<timer, lost>>

(* One text is on its way at a time.                                          *)
Type(k, e) ==
    /\ Does
    /\ timer # None => timer.k = k /\ timer.field
    /\ head' = [head EXCEPT ![k] = e]
    /\ timer' = [k |-> k, v |-> e, field |-> TRUE, live |-> TRUE]
    /\ UNCHANGED <<rows, flt, by, list, n, opts, lost>>

(* The timer acts on the table it was set in, drawn still or not; the filters *)
(* it writes are those the next table has too.                                *)
Fire ==
    /\ timer # None
    /\ IF timer.live THEN Upd(timer.k, timer.v)
       ELSE flt' = [flt EXCEPT ![timer.k] = timer.v]
            /\ UNCHANGED <<rows, by, list, n, head, opts>>
    /\ timer' = None /\ lost' = (lost \/ ~timer.field) /\ UNCHANGED acts

(* Mutant: a page more, whether there are as many rows or not.                *)
MorePast ==
    /\ n < Len(list) /\ n' = n + PageN
    /\ UNCHANGED <<rows, flt, by, list, head, opts, timer, lost, acts>>

(* more(): the end of the list comes into view.                               *)
More ==
    /\ n < Len(list) /\ n' = Least(n + PageN, Len(list))
    /\ UNCHANGED <<rows, flt, by, list, head, opts, timer, lost, acts>>

(*------------------------------ specification ------------------------------*)
Init ==
    \E R \in Given :
        /\ rows = R /\ flt = NoFlt /\ by = [k |-> "num", desc |-> FALSE]
        /\ list = Sorted(R, by) /\ n = Least(PageN, Len(list))
        /\ opts = Options(R, NoFlt) /\ head = NoFlt
        /\ timer = None /\ lost = FALSE /\ acts = 0

Next ==
    \/ \E R \in Given : Draw(R)
    \/ \E k \in Col \cup {"num"} : Sort(k)
    \/ \E c \in Col : \E v \in Vals(c) \cup {None} : Choose(c, v)
    \/ \E e \in Expr \cup {None} : Type("num", e)
    \/ \E e \in {"text", None} : Type("text", e)
    \/ Clear \/ Fire \/ More

Spec == Init /\ [][Next]_vars

(* What the constants may be: values that can be compared, and None is none   *)
(* of them, nor a text on its way.                                            *)
Constants ==
    /\ IsFiniteSet(Row) /\ Row \subseteq Int /\ Col \cap Typed = {}
    /\ \A c \in Col : Vals(c) \subseteq Int
    /\ \A r \in Row : Num[r] \in Int \cup {None}
    /\ \A R \in Given : R \subseteq Row
    /\ PageN \in Nat /\ MaxActs \in Nat
    /\ None \notin Int
    /\ \A a, b \in BOOLEAN :
          /\ \A e \in Expr \cup {None} : None # [k |-> "num", v |-> e, field |-> a, live |-> b]
          /\ \A e \in {"text", None} : None # [k |-> "text", v |-> e, field |-> a, live |-> b]

(*-------------------------------- properties -------------------------------*)
TypeOK ==
    /\ rows \subseteq Row /\ list \in Seq(Row) /\ n \in 0..Len(list)
    /\ DOMAIN flt = Col \cup Typed /\ DOMAIN head = DOMAIN flt /\ by \in Sorts
    /\ \A c \in Col : flt[c] \in Vals(c) \cup {None}
    /\ timer # None => timer.k \in Typed /\ timer.field \in BOOLEAN
    /\ lost \in BOOLEAN /\ acts \in 0..MaxActs

(* The number beside an option is what choosing it lists, after any sequence  *)
(* of filters, clicks and redraws; unless a text reached a table already gone.*)
ChosenIsListed ==
    \A c \in Col : \A v \in Vals(c) : Choose(c, v) /\ ~lost => Len(list') = opts[c][v]

OptionTells == [][ChosenIsListed]_vars

(* Whenever something is listed, every filter in force is seen under its own  *)
(* column, and nothing is seen there that is not in force.                    *)
FiltersShow == list # <<>> /\ timer = None /\ ~lost => head = flt
=============================================================================
