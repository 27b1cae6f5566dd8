------------------------------- MODULE Tables -------------------------------
(***************************************************************************)
(* A table of the narrow profile: parse_table reads its tokens, and        *)
(* transform leaves it a grid or turns it into records, one per row.       *)
(* Every row has as many cells as the header, which the parser sees to; a  *)
(* cell is the width of its text.                                          *)
(***************************************************************************)
EXTENDS Integers, Sequences, FiniteSetsExt, Enumerate

CONSTANTS
    CellWidths,      \* widths of a cell, 0 for an empty one
    TableColumns,    \* HUB_TABLE_COLUMNS
    MaxColumns, MaxRows   \* bounds of the exploration

ASSUME TablesAssumption ==
    CellWidths \subseteq Nat /\ TableColumns \in Nat /\ MaxColumns \in Nat

VARIABLES
    inHead,     \* in_head
    row,        \* current
    heading,    \* head
    body,       \* rows
    shown       \* what is left of the table: [grid, records], or <<>> before transform

tableVars == <<inHead, row, heading, body, shown>>

TablesTypeOK ==
    /\ inHead \in BOOLEAN
    /\ row \in Seq(CellWidths) /\ heading \in Seq(CellWidths)
    /\ body \in Seq(Seq(CellWidths))
    /\ shown # <<>> => shown.grid \in BOOLEAN

TablesInit == inHead = TRUE /\ row = <<>> /\ heading = <<>> /\ body = <<>> /\ shown = <<>>

Cell(w) ==
    /\ shown = <<>>
    /\ Len(row) < IF inHead THEN MaxColumns ELSE Len(heading)
    /\ Len(body) < MaxRows
    /\ row' = Append(row, w)
    /\ UNCHANGED <<inHead, heading, body, shown>>

\* thead_close follows the one row of the header.
CloseHead ==
    /\ inHead /\ row # <<>>
    /\ heading' = row /\ row' = <<>> /\ inHead' = FALSE
    /\ UNCHANGED <<body, shown>>

CloseRow ==
    /\ ~inHead /\ row # <<>> /\ Len(row) = Len(heading)
    /\ body' = Append(body, row) /\ row' = <<>>
    /\ UNCHANGED <<inHead, heading, shown>>

\* Mutant: the header is not measured.
WidestInBody(c) == Max({0} \cup {body[r][c] : r \in DOMAIN body})

\* estimate_width
Widest(c) == Max({heading[c]} \cup {body[r][c] : r \in DOMAIN body})
ColumnWidths == [c \in DOMAIN heading |-> Widest(c)]
EstimateWidth == Total(ColumnWidths) + 3 * (Len(heading) - 1) + 4

\* <dt> and <dd> of a row: empty cells are left out.
Kept(cells) == InOrder({c \in 2..Len(cells) : cells[c] # 0}, Len(cells))
Entries(cells) ==
    [n \in DOMAIN Kept(cells) |-> [key |-> Kept(cells)[n], cell |-> cells[Kept(cells)[n]]]]

\* render_records
Records == [r \in DOMAIN body |-> [label |-> body[r][1], entries |-> Entries(body[r])]]

Fits == EstimateWidth <= TableColumns

Transform ==
    /\ shown = <<>> /\ ~inHead /\ row = <<>>
    /\ shown' = [grid |-> Fits, records |-> IF Fits THEN <<>> ELSE Records]
    /\ UNCHANGED <<inHead, row, heading, body>>

TablesNext == (\E w \in CellWidths : Cell(w)) \/ CloseHead \/ CloseRow \/ Transform

TablesSpec == TablesInit /\ [][TablesNext]_tableVars

-----------------------------------------------------------------------------
\* The cell of column c in a row, row 0 being the header.
CellAt(c, k) == IF k = 0 THEN heading[c] ELSE body[k][c]

\* Columns are drawn as wide as their cells, so the cells of different rows side
\* by side, one of each column, must fit on the screen with their separators.
SideBySide(at) ==
    Total([c \in DOMAIN heading |-> CellAt(c, at[c])]) + 3 * (Len(heading) - 1) + 4

(* A table is left a grid just if it fits on the screen, whichever rows    *)
(* its widest cells are in, the header included; and no record loses a     *)
(* cell that has text: each is there once, under its own column, in the    *)
(* order of the row and in the record its first cell names.  What records  *)
(* drop is the empty cells, and the headings of the first column and of    *)
(* empty ones.                                                             *)
WideTableKeepsItsCells ==
    shown # <<>> =>
        /\ shown.grid <=> \A at \in [DOMAIN heading -> 0..Len(body)] :
                              SideBySide(at) <= TableColumns
        /\ ~shown.grid =>
             /\ Len(shown.records) = Len(body)
             /\ \A r \in DOMAIN body :
                    LET entries == shown.records[r].entries IN
                    /\ shown.records[r].label = body[r][1]
                    /\ \A k, l \in DOMAIN entries : k < l => entries[k].key < entries[l].key
                    /\ \A c \in 2..Len(heading) :
                           body[r][c] # 0 <=>
                               \E k \in DOMAIN entries :
                                   entries[k].key = c /\ entries[k].cell = body[r][c]
=============================================================================
