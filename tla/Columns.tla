-------------------------------- MODULE Columns ------------------------------
(***************************************************************************)
(* list.columnate, the columns of ls -C, and map.column: text laid out in  *)
(* columns.  Of the names only their lengths matter; a line is what is     *)
(* written one after the other: names by their number, spaces and tabs.    *)
(***************************************************************************)
EXTENDS Integers, Sequences, FiniteSetsExt, Functions

MinColumnWidth == 3
Up(n, d) == n \div d + (IF n % d = 0 THEN 0 ELSE 1)
Sum(widths, n) ==   \* of the first n
  LET sum[c \in 0 .. Len(widths)] == IF c = 0 THEN 0 ELSE sum[c - 1] + widths[c]
  IN  sum[n]
-----------------------------------------------------------------------------
(* For every number of columns, the widths and whether the lines fit; a    *)
(* layout that does not fit is not looked at any more.                     *)
Candidate(cols) ==
  [valid |-> TRUE, length |-> cols * MinColumnWidth, widths |-> [c \in 1 .. cols |-> MinColumnWidth]]
(* Mutant: the widths of a layout by rows.                                 *)
WithNameByRow(info, n, file, name, width) ==
  LET cols == Len(info.widths)
      c    == (file % cols) + 1
      real == name + (IF c = cols THEN 0 ELSE 2)
      more == real - info.widths[c]
  IN  IF ~info.valid \/ more <= 0 THEN info
      ELSE [valid |-> info.length + more < width, length |-> info.length + more,
            widths |-> [info.widths EXCEPT ![c] = real]]
WithName(info, n, file, name, width) ==
  LET cols == Len(info.widths)
      c    == file \div ((n + cols - 1) \div cols) + 1
      real == name + (IF c = cols THEN 0 ELSE 2)
      more == real - info.widths[c]
  IN  IF ~info.valid \/ more <= 0 THEN info
      ELSE [valid |-> info.length + more < width, length |-> info.length + more,
            widths |-> [info.widths EXCEPT ![c] = real]]
MaxCols(n, width) ==
  LET most == Up(width, MinColumnWidth) IN IF 0 < most /\ most < n THEN most ELSE n
Layout(names, width, cols) ==
  LET after[i \in 0 .. Len(names)] ==
        IF i = 0 THEN Candidate(cols) ELSE WithName(after[i - 1], Len(names), i - 1, names[i], width)
  IN  after[Len(names)]
Chosen(names, width) ==
  LET valid == {c \in 1 .. MaxCols(Len(names), width) : c > 1 => Layout(names, width, c).valid}
  IN  Layout(names, width, Max(valid))

(* From one name to the column of the next: tabs as far as they go.        *)
Space == 0
Tab   == -1
NextStop(from, tabsize) == from + tabsize - (from % tabsize)
TabFits(from, to, tabsize) ==
  IF tabsize = 0 THEN FALSE ELSE to \div tabsize > (from + 1) \div tabsize
Blanked(l, to, tabsize) ==
  IF l.at >= to THEN l
  ELSE IF TabFits(l.at, to, tabsize)
  THEN [line |-> Append(l.line, Tab), at |-> NextStop(l.at, tabsize)]
  ELSE [line |-> Append(l.line, Space), at |-> l.at + 1]
Indented(line, from, to, tabsize) ==   \* every blank takes the line further
  LET after[k \in 0 .. to] ==
        IF k = 0 THEN [line |-> line, at |-> from] ELSE Blanked(after[k - 1], to, tabsize)
  IN  after[to].line

(* The names of a row, each in its column, up to the last one that is left.*)
WithColumn(s, names, widths, rows, col, tabsize) ==
  LET line == Append(s.line, s.file)
      next == s.pos + widths[col]
  IN  IF s.ended THEN s
      ELSE IF Len(names) - rows <= s.file - 1 THEN [s EXCEPT !.line = line, !.ended = TRUE]
      ELSE [line |-> Indented(line, s.pos + names[s.file], next, tabsize), file |-> s.file + rows,
            pos |-> next, ended |-> FALSE]
LineOf(names, widths, rows, r, tabsize) ==
  LET after[col \in 0 .. Len(widths)] ==
        IF col = 0 THEN [line |-> <<>>, file |-> r, pos |-> 0, ended |-> FALSE]
        ELSE WithColumn(after[col - 1], names, widths, rows, col, tabsize)
  IN  after[Len(widths)].line
Columnate(names, width, tabsize) ==
  IF names = <<>> THEN <<>>
  ELSE LET widths == Chosen(names, width).widths
           rows   == Up(Len(names), Len(widths))
       IN  [r \in 1 .. rows |-> LineOf(names, widths, rows, r, tabsize)]

(* Where a terminal is after the first n things of a line.                 *)
Moved(before, thing, names, tabsize) ==
  CASE thing = Space -> before + 1
    [] thing = Tab   -> NextStop(before, tabsize)
    [] OTHER         -> before + names[thing]
Position(line, n, names, tabsize) ==
  LET at[i \in 0 .. Len(line)] == IF i = 0 THEN 0 ELSE Moved(at[i - 1], line[i], names, tabsize)
  IN  at[n]

(* Every name is written once; names of a column begin at one position,    *)
(* two behind the longest before them, whatever was written as tabs; and   *)
(* the lines are shorter than the width, if there is more than one column. *)
(* Where no name is longer than a column is wide at least, nothing is      *)
(* measured, and a line may be up to two longer.                           *)
LaidOut(names, width, tabsize) ==
  LET lines  == Columnate(names, width, tabsize)
      widths == IF names = <<>> THEN <<>> ELSE Chosen(names, width).widths
      places == UNION {{<<r, i>> : i \in {j \in DOMAIN lines[r] : lines[r][j] > 0}} : r \in DOMAIN lines}
      column(f) == (f - 1) \div Len(lines) + 1
  IN  /\ {lines[p[1]][p[2]] : p \in places} = DOMAIN names
      /\ Cardinality(places) = Len(names)
      /\ \A p \in places :
           LET file == lines[p[1]][p[2]]
           IN  /\ Position(lines[p[1]], p[2] - 1, names, tabsize) = Sum(widths, column(file) - 1)
               /\ column(file) < Len(widths) => names[file] + 2 <= widths[column(file)]
      /\ \A r \in DOMAIN lines :
           LET end == Position(lines[r], Len(lines[r]), names, tabsize)
           IN  Len(widths) > 1 =>
                 IF \A c \in DOMAIN widths : widths[c] = MinColumnWidth THEN end <= width + 2 ELSE end < width
-----------------------------------------------------------------------------
(* map.column.  A column is the length of its key and those of its cells,  *)
(* one of them if the value is no list; columns are in the order of keys.  *)
Error == [is |-> "error"]
Longest(lengths) == Max({0} \cup Range(lengths))
Padded(cell, width) == IF cell >= width THEN cell ELSE cell + (width - cell)
Table(rows) ==
  LET widths == [c \in DOMAIN rows[1] |-> Longest([r \in DOMAIN rows |-> rows[r][c]])]
  IN  [is |-> "table", cells |-> rows,
       written |-> [r \in DOMAIN rows |-> [c \in DOMAIN widths |-> Padded(rows[r][c], widths[c])]]]
MapColumn(columns) ==
  LET lists  == {c \in DOMAIN columns : columns[c].list}
      header == [c \in DOMAIN columns |-> columns[c].key]
      height == Len(columns[1].cells)
  IN  IF columns = <<>> THEN [is |-> "table", cells |-> <<>>, written |-> <<>>]
      ELSE IF lists = {} THEN Table([c \in DOMAIN columns |-> <<columns[c].key, columns[c].cells[1]>>])
      ELSE IF lists /= DOMAIN columns \/ \E c \in lists : Len(columns[c].cells) /= height THEN Error
      ELSE Table(<<header>> \o [r \in 1 .. height |-> [c \in DOMAIN columns |-> columns[c].cells[r]]])

(* The rows of a table have their cells at the same positions, each as     *)
(* wide as its text at least; no cell of a list is left out.               *)
Tabulated(columns) ==
  LET t == MapColumn(columns)
  IN  t.is = "table" =>
        /\ \A r \in DOMAIN t.written : t.written[r] = t.written[1]
        /\ \A r \in DOMAIN t.cells : \A c \in DOMAIN t.cells[r] : t.written[r][c] >= t.cells[r][c]
        /\ \A c \in DOMAIN columns : columns[c].list => Len(t.cells) = 1 + Len(columns[c].cells)
==============================================================================
