--------------------------- MODULE RowGroupsProofs ---------------------------
(***************************************************************************)
(* What groupRows makes of any list of rows, and the list pages of any     *)
(* answer: each row is in one group, each group in one place, in the order *)
(* of the rows.  groupRows goes through the rows one by one; what holds of *)
(* the groups after each of them is Grouping.                              *)
(***************************************************************************)
EXTENDS RowGroups, FiniteSetTheorems, WellFoundedInduction, TLAPS

(* Induction, for a set of numbers.                                        *)
LEMMA SetInduction ==
    ASSUME NEW S, 0 \in S, \A n \in Nat : n \in S => n + 1 \in S
    PROVE  Nat \subseteq S
<1> DEFINE R == {ss \in Nat \X Nat : ss[1] < ss[2]}
           T == Nat \ S
<1>1. IsWellFoundedOn(R, Nat)
  BY NatLessThanWellFounded DEF OpToRel
<1>2. SUFFICES ASSUME T # {} PROVE FALSE
  OBVIOUS
<1>3. PICK x \in T : \A y \in T : ~ (<<y, x>> \in R)
  <2>1. T \subseteq Nat
    OBVIOUS
  <2> HIDE DEF R, T
  <2> QED
    BY <1>1, <1>2, <2>1, WFMin
<1>4. x \in Nat /\ x # 0
  OBVIOUS
<1>5. x - 1 \in Nat /\ (x - 1) + 1 = x /\ <<x - 1, x>> \in R
  BY <1>4
<1>6. x - 1 \in S
  BY <1>3, <1>5
<1> QED
  BY <1>4, <1>5, <1>6

-----------------------------------------------------------------------------
Group(S) == [row : S, hidden : Seq(S), expand : {"none", "collapsed", "expanded"}]

(* The groups of the first n rows.                                         *)
Seen(rows, n) == {rows[k] : k \in 1 .. n}

Grouping(groups, rows, n) ==
    /\ groups \in Seq(Group(ToSet(rows)))
    /\ WellGrouped(groups)
    /\ ShownRows(groups) = Seen(rows, n)
    /\ \A i, j \in DOMAIN groups : i < j =>
          \E k, l \in 1 .. n : k < l /\ groups[i].row = rows[k] /\ groups[j].row = rows[l]

LEMMA ToSetAppend ==
    ASSUME NEW S, NEW s \in Seq(S), NEW x \in S
    PROVE  ToSet(Append(s, x)) = ToSet(s) \cup {x}
<1>1. DOMAIN s = 1 .. Len(s) /\ DOMAIN Append(s, x) = 1 .. Len(s) + 1 /\ Len(s) \in Nat
  OBVIOUS
<1>2. \A i \in 1 .. Len(s) : Append(s, x)[i] = s[i]
  OBVIOUS
<1>3. Append(s, x)[Len(s) + 1] = x
  OBVIOUS
<1>4. \A y : y \in ToSet(Append(s, x)) <=> \E i \in 1 .. Len(s) + 1 : Append(s, x)[i] = y
  BY <1>1 DEF ToSet
<1>5. \A y : y \in ToSet(s) <=> \E i \in 1 .. Len(s) : s[i] = y
  BY <1>1 DEF ToSet
<1>6. ToSet(Append(s, x)) \subseteq ToSet(s) \cup {x}
  <2> SUFFICES ASSUME NEW i \in 1 .. Len(s) + 1
               PROVE  Append(s, x)[i] \in ToSet(s) \cup {x}
    BY <1>4
  <2> QED
    BY <1>1, <1>2, <1>3, <1>5
<1>7. ToSet(s) \subseteq ToSet(Append(s, x))
  BY <1>1, <1>2, <1>4, <1>5
<1>8. x \in ToSet(Append(s, x))
  BY <1>1, <1>3, <1>4
<1> QED
  BY <1>6, <1>7, <1>8

LEMMA ToSetOfSeq ==
    ASSUME NEW S, NEW s \in Seq(S)
    PROVE  /\ ToSet(s) = Seen(s, Len(s)) /\ ToSet(s) \subseteq S
           /\ s = <<>> => ToSet(s) = {}
BY DEF ToSet, Seen

LEMMA NoneSeen == ASSUME NEW rows PROVE Seen(rows, 0) = {}
BY DEF Seen

LEMMA NextSeen ==
    ASSUME NEW rows, NEW n \in Nat
    PROVE  Seen(rows, n + 1) = Seen(rows, n) \cup {rows[n + 1]}
<1>1. 1 .. n + 1 = (1 .. n) \cup {n + 1}
  OBVIOUS
<1> QED
  BY <1>1 DEF Seen

(* A group that grows.                                                     *)
Grown(group, row) == [group EXCEPT !.hidden = Append(@, row), !.expand = "collapsed"]

LEMMA GrownFacts ==
    ASSUME NEW S, NEW row \in S, NEW group \in Group(S)
    PROVE  /\ Grown(group, row) \in Group(S)
           /\ Grown(group, row).row = group.row
           /\ ToSet(Grown(group, row).hidden) = ToSet(group.hidden) \cup {row}
           /\ RowsOf(Grown(group, row)) = RowsOf(group) \cup {row}
           /\ Grown(group, row).hidden # <<>>
           /\ CanToggle(Grown(group, row))
<1>1. group.hidden \in Seq(S) /\ group.row \in S
  BY DEF Group
<1>2. Append(group.hidden, row) \in Seq(S) /\ Append(group.hidden, row) # <<>>
  BY <1>1
<1>3. /\ Grown(group, row) \in Group(S)
      /\ Grown(group, row).row = group.row
      /\ Grown(group, row).hidden = Append(group.hidden, row)
      /\ Grown(group, row).expand = "collapsed"
  BY <1>2 DEF Group, Grown
<1>4. ToSet(Append(group.hidden, row)) = ToSet(group.hidden) \cup {row}
  BY <1>1, ToSetAppend
<1> QED
  BY <1>2, <1>3, <1>4 DEF RowsOf, CanToggle

(* A group of one.                                                         *)
Single(row) == [row |-> row, hidden |-> <<>>, expand |-> "none"]

LEMMA SingleFacts ==
    ASSUME NEW S, NEW row \in S
    PROVE  /\ Single(row) \in Group(S)
           /\ Single(row).row = row /\ Single(row).hidden = <<>>
           /\ ToSet(Single(row).hidden) = {} /\ RowsOf(Single(row)) = {row}
           /\ ~CanToggle(Single(row))
<1>1. <<>> \in Seq(S) /\ ToSet(<<>>) = {}
  BY DEF ToSet
<1> QED
  BY <1>1 DEF Single, Group, RowsOf, CanToggle

LEMMA GrowsGroup ==
    ASSUME NEW rows, rows \in Seq(ToSet(rows)), NEW n \in Nat, n < Len(rows),
           NEW groups, Grouping(groups, rows, n), rows[n + 1] \notin Seen(rows, n),
           \E i \in DOMAIN groups : groups[i].row.group = rows[n + 1].group
    PROVE  Grouping(AddRow(groups, rows[n + 1]), rows, n + 1)
<1> DEFINE S == ToSet(rows)
           row == rows[n + 1]
           more == AddRow(groups, row)
<1>1. PICK i \in DOMAIN groups : groups[i].row.group = row.group
  OBVIOUS
<1>2. row \in S /\ groups \in Seq(Group(S)) /\ DOMAIN groups = 1 .. Len(groups) /\ Len(groups) \in Nat
  BY DEF Grouping
<1>3. \A j \in DOMAIN groups : j # i => groups[j].row.group # row.group
  BY <1>1 DEF Grouping, WellGrouped
<1>4. more = [j \in DOMAIN groups |-> IF groups[j].row.group # row.group THEN groups[j]
                                      ELSE Grown(groups[j], row)]
  BY DEF AddRow, Grown
<1> HIDE DEF more
<1>5. DOMAIN more = DOMAIN groups
  BY <1>4
<1>6. more[i] = Grown(groups[i], row) /\ \A j \in DOMAIN groups : j # i => more[j] = groups[j]
  BY <1>1, <1>3, <1>4
<1>7. \A j \in DOMAIN groups : groups[j] \in Group(S)
  BY <1>2
<1> HIDE DEF S, row
<1>8. /\ more[i] \in Group(S)
      /\ more[i].row = groups[i].row
      /\ ToSet(more[i].hidden) = ToSet(groups[i].hidden) \cup {row}
      /\ RowsOf(more[i]) = RowsOf(groups[i]) \cup {row}
      /\ more[i].hidden # <<>>
      /\ CanToggle(more[i])
  BY <1>2, <1>6, <1>7, GrownFacts
<1>9. more \in Seq(Group(S))
  <2>1. \A j \in 1 .. Len(groups) : more[j] \in Group(S)
    BY <1>2, <1>6, <1>7, <1>8
  <2>2. more = [j \in 1 .. Len(groups) |-> more[j]]
    BY <1>2, <1>4
  <2> QED
    BY <1>2, <2>1, <2>2
<1>10. \A j \in DOMAIN groups : more[j].row = groups[j].row
  BY <1>6, <1>8
<1>11. row \notin ShownRows(groups)
  BY DEF Grouping, row
<1>12. WellGrouped(more)
  <2>1. row # groups[i].row
    BY <1>11 DEF ShownRows, RowsOf
  <2>2. \A r \in RowsOf(more[i]) : r.group = more[i].row.group
    BY <1>1, <1>8 DEF Grouping, WellGrouped
  <2>3. more[i].row \notin ToSet(more[i].hidden)
    BY <1>8, <2>1 DEF Grouping, WellGrouped
  <2>4. WellGrouped(groups)
    BY DEF Grouping
  <2>5. \A j, k \in DOMAIN more : k # j => more[k].row.group # more[j].row.group
    <3>1. \A j, k \in DOMAIN groups : k # j => groups[k].row.group # groups[j].row.group
      BY <2>4 DEF WellGrouped
    <3> QED
      BY <1>5, <1>10, <3>1
  <2>6. ASSUME NEW j \in DOMAIN more
        PROVE  /\ \A r \in RowsOf(more[j]) : r.group = more[j].row.group
               /\ more[j].row \notin ToSet(more[j].hidden)
               /\ CanToggle(more[j]) <=> more[j].hidden # <<>>
    <3>1. CASE j = i
      BY <3>1, <1>8, <2>2, <2>3
    <3>2. CASE j # i
      BY <3>2, <1>5, <1>6, <2>4 DEF WellGrouped
    <3> QED
      BY <3>1, <3>2
  <2> QED
    BY <2>5, <2>6 DEF WellGrouped
<1>13. ShownRows(more) = ShownRows(groups) \cup {row}
  BY <1>5, <1>6, <1>8 DEF ShownRows
<1>14. ShownRows(more) = Seen(rows, n + 1)
  BY <1>13, NextSeen DEF Grouping, row
<1>15. \A j, k \in DOMAIN more : j < k =>
          \E x, y \in 1 .. n + 1 : x < y /\ more[j].row = rows[x] /\ more[k].row = rows[y]
  <2>1. 1 .. n \subseteq 1 .. n + 1
    OBVIOUS
  <2> QED
    BY <1>5, <1>10, <2>1 DEF Grouping
<1> QED
  BY <1>9, <1>12, <1>14, <1>15 DEF Grouping, S, more, row

LEMMA StartsGroup ==
    ASSUME NEW rows, rows \in Seq(ToSet(rows)), NEW n \in Nat, n < Len(rows),
           NEW groups, Grouping(groups, rows, n), rows[n + 1] \notin Seen(rows, n),
           ~ \E i \in DOMAIN groups : groups[i].row.group = rows[n + 1].group
    PROVE  Grouping(AddRow(groups, rows[n + 1]), rows, n + 1)
<1> DEFINE S == ToSet(rows)
           row == rows[n + 1]
           last == Len(groups) + 1
           more == AddRow(groups, row)
<1>1. row \in S /\ groups \in Seq(Group(S)) /\ DOMAIN groups = 1 .. Len(groups) /\ Len(groups) \in Nat
  BY DEF Grouping
<1>2. more = Append(groups, Single(row))
  BY DEF AddRow, Single
<1> HIDE DEF S, row, more
<1>3. /\ Single(row) \in Group(S)
      /\ Single(row).row = row /\ Single(row).hidden = <<>>
      /\ ToSet(Single(row).hidden) = {} /\ RowsOf(Single(row)) = {row}
      /\ ~CanToggle(Single(row))
  BY <1>1, SingleFacts
<1> HIDE DEF last
<1>4. /\ more \in Seq(Group(S)) /\ DOMAIN more = DOMAIN groups \cup {last}
      /\ more[last] = Single(row) /\ last \notin DOMAIN groups /\ last \in Nat
      /\ \A i \in DOMAIN groups : more[i] = groups[i] /\ i < last
  BY <1>1, <1>2, <1>3 DEF last
<1>5. \A i \in DOMAIN groups : groups[i].row.group # row.group
  BY DEF row
<1>6. WellGrouped(more)
  <2>1. \A i, j \in DOMAIN more : i # j => more[i].row.group # more[j].row.group
    BY <1>3, <1>4, <1>5 DEF Grouping, WellGrouped
  <2>2. \A i \in DOMAIN groups :
            /\ \A r \in RowsOf(more[i]) : r.group = more[i].row.group
            /\ more[i].row \notin ToSet(more[i].hidden)
            /\ CanToggle(more[i]) <=> more[i].hidden # <<>>
    BY <1>4 DEF Grouping, WellGrouped
  <2>3. /\ \A r \in RowsOf(more[last]) : r.group = more[last].row.group
        /\ more[last].row \notin ToSet(more[last].hidden)
        /\ CanToggle(more[last]) <=> more[last].hidden # <<>>
    BY <1>3, <1>4
  <2> QED
    BY <1>4, <2>1, <2>2, <2>3 DEF WellGrouped
<1>7. ShownRows(more) = ShownRows(groups) \cup {row}
  BY <1>3, <1>4 DEF ShownRows
<1>8. ShownRows(more) = Seen(rows, n + 1)
  BY <1>7, NextSeen DEF Grouping, row
<1>9. ASSUME NEW i \in DOMAIN more, NEW j \in DOMAIN more, i < j
      PROVE  \E x, y \in 1 .. n + 1 : x < y /\ more[i].row = rows[x] /\ more[j].row = rows[y]
  <2>1. i \in DOMAIN groups
    BY <1>1, <1>4, <1>9
  <2>2. CASE j \in DOMAIN groups
    <3>1. PICK x, y \in 1 .. n : x < y /\ groups[i].row = rows[x] /\ groups[j].row = rows[y]
      BY <1>9, <2>1, <2>2 DEF Grouping
    <3>2. x \in 1 .. n + 1 /\ y \in 1 .. n + 1
      OBVIOUS
    <3> QED
      BY <1>4, <2>1, <2>2, <3>1, <3>2
  <2>3. CASE j = last
    <3>1. groups[i].row \in ShownRows(groups)
      BY <2>1 DEF ShownRows, RowsOf
    <3>2. PICK x \in 1 .. n : groups[i].row = rows[x]
      BY <3>1 DEF Grouping, Seen
    <3>3. x \in 1 .. n + 1 /\ n + 1 \in 1 .. n + 1 /\ x < n + 1
      OBVIOUS
    <3> QED
      BY <1>3, <1>4, <2>1, <2>3, <3>2, <3>3 DEF row
  <2> QED
    BY <1>4, <2>2, <2>3
<1> QED
  BY <1>4, <1>6, <1>8, <1>9 DEF Grouping, S, more, row

LEMMA NoGroups ==
    /\ WellGrouped(<<>>) /\ ShownRows(<<>>) = {}
    /\ \A rows : Grouping(<<>>, rows, 0)
<1>1. DOMAIN <<>> = {} /\ \A S : <<>> \in Seq(S)
  OBVIOUS
<1>2. WellGrouped(<<>>) /\ ShownRows(<<>>) = {}
  BY <1>1 DEF WellGrouped, ShownRows
<1> QED
  BY <1>1, <1>2, NoneSeen DEF Grouping

(* groupRows, one row more.                                                *)
LEMMA AddRowGroups ==
    ASSUME NEW rows, rows \in Seq(ToSet(rows)), NEW n \in Nat, n < Len(rows),
           NEW groups, Grouping(groups, rows, n), rows[n + 1] \notin Seen(rows, n)
    PROVE  Grouping(AddRow(groups, rows[n + 1]), rows, n + 1)
BY GrowsGroup, StartsGroup

(* The groups after each row: the function groupRows is computed by.       *)
Steps(f, rows, n) ==
    f = [k \in 0 .. n |-> IF k = 0 THEN <<>> ELSE AddRow(f[k - 1], rows[k])]

LEMMA StepsExist ==
    ASSUME NEW rows, NEW n \in Nat
    PROVE  \E f : Steps(f, rows, n)
<1> DEFINE S == {m \in Nat : \E f : Steps(f, rows, m)}
<1>1. 0 \in S
  <2>1. 0 .. 0 = {0}
    OBVIOUS
  <2>2. Steps([k \in 0 .. 0 |-> <<>>], rows, 0)
    BY <2>1 DEF Steps
  <2> QED
    BY <2>2
<1>2. ASSUME NEW m \in Nat, m \in S PROVE m + 1 \in S
  <2>1. PICK f : Steps(f, rows, m)
    BY <1>2
  <2> DEFINE g == [k \in 0 .. m + 1 |-> IF k = m + 1 THEN AddRow(f[m], rows[m + 1]) ELSE f[k]]
  <2>2. \A k \in 0 .. m : g[k] = f[k]
    OBVIOUS
  <2>3. \A k \in 0 .. m : f[k] = IF k = 0 THEN <<>> ELSE AddRow(f[k - 1], rows[k])
    BY <2>1 DEF Steps
  <2>4. \A k \in 0 .. m + 1 : k # 0 => k - 1 \in 0 .. m
    OBVIOUS
  <2>5. ASSUME NEW k \in 0 .. m + 1
        PROVE  g[k] = IF k = 0 THEN <<>> ELSE AddRow(g[k - 1], rows[k])
    <3>1. CASE k = m + 1
      <4>1. g[k] = AddRow(f[m], rows[m + 1]) /\ k - 1 = m /\ k # 0 /\ m \in 0 .. m
        BY <3>1
      <4>2. g[m] = f[m]
        BY <2>2, <4>1
      <4> HIDE DEF g
      <4> QED
        BY <3>1, <4>1, <4>2
    <3>2. CASE k # m + 1
      <4>1. k \in 0 .. m
        BY <3>2
      <4> HIDE DEF g
      <4> QED
        BY <4>1, <2>2, <2>3, <2>4
    <3> QED
      BY <3>1, <3>2
  <2>6. g = [k \in 0 .. m + 1 |-> g[k]]
    OBVIOUS
  <2> HIDE DEF g
  <2>7. Steps(g, rows, m + 1)
    BY <2>5, <2>6 DEF Steps
  <2> QED
    BY <2>7
<1> HIDE DEF S
<1>3. Nat \subseteq S
  BY <1>1, <1>2, SetInduction
<1> QED
  BY <1>3 DEF S

(* groupRows (Utils.tsx:163) of rows that are all different: one group for *)
(* each first column, all but its first row to be expanded, every row once *)
(* and the groups in the order of the rows.                                *)
THEOREM GroupRowsGroups ==
    ASSUME NEW rows, rows \in Seq(ToSet(rows)),
           \A k, l \in DOMAIN rows : k # l => rows[k] # rows[l]
    PROVE  Grouping(GroupRows(rows), rows, Len(rows))
<1> DEFINE upTo[n \in 0 .. Len(rows)] == IF n = 0 THEN <<>> ELSE AddRow(upTo[n - 1], rows[n])
<1>1. Len(rows) \in Nat /\ DOMAIN rows = 1 .. Len(rows)
  OBVIOUS
<1>2. GroupRows(rows) = upTo[Len(rows)]
  BY DEF GroupRows
<1>3. upTo = CHOOSE f : Steps(f, rows, Len(rows))
  BY DEF Steps
<1> HIDE DEF upTo
<1>4. Steps(upTo, rows, Len(rows))
  BY <1>1, <1>3, StepsExist
<1>5. /\ upTo[0] = <<>>
      /\ \A n \in Nat : n < Len(rows) => upTo[n + 1] = AddRow(upTo[n], rows[n + 1])
  BY <1>1, <1>4 DEF Steps
<1> DEFINE S == {n \in Nat : n <= Len(rows) => Grouping(upTo[n], rows, n)}
<1>6. 0 \in S
  BY <1>5, NoGroups
<1>7. ASSUME NEW n \in Nat, n \in S PROVE n + 1 \in S
  <2> SUFFICES ASSUME n + 1 <= Len(rows) PROVE Grouping(upTo[n + 1], rows, n + 1)
    OBVIOUS
  <2>1. n < Len(rows) /\ n <= Len(rows)
    BY <1>1
  <2>2. Grouping(upTo[n], rows, n)
    BY <1>7, <2>1
  <2>3. rows[n + 1] \notin Seen(rows, n)
    BY <1>1 DEF Seen
  <2> QED
    BY <1>5, <2>1, <2>2, <2>3, AddRowGroups
<1> HIDE DEF S
<1>8. Nat \subseteq S
  BY <1>6, <1>7, SetInduction
<1> QED
  BY <1>1, <1>2, <1>8 DEF S

-----------------------------------------------------------------------------
(* The rows of an answer, and their groups.                                *)

LeadersOf(groups) == [i \in DOMAIN groups |-> groups[i].row]

LEMMA FiniteList ==
    ASSUME NEW S, NEW list \in Seq(S)
    PROVE  IsFiniteSet(ToSet(list))
<1>1. Len(list) \in Nat /\ DOMAIN list = 1 .. Len(list)
  OBVIOUS
<1>2. list \in [1 .. Len(list) -> ToSet(list)]
  BY <1>1 DEF ToSet
<1>3. list \in Surjection(1 .. Len(list), ToSet(list))
  BY <1>1, <1>2 DEF Surjection, ToSet
<1>4. IsFiniteSet(1 .. Len(list))
  BY <1>1, FS_Interval
<1> QED
  BY <1>3, <1>4, FS_Surjection

LEMMA SortingFacts ==
    ASSUME NEW S, IsFiniteSet(S), NEW sortBy, NEW asc, NEW p \in Sortings(S, sortBy, asc)
    PROVE  /\ p \in Seq(S) /\ ToSet(p) = S
           /\ \A k, l \in DOMAIN p : k # l => p[k] # p[l]
           /\ SortedBy(p, sortBy, asc)
<1> DEFINE n == Cardinality(S)
<1>1. n \in Nat
  BY FS_CardinalityType
<1>2. /\ p \in [1 .. n -> S] /\ \A k, l \in 1 .. n : k # l => p[k] # p[l]
      /\ SortedBy(p, sortBy, asc)
  BY DEF Sortings, SetToSeqs
<1>3. p \in Injection(1 .. n, S)
  BY <1>2 DEF Injection, IsInjective
<1>4. Cardinality(1 .. n) = n
  BY <1>1, FS_Interval
<1>5. p \in Surjection(1 .. n, S)
  BY <1>3, <1>4, FS_Injection
<1> HIDE DEF n
<1>6. p \in Seq(S) /\ DOMAIN p = 1 .. n
  BY <1>1, <1>2
<1>7. ToSet(p) = S
  BY <1>2, <1>5, <1>6 DEF ToSet, Surjection
<1> QED
  BY <1>2, <1>6, <1>7

(* Whatever order the engine gives to equal cells, the rows made for a     *)
(* query out of an answer are the rows the filter keeps, in groups whose   *)
(* first rows are in the order asked for (getRowsFromArtifacts,            *)
(* ArtifactList.tsx:137, getRowsFromExecutions, ExecutionList.tsx:189).    *)
THEOREM RowsOfAnswer ==
    ASSUME NEW list, list \in Seq(ToSet(list)), NEW q, NEW groups \in GroupsFor(list, q)
    PROVE  /\ groups \in Seq(Group(ToSet(list)))
           /\ WellGrouped(groups)
           /\ ShownRows(groups) = {r \in ToSet(list) : Kept(r, q.filter)}
           /\ SortedBy(LeadersOf(groups), q.sortBy, q.asc)
<1> DEFINE kept == {r \in ToSet(list) : Kept(r, q.filter)}
<1>1. PICK p \in Sortings(kept, q.sortBy, q.asc) : groups = GroupRows(p)
  BY DEF GroupsFor
<1>2. IsFiniteSet(ToSet(list))
  BY FiniteList
<1>3. IsFiniteSet(kept)
  BY <1>2, FS_Subset
<1>4. kept \subseteq ToSet(list)
  OBVIOUS
<1> HIDE DEF kept
<1>5. /\ p \in Seq(kept) /\ ToSet(p) = kept
      /\ \A k, l \in DOMAIN p : k # l => p[k] # p[l]
      /\ SortedBy(p, q.sortBy, q.asc)
  BY <1>3, SortingFacts
<1>6. Grouping(groups, p, Len(p))
  BY <1>1, <1>5, GroupRowsGroups
<1>7. groups \in Seq(Group(ToSet(list)))
  <2>1. Group(kept) \subseteq Group(ToSet(list))
    <3>1. Seq(kept) \subseteq Seq(ToSet(list))
      BY <1>4
    <3> QED
      BY <1>4, <3>1 DEF Group
  <2> QED
    BY <1>5, <1>6, <2>1 DEF Grouping
<1>8. ShownRows(groups) = kept
  BY <1>5, <1>6, ToSetOfSeq DEF Grouping
<1>9. SortedBy(LeadersOf(groups), q.sortBy, q.asc)
  <2> SUFFICES ASSUME NEW i \in DOMAIN groups, NEW j \in DOMAIN groups, i < j
               PROVE  InOrder(groups[i].row, groups[j].row, q.sortBy, q.asc)
    BY DEF SortedBy, LeadersOf
  <2>1. PICK k, l \in 1 .. Len(p) : k < l /\ groups[i].row = p[k] /\ groups[j].row = p[l]
    BY <1>6 DEF Grouping
  <2>2. DOMAIN p = 1 .. Len(p)
    BY <1>5
  <2> QED
    BY <1>5, <2>1, <2>2 DEF SortedBy
<1> QED
  BY <1>6, <1>7, <1>8, <1>9 DEF Grouping, kept

(* A group that is expanded or collapsed has the rows it had.              *)
LEMMA ToggleFacts ==
    ASSUME NEW S, NEW rows \in Seq(Group(S)), NEW i \in DOMAIN rows, CanToggle(rows[i])
    PROVE  LET after == [rows EXCEPT ![i] = Toggle(@)] IN
           /\ after \in Seq(Group(S))
           /\ WellGrouped(rows) => WellGrouped(after)
           /\ ShownRows(after) = ShownRows(rows)
           /\ LeadersOf(after) = LeadersOf(rows)
<1> DEFINE after == [rows EXCEPT ![i] = Toggle(@)]
<1>1. \A j \in DOMAIN rows : rows[j] \in Group(S)
  OBVIOUS
<1>2. DOMAIN after = DOMAIN rows
  OBVIOUS
<1>3. after[i] = Toggle(rows[i]) /\ \A j \in DOMAIN rows : j # i => after[j] = rows[j]
  OBVIOUS
<1>4. /\ Toggle(rows[i]) \in Group(S) /\ CanToggle(Toggle(rows[i]))
      /\ Toggle(rows[i]).row = rows[i].row /\ Toggle(rows[i]).hidden = rows[i].hidden
  BY <1>1 DEF Toggle, Group, CanToggle
<1>5. after \in Seq(Group(S))
  BY <1>4
<1> HIDE DEF after
<1>6. \A j \in DOMAIN rows :
          /\ after[j].row = rows[j].row /\ after[j].hidden = rows[j].hidden
          /\ CanToggle(after[j]) <=> CanToggle(rows[j])
  BY <1>3, <1>4
<1>7. \A j \in DOMAIN rows : RowsOf(after[j]) = RowsOf(rows[j])
  BY <1>6 DEF RowsOf
<1>8. WellGrouped(rows) => WellGrouped(after)
  BY <1>2, <1>6, <1>7 DEF WellGrouped
<1>9. ShownRows(after) = ShownRows(rows)
  BY <1>2, <1>7 DEF ShownRows
<1>10. LeadersOf(after) = LeadersOf(rows)
  BY <1>2, <1>6 DEF LeadersOf
<1> QED
  BY <1>5, <1>8, <1>9, <1>10 DEF after
=============================================================================
