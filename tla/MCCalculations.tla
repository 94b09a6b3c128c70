--------------------------- MODULE MCCalculations ---------------------------
(***************************************************************************)
(* Questions for Calculations: a date of twelve minutes, plain, with a     *)
(* minute or the last one left out and with one shown twice, also its      *)
(* midnight or that of the date after it; windows with every kind of       *)
(* field.                                                                  *)
(***************************************************************************)
EXTENDS Calculations

\* Two accounts tie in some slots and never come in one order in all of them.
MCHash == [slot \in 0 .. DayMinutes - 1 |-> [a \in Accounts |-> (a * slot) % 3]]

P(start, end) == [start |-> start, end |-> end]

Plain == [i \in 1 .. DayMinutes |-> i - 1]
Gap(m) == SelectSeq(Plain, LAMBDA w : w # m)
Fold(m) == SubSeq(Plain, 1, m + 1) \o SubSeq(Plain, m + 1, DayMinutes)

Drafts == [enabled : {TRUE}, workday : {TRUE}, accounts : {<<1>>, <<3, 1, 2>>},
           work : {<<P(4, 6)>>, <<P(4, 6), P(8, 11)>>, <<P(3, 9)>>},
           blackouts : {<<>>, <<P(1, 2)>>, <<P(1, 2), P(3, 7)>>, <<P(0, 8)>>,
                       <<P(2, 6), P(7, 10)>>},
           lead : {1, 2}, span : {1, 2, 3}, cycle : {2, 3, 4}, budget : {1, 2}, skips : {{}, {4, 8}}]
OddDrafts == [enabled : BOOLEAN, workday : BOOLEAN, accounts : {<<>>, <<1>>, <<2, 2>>},
              work : {<<>>, <<P(8, 11), P(4, 6)>>, <<P(4, 6)>>}, blackouts : {<<P(1, 2), P(1, 3)>>, <<>>},
              lead : {None, 0, 2}, span : {None, 2}, cycle : {0, 3}, budget : {2}, skips : {{}}]

Days == {Plain, Gap(2), Gap(5), Gap(11), Fold(2), Fold(5)}

\* A date and the chart that begins and ends so many minutes later than it.
DateChart(day, late, over) ==
  <<day, [start |-> Grain * late, end |-> Grain * (Len(day) + over)]>>
Whole == {DateChart(day, 0, 0) : day \in Days}
\* The next date lacks its first two minutes, or this one does: Go takes the time
\* before them or after them; or this one shows them twice: Go takes the second.
Late == SubSeq(Plain, 3, DayMinutes)
Twice == SubSeq(Plain, 1, 2) \o Plain
Shifted == {DateChart(Plain, 0, -2), DateChart(Late, -2, -2), DateChart(Late, 0, 2),
            DateChart(Twice, 2, 0)}

PreviewOf(cfg, dated) == [kind |-> "preview", cfg |-> cfg, day |-> dated[1], chart |-> dated[2]]

MCSchedules == {PreviewOf(c, d) : c \in Drafts \cup OddDrafts, d \in Whole}
                 \cup {PreviewOf(c, d) : c \in {x \in Drafts : x.cycle = 3 /\ x.skips = {}}, d \in Shifted}
                 \cup [kind : {"update"}, cfg : OddDrafts, day : Days]

W(name, seconds, minutes, used, remaining, resetAt) ==
  [name |-> name, seconds |-> seconds, minutes |-> minutes, used |-> used,
   remaining |-> remaining, resetAt |-> resetAt]

AnyWindow == {W(n, s, m, u, r, t) : n \in {"primary", "other"}, s \in {-1, -2, 0, 20, 18000},
                m \in {-1, 300}, u \in {-1, -2, 0, 1, 30, 100, 3000, 10000, 10100}, r \in {-1, -2, 8960},
                t \in {0, 5}}
SomeWindow == {W(n, s, -1, u, -1, t) : n \in {"primary", "secondary", "other"}, s \in {-1, 18000, 3600},
                 u \in {200, 9000}, t \in {5, 7}}

Info(available, applicable, listed, credits) ==
  [available |-> available, applicable |-> applicable, listed |-> listed, credits |-> credits]
NoInfo == Info(-1, -1, FALSE, <<>>)
C(type, status, expires) == [type |-> type, status |-> status, expires |-> expires]
Infos == {Info(n, m, l, c) : n \in {-1, -2, 2}, m \in {-1, 0}, l \in BOOLEAN,
            c \in {<<>>, <<C("", "available", 3)>>, <<C("other", "", 3), C("", "used", 4)>>, <<C("", "", 0)>>}}

U(ws, limited, credits, detail) ==
  [kind |-> "usage", detail |-> detail,
   payload |-> [windows |-> ws, limited |-> limited, credits |-> credits]]

MCUsages ==
  {U(<<w>>, l, NoInfo, NoInfo) : w \in AnyWindow, l \in BOOLEAN}
    \cup {U(<<v, w>>, FALSE, NoInfo, NoInfo) : v \in SomeWindow, w \in SomeWindow}
    \cup {U(<<>>, FALSE, NoInfo, NoInfo)}
    \cup {U(<<W("primary", -1, -1, 200, -1, 5)>>, FALSE, c, d) : c \in Infos, d \in Infos}

=============================================================================
