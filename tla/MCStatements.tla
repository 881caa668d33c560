---------------------------- MODULE MCStatements ----------------------------
(* Books for the statement checks: what each detector reads, around its bounds, the  *)
(* rest left as a security without statements has it.                               *)
EXTENDS StatementChecks
Bare == [sheet |-> {}, flow |-> {}, income |-> {}, bars |-> {}, act |-> TRUE,
         currency |-> "USD", shell |-> FALSE, financial |-> FALSE, covered |-> FALSE,
         today |-> 0]
SheetRow(type, date, no, to, assets, liabilities, equity, cash) ==
  [type |-> type, date |-> date, no |-> no, from |-> date + no * 30, to |-> to,
   assets |-> assets, liabilities |-> liabilities, equity |-> equity, cash |-> cash,
   shares |-> 10]
FlowRow(type, date, year, operating, net) ==
  [type |-> type, date |-> date, no |-> 1, from |-> date + 30, to |-> Null, year |-> year,
   operating |-> operating, investing |-> 0, financing |-> 0, fx |-> Null, net |-> net]
IncomeRow(type, date, year, quarter, revenue) ==
  [type |-> type, date |-> date, no |-> 1, from |-> date + 30, to |-> Null, year |-> year,
   quarter |-> quarter, filed |-> TRUE, currency |-> "USD", revenue |-> revenue,
   profit |-> 1, nci |-> 0, shares |-> 10, diluted |-> Null, unmapped |-> {}]

\* Five changes of cash, each with what the cash flow leaves over; the middle sheet late
\* or without its cash.
TieBooks ==
  {[Bare EXCEPT
      !.sheet = {SheetRow("quarter", i * 91 + (IF odd = "late" /\ i > 2 THEN 60 ELSE 0), 1,
                          Null, 500, 250, 250, IF odd = "unread" /\ i = 2 THEN Null ELSE 100)
                   : i \in 0..5},
      !.flow = {FlowRow("quarter", i * 91 + (IF odd = "late" /\ i > 2 THEN 60 ELSE 0), 1,
                        -gap[i], -gap[i]) : i \in 1..5}]
     : gap \in [1..5 -> {0, 5, -5, -4}], odd \in {"none", "late", "unread"}}

\* A balance sheet in one or two versions around what SF1 leaves out.
IdentityBooks ==
  {[Bare EXCEPT
      !.sheet = {SheetRow("annual", date, 1, IF l2 = Null THEN Null ELSE date + 60,
                          100, l1, equity, 10)}
                  \cup {SheetRow("annual", date, 2, Null, 100, l, equity, 10)
                          : l \in {l2} \ {Null}},
      !.income = {[IncomeRow("annual", date, 1, 0, 10) EXCEPT !.nci = nci]},
      !.shell = shell]
     : date \in {4000, 5000}, l1 \in {60, 90, 130}, l2 \in {Null, 90, 130},
       equity \in {-30, 10, 40}, nci \in {0, 1, Null}, shell \in BOOLEAN}

\* Quarters that are there or not, one of them odd, and none, one or two annual periods.
SeriesBooks ==
  {[Bare EXCEPT
      !.income = {IncomeRow("quarter", i * 91, (i + 3) \div 4, 1 + ((i + 3) % 4),
                            IF i = 3 THEN third ELSE 10) : i \in there}
                   \cup {IncomeRow("annual", 364 + k, 1, 0, 10 * k) : k \in years},
      !.flow = {FlowRow("quarter", i * 91, (i + 3) \div 4, IF i = 3 THEN third ELSE 10, 10)
                  : i \in there}
                 \cup {FlowRow("annual", 364 + k, 1, 10 * k, 10 * k) : k \in years},
      !.bars = bars, !.today = today, !.financial = bars = {}]
     : there \in SUBSET (1..6), third \in {10, 0, -1}, years \in {{}, {1}, {4}, {1, 2}},
       bars \in {{}, {1, 300}}, today \in {700}}

ChainBooks ==
  {b \in {[Bare EXCEPT !.sheet =
             {[SheetRow("annual", 0, no, to[no], 100, 50, 50, 10) EXCEPT !.from = from[no]]
                : no \in 1..n}]
            : n \in {2, 3}, from \in [1..3 -> {1, 2}], to \in [1..3 -> {2, 3, Null}]}
     : OneEach(b.sheet)}

OddBooks ==
  {[Bare EXCEPT !.covered = TRUE, !.act = act,
      !.income = {[IncomeRow("quarter", 900, 3, 2, 10) EXCEPT
                     !.to = to, !.from = 900 + lag, !.currency = cur, !.unmapped = extra]}]
     : act \in BOOLEAN, to \in {Null, 990}, lag \in {2, 30}, cur \in {"USD", "EUR", Null},
       extra \in {{}, {"eps"}}}

MCFilings == TieBooks \cup IdentityBooks \cup SeriesBooks \cup ChainBooks \cup OddBooks
MCAmended ==
  {[Bare EXCEPT !.covered = TRUE],
   [Bare EXCEPT !.sheet = {SheetRow("annual", 4000, 1, Null, 100, 50, 10, 10)},
                !.shell = TRUE]}
=============================================================================
