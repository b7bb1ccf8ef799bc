------------------------- MODULE MCLoweredExecution -------------------------
(***************************************************************************)
(* Functions with two statements nested in one another or one behind the   *)
(* other, in the statements of the four languages, and every kind of jump  *)
(* and store in their lists.                                               *)
(* Variable 1 is read at the end, 2 is always assigned, 3 belongs to a     *)
(* loop or a handler.                                                      *)
(***************************************************************************)
EXTENDS LoweredExecution

S(kind, body, other, var, flag) ==
  [kind |-> kind, body |-> body, other |-> other, var |-> var, flag |-> flag]

Leaf(kind, var) == S(kind, <<>>, <<>>, var, FALSE)

(* The statements of a list and below it, numbered by their place: the     *)
(* first of the body of 2 is 21, the first of its other list is 25.        *)
RECURSIVE Entries(_, _)
Entries(list, base) ==
  UNION {LET s == list[i]
             n == base + i
         IN  {<<n, [s EXCEPT !.body = [k \in DOMAIN @ |-> 10 * n + k],
                             !.other = [k \in DOMAIN @ |-> 10 * n + 4 + k]]>>}
             \cup Entries(s.body, 10 * n) \cup Entries(s.other, 10 * n + 4) :
         i \in DOMAIN list}

Function(list, inputs, results, retains) ==
  LET entries == Entries(list, 0)
  IN  [node |-> [n \in {e[1] : e \in entries} |-> (CHOOSE e \in entries : e[1] = n)[2]],
       body |-> [k \in DOMAIN list |-> k], inputs |-> inputs, results |-> results,
       retains |-> retains]

-----------------------------------------------------------------------------

X == Leaf("store", 1)
Y == Leaf("store", 2)
Z == Leaf("store", 3)
ReadX == Leaf("read", 1)
ReadY == Leaf("read", 2)
Bare == Leaf("return", 0)
ReturnY == Leaf("return", 2)
Break == Leaf("break", 0)
Continue == Leaf("continue", 0)

If(a, b) == S("if", a, b, 0, FALSE)
LazyIf(a, b) == S("if", a, b, 0, TRUE)
While(a, b) == S("while", a, b, 0, FALSE)
LazyWhile(a, b) == S("while", a, b, 0, TRUE)
Range3(a, b) == S("range", a, b, 3, FALSE)
RangeNow(a, b) == S("range", a, b, 3, TRUE)
For(a) == S("for", a, <<>>, 3, FALSE)
LazyFor(a) == S("for", a, <<>>, 3, TRUE)
Try(a, b) == S("try", a, b, 0, FALSE)
TryAs(a, b) == S("try", a, b, 3, FALSE)
Case(a) == S("case", a, <<>>, 0, FALSE)
Otherwise(a) == S("case", a, <<>>, 0, TRUE)
Select(clauses) == S("select", clauses, <<>>, 0, FALSE)

Inner == {<<X>>, <<Break>>, <<Continue>>, <<ReturnY>>, <<Y, Break, X>>}
Maybe == {<<>>, <<X>>, <<Break>>}

Either == {{2}, {1, 2}}

Python ==
  LET inner == UNION {{If(a, b), LazyIf(a, b), While(a, b), RangeNow(a, b)} :
                        a \in Inner, b \in Maybe}
      outer == UNION {{<<While(<<i, c>>, d)>>, <<LazyWhile(<<c, i>>, d)>>, <<Range3(<<i, c>>, d)>>,
                       <<RangeNow(<<c, i>>, d)>>} :
                        i \in inner, c \in {X, ReadX}, d \in {<<>>, <<X>>}}
  IN  {Function(o \o <<ReadX>>, inputs, {}, TRUE) : o \in outer, inputs \in Either}

(* A try may hold loops and be held by one; a switch ends with otherwise.  *)
Matlab ==
  LET inner == UNION {{If(a, b), TryAs(a, b), Try(a, b),
                       Select(<<Case(a), Otherwise(b)>>), Select(<<Case(a), Case(b)>>)} :
                        a \in {<<X>>, <<Break>>, <<Bare>>, <<Y, X>>}, b \in {<<>>, <<X>>, <<Continue>>}}
      outer == UNION {{<<While(<<TryAs(<<c, i>>, <<d>>), ReadY>>, <<>>)>>,
                       <<RangeNow(<<Try(<<i>>, <<d, c>>), Y>>, <<>>)>>,
                       <<Try(<<While(<<i, c>>, <<>>), X>>, <<d>>)>>} :
                        i \in inner, c \in {X}, d \in {X, ReadY, Break}}
  IN  {Function(o \o <<>>, inputs, {1}, TRUE) : o \in outer, inputs \in Either}

(* The clauses of Fortran, the default last.                               *)
Fortran ==
  LET inner == UNION {{If(a, b), Select(<<Case(a), Case(<<X>>), Otherwise(b)>>),
                       Select(<<Case(<<>>), Case(b)>>), Select(<<Otherwise(a)>>)} :
                        a \in Inner, b \in Maybe}
      outer == UNION {{<<While(<<i, c>>, <<>>)>>, <<Range3(<<c, i>>, <<>>)>>,
                       <<Range3(<<Select(<<Case(<<i, c>>), Otherwise(<<X>>)>>)>>, <<>>)>>} :
                        i \in inner, c \in {X, ReadX}}
  IN  {Function(o \o <<ReadX, Leaf("read", 3)>>, inputs, {}, FALSE) : o \in outer, inputs \in Either}

TypeScript ==
  LET inner == UNION {{If(a, b), LazyIf(a, b), While(a, <<>>), For(a)} : a \in Inner, b \in Maybe}
      outer == UNION {{<<For(<<i, c>>)>>, <<LazyFor(<<c, i>>)>>, <<While(<<i, c>>, <<>>)>>} :
                        i \in inner, c \in {X, Continue, Leaf("read", 3)}}
  IN  {Function(o \o <<ReadX>>, inputs, {}, FALSE) : o \in outer, inputs \in Either}

(* Two statements that branch, meet and store, one behind the other or one *)
(* within the other, and no loop around them.                              *)
InSequence(compounds) == {<<i, j>> : i \in compounds, j \in compounds}

Stores == {<<>>, <<X>>, <<Y, X>>}

Ends == Stores \cup {<<ReturnY>>}

Bodies == {<<X, If(<<Break>>, <<>>), X>>, <<If(<<Continue>>, <<X>>), Y>>}

Straight ==
  LET ifs     == {If(a, b) : a \in Ends, b \in Stores}
      lazy    == {LazyIf(a, <<>>) : a \in Ends}
      selects == {Select(<<Case(a), Otherwise(b)>>) : a \in Ends, b \in Stores}
                   \cup {Select(<<Case(<<X>>), Case(a)>>) : a \in Ends}
      tries   == {Try(a, b) : a \in Stores, b \in Ends}
      whiles  == {While(a, <<>>) : a \in Bodies}
      fors    == {For(a) : a \in Bodies} \cup {LazyFor(<<X>>)}
      ranges  == {Range3(a, <<>>) : a \in Bodies}
      ways(inner) == {If(<<X, i>>, <<j, X>>) : i \in inner, j \in inner}
      clauses(inner) == {Select(<<Case(<<X, i>>), Case(<<i, Y>>), Otherwise(<<X>>)>>) : i \in inner}
      python  == InSequence(ifs \cup lazy \cup whiles)
                   \cup {<<i>> : i \in ways(lazy \cup whiles)}
      matlab  == InSequence(ifs \cup selects \cup tries)
                   \cup {<<i>> : i \in clauses(ifs \cup tries \cup whiles)}
      fortran == InSequence(selects \cup ranges) \cup {<<i>> : i \in clauses(selects \cup ranges)}
      script  == InSequence(lazy \cup fors) \cup {<<i>> : i \in ways(lazy \cup fors)}
      ended(lists, inputs, retains) ==
        {Function(<<X>> \o list \o <<ReadX>>, inputs, {}, retains) : list \in lists}
      counted(lists) ==
        {Function(<<Range3(<<i>>, <<>>)>> \o list, {1, 2, 3}, {}, TRUE) : i \in {X, If(<<Z>>, <<Break>>)},
                                                                       list \in lists}
  IN  ended(python \cup matlab, {2}, TRUE) \cup ended(fortran \cup script, {2}, FALSE)
        \cup counted(InSequence({If(a, b) : a \in {<<Z>>, <<X>>}, b \in Stores}))

(* A default before the other clauses.                                     *)
DefaultFirst ==
  {Function(<<Select(<<Otherwise(<<X>>), Case(<<Y>>)>>), ReadY>>, {1, 2}, {}, FALSE)}

(* A loop that is left, or goes on, before it assigns, and a return before *)
(* the result is assigned.                                                 *)
LeftBeforeAssigning ==
  {Function(<<RangeNow(<<If(<<jump>>, <<>>), X>>, <<>>), ReadX>>, {2}, {}, TRUE) :
     jump \in {Break, Continue}}
    \cup {Function(<<If(<<Bare>>, <<>>), X>>, {2}, {1}, TRUE)}

(* A statement behind a return; a loop that is only left by an else that   *)
(* leaves the loop around; a try whose statements never go on.             *)
DeadEnds ==
  {Function(<<X, Bare, If(<<X>>, <<>>), ReadX>>, {2}, {}, TRUE),
   Function(<<While(<<While(<<ReturnY>>, <<Break>>), X>>, <<>>), ReadX>>, {1, 2}, {}, TRUE),
   Function(<<RangeNow(<<Try(<<If(<<Bare>>, <<Continue>>)>>, <<ReadY, X>>), Y>>, <<>>)>>,
            {1, 2}, {}, TRUE)}

(* Behind a store in an iteration before, in a try that failed, in a for   *)
(* loop, and by a range loop, values meet.                                 *)
Rebinding ==
  {Function(<<While(<<If(<<X>>, <<>>), X>>, <<>>), ReadX>>, {1, 2}, {}, TRUE),
   Function(<<Try(<<X, ReadX>>, <<If(<<X>>, <<>>)>>), ReadX>>, {1, 2}, {}, TRUE),
   Function(<<For(<<X>>), If(<<X>>, <<>>), ReadX>>, {1, 2}, {}, FALSE),
   Function(<<Range3(<<ReadX>>, <<>>), If(<<Z>>, <<>>), ReadX>>, {1, 2, 3}, {}, TRUE)}

(* Each of these alone refutes AcceptedProgramsRun.                        *)
Refuted == DefaultFirst \cup LeftBeforeAssigning \cup DeadEnds

Tests == Python \cup Matlab \cup Fortran \cup TypeScript \cup Straight
=============================================================================
