------------------------ MODULE ConstantFoldingProofs ------------------------
(***************************************************************************)
(* First the checked operations of the fold, for machine integers of any   *)
(* width.  Then the pass over any expressions: it folds everything in one  *)
(* visit, never meets its own errors and changes no value.                 *)
(***************************************************************************)
EXTENDS ConstantFolding, FiniteSetTheorems, SequenceTheorems, WellFoundedInduction, TLAPS

Machine == IntMin .. IntMax

(* What fits is kept, and the rest is not computed.                        *)
Fits(x) == IF x \in Machine THEN {x} ELSE {}

(* An integer that fits is not changed by wrapping.                        *)
LEMMA WrappedInside ==
  ASSUME NEW x \in Machine
  PROVE  Wrapped(x) = x
<1>1. IntMax \in Nat
  BY BoundsAssumption
<1>2. ASSUME NEW m \in Nat, NEW a \in Nat, a < m PROVE a % m = a
  BY <1>2
<1>3. x - IntMin \in Nat /\ IntMax - IntMin + 1 \in Nat /\ x - IntMin < IntMax - IntMin + 1
  BY <1>1 DEF Machine, IntMin
<1>4. (x - IntMin) % (IntMax - IntMin + 1) = x - IntMin
  BY <1>2, <1>3
<1>. QED
  BY <1>1, <1>4 DEF Wrapped, Machine, IntMin

(* A factor is above the quotient exactly when the product is above.       *)
LEMMA AboveQuotient ==
  ASSUME NEW m \in Nat, NEW d \in Nat \ {0}, NEW b \in Nat
  PROVE  (b > m \div d) <=> (b * d > m)
<1>. DEFINE q == m \div d
<1>1. q \in Nat /\ d * q <= m /\ m < d * (q + 1)
  OBVIOUS
<1>2. CASE b <= q
  <2>1. b * d <= d * q
    BY <1>1, <1>2
  <2>. QED
    BY <1>1, <1>2, <2>1
<1>3. CASE b >= q + 1
  <2>1. b * d >= d * (q + 1)
    BY <1>1, <1>3
  <2>. QED
    BY <1>1, <1>3, <2>1
<1>. QED
  BY <1>1, <1>2, <1>3

(* The quotient that truncates, by the signs of its arguments.             *)
LEMMA QuotientSigns ==
  ASSUME NEW a \in Nat, NEW d \in Nat \ {0}
  PROVE  /\ Quotient(a, d) = a \div d
         /\ a # 0 => Quotient(- a, d) = - (a \div d)
         /\ Quotient(a, - d) = - (a \div d)
<1>. QED
  BY DEF Quotient

(* The guards of checked_add and checked_subtract, which never leave the   *)
(* machine integers themselves, test exactly whether the sum and the       *)
(* difference are machine integers.                                        *)
THEOREM SumsAreExact ==
  ASSUME NEW l \in Machine, NEW r \in Machine
  PROVE  CheckedAdd(l, r) = Fits(l + r) /\ CheckedSubtract(l, r) = Fits(l - r)
<1>1. IntMax \in Nat
  BY BoundsAssumption
<1>2. (r > 0 /\ l > IntMax - r) \/ (r < 0 /\ l < IntMin - r) <=> l + r \notin Machine
  BY <1>1 DEF Machine, IntMin
<1>3. (r < 0 /\ l > IntMax + r) \/ (r > 0 /\ l < IntMin + r) <=> l - r \notin Machine
  BY <1>1 DEF Machine, IntMin
<1>. QED
  BY <1>2, <1>3, WrappedInside DEF CheckedAdd, CheckedSubtract, Fits

(* So do those of checked_multiply, whose test divides a bound by a factor *)
(* and truncates: in all four combinations of signs, and with the smallest *)
(* integer, which has no negative.                                         *)
THEOREM ProductsAreExact ==
  ASSUME NEW l \in Machine, NEW r \in Machine
  PROVE  CheckedMultiply(l, r) = Fits(l * r)
<1>. DEFINE Rejected == \/ l = -1 /\ r = IntMin
                        \/ r = -1 /\ l = IntMin
                        \/ l > 0 /\ r > 0 /\ l > Quotient(IntMax, r)
                        \/ l > 0 /\ r < 0 /\ r < Quotient(IntMin, l)
                        \/ l < 0 /\ r > 0 /\ l < Quotient(IntMin, r)
                        \/ l < 0 /\ r < 0 /\ l < Quotient(IntMax, r)
<1>1. IntMax \in Nat /\ IntMin = - (IntMax + 1) /\ l \in Int /\ r \in Int
  BY BoundsAssumption DEF Machine, IntMin
<1>2. ASSUME l # 0, r # 0 PROVE Rejected <=> l * r \notin Machine
  <2>1. CASE l > 0 /\ r > 0
    <3>1. Quotient(IntMax, r) = IntMax \div r
      BY <1>1, <2>1, QuotientSigns
    <3>2. l > IntMax \div r <=> l * r > IntMax
      BY <1>1, <2>1, AboveQuotient
    <3>3. l * r > 0
      BY <1>1, <2>1
    <3>. QED
      BY <1>1, <2>1, <3>1, <3>2, <3>3 DEF Machine
  <2>2. CASE l > 0 /\ r < 0
    <3>1. Quotient(IntMin, l) = - ((IntMax + 1) \div l)
      <4>1. IntMax + 1 \in Nat \ {0} /\ l \in Nat \ {0}
        BY <1>1, <2>2
      <4>2. Quotient(- (IntMax + 1), l) = - ((IntMax + 1) \div l)
        BY <4>1, QuotientSigns
      <4>. QED
        BY <1>1, <4>2
    <3>2. (- r > (IntMax + 1) \div l) <=> ((- r) * l > IntMax + 1)
      BY <1>1, <2>2, AboveQuotient
    <3>3. (- r) * l = - (l * r) /\ l * r < 0
      BY <1>1, <2>2
    <3>. QED
      BY <1>1, <2>2, <3>1, <3>2, <3>3 DEF Machine
  <2>3. CASE l < 0 /\ r > 0
    <3>1. Quotient(IntMin, r) = - ((IntMax + 1) \div r)
      <4>1. IntMax + 1 \in Nat \ {0} /\ r \in Nat \ {0}
        BY <1>1, <2>3
      <4>2. Quotient(- (IntMax + 1), r) = - ((IntMax + 1) \div r)
        BY <4>1, QuotientSigns
      <4>. QED
        BY <1>1, <4>2
    <3>2. (- l > (IntMax + 1) \div r) <=> ((- l) * r > IntMax + 1)
      BY <1>1, <2>3, AboveQuotient
    <3>3. (- l) * r = - (l * r) /\ l * r < 0
      BY <1>1, <2>3
    <3>. QED
      BY <1>1, <2>3, <3>1, <3>2, <3>3 DEF Machine
  <2>4. CASE l < 0 /\ r < 0
    <3>1. Quotient(IntMax, r) = - (IntMax \div (- r))
      <4>1. - r \in Nat \ {0} /\ - (- r) = r
        BY <1>1, <2>4
      <4>2. Quotient(IntMax, - (- r)) = - (IntMax \div (- r))
        BY <1>1, <4>1, QuotientSigns
      <4>. QED
        BY <4>1, <4>2
    <3>2. (- l > IntMax \div (- r)) <=> ((- l) * (- r) > IntMax)
      BY <1>1, <2>4, AboveQuotient
    <3>3. (- l) * (- r) = l * r /\ l * r > 0
      BY <1>1, <2>4
    <3>. QED
      BY <1>1, <2>4, <3>1, <3>2, <3>3 DEF Machine
  <2>. QED
    BY <1>1, <1>2, <2>1, <2>2, <2>3, <2>4
<1>3. CASE l = 0 \/ r = 0
  <2>1. l * r = 0 /\ 0 \in Machine
    BY <1>1, <1>3 DEF Machine
  <2>. QED
    BY <1>3, <2>1 DEF CheckedMultiply, Fits
<1>4. CASE l # 0 /\ r # 0
  <2>1. l * r \in Machine => Wrapped(l * r) = l * r
    BY WrappedInside
  <2>. QED
    BY <1>2, <1>4, <2>1 DEF CheckedMultiply, Fits
<1>. QED
  BY <1>3, <1>4
-----------------------------------------------------------------------------
(* The pass.  What keeps the arena together: the expressions not visited   *)
(* are the source's, and operands keep the later numbers.                  *)
Size == Len(program.expressions)

Arena ==
  /\ program \in Programs /\ phase \in {"fold", "done", "failed"} /\ next \in Nat \ {0}
  /\ DOMAIN expressions = 1 .. Size
  /\ \A e \in 1 .. Size :
       \/ IsNode(expressions[e], e + 1 .. Size)
       \/ phase = "done" /\ expressions[e] = Retired
  /\ \A e \in (1 .. Size) \ folded : phase = "fold" /\ expressions[e] = program.expressions[e]

(* The visit goes from an expression to later ones, and has left exactly   *)
(* what it will not see again.                                             *)
Visit ==
  /\ path \in Seq((1 .. Size) \ folded)
  /\ \A j, k \in DOMAIN path : j < k => path[j] < path[k]
  /\ folded \subseteq 1 .. Size
  /\ \A e \in folded : Range(expressions[e].children) \subseteq folded
  /\ \A e \in 1 .. Size : e < next => e \in folded \cup Range(path)
  /\ phase # "fold" => path = <<>> /\ next > Size

(* What has been left stays as folded as it was left.                      *)
LeftFolded == phase # "failed" => \A e \in folded : Folded(expressions[e]) = {}

FoldInv == Arena /\ Visit /\ LeftFolded

(* A literal that replaces an operator cuts off literals only.             *)
Origins ==
  \A e \in 1 .. Size : phase = "fold" /\ expressions[e] # program.expressions[e] =>
    /\ expressions[e].kind \in Literals /\ ~ program.expressions[e].lazy
    /\ \A c \in Range(program.expressions[e].children) : c \in folded /\ expressions[c].kind \in Literals

OperandsOf ==
  phase = "fold" =>
    operands = [e \in 1 .. Size |-> IF expressions[e].lazy THEN <<>> ELSE expressions[e].children]

NeverFails == phase # "failed"

(* A set of numbers has a least one; and induction as a fact about sets.   *)
LEMMA Least ==
  ASSUME NEW S, S \subseteq Nat, S # {}
  PROVE  \E m \in S : \A x \in S : m <= x
<1>1. PICK m \in S : \A x \in S : ~ (<<x, m>> \in OpToRel(<, Nat))
  BY NatLessThanWellFounded, WFMin
<1>2. \A x \in S : ~ (x < m)
  BY <1>1 DEF OpToRel
<1>3. m \in Nat /\ \A x \in S : x \in Nat
  OBVIOUS
<1>. QED  BY <1>2, <1>3

LEMMA Induction ==
  ASSUME NEW n \in Nat, NEW S, 0 \in S, \A k \in 1..n : k - 1 \in S => k \in S
  PROVE  \A k \in 0..n : k \in S
<1>. DEFINE failing == {k \in 0..n : k \notin S}
<1>. SUFFICES ASSUME failing # {} PROVE FALSE
  OBVIOUS
<1>1. failing \subseteq Nat
  OBVIOUS
<1>2. PICK m \in failing : \A x \in failing : m <= x
  <2>. HIDE DEF failing
  <2>. QED  BY <1>1, Least
<1>3. m \in 1..n /\ m - 1 \in 0..n /\ ~ (m <= m - 1)
  BY <1>2
<1>4. m - 1 \in S
  BY <1>2, <1>3
<1>. QED  BY <1>2, <1>3, <1>4

LEMMA Empty ==
  /\ DOMAIN << >> = {} /\ Len(<< >>) = 0 /\ Range(<< >>) = {}
<1>1. << >> \in Seq({}) /\ Len(<< >>) = 0
  BY EmptySeq
<1>2. DOMAIN << >> = 1 .. 0
  BY <1>1, LenProperties
<1>. QED  BY <1>1, <1>2 DEF Range

LEMMA FrontOf ==
  ASSUME NEW S, NEW s \in Seq(S), s # <<>>
  PROVE  /\ Front(s) \in Seq(S) /\ DOMAIN Front(s) = 1 .. Len(s) - 1
         /\ \A k \in 1 .. Len(s) - 1 : Front(s)[k] = s[k]
         /\ DOMAIN s = 1 .. Len(s) /\ Len(s) \in Nat \ {0} /\ Last(s) = s[Len(s)] /\ Last(s) \in S
<1>1. Len(s) \in Nat \ {0} /\ DOMAIN s = 1 .. Len(s) /\ s[Len(s)] \in S
  BY EmptySeq, LenProperties, ElementOfSeq
<1>. QED  BY <1>1, SubSeqProperties DEF Front, Last

LEMMA Appended ==
  ASSUME NEW S, NEW s \in Seq(S), NEW x \in S
  PROVE  /\ Append(s, x) \in Seq(S) /\ Len(s) \in Nat
         /\ DOMAIN s = 1 .. Len(s) /\ DOMAIN Append(s, x) = 1 .. Len(s) + 1
         /\ \A k \in 1 .. Len(s) : Append(s, x)[k] = s[k]
         /\ Append(s, x)[Len(s) + 1] = x
<1>. QED  BY AppendProperties, LenProperties

(* What replaces an operator is a literal, and its operands are literals.  *)
LEMMA ReplacedByLiteral ==
  ASSUME NEW later, NEW x, IsNode(x, later), NEW v, DOMAIN v = DOMAIN x.children,
         \A k \in DOMAIN v : IsInteger(v[k]) => v[k].value \in Int,
         NEW l \in Replacement(x, v)
  PROVE  /\ Replacement(x, v) = {l} /\ ~ x.lazy
         /\ l.kind \in Literals /\ l.children = <<>> /\ l.lazy = FALSE
         /\ l.kind = "number" => l.type = "integer" /\ l.value \in Int /\ Exact(l.value)
         /\ \A k \in DOMAIN v : v[k].kind \in Literals
<1>. DEFINE integers == \A k \in DOMAIN v : IsInteger(v[k])
<1>. DEFINE booleans == \A k \in DOMAIN v : IsBoolean(v[k])
<1>2. DOMAIN v = 1 .. Len(x.children)
  BY LenProperties DEF IsNode
<1>3. integers \/ booleans => \A k \in DOMAIN v : v[k].kind \in Literals
  BY DEF IsInteger, IsBoolean, Literals
<1>4. ExactMax \in Nat /\ IntMax \in Nat /\ ExactMax <= IntMax
  BY BoundsAssumption
<1>5. ASSUME NEW k \in DOMAIN v, IsInteger(v[k])
      PROVE  v[k].value \in Int /\ v[k].value \in Machine /\ Exact(v[k].value)
  BY <1>2, <1>4, <1>5 DEF IsInteger, Exact, Machine, IntMin
<1>6. ~ x.lazy
  BY DEF Replacement, IsNode
<1>10. ASSUME NEW kind \in Literals, NEW w, kind = "number" => w \in Int /\ Exact(w),
              Replacement(x, v) = {Literal(kind, w)}, integers \/ booleans
      PROVE  /\ Replacement(x, v) = {l} /\ ~ x.lazy
             /\ l.kind \in Literals /\ l.children = <<>> /\ l.lazy = FALSE
             /\ l.kind = "number" => l.type = "integer" /\ l.value \in Int /\ Exact(l.value)
             /\ \A k \in DOMAIN v : v[k].kind \in Literals
  <2>1. l = Literal(kind, w)
    BY <1>10
  <2>2. l.kind = kind /\ l.children = <<>> /\ l.lazy = FALSE /\ l.value = w
        /\ (kind = "number" => l.type = "integer")
    BY <2>1 DEF Literal
  <2>. HIDE DEF integers, booleans
  <2>. QED  BY <1>3, <1>6, <1>10, <2>1, <2>2
<1>11. "number" \in Literals /\ "boolean" \in Literals /\ "number" # "boolean"
  BY DEF Literals
<1>7. CASE x.kind = "unary"
  <2>. Len(x.children) = 1
    BY <1>7 DEF IsNode
  <2>1. 1 \in DOMAIN v
    BY <1>2
  <2>2. CASE x.op = "plus" /\ integers
    <3>1. Replacement(x, v) = {Literal("number", v[1].value)}
      BY <1>6, <1>7, <2>2 DEF Replacement
    <3>. QED  BY <1>5, <1>10, <1>11, <2>1, <2>2, <3>1
  <2>3. CASE x.op = "minus" /\ integers /\ v[1].value # IntMin
    <3>1. Replacement(x, v) = {Literal("number", - v[1].value)}
      BY <1>6, <1>7, <2>3 DEF Replacement
    <3>2. - v[1].value \in Int /\ Exact(- v[1].value)
      BY <1>4, <1>5, <2>1, <2>3 DEF Exact
    <3>. QED  BY <1>10, <1>11, <2>3, <3>1, <3>2
  <2>4. CASE x.op = "not" /\ booleans
    <3>1. Replacement(x, v) = {Literal("boolean", ~ v[1].value)}
      BY <1>6, <1>7, <2>4 DEF Replacement
    <3>. QED  BY <1>10, <1>11, <2>4, <3>1
  <2>. QED  BY <1>6, <1>7, <2>2, <2>3, <2>4 DEF Replacement
<1>8. CASE x.kind = "binary"
  <2>. Len(x.children) = 2
    BY <1>8 DEF IsNode
  <2>1. 1 \in DOMAIN v /\ 2 \in DOMAIN v
    BY <1>2
  <2>2. CASE integers
    <3>. DEFINE a == v[1].value
                b == v[2].value
    <3>1. a \in Machine /\ b \in Machine /\ a \in Int /\ b \in Int
      BY <1>5, <2>1, <2>2
    <3>. ~ booleans
      BY <2>1, <2>2 DEF IsInteger, IsBoolean
    <3>2. Replacement(x, v) = Arithmetic(x.op, a, b)
      BY <1>6, <1>8, <2>2 DEF Replacement
    <3>3. CheckedAdd(a, b) = Fits(a + b) /\ CheckedSubtract(a, b) = Fits(a - b) /\ CheckedMultiply(a, b) = Fits(a * b)
      BY <3>1, SumsAreExact, ProductsAreExact
    <3>. HIDE DEF a, b
    <3>4. \A y \in Int : Numbers(Fits(y)) \subseteq {Literal("number", y)}
                         /\ (Numbers(Fits(y)) # {} => Exact(y) /\ y \in Int)
      <4>1. \A y \in Int : (y \in Machine /\ Exact(y)) \/ Numbers(Fits(y)) = {}
        BY DEF Numbers, Fits
      <4>2. \A y \in Int : Numbers({y}) \subseteq {Literal("number", y)}
        BY DEF Numbers
      <4>. QED  BY <4>1, <4>2 DEF Fits
    <3>5. CASE x.op \in Comparisons
      <4>1. Replacement(x, v) = {Literal("boolean", Compared(x.op, a, b))}
        BY <3>2, <3>5 DEF Arithmetic, Comparisons
      <4>. QED  BY <1>10, <1>11, <2>2, <4>1
    <3>6. CASE x.op \notin Comparisons
      <4>1. \E y \in Int : Replacement(x, v) = Numbers(Fits(y))
        <5>1. a + b \in Int /\ a - b \in Int /\ a * b \in Int
          BY <3>1
        <5>. QED  BY <3>2, <3>3, <3>6, <5>1 DEF Arithmetic
      <4>2. PICK y \in Int : Replacement(x, v) = Numbers(Fits(y))
        BY <4>1
      <4>3. Replacement(x, v) = {Literal("number", y)} /\ l = Literal("number", y) /\ Exact(y)
        BY <3>4, <4>2
      <4>. QED  BY <1>10, <1>11, <2>2, <4>2, <4>3
    <3>. QED  BY <3>5, <3>6
  <2>3. CASE ~ integers /\ booleans /\ x.op \in {"equal", "not equal"}
    <3>1. Replacement(x, v) = {Literal("boolean", Compared(x.op, v[1].value, v[2].value))}
      BY <1>6, <1>8, <2>3 DEF Replacement
    <3>. QED  BY <1>10, <1>11, <2>3, <3>1
  <2>. QED  BY <1>6, <1>8, <2>2, <2>3 DEF Replacement
<1>9. x.kind \in {"unary", "binary"}
  BY DEF Replacement, IsNode
<1>. QED  BY <1>7, <1>8, <1>9

LEMMA Retyped ==
  ASSUME NEW S, NEW T, NEW s \in Seq(S), \A k \in 1 .. Len(s) : s[k] \in T
  PROVE  s \in Seq(T)
<1>1. Len(s) \in Nat /\ s \in [1 .. Len(s) -> S]
  BY LenProperties
<1>2. s \in [1 .. Len(s) -> T]
  BY <1>1
<1>. QED  BY <1>1, <1>2, SeqDef

LEMMA Lowered ==
  ASSUME program \in Programs
  PROVE  /\ Size \in Nat /\ DOMAIN program.expressions = 1 .. Size /\ program.roots \subseteq 1 .. Size
         /\ \A i \in 1 .. Size : IsNode(program.expressions[i], i + 1 .. Size)
         /\ \A i \in 1 .. Size :
              i \in program.roots \/ \E j \in 1 .. Size : i \in Range(program.expressions[j].children)
<1>. QED  BY ProgramsAssumption DEF Size

(* The operands of a node.                                                 *)
LEMMA LaterOperands ==
  ASSUME NEW e \in Nat, NEW n \in Nat, NEW x, IsNode(x, e + 1 .. n)
  PROVE  /\ Len(x.children) \in Nat /\ DOMAIN x.children = 1 .. Len(x.children)
         /\ \A k \in DOMAIN x.children : x.children[k] \in e + 1 .. n
         /\ \A c \in Range(x.children) : c \in e + 1 .. n
<1>1. x.children \in Seq(e + 1 .. n)
  BY DEF IsNode
<1>. QED  BY <1>1, LenProperties, ElementOfSeq DEF Range

LEMMA ArenaNodes ==
  ASSUME Arena
  PROVE  /\ Size \in Nat
         /\ \A e \in 1 .. Size : /\ DOMAIN expressions[e].children = 1 .. Len(expressions[e].children)
                                 /\ Len(expressions[e].children) \in Nat
                                 /\ \A c \in Range(expressions[e].children) : c \in e + 1 .. Size
                                 /\ IsInteger(expressions[e]) => expressions[e].value \in Int
                                 /\ expressions[e].lazy \in BOOLEAN
<1>1. Size \in Nat
  BY Lowered DEF Arena
<1>. SUFFICES ASSUME NEW e \in 1 .. Size
              PROVE  /\ DOMAIN expressions[e].children = 1 .. Len(expressions[e].children)
                     /\ Len(expressions[e].children) \in Nat
                     /\ \A c \in Range(expressions[e].children) : c \in e + 1 .. Size
                     /\ IsInteger(expressions[e]) => expressions[e].value \in Int
                     /\ expressions[e].lazy \in BOOLEAN
  BY <1>1
<1>2. CASE IsNode(expressions[e], e + 1 .. Size)
  <2>1. IsInteger(expressions[e]) => expressions[e].value \in Int
    BY <1>2 DEF IsNode, IsInteger
  <2>2. expressions[e].lazy \in BOOLEAN
    BY <1>2 DEF IsNode
  <2>. QED  BY <1>1, <1>2, <2>1, <2>2, LaterOperands
<1>3. CASE expressions[e] = Retired
  <2>1. Retired.children = <<>> /\ Retired.kind = "retired" /\ Retired.lazy = FALSE
    BY DEF Retired, Literal
  <2>2. Len(<< >>) = 0 /\ DOMAIN << >> = 1 .. Len(<< >>)
    <3>1. << >> \in Seq({})
      BY EmptySeq
    <3>. QED  BY <3>1, EmptySeq, LenProperties
  <2>3. Range(<< >>) = {}
    BY <2>2 DEF Range
  <2>4. expressions[e].children = << >> /\ expressions[e].kind # "number" /\ expressions[e].lazy \in BOOLEAN
    BY <1>3, <2>1
  <2>5. ~ IsInteger(expressions[e])
    BY <2>4 DEF IsInteger
  <2>6. Len(expressions[e].children) = 0 /\ DOMAIN expressions[e].children = 1 .. Len(expressions[e].children)
        /\ Range(expressions[e].children) = {}
    BY <2>2, <2>3, <2>4, Zenon
  <2>. QED  BY <2>4, <2>5, <2>6
<1>. QED  BY <1>2, <1>3 DEF Arena

(* What has been left is not folded again by what happens elsewhere.       *)
LEMMA FoldedAgain ==
  ASSUME NEW e, expressions'[e] = expressions[e],
         \A k \in DOMAIN expressions[e].children :
           expressions'[expressions[e].children[k]] = expressions[expressions[e].children[k]]
  PROVE  Folded(expressions[e])' = Folded(expressions[e])
<1>. QED  BY DEF Folded

LEMMA LiteralsStay ==
  ASSUME NEW x, NEW v, x.kind \notin {"unary", "binary"}
  PROVE  Replacement(x, v) = {}
<1>. QED  BY DEF Replacement

LEMMA FoldInit ==
  ASSUME Init
  PROVE  FoldInv
<1>1. program \in Programs /\ phase = "fold" /\ expressions = program.expressions /\ folded = {} /\ path = <<>> /\ next = 1
  BY DEF Init
<1>2. Arena
  BY <1>1, Lowered DEF Arena
<1>3. path \in Seq((1 .. Size) \ folded) /\ DOMAIN path = {}
  BY <1>1, EmptySeq, LenProperties
<1>4. Visit
  BY <1>1, <1>3 DEF Visit
<1>. QED  BY <1>1, <1>2, <1>4 DEF FoldInv, LeftFolded

(* Leaving an expression: its operands have been left, and only it changes.*)
LEMMA LeaveChanges ==
  ASSUME FoldInv, Leave
  PROVE  LET e == Last(path) IN
         /\ e \in (1 .. Size) \ folded /\ phase = "fold" /\ path # <<>>
         /\ Range(expressions[e].children) \subseteq folded
         /\ DOMAIN expressions' = 1 .. Size
         /\ \A i \in 1 .. Size : i # e => expressions'[i] = expressions[i]
         /\ \/ Folded(expressions[e]) = {} /\ expressions' = expressions
            \/ /\ Folded(expressions[e]) = {expressions'[e]} /\ ~ expressions[e].lazy
               /\ expressions'[e].kind \in Literals /\ expressions'[e].children = <<>>
               /\ expressions'[e].lazy = FALSE /\ IsNode(expressions'[e], e + 1 .. Size)
               /\ \A c \in Range(expressions[e].children) : expressions[c].kind \in Literals
<1>. DEFINE e == Last(path)
<1>1. /\ phase = "fold" /\ path # <<>> /\ Pending(e) = {}
      /\ expressions' = IF Folded(expressions[e]) = {} THEN expressions
                        ELSE [expressions EXCEPT ![e] = CHOOSE l \in Folded(expressions[e]) : TRUE]
  BY DEF Leave
<1>2. path \in Seq((1 .. Size) \ folded) /\ \A j, k \in DOMAIN path : j < k => path[j] < path[k]
  BY DEF FoldInv, Visit
<1>3. e \in (1 .. Size) \ folded /\ e = path[Len(path)] /\ DOMAIN path = 1 .. Len(path) /\ Len(path) \in Nat \ {0}
  BY <1>1, <1>2, FrontOf
<1>4. \A j \in DOMAIN path : path[j] <= e
  <2>1. \A j \in DOMAIN path : j < Len(path) \/ j = Len(path)
    BY <1>3
  <2>2. \A j \in DOMAIN path : path[j] \in 1 .. Size
    BY <1>2, <1>3, ElementOfSeq
  <2>. QED  BY <1>2, <1>3, <2>1, <2>2, ArenaNodes DEF FoldInv
<1>. HIDE DEF e
<1>5. Arena /\ Size \in Nat /\ DOMAIN expressions = 1 .. Size
  BY ArenaNodes DEF FoldInv, Arena
<1>6. Range(expressions[e].children) \subseteq folded
  <2>. SUFFICES ASSUME NEW k \in DOMAIN expressions[e].children
                PROVE  expressions[e].children[k] \in folded
    BY DEF Range
  <2>1. expressions[e].children[k] \in folded \cup Range(path)
    BY <1>1 DEF Pending
  <2>2. expressions[e].children[k] \in e + 1 .. Size
    BY <1>3, <1>5, ArenaNodes DEF Range
  <2>3. expressions[e].children[k] \notin Range(path)
    BY <1>3, <1>4, <1>5, <2>2 DEF Range
  <2>. QED  BY <2>1, <2>3
<1>7. /\ DOMAIN expressions' = 1 .. Size
      /\ \A i \in 1 .. Size : i # e => expressions'[i] = expressions[i]
  BY <1>1, <1>5
<1>8. ASSUME Folded(expressions[e]) # {}
      PROVE  /\ Folded(expressions[e]) = {expressions'[e]} /\ ~ expressions[e].lazy
             /\ expressions'[e].kind \in Literals /\ expressions'[e].children = <<>>
             /\ expressions'[e].lazy = FALSE /\ IsNode(expressions'[e], e + 1 .. Size)
             /\ \A c \in Range(expressions[e].children) : expressions[c].kind \in Literals
  <2>. DEFINE x == expressions[e]
              l == expressions'[e]
              v == [k \in DOMAIN x.children |-> expressions[x.children[k]]]
  <2>1. l \in Replacement(x, v) /\ Folded(x) = Replacement(x, v)
    BY <1>1, <1>3, <1>5, <1>8 DEF Folded
  <2>2. IsNode(x, e + 1 .. Size)
    BY <1>1, <1>3, <1>5 DEF Arena
  <2>3. DOMAIN v = DOMAIN x.children /\ \A k \in DOMAIN v : IsInteger(v[k]) => v[k].value \in Int
    <3>1. \A k \in DOMAIN x.children : x.children[k] \in 1 .. Size
      BY <1>3, <1>5, ArenaNodes DEF Range
    <3>. QED  BY <1>5, <3>1, ArenaNodes
  <2>4. /\ Replacement(x, v) = {l} /\ ~ x.lazy
        /\ l.kind \in Literals /\ l.children = <<>> /\ l.lazy = FALSE
        /\ l.kind = "number" => l.type = "integer" /\ l.value \in Int /\ Exact(l.value)
        /\ \A k \in DOMAIN v : v[k].kind \in Literals
    <3>. HIDE DEF x, l, v
    <3>. QED  BY <2>1, <2>2, <2>3, ReplacedByLiteral
  <2>5. IsNode(l, e + 1 .. Size)
    <3>. HIDE DEF l
    <3>1. l.children \in Seq(e + 1 .. Size)
      BY <2>4, EmptySeq
    <3>. QED  BY <2>4, <3>1 DEF IsNode, Literals
  <2>6. \A c \in Range(x.children) : expressions[c].kind \in Literals
    BY <2>4 DEF Range
  <2>. QED  BY <2>1, <2>4, <2>5, <2>6
<1>. QED  BY <1>1, <1>3, <1>6, <1>7, <1>8 DEF e

(* Taking one more into the visit.                                         *)
LEMMA Deeper ==
  ASSUME Arena, Visit, NEW c \in (1 .. Size) \ folded, \A j \in DOMAIN path : path[j] < c
  PROVE  LET longer == Append(path, c) IN
         /\ longer \in Seq((1 .. Size) \ folded)
         /\ \A j, k \in DOMAIN longer : j < k => longer[j] < longer[k]
         /\ Range(longer) = Range(path) \cup {c}
<1>. DEFINE longer == Append(path, c)
<1>1. path \in Seq((1 .. Size) \ folded)
  BY DEF Visit
<1>2. /\ longer \in Seq((1 .. Size) \ folded) /\ Len(path) \in Nat
      /\ DOMAIN path = 1 .. Len(path) /\ DOMAIN longer = 1 .. Len(path) + 1
      /\ \A k \in 1 .. Len(path) : longer[k] = path[k]
      /\ longer[Len(path) + 1] = c
  BY <1>1, Appended
<1>. HIDE DEF longer
<1>3. \A j, k \in DOMAIN longer : j < k => longer[j] < longer[k]
  <2>. SUFFICES ASSUME NEW j \in DOMAIN longer, NEW k \in DOMAIN longer, j < k
                PROVE  longer[j] < longer[k]
    OBVIOUS
  <2>1. j \in 1 .. Len(path)
    BY <1>2
  <2>2. CASE k \in 1 .. Len(path)
    BY <1>2, <2>1, <2>2 DEF Visit
  <2>3. CASE k = Len(path) + 1
    BY <1>2, <2>1, <2>3
  <2>. QED  BY <1>2, <2>2, <2>3
<1>4. Range(longer) = Range(path) \cup {c}
  BY <1>2 DEF Range
<1>. QED  BY <1>2, <1>3, <1>4 DEF longer

LEMMA FoldStartNext ==
  ASSUME FoldInv, StartNext
  PROVE  FoldInv'
<1>1. /\ phase = "fold" /\ path = <<>> /\ next \in DOMAIN expressions
      /\ path' = IF next \in folded THEN <<>> ELSE <<next>>
      /\ next' = next + 1
      /\ program' = program /\ phase' = phase /\ expressions' = expressions /\ folded' = folded
  BY DEF StartNext
<1>2. Arena /\ Visit /\ LeftFolded /\ Size \in Nat /\ Size' = Size /\ next \in 1 .. Size
  BY <1>1, ArenaNodes DEF FoldInv, Arena, Size
<1>3. Arena' /\ LeftFolded'
  <2>1. /\ phase = "fold" /\ next' \in Nat \ {0} /\ program' = program /\ phase' = phase
        /\ expressions' = expressions /\ folded' = folded
    BY <1>1, <1>2
  <2>. QED  BY <1>2, <2>1 DEF Arena, LeftFolded, Folded
<1>4. Range(path) = {} /\ DOMAIN path = {}
  BY <1>1, Empty
<1>5. /\ path' \in Seq((1 .. Size) \ folded)
      /\ \A j, k \in DOMAIN path' : j < k => path'[j] < path'[k]
      /\ next \in folded \cup Range(path')
  <2>1. CASE next \in folded
    BY <1>1, <1>4, <2>1, EmptySeq
  <2>2. CASE next \notin folded
    <3>1. path' = Append(path, next)
      BY <1>1, <2>2
    <3>. QED  BY <1>2, <1>4, <2>2, <3>1, Deeper
  <2>. QED  BY <2>1, <2>2
<1>6. \A e \in 1 .. Size : e < next' => e \in folded \cup Range(path')
  BY <1>1, <1>2, <1>4, <1>5 DEF Visit
<1>7. Visit'
  BY <1>1, <1>2, <1>5, <1>6 DEF Visit
<1>. QED  BY <1>3, <1>7 DEF FoldInv

LEMMA FoldDescend ==
  ASSUME FoldInv, Descend
  PROVE  FoldInv'
<1>. DEFINE e == Last(path)
<1>1. /\ phase = "fold" /\ path # <<>> /\ Pending(e) # {}
      /\ next' = next /\ program' = program /\ phase' = phase /\ expressions' = expressions /\ folded' = folded
  BY DEF Descend
<1>2. Arena /\ Visit /\ LeftFolded /\ Size \in Nat /\ Size' = Size
  BY <1>1, ArenaNodes DEF FoldInv, Size
<1>3. path \in Seq((1 .. Size) \ folded)
  BY <1>2 DEF Visit
<1>4. e \in (1 .. Size) \ folded /\ e = path[Len(path)] /\ DOMAIN path = 1 .. Len(path) /\ Len(path) \in Nat \ {0}
  BY <1>1, <1>3, FrontOf
<1>. HIDE DEF e
<1>5. PICK k \in Pending(e) : path' = Append(path, expressions[e].children[k])
  <2>. DEFINE first == CHOOSE k \in Pending(e) : \A j \in Pending(e) : k <= j
  <2>1. path' = Append(path, expressions[e].children[first])
    BY DEF Descend, e
  <2>2. \E k \in Pending(e) : \A j \in Pending(e) : k <= j
    <3>1. Pending(e) \subseteq Nat
      BY <1>2, <1>4, ArenaNodes DEF Pending
    <3>. QED  BY <1>1, <3>1, Least
  <2>3. first \in Pending(e)
    <3>. HIDE DEF e
    <3>. QED  BY <2>2
  <2>. QED  BY <2>1, <2>3
<1>. DEFINE c == expressions[e].children[k]
<1>6. c \in e + 1 .. Size /\ c \notin folded
  BY <1>2, <1>4, ArenaNodes DEF Pending, Range
<1>7. \A j \in DOMAIN path : path[j] < c
  <2>1. \A j \in DOMAIN path : j < Len(path) \/ j = Len(path)
    BY <1>4
  <2>2. \A j \in DOMAIN path : path[j] \in 1 .. Size
    BY <1>3, <1>4, ElementOfSeq
  <2>3. \A j \in DOMAIN path : path[j] <= e
    BY <1>2, <1>4, <2>1, <2>2 DEF Visit
  <2>. HIDE DEF c
  <2>. QED  BY <1>2, <1>4, <1>6, <2>2, <2>3
<1>8. c \in (1 .. Size) \ folded
  BY <1>2, <1>4, <1>6
<1>. HIDE DEF c
<1>9. /\ path' \in Seq((1 .. Size) \ folded)
      /\ \A i, j \in DOMAIN path' : i < j => path'[i] < path'[j]
      /\ Range(path') = Range(path) \cup {c}
  <2>1. path' = Append(path, c)
    BY <1>5 DEF c
  <2>. QED  BY <1>2, <1>7, <1>8, <2>1, Deeper
<1>10. Arena' /\ LeftFolded'
  BY <1>1, <1>2 DEF Arena, LeftFolded, Folded
<1>11. Visit'
  BY <1>1, <1>2, <1>9 DEF Visit
<1>. QED  BY <1>10, <1>11 DEF FoldInv

LEMMA FoldLeave ==
  ASSUME FoldInv, Leave
  PROVE  FoldInv'
<1>. DEFINE e == Last(path)
<1>1. /\ phase = "fold" /\ path # <<>> /\ folded' = folded \cup {e} /\ path' = Front(path)
      /\ program' = program /\ phase' = phase /\ next' = next
  BY DEF Leave
<1>2. Arena /\ Visit /\ LeftFolded /\ Size \in Nat /\ Size' = Size
  BY <1>1, ArenaNodes DEF FoldInv, Size
<1>3. path \in Seq((1 .. Size) \ folded)
  BY <1>2 DEF Visit
<1>4. /\ e \in (1 .. Size) \ folded /\ e = path[Len(path)] /\ DOMAIN path = 1 .. Len(path) /\ Len(path) \in Nat \ {0}
      /\ path' \in Seq((1 .. Size) \ folded) /\ DOMAIN path' = 1 .. Len(path) - 1
      /\ \A k \in 1 .. Len(path) - 1 : path'[k] = path[k]
  BY <1>1, <1>3, FrontOf
<1>5. /\ Range(expressions[e].children) \subseteq folded
      /\ DOMAIN expressions' = 1 .. Size
      /\ \A i \in 1 .. Size : i # e => expressions'[i] = expressions[i]
      /\ \/ Folded(expressions[e]) = {} /\ expressions' = expressions
         \/ /\ expressions'[e].kind \in Literals /\ expressions'[e].children = <<>>
            /\ IsNode(expressions'[e], e + 1 .. Size)
  BY LeaveChanges
<1>. HIDE DEF e
<1>6. IsNode(expressions[e], e + 1 .. Size) /\ IsNode(expressions'[e], e + 1 .. Size)
  BY <1>1, <1>2, <1>4, <1>5 DEF Arena
<1>7. Arena'
  <2>1. \A i \in (1 .. Size) \ folded' : phase = "fold" /\ expressions'[i] = program.expressions[i]
    BY <1>1, <1>2, <1>5 DEF Arena
  <2>2. \A i \in 1 .. Size : IsNode(expressions'[i], i + 1 .. Size)
    BY <1>1, <1>2, <1>5, <1>6 DEF Arena
  <2>. QED  BY <1>1, <1>2, <1>5, <2>1, <2>2 DEF Arena
<1>8. \A i \in folded' : Range(expressions'[i].children) \subseteq folded
  <2>1. \A i \in folded : i # e /\ i \in 1 .. Size
    BY <1>2, <1>4 DEF Visit
  <2>2. Range(<<>>) = {}
    BY Empty
  <2>3. Range(expressions'[e].children) \subseteq folded
    BY <1>5, <2>2
  <2>. QED  BY <1>1, <1>2, <1>5, <2>1, <2>3 DEF Visit
<1>9. path' \in Seq((1 .. Size) \ folded')
  <2>1. \A k \in 1 .. Len(path) - 1 : path[k] < e
    <3>1. \A j, k \in DOMAIN path : j < k => path[j] < path[k]
      BY <1>2 DEF Visit
    <3>. QED  BY <1>4, <3>1
  <2>2. Len(path') \in Nat /\ DOMAIN path' = 1 .. Len(path')
    BY <1>4, LenProperties
  <2>3. \A k \in 1 .. Len(path') : path'[k] \in (1 .. Size) \ folded'
    BY <1>1, <1>2, <1>4, <2>1, <2>2, ElementOfSeq
  <2>. QED  BY <1>4, <2>3, Retyped
<1>10. Range(path) \subseteq Range(path') \cup {e}
  BY <1>4 DEF Range
<1>11. Visit'
  <2>1. \A j, k \in DOMAIN path' : j < k => path'[j] < path'[k]
    <3>1. \A j, k \in DOMAIN path : j < k => path[j] < path[k]
      BY <1>2 DEF Visit
    <3>. QED  BY <1>4, <3>1
  <2>2. folded' \subseteq 1 .. Size
    BY <1>1, <1>2, <1>4 DEF Visit
  <2>3. \A i \in folded' : Range(expressions'[i].children) \subseteq folded'
    BY <1>1, <1>8
  <2>4. \A i \in 1 .. Size : i < next' => i \in folded' \cup Range(path')
    BY <1>1, <1>2, <1>10 DEF Visit
  <2>. QED  BY <1>1, <1>2, <1>9, <2>1, <2>2, <2>3, <2>4 DEF Visit
<1>12. LeftFolded'
  <2>1. \A i \in folded' : expressions'[i] = expressions[i] => Folded(expressions[i])' = Folded(expressions[i])
    <3>. SUFFICES ASSUME NEW i \in folded', expressions'[i] = expressions[i]
                  PROVE  Folded(expressions[i])' = Folded(expressions[i])
      OBVIOUS
    <3>1. \A k \in DOMAIN expressions[i].children : expressions[i].children[k] \in folded
      BY <1>8 DEF Range
    <3>2. \A c \in folded : expressions'[c] = expressions[c]
      BY <1>2, <1>4, <1>5 DEF Visit
    <3>. QED  BY <3>1, <3>2 DEF Folded
  <2>2. \A i \in folded : expressions'[i] = expressions[i] /\ Folded(expressions[i]) = {}
    BY <1>1, <1>2, <1>4, <1>5 DEF Visit, LeftFolded
  <2>3. CASE expressions' = expressions /\ Folded(expressions[e]) = {}
    BY <1>1, <2>1, <2>2, <2>3 DEF LeftFolded
  <2>4. CASE expressions'[e].kind \in Literals
    <3>1. ASSUME NEW i, expressions'[i].kind \in Literals
          PROVE  Folded(expressions[i])' = {}
      <4>. DEFINE x == expressions'[i]
                  v == [k \in DOMAIN x.children |-> expressions'[x.children[k]]]
      <4>1. x.kind \notin {"unary", "binary"}
        BY <3>1 DEF Literals
      <4>2. Folded(expressions[i])' = Replacement(x, v)
        BY DEF Folded
      <4>. QED  BY <4>1, <4>2, LiteralsStay
    <3>. QED  BY <1>1, <2>1, <2>2, <2>4, <3>1 DEF LeftFolded
  <2>. QED  BY <1>5, <2>3, <2>4
<1>. QED  BY <1>7, <1>11, <1>12 DEF FoldInv

LEMMA FoldSweep ==
  ASSUME FoldInv, Sweep
  PROVE  FoldInv' /\ FoldsAll'
<1>1. /\ phase = "fold" /\ path = <<>> /\ next \notin DOMAIN expressions
      /\ program' = program /\ folded' = folded /\ path' = path /\ next' = next
      /\ \/ /\ phase' = "done"
            /\ expressions' = [e \in DOMAIN expressions |-> IF e \in Dead THEN Retired ELSE expressions[e]]
         \/ phase' = "failed" /\ expressions' = expressions
  BY DEF Sweep
<1>2. Arena /\ Visit /\ LeftFolded /\ Size \in Nat /\ Size' = Size
  BY <1>1, ArenaNodes DEF FoldInv, Size
<1>3. DOMAIN path = {} /\ Range(path) = {}
  BY <1>1, Empty
<1>4. next > Size /\ folded = 1 .. Size
  <2>1. next > Size /\ next \in Nat
    BY <1>1, <1>2 DEF Arena
  <2>2. folded \subseteq 1 .. Size /\ \A i \in 1 .. Size : i < next => i \in folded \cup Range(path)
    BY <1>2 DEF Visit
  <2>3. \A i \in 1 .. Size : i < next
    BY <1>2, <2>1
  <2>4. \A i \in 1 .. Size : i \in folded
    BY <1>3, <2>2, <2>3
  <2>. QED  BY <2>1, <2>2, <2>4
<1>5. DOMAIN expressions' = 1 .. Size /\ \A e \in 1 .. Size :
        \/ expressions'[e] = expressions[e]
        \/ phase' = "done" /\ expressions'[e] = Retired
  BY <1>1, <1>2 DEF Arena
<1>6. Arena'
  BY <1>1, <1>2, <1>4, <1>5 DEF Arena
<1>7. Retired.children = <<>> /\ Retired.kind = "retired" /\ Range(Retired.children) = {}
  <2>1. Range(<<>>) = {}
    BY Empty
  <2>2. Retired.children = <<>> /\ Retired.kind = "retired"
    BY DEF Retired, Literal
  <2>. QED  BY <2>1, <2>2
<1>8. \A e \in folded' : Range(expressions'[e].children) \subseteq folded'
  BY <1>1, <1>2, <1>4, <1>5, <1>7 DEF Visit
<1>9. Visit'
  BY <1>1, <1>2, <1>4, <1>8 DEF Visit
<1>10. ASSUME phase' = "done", NEW e \in 1 .. Size
       PROVE  Folded(expressions[e])' = {}
  <2>. DEFINE x == expressions'[e]
              v == [k \in DOMAIN x.children |-> expressions[x.children[k]]]
              w == [k \in DOMAIN x.children |-> expressions'[x.children[k]]]
  <2>1. Folded(expressions[e])' = Replacement(x, w)
    BY DEF Folded
  <2>2. CASE x = Retired
    <3>1. x.kind \notin {"unary", "binary"}
      BY <1>7, <2>2
    <3>. QED  BY <2>1, <3>1, LiteralsStay
  <2>3. CASE x = expressions[e] /\ x # Retired
    <3>1. Replacement(x, v) = {}
      BY <1>1, <1>2, <1>4, <2>3 DEF LeftFolded, Folded
    <3>2. \A k \in DOMAIN x.children : w[k] = v[k] \/ w[k] = Retired
      <4>1. \A k \in DOMAIN x.children : x.children[k] \in 1 .. Size
        <5>1. \A c \in Range(expressions[e].children) : c \in e + 1 .. Size
          BY <1>2, ArenaNodes
        <5>2. \A k \in DOMAIN x.children : x.children[k] \in Range(expressions[e].children)
          BY <2>3 DEF Range
        <5>. HIDE DEF x, v, w
        <5>. QED  BY <1>2, <5>1, <5>2
      <4>. QED  BY <1>5, <4>1
    <3>3. CASE \A k \in DOMAIN x.children : w[k] = v[k]
      <4>1. w = v
        BY <3>3
      <4>. QED  BY <2>1, <3>1, <4>1
    <3>4. CASE \E k \in DOMAIN x.children : w[k] = Retired
      <4>1. ~ IsInteger(Retired) /\ ~ IsBoolean(Retired)
        BY <1>7 DEF IsInteger, IsBoolean
      <4>2. DOMAIN w = DOMAIN x.children
        OBVIOUS
      <4>. HIDE DEF w, x
      <4>3. \E k \in DOMAIN w : ~ IsInteger(w[k]) /\ ~ IsBoolean(w[k])
        BY <3>4, <4>1, <4>2
      <4>4. Replacement(x, w) = {}
        BY <4>3 DEF Replacement
      <4>. QED  BY <2>1, <4>4
    <3>. QED  BY <3>2, <3>3, <3>4
  <2>. QED  BY <1>5, <2>2, <2>3
<1>11. LeftFolded' /\ FoldsAll'
  BY <1>1, <1>4, <1>5, <1>10 DEF LeftFolded, FoldsAll, Live
<1>. QED  BY <1>6, <1>9, <1>11 DEF FoldInv

(* Reached is what a recursion over growing sets ends with.  The equation  *)
(* has a solution, the least closed sets; any solution is closed, since a  *)
(* set can only grow until it is everything.                               *)
Grown(S) == S \cup UNION {Range(expressions[e].children) : e \in S}

Growing(g) == [S \in SUBSET (1 .. Size) |-> IF Grown(S) = S THEN S ELSE g[Grown(S)]]

LEMMA GrownStays ==
  ASSUME Arena, NEW S \in SUBSET (1 .. Size)
  PROVE  Grown(S) \in SUBSET (1 .. Size) /\ S \subseteq Grown(S)
<1>1. \A e \in S : \A c \in Range(expressions[e].children) : c \in 1 .. Size
  <2>. SUFFICES ASSUME NEW e \in S, NEW c \in Range(expressions[e].children)
                PROVE  c \in 1 .. Size
    OBVIOUS
  <2>1. e \in 1 .. Size /\ Size \in Nat /\ c \in e + 1 .. Size
    BY ArenaNodes
  <2>. QED  BY <2>1
<1>. QED  BY <1>1 DEF Grown

LEMMA GrowingHasSolution ==
  ASSUME Arena
  PROVE  \E g : g = Growing(g)
<1>. DEFINE D == 1 .. Size
            Closed(T) == T \in SUBSET D /\ Grown(T) = T
            hull == [S \in SUBSET D |-> {x \in D : \A T : Closed(T) /\ S \subseteq T => x \in T}]
<1>1. \A S \in SUBSET D : Grown(S) \in SUBSET D
  BY GrownStays
<1>2. ASSUME NEW S \in SUBSET D
      PROVE  hull[S] = IF Grown(S) = S THEN S ELSE hull[Grown(S)]
  <2>1. CASE Grown(S) = S
    <3>1. Closed(S)
      BY <2>1
    <3>. HIDE DEF Closed
    <3>2. hull[S] \subseteq S /\ S \subseteq hull[S]
      BY <3>1
    <3>. QED  BY <2>1, <3>2
  <2>2. CASE Grown(S) # S
    <3>1. \A T : Closed(T) => (S \subseteq T <=> Grown(S) \subseteq T)
      BY DEF Grown
    <3>. HIDE DEF Closed
    <3>2. hull[S] = hull[Grown(S)]
      BY <1>1, <3>1
    <3>. QED  BY <2>2, <3>2
  <2>. QED  BY <2>1, <2>2
<1>3. hull = Growing(hull)
  <2>1. hull = [S \in SUBSET D |-> hull[S]]
    OBVIOUS
  <2>. HIDE DEF hull
  <2>. QED  BY <1>2, <2>1 DEF Growing
<1>. QED  BY <1>3

LEMMA ReachedClosed ==
  ASSUME Arena
  PROVE  /\ Uses \subseteq Reached /\ Reached \subseteq 1 .. Size
         /\ \A e \in Reached : Range(expressions[e].children) \subseteq Reached
<1>. DEFINE D == 1 .. Size
            g == CHOOSE f : f = Growing(f)
            P == {k \in Nat : \A S \in SUBSET D : Cardinality(D \ S) < k =>
                                S \subseteq g[S] /\ g[S] \subseteq D /\ Grown(g[S]) = g[S]}
<1>1. Size \in Nat /\ DOMAIN expressions = D
  BY ArenaNodes DEF Arena
<1>2. Reached = g[Uses]
  BY <1>1 DEF Reached, Growing, Grown
<1>3. g = Growing(g)
  BY GrowingHasSolution
<1>. HIDE DEF g
<1>4. \A S \in SUBSET D : g[S] = IF Grown(S) = S THEN S ELSE g[Grown(S)]
  BY <1>3 DEF Growing
<1>5. \A S \in SUBSET D : Grown(S) \in SUBSET D /\ S \subseteq Grown(S)
  BY GrownStays
<1>6. IsFiniteSet(D) /\ Cardinality(D) = Size
  BY <1>1, FS_Interval
<1>7. \A S \in SUBSET D : Cardinality(D \ S) \in Nat /\ Cardinality(D \ S) <= Size
  BY <1>1, <1>6, FS_Subset, FS_CardinalityType
<1>8. 0 \in P
  BY <1>7
<1>9. ASSUME NEW k \in 1 .. Size + 1, k - 1 \in P
      PROVE  k \in P
  <2>. SUFFICES ASSUME NEW S \in SUBSET D, Cardinality(D \ S) < k
                PROVE  S \subseteq g[S] /\ g[S] \subseteq D /\ Grown(g[S]) = g[S]
    BY <1>1
  <2>1. CASE Grown(S) = S
    BY <1>4, <2>1
  <2>2. CASE Grown(S) # S
    <3>1. D \ Grown(S) \subseteq D \ S /\ D \ Grown(S) # D \ S /\ IsFiniteSet(D \ S)
      BY <1>5, <1>6, <2>2, FS_Subset
    <3>2. Cardinality(D \ Grown(S)) < Cardinality(D \ S)
      <4>. DEFINE A == D \ S
                  B == D \ Grown(S)
      <4>1. Cardinality(B) <= Cardinality(A) /\ (Cardinality(A) = Cardinality(B) => B = A)
        <5>. HIDE DEF A, B
        <5>. QED  BY <3>1, FS_Subset DEF A, B
      <4>. QED  BY <1>5, <1>7, <3>1, <4>1
    <3>3. Cardinality(D \ Grown(S)) < k - 1
      <4>1. Cardinality(D \ S) \in Nat
        BY <1>7
      <4>2. Cardinality(D \ Grown(S)) \in Nat
        BY <1>5, <1>7
      <4>. QED  BY <1>1, <1>9, <3>2, <4>1, <4>2
    <3>4. LET T == Grown(S) IN T \subseteq g[T] /\ g[T] \subseteq D /\ Grown(g[T]) = g[T]
      BY <1>5, <1>9, <3>3
    <3>. QED  BY <1>4, <1>5, <2>2, <3>4
  <2>. QED  BY <2>1, <2>2
<1>10. Size + 1 \in P
  <2>. HIDE DEF P
  <2>. DEFINE n == Size + 1
  <2>1. n \in Nat /\ n \in 0 .. n /\ \A k \in 1 .. n : k - 1 \in P => k \in P
    BY <1>1, <1>9
  <2>. HIDE DEF n
  <2>2. \A k \in 0 .. n : k \in P
    BY <1>8, <2>1, Induction
  <2>. QED  BY <2>1, <2>2 DEF n
<1>11. Uses \in SUBSET D
  <2>1. program.roots \subseteq D
    BY Lowered DEF Arena
  <2>2. \A e \in D : \A c \in Range(program.expressions[e].children) : c \in D
    <3>. SUFFICES ASSUME NEW e \in D, NEW c \in Range(program.expressions[e].children)
                  PROVE  c \in D
      OBVIOUS
    <3>1. IsNode(program.expressions[e], e + 1 .. Size)
      BY Lowered DEF Arena
    <3>2. c \in e + 1 .. Size
      BY <1>1, <3>1, LaterOperands
    <3>. QED  BY <1>1, <3>2
  <2>3. DOMAIN program.expressions = D
    BY Lowered DEF Arena
  <2>. QED  BY <2>1, <2>2, <2>3 DEF Uses
<1>12. Cardinality(D \ Uses) < Size + 1
  <2>1. Cardinality(D \ Uses) \in Nat /\ Cardinality(D \ Uses) <= Size
    BY <1>7, <1>11
  <2>. QED  BY <1>1, <2>1
<1>13. Uses \subseteq g[Uses] /\ g[Uses] \subseteq D /\ Grown(g[Uses]) = g[Uses]
  BY <1>10, <1>11, <1>12
<1>14. \A e \in g[Uses] : Range(expressions[e].children) \subseteq g[Uses]
  BY <1>13 DEF Grown
<1>. QED  BY <1>2, <1>13, <1>14

LEMMA LeaveCutsLiterals ==
  ASSUME FoldInv, Origins, OperandsOf, Leave
  PROVE  Origins' /\ OperandsOf'
<1>. DEFINE e == Last(path)
<1>1. /\ phase = "fold" /\ folded' = folded \cup {e} /\ program' = program /\ phase' = phase
      /\ operands' = Taken(e, Folded(expressions[e]))
  BY DEF Leave
<1>2. Arena /\ Visit /\ Size' = Size
  BY <1>1 DEF FoldInv, Size
<1>3. /\ e \in (1 .. Size) \ folded
      /\ Range(expressions[e].children) \subseteq folded
      /\ \A i \in 1 .. Size : i # e => expressions'[i] = expressions[i]
      /\ \/ Folded(expressions[e]) = {} /\ expressions' = expressions
         \/ /\ Folded(expressions[e]) # {} /\ ~ expressions[e].lazy
            /\ expressions'[e].kind \in Literals /\ expressions'[e].children = <<>>
            /\ expressions'[e].lazy = FALSE
            /\ \A c \in Range(expressions[e].children) : expressions[c].kind \in Literals
  BY LeaveChanges
<1>. HIDE DEF e
<1>4. expressions[e] = program.expressions[e] /\ folded \subseteq 1 .. Size
  BY <1>2, <1>3 DEF Arena, Visit
<1>5. Origins'
  <2>. SUFFICES ASSUME NEW i \in 1 .. Size, expressions'[i] # program.expressions[i]
                PROVE  /\ expressions'[i].kind \in Literals /\ ~ program.expressions[i].lazy
                       /\ \A c \in Range(program.expressions[i].children) :
                            c \in folded' /\ expressions'[c].kind \in Literals
    BY <1>1, <1>2 DEF Origins
  <2>1. \A c \in folded : c # e /\ expressions'[c] = expressions[c]
    BY <1>3, <1>4
  <2>2. CASE i = e
    BY <1>1, <1>3, <1>4, <2>1, <2>2
  <2>3. CASE i # e
    BY <1>1, <1>3, <2>1, <2>3 DEF Origins
  <2>. QED  BY <2>2, <2>3
<1>6. OperandsOf'
  <2>1. operands = [i \in 1 .. Size |-> IF expressions[i].lazy THEN <<>> ELSE expressions[i].children]
    BY <1>1 DEF OperandsOf
  <2>2. operands' = [i \in 1 .. Size |-> IF expressions'[i].lazy THEN <<>> ELSE expressions'[i].children]
    <3>1. CASE Folded(expressions[e]) = {}
      <4>1. operands' = operands /\ expressions' = expressions
        BY <1>1, <1>3, <3>1 DEF Taken
      <4>. QED  BY <2>1, <4>1
    <3>2. CASE Folded(expressions[e]) # {}
      <4>1. operands' = [operands EXCEPT ![e] = <<>>] /\ expressions'[e].children = <<>> /\ expressions'[e].lazy = FALSE
        BY <1>1, <1>3, <3>2 DEF Taken
      <4>. QED  BY <1>3, <2>1, <4>1
    <3>. QED  BY <3>1, <3>2
  <2>. QED  BY <1>1, <1>2, <2>2 DEF OperandsOf
<1>. QED  BY <1>5, <1>6

(* What cannot be reached any more are literals, from an expression down   *)
(* to its operands.                                                        *)
LEMMA UnreachedAreLiterals ==
  ASSUME Arena, Origins, phase = "fold"
  PROVE  \A e \in (1 .. Size) \ Reached : expressions[e].kind \in Literals
<1>. DEFINE P == {k \in Nat : \A e \in (1 .. Size) \ Reached : e <= k => expressions[e].kind \in Literals}
<1>1. Size \in Nat /\ 0 \in P
  BY ArenaNodes
<1>2. ASSUME NEW k \in 1 .. Size, k - 1 \in P
      PROVE  k \in P
  <2>. SUFFICES ASSUME k \notin Reached, expressions[k].kind \notin Literals
                PROVE  FALSE
    <3>1. \A e \in 1 .. Size : e <= k => e <= k - 1 \/ e = k
      BY <1>1
    <3>. QED  BY <1>1, <1>2, <3>1
  <2>1. Uses \subseteq Reached /\ \A e \in Reached : Range(expressions[e].children) \subseteq Reached
    BY ReachedClosed
  <2>2. k \notin program.roots
    BY <2>1 DEF Uses
  <2>3. PICK j \in 1 .. Size : k \in Range(program.expressions[j].children)
    BY <2>2, Lowered DEF Arena
  <2>4. IsNode(program.expressions[j], j + 1 .. Size)
    BY Lowered DEF Arena
  <2>5. k \in j + 1 .. Size
    BY <1>1, <2>3, <2>4, LaterOperands
  <2>6. expressions[j] = program.expressions[j]
    BY <2>3 DEF Origins
  <2>7. j \notin Reached
    BY <2>1, <2>3, <2>6
  <2>8. expressions[j].kind \in Literals
    BY <1>1, <1>2, <2>5, <2>7
  <2>9. program.expressions[j].children = <<>>
    BY <2>4, <2>6, <2>8 DEF IsNode
  <2>. QED  BY <2>3, <2>9, Empty
<1>3. \A k \in 0 .. Size : k \in P
  <2>. HIDE DEF P
  <2>. QED  BY <1>1, <1>2, Induction
<1>. QED  BY <1>1, <1>3

LEMMA NothingKept ==
  ASSUME FoldInv, Origins, OperandsOf, phase = "fold"
  PROVE  Removable
<1>1. Arena
  BY DEF FoldInv
<1>2. /\ Uses \subseteq Reached /\ Reached \subseteq 1 .. Size
      /\ \A e \in Reached : Range(expressions[e].children) \subseteq Reached
  BY <1>1, ReachedClosed
<1>3. \A e \in 1 .. Size : IsNode(expressions[e], e + 1 .. Size)
  BY <1>1 DEF Arena
<1>4. Dead = (1 .. Size) \ Reached
  <2>1. \A e \in 1 .. Size : expressions[e].kind # "retired"
    BY <1>3 DEF IsNode, Literals
  <2>2. DOMAIN expressions = 1 .. Size
    BY <1>1 DEF Arena
  <2>3. Live = 1 .. Size
    BY <2>1, <2>2 DEF Live
  <2>. QED  BY <2>3 DEF Dead
<1>5. \A e \in Dead : ~ expressions[e].lazy /\ expressions[e].kind # "other"
  <2>1. \A e \in Dead : e \in 1 .. Size /\ expressions[e].kind \in Literals
    BY <1>1, <1>4, UnreachedAreLiterals
  <2>. QED  BY <1>3, <2>1 DEF IsNode, Literals
<1>6. \A e \in DOMAIN operands \ Dead : Range(operands[e]) \cap Dead = {}
  <2>1. \A e \in DOMAIN operands \ Dead :
          e \in Reached /\ operands[e] = IF expressions[e].lazy THEN <<>> ELSE expressions[e].children
    BY <1>4 DEF OperandsOf
  <2>2. \A e \in DOMAIN operands \ Dead : Range(operands[e]) \subseteq Reached
    BY <1>2, <2>1, Empty
  <2>. QED  BY <1>4, <2>2
<1>. QED  BY <1>2, <1>4, <1>5, <1>6 DEF Removable

-----------------------------------------------------------------------------
PassInv == FoldInv /\ Origins /\ OperandsOf /\ NeverFails /\ FoldsAll

LEMMA PassInit ==
  ASSUME Init
  PROVE  PassInv
<1>1. phase = "fold" /\ expressions = program.expressions /\ program \in Programs
  BY DEF Init
<1>2. operands = [e \in 1 .. Size |-> IF expressions[e].lazy THEN <<>> ELSE expressions[e].children]
  BY <1>1, Lowered DEF Init
<1>. QED  BY <1>1, <1>2, FoldInit DEF PassInv, Origins, OperandsOf, NeverFails, FoldsAll

LEMMA PassStep ==
  ASSUME PassInv, [Next]_vars
  PROVE  PassInv'
<1>1. FoldInv /\ Origins /\ OperandsOf /\ NeverFails /\ FoldsAll
  BY DEF PassInv
<1>2. CASE StartNext \/ Descend
  <2>1. phase = "fold" /\ phase' = phase /\ program' = program /\ expressions' = expressions
        /\ operands' = operands /\ folded' = folded
    BY <1>2 DEF StartNext, Descend
  <2>2. Origins' /\ OperandsOf' /\ NeverFails' /\ FoldsAll'
    BY <1>1, <2>1 DEF Origins, OperandsOf, NeverFails, FoldsAll, Size
  <2>. QED  BY <1>1, <1>2, <2>2, FoldStartNext, FoldDescend DEF PassInv
<1>3. CASE Leave
  <2>1. phase = "fold" /\ phase' = phase
    BY <1>3 DEF Leave
  <2>. QED  BY <1>1, <1>3, <2>1, FoldLeave, LeaveCutsLiterals DEF PassInv, NeverFails, FoldsAll
<1>4. CASE Sweep
  <2>1. phase = "fold" /\ phase' = "done"
    BY <1>1, <1>4, NothingKept DEF Sweep
  <2>. QED  BY <1>1, <1>4, <2>1, FoldSweep DEF PassInv, Origins, OperandsOf, NeverFails
<1>5. CASE UNCHANGED vars
  <2>1. /\ program' = program /\ phase' = phase /\ expressions' = expressions /\ operands' = operands
        /\ folded' = folded /\ path' = path /\ next' = next
    BY <1>5 DEF vars
  <2>2. Arena' /\ Visit' /\ LeftFolded'
    BY <1>1, <2>1 DEF FoldInv, Arena, Visit, LeftFolded, Size, Folded
  <2>3. Origins' /\ OperandsOf' /\ NeverFails' /\ FoldsAll'
    BY <1>1, <2>1 DEF Origins, OperandsOf, NeverFails, FoldsAll, Size, Live, Folded
  <2>. QED  BY <2>2, <2>3 DEF PassInv, FoldInv
<1>. QED  BY <1>2, <1>3, <1>4, <1>5 DEF Next

LEMMA PassAlways == Spec => []PassInv
<1>. QED  BY PassInit, PassStep, PTL DEF Spec

(* One pass is enough, whatever the expressions: when the pass has ended   *)
(* folding again would find nothing more.                                  *)
THEOREM OnePassFolds == Spec => []FoldsAll
<1>. QED  BY PassAlways, PTL DEF PassInv

(* The pass never meets its own errors: what folding cuts off is pure, and *)
(* nothing that stays takes it.                                            *)
THEOREM PassNeverFails == Spec => []NeverFails
<1>. QED  BY PassAlways, PTL DEF PassInv

-----------------------------------------------------------------------------
(* The values.                                                             *)

(* The number of an integer literal.                                       *)
Plain(n) == Number(n, FALSE)

LEMMA PlainNumber ==
  ASSUME NEW n
  PROVE  Plain(n).number = n /\ IsNumber(Plain(n)) /\ ~ IsTruth(Plain(n))
<1>. QED  BY DEF Plain, Number, IsNumber, IsTruth

LEMMA TruthValue ==
  ASSUME NEW b
  PROVE  Truth(b).truth = b /\ IsTruth(Truth(b)) /\ ~ IsNumber(Truth(b))
<1>. QED  BY DEF Truth, IsNumber, IsTruth

LEMMA Unsigned ==
  ASSUME ~ SignedZero, NEW n, NEW m
  PROVE  Number(n, m) = Plain(n)
<1>. QED  BY DEF Number, Plain

(* The literal that replaces an operator stands for what the operator      *)
(* yields.                                                                 *)
LEMMA ReplacementMeans ==
  ASSUME ~ SignedZero, NEW later, NEW x, IsNode(x, later),
         NEW v, DOMAIN v = DOMAIN x.children, NEW w, DOMAIN w = DOMAIN x.children,
         \A k \in DOMAIN v : IsInteger(v[k]) => v[k].value \in Int /\ w[k] = Plain(v[k].value),
         \A k \in DOMAIN v : IsBoolean(v[k]) => w[k] = Truth(v[k].value),
         NEW l \in Replacement(x, v)
  PROVE  Applied(x, w) = IF l.kind = "number" THEN Plain(l.value) ELSE Truth(l.value)
<1>. DEFINE integers == \A k \in DOMAIN v : IsInteger(v[k])
            booleans == \A k \in DOMAIN v : IsBoolean(v[k])
            numbers == \A k \in DOMAIN w : IsNumber(w[k])
            truths == \A k \in DOMAIN w : IsTruth(w[k])
<1>1. DOMAIN v = 1 .. Len(x.children) /\ DOMAIN w = DOMAIN v
  BY LenProperties DEF IsNode
<1>2. (integers => numbers) /\ (booleans => truths)
  BY <1>1, PlainNumber, TruthValue
<1>3. ~ x.lazy
  BY DEF Replacement, IsNode
<1>4. ASSUME NEW y
      PROVE  /\ l = Literal("number", y) => l.kind = "number" /\ l.value = y
             /\ l = Literal("boolean", y) => l.kind = "boolean" /\ l.value = y
  BY DEF Literal
<1>5. CASE x.kind = "unary"
  <2>. Len(x.children) = 1
    BY <1>5 DEF IsNode
  <2>1. 1 \in DOMAIN v
    BY <1>1
  <2>2. CASE x.op = "plus" /\ integers
    <3>1. l = Literal("number", v[1].value)
      BY <1>3, <1>5, <2>2 DEF Replacement
    <3>2. Applied(x, w) = w[1]
      BY <1>2, <1>5, <2>2 DEF Applied
    <3>. QED  BY <1>4, <2>1, <2>2, <3>1, <3>2
  <2>3. CASE x.op = "minus" /\ integers /\ v[1].value # IntMin
    <3>1. l = Literal("number", - v[1].value)
      BY <1>3, <1>5, <2>3 DEF Replacement
    <3>2. Applied(x, w) = Minus(w[1])
      BY <1>2, <1>5, <2>3 DEF Applied
    <3>3. w[1] = Plain(v[1].value)
      BY <2>1, <2>3
    <3>4. Minus(w[1]) = Plain(- v[1].value)
      BY <3>3, PlainNumber, TruthValue, Unsigned DEF Minus
    <3>. QED  BY <1>4, <3>1, <3>2, <3>4
  <2>4. CASE x.op = "not" /\ booleans
    <3>1. l = Literal("boolean", ~ v[1].value)
      BY <1>3, <1>5, <2>4 DEF Replacement
    <3>2. Applied(x, w) = Truth(~ w[1].truth)
      BY <1>2, <1>5, <2>4 DEF Applied
    <3>3. w[1].truth = v[1].value
      BY <2>1, <2>4, PlainNumber, TruthValue
    <3>. QED  BY <1>4, <3>1, <3>2, <3>3
  <2>. QED  BY <1>3, <1>5, <2>2, <2>3, <2>4 DEF Replacement
<1>6. CASE x.kind = "binary"
  <2>. Len(x.children) = 2
    BY <1>6 DEF IsNode
  <2>1. 1 \in DOMAIN v /\ 2 \in DOMAIN v
    BY <1>1
  <2>2. CASE integers
    <3>. DEFINE a == v[1].value
                b == v[2].value
    <3>1. /\ a \in Machine /\ b \in Machine /\ a \in Int /\ b \in Int
          /\ w[1] = Plain(a) /\ w[2] = Plain(b)
      <4>1. IsInteger(v[1]) /\ IsInteger(v[2])
        BY <2>1, <2>2
      <4>2. a \in Int /\ b \in Int /\ Exact(a) /\ Exact(b)
            /\ w[1] = Plain(a) /\ w[2] = Plain(b)
        BY <2>1, <4>1 DEF IsInteger
      <4>. HIDE DEF a, b
      <4>. QED  BY <4>2, BoundsAssumption DEF Exact, Machine, IntMin
    <3>2. w[1].number = a /\ w[2].number = b
      BY <3>1, PlainNumber, TruthValue
    <3>3. ~ booleans /\ ~ truths
      BY <1>1, <2>1, <2>2, <3>1, PlainNumber, TruthValue DEF IsInteger, IsBoolean
    <3>4. Replacement(x, v) = Arithmetic(x.op, a, b)
      BY <1>3, <1>6, <2>2, <3>3 DEF Replacement
    <3>5. Applied(x, w) = Computed(x, w[1], w[2])
      BY <1>2, <1>3, <1>6, <2>2, <3>3 DEF Applied
    <3>6. CheckedAdd(a, b) = Fits(a + b) /\ CheckedSubtract(a, b) = Fits(a - b) /\ CheckedMultiply(a, b) = Fits(a * b)
      BY <3>1, SumsAreExact, ProductsAreExact
    <3>. HIDE DEF a, b, integers, booleans, numbers, truths
    <3>7. \A y, z : z \in Numbers(Fits(y)) => z = Literal("number", y)
      BY DEF Numbers, Fits
    <3>8. CASE x.op \in Comparisons
      <4>1. l = Literal("boolean", Compared(x.op, a, b))
        BY <3>4, <3>8 DEF Arithmetic, Comparisons
      <4>2. Applied(x, w) = Truth(Compared(x.op, a, b))
        BY <3>2, <3>5, <3>8 DEF Computed, Comparisons
      <4>. QED  BY <1>4, <4>1, <4>2
    <3>9. CASE x.op = "add"
      <4>1. l = Literal("number", a + b)
        BY <3>4, <3>6, <3>7, <3>9 DEF Arithmetic, Comparisons
      <4>2. Applied(x, w) = Plain(a + b)
        BY <3>2, <3>5, <3>9, Unsigned DEF Computed, Comparisons
      <4>. QED  BY <1>4, <4>1, <4>2
    <3>10. CASE x.op = "subtract"
      <4>1. l = Literal("number", a - b)
        BY <3>4, <3>6, <3>7, <3>10 DEF Arithmetic, Comparisons
      <4>2. Applied(x, w) = Plain(a - b)
        BY <3>2, <3>5, <3>10, Unsigned DEF Computed, Comparisons
      <4>. QED  BY <1>4, <4>1, <4>2
    <3>11. CASE x.op = "multiply"
      <4>1. l = Literal("number", a * b)
        BY <3>4, <3>6, <3>7, <3>11 DEF Arithmetic, Comparisons
      <4>2. Applied(x, w) = Plain(a * b)
        BY <3>2, <3>5, <3>11, Unsigned DEF Computed, Comparisons
      <4>. QED  BY <1>4, <4>1, <4>2
    <3>. QED  BY <3>4, <3>8, <3>9, <3>10, <3>11 DEF Arithmetic
  <2>3. CASE ~ integers /\ booleans /\ x.op \in {"equal", "not equal"}
    <3>1. l = Literal("boolean", Compared(x.op, v[1].value, v[2].value))
      BY <1>3, <1>6, <2>3 DEF Replacement
    <3>2. w[1] = Truth(v[1].value) /\ w[2] = Truth(v[2].value)
      BY <2>1, <2>3
    <3>3. ~ numbers
      BY <1>1, <2>1, <3>2, PlainNumber, TruthValue
    <3>4. Applied(x, w) = Truth(Compared(x.op, w[1].truth, w[2].truth))
      BY <1>2, <1>6, <2>3, <3>3 DEF Applied
    <3>5. w[1].truth = v[1].value /\ w[2].truth = v[2].value
      BY <3>2, PlainNumber, TruthValue
    <3>. QED  BY <1>4, <3>1, <3>4, <3>5
  <2>. QED  BY <1>3, <1>6, <2>2, <2>3 DEF Replacement
<1>7. x.kind \in {"unary", "binary"}
  BY DEF Replacement, IsNode
<1>. QED  BY <1>5, <1>6, <1>7

(* Meaning is a recursion from an expression to later ones: its equation   *)
(* has a solution, and the values of an arena satisfy it.                  *)
Later(arena, n) ==
  /\ DOMAIN arena = 1 .. n
  /\ \A i \in 1 .. n : \A k \in DOMAIN arena[i].children : arena[i].children[k] \in i + 1 .. n

ValueOf(arena, f, i) == Applied(arena[i], [k \in DOMAIN arena[i].children |-> f[arena[i].children[k]]])

LEMMA MeaningSolves ==
  ASSUME NEW n \in Nat, NEW arena, Later(arena, n)
  PROVE  \A i \in 1 .. n : Meaning(arena)[i] = ValueOf(arena, Meaning(arena), i)
<1>. DEFINE Solves(f, k) == DOMAIN f = 1 .. n /\ \A i \in 1 .. n : i > n - k => f[i] = ValueOf(arena, f, i)
            P == {k \in Nat : \E f : Solves(f, k)}
            Solution(f) == f = [i \in DOMAIN arena |-> ValueOf(arena, f, i)]
<1>1. 0 \in P
  <2>. DEFINE f == [i \in 1 .. n |-> 0]
  <2>1. Solves(f, 0)
    OBVIOUS
  <2>. HIDE DEF f, Solves
  <2>. QED  BY <2>1
<1>2. ASSUME NEW k \in 1 .. n, k - 1 \in P
      PROVE  k \in P
  <2>1. PICK f : Solves(f, k - 1)
    BY <1>2
  <2>. DEFINE m == n - k + 1
              g == [i \in 1 .. n |-> IF i = m THEN ValueOf(arena, f, m) ELSE f[i]]
  <2>2. m \in 1 .. n /\ k \in Nat
    OBVIOUS
  <2>3. \A i \in 1 .. n : i >= m => ValueOf(arena, g, i) = ValueOf(arena, f, i)
    <3>. SUFFICES ASSUME NEW i \in 1 .. n, i >= m
                  PROVE  ValueOf(arena, g, i) = ValueOf(arena, f, i)
      OBVIOUS
    <3>1. \A j \in DOMAIN arena[i].children : arena[i].children[j] \in 1 .. n /\ arena[i].children[j] # m
      BY DEF Later
    <3>2. \A j \in DOMAIN arena[i].children : g[arena[i].children[j]] = f[arena[i].children[j]]
      BY <3>1
    <3>. HIDE DEF g
    <3>. QED  BY <3>2 DEF ValueOf
  <2>4. \A i \in 1 .. n : i > n - k => g[i] = ValueOf(arena, g, i)
    <3>. SUFFICES ASSUME NEW i \in 1 .. n, i > n - k
                  PROVE  g[i] = ValueOf(arena, g, i)
      OBVIOUS
    <3>1. i >= m /\ (i # m => i > n - (k - 1))
      OBVIOUS
    <3>2. ValueOf(arena, g, i) = ValueOf(arena, f, i)
      BY <2>3, <3>1
    <3>3. g[i] = ValueOf(arena, f, i)
      BY <2>1, <3>1
    <3>. QED  BY <3>2, <3>3
  <2>5. DOMAIN g = 1 .. n
    OBVIOUS
  <2>6. Solves(g, k)
    <3>. HIDE DEF g
    <3>. QED  BY <2>4, <2>5
  <2>. HIDE DEF g, Solves
  <2>. QED  BY <2>2, <2>6
<1>3. n \in P
  <2>. HIDE DEF P
  <2>1. \A k \in 0 .. n : k \in P
    BY <1>1, <1>2, Induction
  <2>. QED  BY <2>1
<1>4. \E f : Solution(f)
  <2>1. PICK f : Solves(f, n)
    BY <1>3
  <2>. DEFINE g == [i \in 1 .. n |-> f[i]]
  <2>2. \A i \in 1 .. n : g[i] = f[i]
    OBVIOUS
  <2>3. \A i \in 1 .. n : ValueOf(arena, g, i) = ValueOf(arena, f, i)
    <3>. SUFFICES ASSUME NEW i \in 1 .. n
                  PROVE  ValueOf(arena, g, i) = ValueOf(arena, f, i)
      OBVIOUS
    <3>1. \A j \in DOMAIN arena[i].children : arena[i].children[j] \in 1 .. n
      BY DEF Later
    <3>. HIDE DEF g
    <3>. QED  BY <2>2, <3>1 DEF ValueOf
  <2>4. \A i \in 1 .. n : f[i] = ValueOf(arena, f, i)
    BY <2>1
  <2>5. g = [i \in 1 .. n |-> ValueOf(arena, g, i)]
    BY <2>3, <2>4
  <2>6. Solution(g)
    <3>. HIDE DEF g
    <3>. QED  BY <2>5 DEF Later
  <2>. HIDE DEF g, Solution
  <2>. QED  BY <2>6
<1>5. Meaning(arena) = CHOOSE f : Solution(f)
  BY DEF Meaning, ValueOf
<1>6. Solution(Meaning(arena))
  <2>. HIDE DEF Solution
  <2>. QED  BY <1>4, <1>5
<1>. QED  BY <1>6 DEF Later

(* Two arenas agree on a set closed under operands when every expression   *)
(* of the set has the same value in both, should its operands have.        *)
AgreeFromOperands(n, L, f, g) ==
  /\ n \in Nat /\ L \subseteq 1 .. n
  /\ \A i \in L : (\A j \in L : j > i => f[j] = g[j]) => f[i] = g[i]

LEMMA SameMeaning ==
  ASSUME NEW n, NEW L, NEW f, NEW g, AgreeFromOperands(n, L, f, g)
  PROVE  \A i \in L : f[i] = g[i]
<1>. n \in Nat /\ L \in SUBSET (1 .. n)
  BY DEF AgreeFromOperands
<1>. DEFINE P == {k \in Nat : \A i \in L : i > n - k => f[i] = g[i]}
<1>1. 0 \in P
  OBVIOUS
<1>2. ASSUME NEW k \in 1 .. n, k - 1 \in P
      PROVE  k \in P
  <2>1. \A i \in 1 .. n : i > n - k => i = n - k + 1 \/ i > n - (k - 1)
    OBVIOUS
  <2>2. \A i \in L : i > n - (k - 1) => f[i] = g[i]
    BY <1>2
  <2>3. \A i \in L : i = n - k + 1 => \A j \in L : j > i => j > n - (k - 1)
    OBVIOUS
  <2>4. \A i \in L : i = n - k + 1 => f[i] = g[i]
    BY <2>2, <2>3 DEF AgreeFromOperands
  <2>. QED  BY <2>1, <2>2, <2>4
<1>3. \A k \in 0 .. n : k \in P
  <2>. HIDE DEF P
  <2>. QED  BY <1>1, <1>2, Induction
<1>4. n \in P /\ \A i \in 1 .. n : i > n - n
  <2>. HIDE DEF P
  <2>1. n \in 0 .. n
    OBVIOUS
  <2>. QED  BY <1>3, <2>1
<1>. QED  BY <1>4

LEMMA LiteralMeans ==
  ASSUME NEW x, NEW u
  PROVE  /\ x.kind = "number" => Applied(x, u) = Plain(x.value)
         /\ x.kind = "boolean" => Applied(x, u) = Truth(x.value)
<1>. QED  BY DEF Applied, Plain

LEMMA ArenaLater ==
  ASSUME Arena
  PROVE  Later(expressions, Size) /\ Size \in Nat
<1>1. \A i \in 1 .. Size : \A k \in DOMAIN expressions[i].children : expressions[i].children[k] \in i + 1 .. Size
  BY ArenaNodes DEF Range
<1>. QED  BY <1>1, ArenaNodes DEF Later, Arena

(* A literal replaces an operator: no value changes, neither its own nor   *)
(* that of an expression it is an operand of.                              *)
LEMMA LeaveKeepsValues ==
  ASSUME ~ SignedZero, FoldInv, Leave
  PROVE  \A i \in 1 .. Size : Meaning(expressions')[i] = Meaning(expressions)[i]
<1>. DEFINE e == Last(path)
            f == Meaning(expressions')
            g == Meaning(expressions)
<1>1. program' = program /\ Size' = Size
  BY DEF Leave, Size
<1>2. Arena /\ Arena'
  BY FoldLeave DEF FoldInv
<1>3. Later(expressions, Size) /\ Later(expressions', Size) /\ Size \in Nat
  <2>1. Later(expressions, Size) /\ Size \in Nat
    BY <1>2, ArenaLater
  <2>2. \A i \in 1 .. Size : \A k \in DOMAIN expressions'[i].children : expressions'[i].children[k] \in i + 1 .. Size
    <3>1. Later(expressions, Size)'
      BY <1>2, ArenaLater, PTL
    <3>. QED  BY <1>1, <3>1 DEF Later
  <2>3. DOMAIN expressions' = 1 .. Size
    BY <1>1, <1>2 DEF Arena
  <2>. QED  BY <2>1, <2>2, <2>3 DEF Later
<1>4. /\ e \in 1 .. Size
      /\ \A i \in 1 .. Size : i # e => expressions'[i] = expressions[i]
      /\ \/ expressions' = expressions
         \/ Folded(expressions[e]) = {expressions'[e]} /\ expressions'[e].kind \in Literals
  BY LeaveChanges
<1>. HIDE DEF e
<1>5. /\ \A i \in 1 .. Size : f[i] = ValueOf(expressions', f, i)
      /\ \A i \in 1 .. Size : g[i] = ValueOf(expressions, g, i)
  BY <1>3, MeaningSolves
<1>. HIDE DEF f, g
<1>6. ASSUME NEW i \in 1 .. Size, \A j \in 1 .. Size : j > i => f[j] = g[j]
      PROVE  f[i] = g[i]
  <2>. DEFINE x == expressions[i]
              l == expressions'[i]
  <2>1. CASE l = x
    <3>1. \A k \in DOMAIN x.children : x.children[k] \in i + 1 .. Size
      BY <1>3 DEF Later
    <3>2. \A k \in DOMAIN x.children : f[x.children[k]] = g[x.children[k]]
      BY <1>3, <1>6, <3>1
    <3>3. ValueOf(expressions', f, i) = ValueOf(expressions, g, i)
      BY <2>1, <3>2 DEF ValueOf
    <3>. QED  BY <1>5, <3>3
  <2>2. CASE l # x
    <3>. DEFINE v == [k \in DOMAIN x.children |-> expressions[x.children[k]]]
                w == [k \in DOMAIN x.children |-> g[x.children[k]]]
    <3>1. l \in Replacement(x, v) /\ l.kind \in Literals
      BY <1>4, <2>2 DEF Folded
    <3>2. IsNode(x, i + 1 .. Size)
      <4>1. phase = "fold"
        BY DEF Leave
      <4>. QED  BY <1>2, <4>1 DEF Arena
    <3>3. \A k \in DOMAIN x.children : x.children[k] \in 1 .. Size
      BY <1>3 DEF Later
    <3>4. ASSUME NEW k \in DOMAIN v
          PROVE  /\ IsInteger(v[k]) => v[k].value \in Int /\ w[k] = Plain(v[k].value)
                 /\ IsBoolean(v[k]) => w[k] = Truth(v[k].value)
      <4>. DEFINE c == x.children[k]
      <4>1. c \in 1 .. Size /\ v[k] = expressions[c] /\ w[k] = g[c]
        BY <3>3
      <4>2. IsInteger(expressions[c]) => expressions[c].value \in Int
        BY <1>2, <4>1, ArenaNodes
      <4>. HIDE DEF c, v, w
      <4>3. w[k] = ValueOf(expressions, g, c)
        BY <1>5, <4>1
      <4>4. /\ expressions[c].kind = "number" => w[k] = Plain(expressions[c].value)
            /\ expressions[c].kind = "boolean" => w[k] = Truth(expressions[c].value)
        BY <4>3, LiteralMeans DEF ValueOf
      <4>. QED  BY <4>1, <4>2, <4>4 DEF IsInteger, IsBoolean
    <3>5. DOMAIN v = DOMAIN x.children /\ DOMAIN w = DOMAIN x.children
      OBVIOUS
    <3>6. ValueOf(expressions, g, i) = Applied(x, w)
      BY DEF ValueOf
    <3>. HIDE DEF v, w, x
    <3>7. Applied(x, w) = IF l.kind = "number" THEN Plain(l.value) ELSE Truth(l.value)
      <4>. HIDE DEF l
      <4>. QED  BY <3>1, <3>2, <3>4, <3>5, ReplacementMeans
    <3>8. ValueOf(expressions', f, i) = IF l.kind = "number" THEN Plain(l.value) ELSE Truth(l.value)
      BY <3>1, LiteralMeans DEF ValueOf, Literals
    <3>. QED  BY <1>5, <3>6, <3>7, <3>8
  <2>. QED  BY <2>1, <2>2
<1>7. \A i \in 1 .. Size : f[i] = g[i]
  <2>. DEFINE L == 1 .. Size
  <2>1. AgreeFromOperands(Size, L, f, g)
    BY <1>3, <1>6 DEF AgreeFromOperands
  <2>. HIDE DEF L
  <2>2. \A i \in L : f[i] = g[i]
    BY <2>1, SameMeaning
  <2>. QED  BY <2>2 DEF L
<1>. QED  BY <1>7 DEF f, g

(* Retiring what cannot be reached changes no value of the rest.           *)
LEMMA SweepKeepsValues ==
  ASSUME FoldInv, Sweep
  PROVE  \A i \in Live' : i \in Live /\ Meaning(expressions')[i] = Meaning(expressions)[i]
<1>. DEFINE f == Meaning(expressions')
            g == Meaning(expressions)
<1>1. /\ phase = "fold" /\ program' = program /\ Size' = Size
      /\ \/ expressions' = [e \in DOMAIN expressions |-> IF e \in Dead THEN Retired ELSE expressions[e]]
         \/ expressions' = expressions
  BY DEF Sweep, Size
<1>2. Arena /\ Arena' /\ Size \in Nat
  BY FoldSweep, ArenaLater DEF FoldInv
<1>3. /\ Uses \subseteq Reached /\ Reached \subseteq 1 .. Size
      /\ \A e \in Reached : Range(expressions[e].children) \subseteq Reached
  BY <1>2, ReachedClosed
<1>4. Live = 1 .. Size
  <2>1. \A e \in 1 .. Size : expressions[e].kind # "retired"
    BY <1>1, <1>2 DEF Arena, IsNode, Literals
  <2>2. DOMAIN expressions = 1 .. Size
    BY <1>2 DEF Arena
  <2>. QED  BY <2>1, <2>2 DEF Live
<1>5. CASE expressions' = expressions
  BY <1>5 DEF Live
<1>6. CASE expressions' = [e \in DOMAIN expressions |-> IF e \in Dead THEN Retired ELSE expressions[e]]
  <2>1. DOMAIN expressions = 1 .. Size /\ DOMAIN expressions' = 1 .. Size
    BY <1>2, <1>6 DEF Arena
  <2>2. Retired.kind = "retired"
    BY DEF Retired, Literal
  <2>3. Live' = Reached /\ \A e \in Reached : expressions'[e] = expressions[e]
    <3>1. \A e \in 1 .. Size : e \in Dead <=> e \notin Reached
      BY <1>4 DEF Dead
    <3>2. \A e \in Reached : expressions'[e] = expressions[e] /\ e \in Live
      BY <1>3, <1>4, <1>6, <2>1, <3>1
    <3>3. \A e \in 1 .. Size : e \notin Reached => expressions'[e] = Retired
      BY <1>6, <2>1, <3>1
    <3>4. Live' = {e \in 1 .. Size : expressions'[e].kind # "retired"}
      BY <2>1 DEF Live
    <3>5. \A e \in Reached : expressions[e].kind # "retired"
      BY <3>2 DEF Live
    <3>. QED  BY <1>3, <2>2, <3>2, <3>3, <3>4, <3>5
  <2>4. Later(expressions, Size) /\ Later(expressions', Size)
    <3>1. Later(expressions, Size)'
      BY <1>2, ArenaLater, PTL
    <3>. QED  BY <1>1, <1>2, <3>1, ArenaLater DEF Later
  <2>5. /\ \A i \in 1 .. Size : f[i] = ValueOf(expressions', f, i)
        /\ \A i \in 1 .. Size : g[i] = ValueOf(expressions, g, i)
    BY <1>2, <2>4, MeaningSolves
  <2>. HIDE DEF f, g
  <2>6. ASSUME NEW i \in Reached, \A j \in Reached : j > i => f[j] = g[j]
        PROVE  f[i] = g[i]
    <3>1. \A k \in DOMAIN expressions[i].children :
            expressions[i].children[k] \in Reached /\ expressions[i].children[k] \in i + 1 .. Size
      BY <1>3, <2>4 DEF Later, Range
    <3>2. \A k \in DOMAIN expressions[i].children : f[expressions[i].children[k]] = g[expressions[i].children[k]]
      BY <1>2, <1>3, <2>6, <3>1
    <3>3. ValueOf(expressions', f, i) = ValueOf(expressions, g, i)
      BY <2>3, <3>2 DEF ValueOf
    <3>. QED  BY <1>3, <2>5, <3>3
  <2>7. \A i \in Reached : f[i] = g[i]
    <3>1. AgreeFromOperands(Size, Reached, f, g)
      BY <1>2, <1>3, <2>6 DEF AgreeFromOperands
    <3>. QED  BY <3>1, SameMeaning
  <2>. QED  BY <1>3, <1>4, <2>3, <2>7 DEF f, g
<1>. QED  BY <1>1, <1>5, <1>6

(* Where numbers have no negative zero, every expression that is left      *)
(* stands for the value it had in the source, for integers of any width    *)
(* and any bound of the exact ones.                                        *)
THEOREM FoldedValues ==
  ASSUME ~ SignedZero
  PROVE  Spec => []FoldingKeepsValues
<1>. DEFINE Inv == PassInv /\ FoldingKeepsValues
<1>1. Init => Inv
  <2>. SUFFICES ASSUME Init PROVE Inv
    OBVIOUS
  <2>1. expressions = program.expressions
    BY DEF Init
  <2>. QED  BY <2>1, PassInit DEF FoldingKeepsValues
<1>2. Inv /\ [Next]_vars => Inv'
  <2>. SUFFICES ASSUME Inv, [Next]_vars PROVE Inv'
    OBVIOUS
  <2>1. PassInv'
    BY PassStep
  <2>2. FoldInv /\ \A i \in Live : Meaning(expressions)[i] = Meaning(program.expressions)[i]
    BY DEF PassInv, FoldingKeepsValues
  <2>3. program' = program
    BY DEF Next, StartNext, Descend, Leave, Sweep, vars
  <2>4. \A i \in Live' : i \in Live /\ Meaning(expressions')[i] = Meaning(expressions)[i]
    <3>1. CASE Leave
      <4>1. phase = "fold" /\ Arena
        BY <2>2, <3>1 DEF Leave, FoldInv
      <4>2. \A e \in 1 .. Size : expressions[e].kind # "retired"
        BY <4>1 DEF Arena, IsNode, Literals
      <4>3. DOMAIN expressions = 1 .. Size /\ DOMAIN expressions' = 1 .. Size
        BY <2>2, <3>1, <4>1, LeaveChanges DEF Arena
      <4>4. Live = 1 .. Size /\ Live' \subseteq 1 .. Size
        BY <4>2, <4>3 DEF Live
      <4>. QED  BY <2>2, <3>1, <4>4, LeaveKeepsValues
    <3>2. CASE Sweep
      BY <2>2, <3>2, SweepKeepsValues
    <3>3. CASE expressions' = expressions
      BY <3>3 DEF Live
    <3>. QED  BY <3>1, <3>2, <3>3 DEF Next, StartNext, Descend, vars
  <2>5. FoldingKeepsValues'
    BY <2>2, <2>3, <2>4 DEF FoldingKeepsValues
  <2>. QED  BY <2>1, <2>5
<1>. QED  BY <1>1, <1>2, PTL DEF Spec
=============================================================================
