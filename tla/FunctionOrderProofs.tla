------------------------- MODULE FunctionOrderProofs -------------------------
(***************************************************************************)
(* Proofs for every call graph: what the analyzer and the back end find    *)
(* when they follow the definition order, and that the components found by *)
(* low links are those of the functions that call themselves, directly or  *)
(* not.  The order does not depend on the low links, and is proved first.  *)
(***************************************************************************)
EXTENDS FunctionOrder, FiniteSetTheorems, SequenceTheorems, WellFoundedInduction, TLAPS

F == Functions(module)
Frames == [function : F, next_dependency : Nat \ {0}]

Basic ==
  /\ module \in Modules
  /\ next_root \in Nat \ {0}
  /\ traversal \in Seq(Frames)
  /\ discovery \in [F -> Int]
  /\ next_discovery \in Nat
  /\ definition_order \in Seq(F)

(* Every frame was entered by a call of the frame before it.               *)
Chain ==
  \A i \in 1 .. Len(traversal) - 1 :
    traversal[i + 1].function \in Callees(module, traversal[i].function)

OnTraversal(f) == \E i \in 1 .. Len(traversal) : traversal[i].function = f
IsListed(f) == \E i \in 1 .. Len(definition_order) : definition_order[i] = f

(* What was discovered is listed or still on the traversal.                *)
Seen == \A f \in F : discovery[f] # Unvisited => IsListed(f) \/ OnTraversal(f)

(* The dependencies a frame has moved past were discovered.                *)
Followed ==
  \A i \in 1 .. Len(traversal) :
    \A k \in DOMAIN module.dependencies[traversal[i].function] :
      k < traversal[i].next_dependency =>
        discovery[module.dependencies[traversal[i].function][k]] # Unvisited

(* The roots the search has moved past were discovered.                    *)
RootsSeen ==
  \A i \in DOMAIN module.functions : i < next_root => discovery[module.functions[i]] # Unvisited

SearchInv == Basic /\ Chain /\ Seen /\ Followed /\ RootsSeen /\ CalleesFirst

-----------------------------------------------------------------------------

(* What the assumption on modules says of the module being searched.       *)
LEMMA ModuleFacts ==
  ASSUME module \in Modules
  PROVE  /\ module.count \in Nat
         /\ Len(module.functions) \in Nat
         /\ DOMAIN module.functions = 1 .. Len(module.functions)
         /\ \A i \in DOMAIN module.functions : module.functions[i] \in F
         /\ F \subseteq 1 .. module.count
         /\ \A f \in F : /\ Len(module.dependencies[f]) \in Nat
                         /\ DOMAIN module.dependencies[f] = 1 .. Len(module.dependencies[f])
                         /\ \A k \in DOMAIN module.dependencies[f] :
                              module.dependencies[f][k] \in F
                         /\ Callees(module, f) = module.calls[f] \ {0}
         /\ \A n \in 1 .. module.count : module.calls[n] \ {0} \subseteq F
  <1>1. WellFormed(module)
    BY ModulesAssumption
  <1>2. module.functions \in Seq(1 .. module.count) /\ module.count \in Nat
    BY <1>1 DEF WellFormed
  <1>3. /\ Len(module.functions) \in Nat
        /\ DOMAIN module.functions = 1 .. Len(module.functions)
        /\ \A i \in DOMAIN module.functions : module.functions[i] \in 1 .. module.count
    BY <1>2
  <1>4. F \subseteq 1 .. module.count /\ \A i \in DOMAIN module.functions : module.functions[i] \in F
    BY <1>3 DEF F, Functions
  <1>5. ASSUME NEW f \in F
        PROVE  /\ Len(module.dependencies[f]) \in Nat
               /\ DOMAIN module.dependencies[f] = 1 .. Len(module.dependencies[f])
               /\ \A k \in DOMAIN module.dependencies[f] : module.dependencies[f][k] \in F
    <2>1. module.dependencies[f] \in Seq(F)
      BY <1>1 DEF WellFormed, F
    <2> QED
      BY <2>1
  <1>6. /\ \A f \in F : Callees(module, f) = module.calls[f] \ {0}
        /\ \A n \in 1 .. module.count : module.calls[n] \ {0} \subseteq F
    BY <1>1 DEF WellFormed, F
  <1> QED
    BY <1>2, <1>3, <1>4, <1>5, <1>6

(* A sequence without its last element.                                    *)
LEMMA PoppedSequence ==
  ASSUME NEW T, NEW s \in Seq(T), s # <<>>
  PROVE  /\ SubSeq(s, 1, Len(s) - 1) \in Seq(T)
         /\ Len(SubSeq(s, 1, Len(s) - 1)) = Len(s) - 1
         /\ \A i \in 1 .. Len(s) - 1 : SubSeq(s, 1, Len(s) - 1)[i] = s[i]
  <1>1. Len(s) \in Nat \ {0}
    BY EmptySeq
  <1> DEFINE n == Len(s) - 1
  <1>2. n \in Nat /\ \A i \in 1 .. n : s[i] \in T
    BY <1>1
  <1> HIDE DEF n
  <1>3. /\ SubSeq(s, 1, n) \in Seq(T)
        /\ Len(SubSeq(s, 1, n)) = IF 1 <= n THEN n - 1 + 1 ELSE 0
        /\ \A i \in 1 .. n - 1 + 1 : SubSeq(s, 1, n)[i] = s[1 + i - 1]
    BY <1>2, SubSeqProperties
  <1>4. /\ SubSeq(s, 1, n) \in Seq(T)
        /\ Len(SubSeq(s, 1, n)) = n
        /\ \A i \in 1 .. n : SubSeq(s, 1, n)[i] = s[i]
    BY <1>2, <1>3
  <1> QED
    BY <1>4 DEF n

(* The innermost frame, and the traversal with and without it.             *)
LEMMA TopFacts ==
  ASSUME Basic, traversal # <<>>
  PROVE  /\ Len(traversal) \in Nat \ {0}
         /\ Top = traversal[Len(traversal)]
         /\ Top \in Frames /\ Top.function \in F /\ Top.next_dependency \in Nat \ {0}
         /\ \A i \in 1 .. Len(traversal) : traversal[i] \in Frames /\ traversal[i].function \in F
  <1>1. traversal \in Seq(Frames) /\ Len(traversal) \in Nat \ {0}
    BY EmptySeq DEF Basic
  <1>2. \A i \in 1 .. Len(traversal) : traversal[i] \in Frames
    <2> HIDE DEF Frames
    <2> QED BY <1>1
  <1> QED
    BY <1>1, <1>2 DEF Top, Frames

LEMMA AdvancedFacts ==
  ASSUME Basic, traversal # <<>>
  PROVE  /\ Advanced \in Seq(Frames)
         /\ Len(Advanced) = Len(traversal)
         /\ \A i \in 1 .. Len(traversal) : Advanced[i].function = traversal[i].function
         /\ \A i \in 1 .. Len(traversal) :
              i # Len(traversal) => Advanced[i].next_dependency = traversal[i].next_dependency
         /\ Advanced[Len(traversal)].next_dependency = Top.next_dependency + 1
  <1> DEFINE moved == [traversal[Len(traversal)] EXCEPT !.next_dependency = @ + 1]
  <1>1. moved \in Frames /\ moved.function = Top.function
        /\ moved.next_dependency = Top.next_dependency + 1
    BY TopFacts DEF Frames, Top
  <1>2. Advanced = [traversal EXCEPT ![Len(traversal)] = moved]
    BY DEF Advanced
  <1> HIDE DEF moved
  <1>3. traversal \in Seq(Frames) /\ Len(traversal) \in 1 .. Len(traversal)
    BY TopFacts DEF Basic
  <1> HIDE DEF Frames
  <1>4. /\ Advanced \in Seq(Frames)
        /\ Len(Advanced) = Len(traversal)
        /\ \A i \in 1 .. Len(traversal) :
             Advanced[i] = IF i = Len(traversal) THEN moved ELSE traversal[i]
    <2> DEFINE except == [traversal EXCEPT ![Len(traversal)] = moved]
    <2>1. /\ except \in Seq(Frames)
          /\ Len(except) = Len(traversal)
          /\ \A i \in 1 .. Len(traversal) :
               except[i] = IF i = Len(traversal) THEN moved ELSE traversal[i]
      BY <1>1, <1>3
    <2> HIDE DEF except
    <2> QED
      BY <2>1, <1>2 DEF except
  <1> QED
    BY <1>1, <1>3, <1>4 DEF Top

(* A set of natural numbers that is not empty has a least element.         *)
LEMMA Least ==
  ASSUME NEW S, S \subseteq Nat, S # {}
  PROVE  \E m \in S : \A x \in S : m <= x
  <1>1. PICK m \in S : \A x \in S : ~ (<<x, m>> \in OpToRel(<, Nat))
    BY NatLessThanWellFounded, WFMin
  <1>2. \A x \in S : ~ (x < m)
    BY <1>1 DEF OpToRel
  <1>3. m \in Nat /\ \A x \in S : x \in Nat
    OBVIOUS
  <1> QED
    BY <1>2, <1>3

(* The calls of every function on the traversal lead to the innermost one: *)
(* a closed set that one of them is in cannot be left along the chain.     *)
LEMMA ChainLeads ==
  ASSUME Basic, Chain, traversal # <<>>, NEW i \in 1 .. Len(traversal)
  PROVE  LeadsTo(traversal[i].function, Top.function)
  <1> SUFFICES ASSUME NEW S \in SUBSET F, traversal[i].function \in S, Closed(S),
                      Top.function \notin S
               PROVE  FALSE
    BY DEF LeadsTo, F
  <1> DEFINE outside == {j \in i .. Len(traversal) : traversal[j].function \notin S}
  <1>1. Len(traversal) \in Nat /\ i \in Nat \ {0} /\ Top = traversal[Len(traversal)]
    BY TopFacts
  <1>2. outside \subseteq Nat /\ Len(traversal) \in outside
    BY <1>1
  <1>3. PICK m \in outside : \A x \in outside : m <= x
    BY <1>2, Least
  <1>4. m # i /\ m \in i .. Len(traversal)
    BY <1>3
  <1>5. m - 1 \in 1 .. Len(traversal) - 1 /\ m - 1 \in i .. Len(traversal) /\ m - 1 + 1 = m
    BY <1>1, <1>4
  <1>6. m - 1 \notin outside
    BY <1>1, <1>3, <1>5
  <1>7. traversal[m - 1].function \in S
    BY <1>5, <1>6
  <1>8. traversal[m].function \in Callees(module, traversal[m - 1].function)
    BY <1>5 DEF Chain
  <1>9. traversal[m].function \in S
    BY <1>7, <1>8 DEF Closed
  <1> QED
    BY <1>3, <1>9

-----------------------------------------------------------------------------

LEMMA InitSearch == Init => SearchInv
  <1> SUFFICES ASSUME Init PROVE SearchInv
    OBVIOUS
  <1>1. Len(traversal) = 0 /\ Len(definition_order) = 0 /\ DOMAIN definition_order = {}
    BY DEF Init
  <1>2. Basic
    BY DEF Init, Basic, F, Unvisited
  <1>3. Chain /\ Followed /\ CalleesFirst
    BY <1>1 DEF Chain, Followed, CalleesFirst
  <1>4. Seen
    BY DEF Init, Seen, F
  <1>5. RootsSeen
    BY <1>2, ModuleFacts DEF Init, RootsSeen
  <1> QED
    BY <1>2, <1>3, <1>4, <1>5 DEF SearchInv

(* Entering f from frames that say the same of what is on the traversal.   *)
LEMMA EnterStep ==
  ASSUME SearchInv, NEW f \in F, NEW frames \in Seq(Frames), Len(frames) = Len(traversal),
         \A i \in 1 .. Len(traversal) : frames[i].function = traversal[i].function,
         \A i \in 1 .. Len(traversal) :
           \A k \in DOMAIN module.dependencies[traversal[i].function] :
             k < frames[i].next_dependency =>
               \/ discovery[module.dependencies[traversal[i].function][k]] # Unvisited
               \/ module.dependencies[traversal[i].function][k] = f,
         traversal # <<>> => f \in Callees(module, Top.function),
         Enter(f, frames), UNCHANGED <<module, definition_order>>
  PROVE  /\ traversal' \in Seq(Frames) /\ discovery' \in [F -> Int] /\ next_discovery' \in Nat
         /\ Chain' /\ Seen' /\ Followed' /\ CalleesFirst'
         /\ discovery'[f] # Unvisited
         /\ \A g \in F : discovery[g] # Unvisited => discovery'[g] # Unvisited
  <1> DEFINE n == Len(traversal)
  <1>1. Basic /\ n \in Nat
    BY DEF SearchInv, Basic
  <1>2. Frame(f) \in Frames
    BY DEF Frame, Frames
  <1>3. /\ traversal' \in Seq(Frames) /\ Len(traversal') = n + 1
        /\ \A i \in 1 .. n : traversal'[i] = frames[i]
        /\ traversal'[n + 1] = Frame(f)
    <2> HIDE DEF Frames
    <2> QED BY <1>2 DEF Enter
  <1>4. /\ \A i \in 1 .. n : traversal'[i].function = traversal[i].function
        /\ traversal'[n + 1].function = f /\ traversal'[n + 1].next_dependency = 1
    BY <1>3 DEF Frame
  <1>5. /\ discovery' \in [F -> Int] /\ next_discovery' \in Nat /\ discovery'[f] # Unvisited
        /\ \A g \in F : g # f => discovery'[g] = discovery[g]
    BY <1>1 DEF Basic, Enter, Unvisited
  <1>6. F' = F /\ module' = module
    BY DEF F
  <1>7. Chain'
    <2> SUFFICES ASSUME NEW i \in 1 .. n
                 PROVE  traversal'[i + 1].function \in Callees(module, traversal'[i].function)
      BY <1>1, <1>3, <1>6 DEF Chain
    <2>1. CASE i = n
      <3>1. traversal # <<>>
        BY <1>1, <2>1
      <3>2. traversal'[i].function = Top.function
        BY <1>4, <2>1 DEF Top
      <3> QED
        BY <1>4, <2>1, <3>1, <3>2
    <2>2. CASE i # n
      <3>1. i \in 1 .. n - 1 /\ i + 1 \in 1 .. n
        BY <1>1, <2>2
      <3>2. traversal[i + 1].function \in Callees(module, traversal[i].function)
        BY <3>1 DEF SearchInv, Chain
      <3> QED
        BY <1>4, <3>1, <3>2
    <2> QED
      BY <2>1, <2>2
  <1>8. Seen'
    <2> SUFFICES ASSUME NEW g \in F, discovery'[g] # Unvisited
                 PROVE  (IsListed(g) \/ OnTraversal(g))'
      BY <1>6 DEF Seen
    <2>1. CASE g = f
      BY <1>1, <1>3, <1>4, <2>1 DEF OnTraversal
    <2>2. CASE g # f
      <3>1. IsListed(g) \/ OnTraversal(g)
        BY <1>5, <2>2 DEF SearchInv, Seen
      <3>2. IsListed(g) => IsListed(g)'
        BY DEF IsListed
      <3>3. OnTraversal(g) => OnTraversal(g)'
        BY <1>1, <1>3, <1>4 DEF OnTraversal
      <3> QED
        BY <3>1, <3>2, <3>3
    <2> QED
      BY <2>1, <2>2
  <1>9. Followed'
    <2> SUFFICES ASSUME NEW i \in 1 .. n + 1,
                        NEW k \in DOMAIN module.dependencies[traversal'[i].function],
                        k < traversal'[i].next_dependency
                 PROVE  discovery'[module.dependencies[traversal'[i].function][k]] # Unvisited
      BY <1>3, <1>6 DEF Followed
    <2>1. \A g \in F : DOMAIN module.dependencies[g] = 1 .. Len(module.dependencies[g])
                       /\ Len(module.dependencies[g]) \in Nat
      BY <1>1, ModuleFacts DEF Basic
    <2>2. CASE i = n + 1
      BY <1>4, <2>1, <2>2
    <2>3. CASE i # n + 1
      <3>1. i \in 1 .. n /\ k < frames[i].next_dependency
        BY <1>1, <1>3, <2>3
      <3>2. traversal'[i].function = traversal[i].function /\ traversal[i].function \in F
        BY <1>1, <1>4, <3>1, TopFacts
      <3>3. module.dependencies[traversal[i].function][k] \in F
        BY <1>1, <3>2, ModuleFacts DEF Basic
      <3> DEFINE d == module.dependencies[traversal[i].function][k]
      <3>4. discovery[d] # Unvisited \/ d = f
        BY <3>1, <3>2
      <3> HIDE DEF d
      <3>5. discovery'[d] # Unvisited
        BY <1>5, <3>3, <3>4 DEF d
      <3> QED
        BY <3>2, <3>5 DEF d
    <2> QED
      BY <2>2, <2>3
  <1>10. CalleesFirst'
    BY DEF SearchInv, CalleesFirst, LeadsTo, Closed
  <1> QED
    BY <1>3, <1>5, <1>7, <1>8, <1>9, <1>10

LEMMA RootStep == SearchInv /\ Root => SearchInv'
  <1> SUFFICES ASSUME SearchInv, Root PROVE SearchInv'
    OBVIOUS
  <1> DEFINE f == module.functions[next_root]
  <1>1. Basic /\ f \in F /\ F' = F /\ module' = module /\ definition_order' = definition_order
    BY ModuleFacts DEF SearchInv, Basic, Root, F
  <1>2. next_root' \in Nat \ {0} /\ next_root' = next_root + 1
    BY <1>1 DEF Basic, Root
  <1>3. CASE discovery[f] = Unvisited
    <2>1. Enter(f, traversal) /\ traversal = <<>> /\ Len(traversal) = 0 /\ traversal \in Seq(Frames)
      BY <1>1, <1>3 DEF Root, Basic
    <2>2. UNCHANGED <<module, definition_order>>
      BY <1>1
    <2>5. \A i \in 1 .. Len(traversal) : FALSE
      BY <2>1
    <2> HIDE DEF f, Frames
    <2>3. /\ traversal' \in Seq(Frames) /\ discovery' \in [F -> Int] /\ next_discovery' \in Nat
          /\ Chain' /\ Seen' /\ Followed' /\ CalleesFirst'
          /\ discovery'[f] # Unvisited
          /\ \A g \in F : discovery[g] # Unvisited => discovery'[g] # Unvisited
      BY <1>1, <2>1, <2>2, <2>5, EnterStep
    <2>4. RootsSeen'
      <3> SUFFICES ASSUME NEW i \in DOMAIN module.functions, i < next_root + 1
                   PROVE  discovery'[module.functions[i]] # Unvisited
        BY <1>1, <1>2 DEF RootsSeen
      <3>1. i \in Nat /\ next_root \in Nat /\ module.functions[i] \in F
        BY <1>1, ModuleFacts DEF Basic
      <3>2. CASE i = next_root
        <4>1. module.functions[i] = f
          BY <3>2 DEF f
        <4> QED
          BY <2>3, <4>1
      <3>3. CASE i # next_root
        BY <2>3, <3>1, <3>3 DEF SearchInv, RootsSeen
      <3> QED
        BY <3>2, <3>3
    <2> QED
      BY <1>1, <1>2, <2>3, <2>4 DEF SearchInv, Basic, Frames
  <1>4. CASE discovery[f] # Unvisited
    <2>1. UNCHANGED <<traversal, discovery, next_discovery>>
      BY <1>4 DEF Root
    <2>2. RootsSeen'
      <3> SUFFICES ASSUME NEW i \in DOMAIN module.functions, i < next_root + 1
                   PROVE  discovery[module.functions[i]] # Unvisited
        BY <1>1, <1>2, <2>1 DEF RootsSeen
      <3>1. i \in Nat /\ next_root \in Nat
        BY <1>1, ModuleFacts DEF Basic
      <3> QED
        BY <1>4, <3>1 DEF SearchInv, RootsSeen
    <2> QED
      BY ZenonT(30), <1>1, <1>2, <2>1, <2>2
      DEF SearchInv, Basic, Frames, Chain, Seen, Followed, CalleesFirst, IsListed, OnTraversal,
          LeadsTo, Closed
  <1> QED
    BY <1>3, <1>4

LEMMA FollowStep == SearchInv /\ Follow => SearchInv'
  <1> SUFFICES ASSUME SearchInv, Follow PROVE SearchInv'
    OBVIOUS
  <1> DEFINE n == Len(traversal)
             f == Top.function
             d == module.dependencies[f][Top.next_dependency]
  <1>1. Basic /\ traversal # <<>> /\ F' = F /\ module' = module
        /\ definition_order' = definition_order /\ next_root' = next_root
    BY DEF SearchInv, Follow, F
  <1>2. /\ n \in Nat \ {0} /\ Top = traversal[n] /\ f \in F
        /\ Top.next_dependency \in Nat \ {0}
        /\ \A i \in 1 .. n : traversal[i] \in Frames /\ traversal[i].function \in F
    BY <1>1, TopFacts
  <1>3. Top.next_dependency \in DOMAIN module.dependencies[f] /\ d \in F
        /\ d \in Callees(module, f)
    BY <1>1, <1>2, ModuleFacts DEF Follow, Basic, Callees
  <1>4. /\ Advanced \in Seq(Frames) /\ Len(Advanced) = n
        /\ \A i \in 1 .. n : Advanced[i].function = traversal[i].function
        /\ \A i \in 1 .. n : i # n => Advanced[i].next_dependency = traversal[i].next_dependency
        /\ Advanced[n].next_dependency = Top.next_dependency + 1
    BY <1>1, AdvancedFacts
  <1>5. \A i \in 1 .. n : \A k \in DOMAIN module.dependencies[traversal[i].function] :
          k < Advanced[i].next_dependency =>
            \/ discovery[module.dependencies[traversal[i].function][k]] # Unvisited
            \/ module.dependencies[traversal[i].function][k] = d
    <2> SUFFICES ASSUME NEW i \in 1 .. n, NEW k \in DOMAIN module.dependencies[traversal[i].function],
                        k < Advanced[i].next_dependency,
                        discovery[module.dependencies[traversal[i].function][k]] = Unvisited
                 PROVE  module.dependencies[traversal[i].function][k] = d
      OBVIOUS
    <2>1. k \in Nat
      BY SMTT(30), <1>1, <1>2, ModuleFacts DEF Basic
    <2>2. ~ (k < traversal[i].next_dependency)
      BY DEF SearchInv, Followed
    <2>3. i = n
      BY <1>4, <2>2
    <2>4. k = Top.next_dependency
      BY <1>2, <1>4, <2>1, <2>2, <2>3
    <2> QED
      BY <1>2, <2>3, <2>4
  <1>6. CASE discovery[d] = Unvisited
    <2>1. Enter(d, Advanced)
      BY <1>6 DEF Follow
    <2> HIDE DEF d, f
    <2>2. UNCHANGED <<module, definition_order>> /\ (traversal # <<>> => d \in Callees(module, Top.function))
      BY <1>1, <1>3 DEF f
    <2>3. /\ traversal' \in Seq(Frames) /\ discovery' \in [F -> Int] /\ next_discovery' \in Nat
          /\ Chain' /\ Seen' /\ Followed' /\ CalleesFirst'
          /\ \A g \in F : discovery[g] # Unvisited => discovery'[g] # Unvisited
      BY <1>3, <1>4, <1>5, <2>1, <2>2, EnterStep
    <2>4. RootsSeen'
      BY <1>1, <2>3, ModuleFacts DEF SearchInv, RootsSeen, Basic
    <2> QED
      BY <1>1, <2>3, <2>4 DEF SearchInv, Basic, Frames
  <1>7. CASE discovery[d] # Unvisited
    <2>1. traversal' = Advanced /\ UNCHANGED <<discovery, next_discovery>>
      BY <1>7 DEF Follow
    <2> HIDE DEF d, f
    <2>2. Basic'
      BY <1>1, <1>4, <2>1 DEF Basic, Frames
    <2>3. Chain'
      <3> SUFFICES ASSUME NEW i \in 1 .. n - 1
                   PROVE  Advanced[i + 1].function \in Callees(module, Advanced[i].function)
        BY <1>1, <1>4, <2>1 DEF Chain
      <3>1. i \in 1 .. n /\ i + 1 \in 1 .. n
        BY <1>2
      <3> QED
        BY <1>4, <3>1 DEF SearchInv, Chain
    <2>4. Seen'
      <3>1. \A g : OnTraversal(g) => OnTraversal(g)'
        BY <1>4, <2>1 DEF OnTraversal
      <3> QED
        BY <1>1, <2>1, <3>1 DEF SearchInv, Seen, IsListed
    <2>5. Followed'
      <3> SUFFICES ASSUME NEW i \in 1 .. n, NEW k \in DOMAIN module.dependencies[Advanced[i].function],
                          k < Advanced[i].next_dependency
                   PROVE  discovery[module.dependencies[Advanced[i].function][k]] # Unvisited
        BY <1>1, <1>4, <2>1 DEF Followed
      <3> QED
        BY <1>4, <1>5, <1>7
    <2>6. RootsSeen' /\ CalleesFirst'
      BY <1>1, <2>1 DEF SearchInv, RootsSeen, CalleesFirst, LeadsTo, Closed
    <2> QED
      BY <2>2, <2>3, <2>4, <2>5, <2>6 DEF SearchInv
  <1> QED
    BY <1>6, <1>7

LEMMA LeaveStep == SearchInv /\ Leave => SearchInv'
  <1> SUFFICES ASSUME SearchInv, Leave PROVE SearchInv'
    OBVIOUS
  <1> DEFINE n == Len(traversal)
             m == Len(definition_order)
             f == Top.function
  <1>1. Basic /\ traversal # <<>> /\ F' = F /\ module' = module
        /\ UNCHANGED <<next_root, discovery, next_discovery>>
        /\ traversal' = Popped /\ definition_order' = Append(definition_order, f)
    BY DEF SearchInv, Leave, F, Listed
  <1>2. /\ n \in Nat \ {0} /\ Top = traversal[n] /\ f \in F /\ traversal \in Seq(Frames)
        /\ \A i \in 1 .. n : traversal[i] \in Frames /\ traversal[i].function \in F
    BY <1>1, TopFacts DEF Basic
  <1>3. /\ Popped \in Seq(Frames) /\ Len(Popped) = n - 1
        /\ \A i \in 1 .. n - 1 : Popped[i] = traversal[i]
    <2> HIDE DEF Frames
    <2> QED BY <1>1, <1>2, PoppedSequence DEF Popped
  <1>4. /\ definition_order' \in Seq(F) /\ Len(definition_order') = m + 1 /\ m \in Nat
        /\ DOMAIN definition_order' = 1 .. m + 1 /\ DOMAIN definition_order = 1 .. m
        /\ \A i \in 1 .. m : definition_order'[i] = definition_order[i]
        /\ definition_order'[m + 1] = f
    BY <1>1, <1>2 DEF Basic
  <1>5. Basic'
    BY <1>1, <1>3, <1>4 DEF Basic, Frames
  <1>6. Chain'
    <2> SUFFICES ASSUME NEW i \in 1 .. n - 1 - 1
                 PROVE  Popped[i + 1].function \in Callees(module, Popped[i].function)
      BY <1>1, <1>3 DEF Chain
    <2>1. i \in 1 .. n - 1 /\ i + 1 \in 1 .. n - 1
      BY <1>2
    <2> QED
      BY <1>3, <2>1 DEF SearchInv, Chain
  <1>7. Seen'
    <2> SUFFICES ASSUME NEW g \in F, discovery[g] # Unvisited PROVE (IsListed(g) \/ OnTraversal(g))'
      BY <1>1 DEF Seen
    <2>1. IsListed(g) \/ OnTraversal(g)
      BY DEF SearchInv, Seen
    <2>2. IsListed(g) => IsListed(g)'
      BY <1>4 DEF IsListed
    <2>3. ASSUME NEW i \in 1 .. n, traversal[i].function = g
          PROVE  (IsListed(g) \/ OnTraversal(g))'
      <3>1. CASE i = n
        BY <1>2, <1>4, <2>3, <3>1 DEF IsListed
      <3>2. CASE i # n
        BY <1>1, <1>2, <1>3, <2>3, <3>2 DEF OnTraversal
      <3> QED
        BY <3>1, <3>2
    <2> QED
      BY <2>1, <2>2, <2>3 DEF OnTraversal
  <1>8. Followed'
    <2> SUFFICES ASSUME NEW i \in 1 .. n - 1,
                        NEW k \in DOMAIN module.dependencies[Popped[i].function],
                        k < Popped[i].next_dependency
                 PROVE  discovery[module.dependencies[Popped[i].function][k]] # Unvisited
      BY <1>1, <1>3 DEF Followed
    <2>1. i \in 1 .. n /\ Popped[i] = traversal[i]
      BY <1>2, <1>3
    <2> QED
      BY <2>1 DEF SearchInv, Followed
  <1>9. RootsSeen'
    BY <1>1 DEF SearchInv, RootsSeen
  <1>10. CalleesFirst'
    <2> SUFFICES ASSUME NEW i \in 1 .. m + 1, NEW g \in Callees(module, definition_order'[i])
                 PROVE  \/ \E j \in 1 .. i - 1 : definition_order'[j] = g
                        \/ LeadsTo(g, definition_order'[i])
      BY <1>1, <1>4 DEF CalleesFirst, LeadsTo, Closed
    <2>1. CASE i # m + 1
      <3>1. i \in 1 .. m /\ definition_order'[i] = definition_order[i]
        BY <1>4, <2>1
      <3>2. \/ \E j \in 1 .. i - 1 : definition_order[j] = g
            \/ LeadsTo(g, definition_order[i])
        BY <1>4, <3>1 DEF SearchInv, CalleesFirst
      <3> QED
        BY <1>4, <3>1, <3>2
    <2>2. CASE i = m + 1
      <3>1. PICK k \in DOMAIN module.dependencies[f] : g = module.dependencies[f][k]
        BY <1>4, <2>2 DEF Callees
      <3>2. k < Top.next_dependency /\ g \in F
        BY <1>1, <1>2, <3>1, ModuleFacts DEF Leave, Basic
      <3>3. discovery[g] # Unvisited
        BY <1>2, <3>1, <3>2 DEF SearchInv, Followed
      <3>4. CASE IsListed(g)
        BY <1>4, <2>2, <3>4 DEF IsListed
      <3>5. CASE OnTraversal(g)
        <4>1. PICK j \in 1 .. n : traversal[j].function = g
          BY <3>5 DEF OnTraversal
        <4>2. LeadsTo(g, f)
          BY <1>1, <4>1, ChainLeads DEF SearchInv
        <4> QED
          BY <1>4, <2>2, <4>2
      <3> QED
        BY <3>2, <3>3, <3>4, <3>5 DEF SearchInv, Seen
    <2> QED
      BY <2>1, <2>2
  <1> QED
    BY <1>5, <1>6, <1>7, <1>8, <1>9, <1>10 DEF SearchInv

LEMMA NextSearch == SearchInv /\ Next => SearchInv'
  BY RootStep, FollowStep, LeaveStep DEF Next

-----------------------------------------------------------------------------

(* A search that is over does not go on, and has listed every function.    *)
LEMMA SearchOver ==
  ASSUME SearchInv, Searched
  PROVE  ~ Next /\ \A g \in F : IsListed(g)
  <1>1. Basic /\ traversal = <<>> /\ next_root = Len(module.functions) + 1
    BY DEF SearchInv, Searched
  <1>2. Len(module.functions) \in Nat /\ DOMAIN module.functions = 1 .. Len(module.functions)
    BY <1>1, ModuleFacts DEF Basic
  <1>3. ~ Next
    BY <1>1, <1>2 DEF Next, Root, Follow, Leave
  <1>4. ASSUME NEW g \in F PROVE IsListed(g)
    <2>1. PICK i \in DOMAIN module.functions : g = module.functions[i]
      BY DEF F, Functions
    <2>2. discovery[g] # Unvisited
      BY <1>1, <1>2, <2>1 DEF SearchInv, RootsSeen
    <2>3. ~ OnTraversal(g)
      BY <1>1 DEF OnTraversal
    <2> QED
      BY <2>2, <2>3 DEF SearchInv, Seen
  <1> QED
    BY <1>3, <1>4

LEMMA KeepSearch == SearchInv /\ UNCHANGED vars => SearchInv'
  BY DEF SearchInv, vars, Basic, Frames, F, Chain, Seen, Followed, RootsSeen,
         CalleesFirst, IsListed, OnTraversal, LeadsTo, Closed

(* Whatever functions call whatever functions: no function is listed       *)
(* before a callee that does not call it back.                             *)
THEOREM CalleesComeFirst == Spec => []CalleesFirst
  <1>1. Init => SearchInv
    BY InitSearch
  <1>2. SearchInv /\ [Next]_vars => SearchInv'
    BY KeepSearch, NextSearch
  <1>3. SearchInv => CalleesFirst
    BY DEF SearchInv
  <1> QED
    BY <1>1, <1>2, <1>3, PTL DEF Spec

-----------------------------------------------------------------------------

(***************************************************************************)
(* Components.  The functions that are still on the component stack are    *)
(* numbered upwards along it.  Those of one segment, from a frame of the   *)
(* traversal up to the next, were entered from that frame and left again:  *)
(* its low link stands for all of theirs.                                  *)
(***************************************************************************)
Discovered(f) == discovery[f] # Unvisited

Finished == {f \in F : Discovered(f) /\ f \notin active}

Numbered ==
  /\ lowlink \in [F -> Int]
  /\ component_stack \in Seq(F)
  /\ active = {component_stack[i] : i \in 1 .. Len(component_stack)}
  /\ \A i, j \in 1 .. Len(component_stack) :
       i < j => discovery[component_stack[i]] < discovery[component_stack[j]]
  /\ \A f \in F : Discovered(f) => discovery[f] \in 0 .. next_discovery - 1
  /\ \A f \in active : Discovered(f)

(* The function of a frame, and the functions of its segment.              *)
At(i) == traversal[i].function

InSegment(i, f) ==
  /\ discovery[At(i)] <= discovery[f]
  /\ \A j \in 1 .. Len(traversal) : i < j => discovery[f] < discovery[At(j)]

(* Frames are of functions on the stack, entered one after the other; all  *)
(* that is on the stack was entered from one of them.                      *)
FramesOnStack ==
  /\ \A i \in 1 .. Len(traversal) : At(i) \in active
  /\ \A i, j \in 1 .. Len(traversal) : i < j => discovery[At(i)] < discovery[At(j)]
  /\ \A f \in active : \E i \in 1 .. Len(traversal) : discovery[At(i)] <= discovery[f]

(* A function that was left has all its callees discovered, and if it is   *)
(* still on the stack, its low link is below it.                           *)
LeftBehind ==
  \A f \in F : Discovered(f) /\ ~ OnTraversal(f) =>
    /\ \A g \in Callees(module, f) : Discovered(g)
    /\ f \in active => lowlink[f] < discovery[f]

(* A low link is the number of a function on the stack that is reached.    *)
LowReached ==
  \A f \in active :
    /\ lowlink[f] <= discovery[f]
    /\ \E g \in active : discovery[g] = lowlink[f] /\ LeadsTo(f, g)

(* What is above a frame is reached from it.                               *)
FramesReach ==
  \A i \in 1 .. Len(traversal) : \A f \in active :
    discovery[At(i)] <= discovery[f] => LeadsTo(At(i), f)

(* The callees that a function has followed so far.                        *)
HasFollowed(i, f, g) ==
  f = At(i) =>
    \E k \in DOMAIN module.dependencies[f] :
      k < traversal[i].next_dependency /\ module.dependencies[f][k] = g

(* The low link of a frame is no higher than any of its segment, and than  *)
(* any function on the stack that the segment calls.                       *)
LowComplete ==
  \A i \in 1 .. Len(traversal) : \A f \in active : InSegment(i, f) =>
    /\ lowlink[At(i)] <= lowlink[f]
    /\ \A g \in Callees(module, f) \cap active :
         HasFollowed(i, f, g) => lowlink[At(i)] <= discovery[g]

(* What is finished calls only what is finished, and is marked when it is  *)
(* on a cycle.                                                             *)
Marked == Closed(Finished) /\ recursive = {f \in Finished : OnCycle(f)}

ComponentInv ==
  /\ Numbered
  /\ FramesOnStack
  /\ LeftBehind
  /\ LowReached
  /\ FramesReach
  /\ LowComplete
  /\ Marked

LEMMA LeadsToSelf == \A f : LeadsTo(f, f)
  BY DEF LeadsTo

LEMMA LeadsToCallee ==
  ASSUME NEW f, NEW g \in Callees(module, f) PROVE LeadsTo(f, g)
  BY DEF LeadsTo, Closed

LEMMA LeadsToTransitive ==
  ASSUME NEW f, NEW g, NEW h, LeadsTo(f, g), LeadsTo(g, h) PROVE LeadsTo(f, h)
  BY DEF LeadsTo

(* What leads somewhere else does so by one of its callees.                *)
LEMMA LeadsByCallee ==
  ASSUME module \in Modules, NEW f \in F, NEW g, LeadsTo(f, g), f # g
  PROVE  \E h \in Callees(module, f) : LeadsTo(h, g)
  <1> SUFFICES ASSUME \A h \in Callees(module, f) : ~ LeadsTo(h, g) PROVE FALSE
    OBVIOUS
  <1> DEFINE apart == {x \in F : ~ LeadsTo(x, g)}
  <1>1. \A x \in F : Callees(module, x) \subseteq F
    BY ModuleFacts DEF Callees
  <1>2. ASSUME NEW x \in apart \cup {f}, NEW h \in Callees(module, x) PROVE h \in apart
    <2>1. x \in F /\ h \in F
      BY <1>1, <1>2
    <2>2. ASSUME LeadsTo(h, g), x # f PROVE FALSE
      BY <1>2, <2>2, LeadsToCallee, LeadsToTransitive
    <2> QED BY <2>1, <2>2
  <1>3. Closed(apart \cup {f})
    BY <1>2 DEF Closed
  <1>4. g \in apart \cup {f}
    BY <1>3 DEF LeadsTo, F
  <1> QED BY <1>4, LeadsToSelf

(* A function is on a cycle when it leads to another that leads back.      *)
LEMMA CycleThrough ==
  ASSUME module \in Modules, NEW f \in F, NEW g, f # g, LeadsTo(f, g), LeadsTo(g, f)
  PROVE  OnCycle(f)
  BY LeadsByCallee, LeadsToTransitive DEF OnCycle

(* The component of f: what is on the stack and no older than f.           *)
LEMMA ComponentOnStack ==
  ASSUME Basic, Numbered, NEW f \in active
  PROVE  /\ Component(f) = {g \in active : discovery[f] <= discovery[g]}
         /\ SubSeq(component_stack, 1, Position(f) - 1) \in Seq(F)
         /\ LET rest == SubSeq(component_stack, 1, Position(f) - 1)
            IN  /\ active \ Component(f) = {rest[i] : i \in 1 .. Len(rest)}
                /\ \A i \in 1 .. Len(rest) : rest[i] = component_stack[i]
                /\ Len(rest) <= Len(component_stack)
  <1> DEFINE p == Position(f)
             n == Len(component_stack)
             rest == SubSeq(component_stack, 1, p - 1)
  <1>1. /\ n \in Nat /\ DOMAIN component_stack = 1 .. n
        /\ \A i \in 1 .. n : component_stack[i] \in F
        /\ active = {component_stack[i] : i \in 1 .. n}
        /\ \A i, j \in 1 .. n :
             i < j => discovery[component_stack[i]] < discovery[component_stack[j]]
        /\ discovery \in [F -> Int]
    BY DEF Numbered, Basic
  <1>2. p \in 1 .. n /\ component_stack[p] = f
    BY <1>1 DEF Position
  <1> HIDE DEF p, n
  <1>3. ASSUME NEW i \in 1 .. n
        PROVE  i >= p <=> discovery[f] <= discovery[component_stack[i]]
    <2>1. i < p => discovery[component_stack[i]] < discovery[f]
      BY <1>1, <1>2
    <2>2. p < i => discovery[f] < discovery[component_stack[i]]
      BY <1>1, <1>2
    <2>3. discovery[f] \in Int /\ discovery[component_stack[i]] \in Int /\ f \in F
      BY <1>1, <1>2
    <2> QED BY <1>1, <1>2, <2>1, <2>2, <2>3
  <1>4. Component(f) = {component_stack[i] : i \in p .. n}
    BY DEF Component, p, n
  <1>5. Component(f) = {g \in active : discovery[f] <= discovery[g]}
    BY <1>1, <1>2, <1>3, <1>4
  <1>6. \A i \in 1 .. p - 1 : component_stack[i] \in F
    BY <1>1, <1>2
  <1>7. /\ rest \in Seq(F)
        /\ Len(rest) = p - 1
        /\ \A i \in 1 .. p - 1 : rest[i] = component_stack[i]
    <2> DEFINE m == p - 1
    <2>1. m \in Nat /\ m \in Int /\ \A i \in 1 .. m : component_stack[i] \in F
      BY <1>1, <1>2
    <2> HIDE DEF m
    <2>2. /\ SubSeq(component_stack, 1, m) \in Seq(F)
          /\ Len(SubSeq(component_stack, 1, m)) = IF 1 <= m THEN m - 1 + 1 ELSE 0
          /\ \A i \in 1 .. m - 1 + 1 : SubSeq(component_stack, 1, m)[i] = component_stack[1 + i - 1]
      BY <2>1, SubSeqProperties
    <2>3. /\ SubSeq(component_stack, 1, m) \in Seq(F)
          /\ Len(SubSeq(component_stack, 1, m)) = m
          /\ \A i \in 1 .. m : SubSeq(component_stack, 1, m)[i] = component_stack[i]
      BY <2>1, <2>2
    <2> QED BY <2>3 DEF m
  <1> HIDE DEF rest
  <1>8. active \ Component(f) = {rest[i] : i \in 1 .. Len(rest)}
    <2>1. ASSUME NEW g \in active \ Component(f) PROVE g \in {rest[i] : i \in 1 .. Len(rest)}
      <3>1. PICK i \in 1 .. n : g = component_stack[i]
        BY <1>1, <2>1
      <3>2. i \in 1 .. p - 1
        BY <1>1, <1>2, <1>3, <1>5, <2>1, <3>1
      <3> QED BY <1>7, <3>1, <3>2
    <2>2. ASSUME NEW i \in 1 .. Len(rest) PROVE rest[i] \in active \ Component(f)
      <3>1. i \in 1 .. p - 1 /\ i \in 1 .. n /\ ~ (i >= p)
        BY <1>1, <1>2, <1>7, <2>2
      <3> QED BY <1>1, <1>3, <1>5, <1>7, <3>1
    <2> QED BY <2>1, <2>2
  <1>9. Len(rest) <= n
    BY <1>1, <1>2, <1>7
  <1> QED BY <1>2, <1>5, <1>7, <1>8, <1>9 DEF p, n, rest

-----------------------------------------------------------------------------

LEMMA ComponentInit == Init => ComponentInv
  <1> SUFFICES ASSUME Init PROVE ComponentInv
    OBVIOUS
  <1>1. /\ Len(traversal) = 0 /\ Len(component_stack) = 0 /\ active = {} /\ recursive = {}
        /\ component_stack = <<>>
        /\ \A f \in F : ~ Discovered(f)
        /\ lowlink \in [F -> Int]
    BY DEF Init, F, Discovered, Unvisited
  <1>2. Finished = {}
    BY <1>1 DEF Finished
  <1>3. Numbered
    BY <1>1 DEF Numbered
  <1> QED
    BY <1>1, <1>2, <1>3
    DEF ComponentInv, FramesOnStack, LeftBehind, LowReached, FramesReach, LowComplete, Marked, Closed

(* What the functions on the stack and on the traversal are.               *)
LEMMA StackTypes ==
  ASSUME Basic, Numbered, FramesOnStack
  PROVE  /\ \A f \in active : /\ f \in F /\ Discovered(f) /\ discovery[f] \in Nat
                              /\ discovery[f] < next_discovery /\ lowlink[f] \in Int
         /\ \A i \in 1 .. Len(traversal) : At(i) \in active
         /\ next_discovery \in Nat /\ Len(traversal) \in Nat
  <1>1. /\ discovery \in [F -> Int] /\ next_discovery \in Nat /\ lowlink \in [F -> Int]
        /\ Len(traversal) \in Nat
    BY DEF Basic, Numbered
  <1>2. ASSUME NEW f \in active
        PROVE  f \in F /\ Discovered(f) /\ discovery[f] \in 0 .. next_discovery - 1
    <2>1. component_stack \in Seq(F) /\ active = {component_stack[i] : i \in 1 .. Len(component_stack)}
      BY DEF Numbered
    <2>2. f \in F
      BY <1>2, <2>1
    <2> QED BY <1>2, <2>2 DEF Numbered
  <1> QED BY <1>1, <1>2 DEF FramesOnStack

(* Entering f from frames that have at most moved past f.                  *)
LEMMA EnterComponents ==
  ASSUME SearchInv, ComponentInv, NEW f \in F, ~ Discovered(f),
         NEW frames \in Seq(Frames), Len(frames) = Len(traversal),
         \A i \in 1 .. Len(traversal) : frames[i].function = traversal[i].function,
         \A i \in 1 .. Len(traversal) :
           \A k \in DOMAIN module.dependencies[traversal[i].function] :
             k < frames[i].next_dependency =>
               \/ k < traversal[i].next_dependency
               \/ module.dependencies[traversal[i].function][k] = f,
         traversal # <<>> => f \in Callees(module, Top.function),
         Enter(f, frames), UNCHANGED <<module, recursive>>
  PROVE  ComponentInv'
  <1> DEFINE n == Len(traversal)
  <1>1. /\ Basic /\ Chain /\ n \in Nat /\ discovery \in [F -> Int] /\ next_discovery \in Nat
        /\ lowlink \in [F -> Int] /\ component_stack \in Seq(F)
    BY DEF SearchInv, Basic, ComponentInv, Numbered
  <1>last. PICK last : last = n + 1
    OBVIOUS
  <1>2. /\ \A g \in active : /\ g \in F /\ Discovered(g) /\ discovery[g] \in Nat
                             /\ discovery[g] < next_discovery /\ lowlink[g] \in Int
                             /\ g # f
        /\ \A i \in 1 .. n : At(i) \in active
    BY <1>1, <1>last, StackTypes DEF ComponentInv
  <1>3. /\ Len(traversal') = last
        /\ \A i \in 1 .. n : traversal'[i] = frames[i]
        /\ traversal'[last] = Frame(f)
    <2>1. Frame(f) \in Frames
      BY DEF Frame, Frames
    <2> HIDE DEF Frames
    <2> QED BY <1>1, <1>last, <2>1 DEF Enter
  <1>4. /\ \A i \in 1 .. n : At(i)' = At(i) /\ At(i) # f
        /\ At(last)' = f /\ traversal'[last].next_dependency = 1
    BY <1>2, <1>3 DEF Frame, At
  <1>5. /\ F' = F /\ module' = module /\ recursive' = recursive
        /\ active' = active \cup {f}
        /\ discovery'[f] = next_discovery /\ lowlink'[f] = next_discovery
        /\ next_discovery' = next_discovery + 1
        /\ \A g \in F : g # f => discovery'[g] = discovery[g] /\ lowlink'[g] = lowlink[g]
        /\ lowlink' \in [F -> Int]
    BY <1>1, <1>last DEF Enter, F
  <1>6. /\ Discovered(f)'
        /\ \A g \in F : g # f => (Discovered(g)' <=> Discovered(g))
    BY <1>1, <1>last, <1>5 DEF Discovered, Unvisited
  <1>7. \A g \in F : g # f => (OnTraversal(g)' <=> OnTraversal(g))
    <2> SUFFICES ASSUME NEW g \in F, g # f PROVE OnTraversal(g)' <=> OnTraversal(g)
      OBVIOUS
    <2>1. ASSUME NEW i \in 1 .. n, traversal[i].function = g
          PROVE  i \in 1 .. last /\ traversal'[i].function = g
      BY <1>1, <1>last, <1>4, <2>1 DEF At
    <2>2. ASSUME NEW i \in 1 .. last, traversal'[i].function = g
          PROVE  i \in 1 .. n /\ traversal[i].function = g
      <3>1. i \in 1 .. n \/ i = last
        BY <1>1, <1>last
      <3> QED BY <1>4, <2>2, <3>1 DEF At
    <2> QED BY <1>3, <2>1, <2>2 DEF OnTraversal
  <1>8. OnTraversal(f)'
    BY <1>1, <1>last, <1>3, <1>4 DEF OnTraversal, At
  <1>9. \A g, h : (LeadsTo(g, h)' <=> LeadsTo(g, h)) /\ (OnCycle(g)' <=> OnCycle(g))
    BY <1>5 DEF LeadsTo, OnCycle, Closed
  <1>10. Finished' = Finished
    BY <1>2, <1>5, <1>6 DEF Finished
  <1>11. Numbered'
    <2> DEFINE m == Len(component_stack)
    <2>1. /\ component_stack' \in Seq(F) /\ Len(component_stack') = m + 1 /\ m \in Nat
          /\ \A i \in 1 .. m : component_stack'[i] = component_stack[i]
          /\ component_stack'[m + 1] = f
      BY <1>1, <1>last DEF Enter
    <2>2. active = {component_stack[i] : i \in 1 .. m}
      BY DEF ComponentInv, Numbered
    <2>3. active' = {component_stack'[i] : i \in 1 .. m + 1}
      <3>1. ASSUME NEW g \in active' PROVE \E i \in 1 .. m + 1 : g = component_stack'[i]
        <4>1. CASE g = f
          BY <2>1, <4>1
        <4>2. CASE g \in active
          <5>1. PICK i \in 1 .. m : g = component_stack[i]
            BY <2>2, <4>2
          <5>2. i \in 1 .. m + 1
            BY <2>1
          <5> QED BY <2>1, <5>1, <5>2
        <4> QED BY <1>5, <4>1, <4>2
      <3>2. ASSUME NEW i \in 1 .. m + 1 PROVE component_stack'[i] \in active'
        <4>1. i \in 1 .. m \/ i = m + 1
          BY <2>1
        <4> QED BY <1>5, <2>1, <2>2, <4>1
      <3> QED BY <3>1, <3>2
    <2>4. ASSUME NEW i \in 1 .. m + 1, NEW j \in 1 .. m + 1, i < j
          PROVE  discovery'[component_stack'[i]] < discovery'[component_stack'[j]]
      <3>1. i \in 1 .. m /\ component_stack'[i] = component_stack[i] /\ component_stack[i] \in active
        BY <2>1, <2>2, <2>4
      <3>2. discovery'[component_stack'[i]] = discovery[component_stack[i]]
        BY <1>2, <1>5, <3>1
      <3>3. CASE j = m + 1
        BY <1>2, <1>5, <2>1, <3>1, <3>2, <3>3
      <3>4. CASE j # m + 1
        <4>1. j \in 1 .. m /\ component_stack'[j] = component_stack[j] /\ component_stack[j] \in active
          BY <2>1, <2>2, <3>4
        <4>2. discovery[component_stack[i]] < discovery[component_stack[j]]
          BY <2>4, <3>1, <4>1 DEF ComponentInv, Numbered
        <4> QED BY <1>2, <1>5, <3>2, <4>1, <4>2
      <3> QED BY <3>3, <3>4
    <2>5. ASSUME NEW g \in F, Discovered(g)' PROVE discovery'[g] \in 0 .. next_discovery' - 1
      <3>1. CASE g = f
        BY <1>1, <1>last, <1>5, <3>1
      <3>2. CASE g # f
        <4>1. discovery[g] \in 0 .. next_discovery - 1
          BY <1>6, <2>5, <3>2 DEF ComponentInv, Numbered
        <4> QED BY <1>1, <1>last, <1>5, <3>2, <4>1
      <3> QED BY <3>1, <3>2
    <2>6. \A g \in active' : Discovered(g)'
      BY <1>2, <1>5, <1>6
    <2> QED BY <1>5, <2>1, <2>3, <2>4, <2>5, <2>6 DEF Numbered
  <1>12. FramesOnStack'
    <2>1. \A i \in 1 .. last : At(i)' \in active'
      <3> SUFFICES ASSUME NEW i \in 1 .. last PROVE At(i)' \in active'
        OBVIOUS
      <3>1. i \in 1 .. n \/ i = last
        BY <1>1, <1>last
      <3> QED BY <1>2, <1>4, <1>5, <3>1
    <2>2. ASSUME NEW i \in 1 .. last, NEW j \in 1 .. last, i < j
          PROVE  discovery'[At(i)'] < discovery'[At(j)']
      <3>1. i \in 1 .. n /\ At(i)' = At(i) /\ discovery'[At(i)] = discovery[At(i)]
        BY <1>1, <1>last, <1>2, <1>4, <1>5, <2>2
      <3>2. CASE j = last
        BY <1>1, <1>last, <1>2, <1>4, <1>5, <3>1, <3>2
      <3>3. CASE j # last
        <4>1. j \in 1 .. n /\ At(j)' = At(j) /\ discovery'[At(j)] = discovery[At(j)]
          BY <1>1, <1>last, <1>2, <1>4, <1>5, <3>3
        <4> QED BY <2>2, <3>1, <4>1 DEF ComponentInv, FramesOnStack
      <3> QED BY <3>2, <3>3
    <2>3. ASSUME NEW g \in active' PROVE \E i \in 1 .. last : discovery'[At(i)'] <= discovery'[g]
      <3>1. CASE g = f
        <4>1. last \in 1 .. last /\ At(last)' = f /\ discovery'[f] <= discovery'[f]
          BY <1>1, <1>last, <1>4, <1>5
        <4> QED BY <3>1, <4>1
      <3>2. CASE g # f
        <4>1. PICK i \in 1 .. n : discovery[At(i)] <= discovery[g]
          BY <1>5, <2>3, <3>2 DEF ComponentInv, FramesOnStack
        <4>2. i \in 1 .. last /\ g \in F /\ At(i) \in F
          BY <1>1, <1>last, <1>2, <1>5, <2>3, <3>2
        <4> QED BY <1>4, <1>5, <3>2, <4>1, <4>2
      <3> QED BY <3>1, <3>2
    <2> QED BY <1>3, <2>1, <2>2, <2>3 DEF FramesOnStack
  <1>13. LeftBehind'
    <2> SUFFICES ASSUME NEW g \in F, Discovered(g)', ~ OnTraversal(g)'
                 PROVE  /\ \A h \in Callees(module, g) : Discovered(h)'
                        /\ g \in active' => lowlink'[g] < discovery'[g]
      BY <1>5 DEF LeftBehind
    <2>1. g # f /\ Discovered(g) /\ ~ OnTraversal(g)
      BY <1>6, <1>7, <1>8
    <2>2. \A h \in Callees(module, g) : h \in F /\ Discovered(h)
      BY <1>1, <1>last, <2>1, ModuleFacts DEF ComponentInv, LeftBehind, Basic, Callees
    <2> QED BY <1>5, <1>6, <2>1, <2>2 DEF ComponentInv, LeftBehind
  <1>14. LowReached'
    <2> SUFFICES ASSUME NEW g \in active'
                 PROVE  /\ lowlink'[g] <= discovery'[g]
                        /\ \E h \in active' : discovery'[h] = lowlink'[g] /\ LeadsTo(g, h)
      BY <1>9 DEF LowReached
    <2>1. CASE g = f
      BY <1>1, <1>last, <1>5, <2>1, LeadsToSelf
    <2>2. CASE g # f
      <3>1. g \in active /\ lowlink[g] <= discovery[g]
        BY <1>5, <2>2 DEF ComponentInv, LowReached
      <3>2. PICK h \in active : discovery[h] = lowlink[g] /\ LeadsTo(g, h)
        BY <3>1 DEF ComponentInv, LowReached
      <3> QED BY <1>2, <1>5, <2>2, <3>1, <3>2
    <2> QED BY <2>1, <2>2
  <1>15. FramesReach'
    <2> SUFFICES ASSUME NEW i \in 1 .. last, NEW g \in active',
                        discovery'[At(i)'] <= discovery'[g]
                 PROVE  LeadsTo(At(i)', g)
      BY <1>3, <1>9 DEF FramesReach
    <2>1. CASE i = last
      <3>1. g = f
        BY <1>2, <1>4, <1>5, <2>1
      <3> QED BY <1>4, <2>1, <3>1, LeadsToSelf
    <2>2. CASE i # last
      <3>1. i \in 1 .. n /\ At(i)' = At(i)
        BY <1>1, <1>last, <1>4, <2>2
      <3>2. CASE g = f
        <4>1. traversal # <<>>
          BY <1>1, <1>last, <3>1
        <4>2. LeadsTo(At(i), Top.function)
          BY <1>1, <1>last, <3>1, <4>1, ChainLeads DEF At
        <4> QED BY <3>1, <3>2, <4>1, <4>2, LeadsToCallee, LeadsToTransitive
      <3>3. CASE g # f
        BY <1>2, <1>4, <1>5, <3>1, <3>3 DEF ComponentInv, FramesReach
      <3> QED BY <3>2, <3>3
    <2> QED BY <2>1, <2>2
  <1>16. LowComplete'
    <2> SUFFICES ASSUME NEW i \in 1 .. last, NEW g \in active', InSegment(i, g)'
                 PROVE  /\ lowlink'[At(i)'] <= lowlink'[g]
                        /\ \A h \in Callees(module, g) \cap active' :
                             HasFollowed(i, g, h)' => lowlink'[At(i)'] <= discovery'[h]
      BY <1>3, <1>5 DEF LowComplete
    <2>1. CASE i = last
      <3>1. g = f
        BY <1>2, <1>4, <1>5, <2>1 DEF InSegment
      <3>2. ASSUME NEW h, HasFollowed(i, f, h)' PROVE FALSE
        <4>1. PICK k \in DOMAIN module.dependencies[f] : k < 1
          BY <1>4, <1>5, <2>1, <3>2 DEF HasFollowed
        <4> QED BY <1>1, <1>last, <4>1, ModuleFacts DEF Basic
      <3> QED BY <1>1, <1>last, <1>4, <1>5, <2>1, <3>1, <3>2
    <2>2. CASE i # last
      <3>1. i \in 1 .. n /\ At(i)' = At(i)
        BY <1>1, <1>last, <1>4, <2>2
      <3>2. g # f
        <4>1. last \in 1 .. Len(traversal') /\ i < last
          BY <1>1, <1>last, <1>3, <3>1
        <4>2. discovery'[g] < discovery'[At(last)']
          BY <4>1 DEF InSegment
        <4> QED BY <1>1, <1>last, <1>4, <1>5, <4>2
      <3>3. g \in active /\ g \in F /\ At(i) \in F /\ At(i) # f
        BY <1>2, <1>4, <1>5, <3>1, <3>2
      <3>4. InSegment(i, g)
        <4>1. ASSUME NEW j \in 1 .. n, i < j PROVE discovery[g] < discovery[At(j)]
          <5>1. j \in 1 .. Len(traversal')
            BY <1>1, <1>last, <1>3
          <5>2. discovery'[g] < discovery'[At(j)']
            BY <4>1, <5>1 DEF InSegment
          <5> QED BY <1>2, <1>4, <1>5, <3>2, <3>3, <5>2
        <4>2. discovery'[At(i)'] <= discovery'[g]
          BY DEF InSegment
        <4> QED BY <1>5, <3>1, <3>2, <3>3, <4>1, <4>2 DEF InSegment
      <3>5. lowlink[At(i)] <= lowlink[g] /\ lowlink[At(i)] <= discovery[At(i)]
        BY <1>2, <3>1, <3>3, <3>4 DEF ComponentInv, LowComplete, LowReached
      <3>6. ASSUME NEW h \in Callees(module, g) \cap active', HasFollowed(i, g, h)'
            PROVE  lowlink[At(i)] <= discovery'[h]
        <4>1. CASE h = f
          BY <1>2, <1>5, <3>1, <3>5, <4>1
        <4>2. CASE h # f
          <5>1. h \in active /\ discovery'[h] = discovery[h]
            BY <1>2, <1>5, <3>6, <4>2
          <5>2. HasFollowed(i, g, h)
            <6> SUFFICES ASSUME g = At(i)
                         PROVE  \E k \in DOMAIN module.dependencies[g] :
                                  k < traversal[i].next_dependency /\ module.dependencies[g][k] = h
              BY DEF HasFollowed
            <6>1. PICK k \in DOMAIN module.dependencies[g] :
                    k < traversal'[i].next_dependency /\ module.dependencies[g][k] = h
              BY <1>5, <3>1, <3>6 DEF HasFollowed
            <6>2. k < frames[i].next_dependency
              BY <1>3, <3>1, <6>1
            <6>3. g = traversal[i].function
              BY DEF At
            <6>4. k < traversal[i].next_dependency \/ module.dependencies[g][k] = f
              BY <3>1, <6>1, <6>2, <6>3
            <6> QED BY <4>2, <6>1, <6>4
          <5> QED BY <3>1, <3>3, <3>4, <3>6, <5>1, <5>2 DEF ComponentInv, LowComplete
        <4> QED BY <4>1, <4>2
      <3> QED BY <1>5, <3>1, <3>2, <3>3, <3>5, <3>6
    <2> QED BY <2>1, <2>2
  <1>17. Marked'
    BY <1>5, <1>9, <1>10 DEF ComponentInv, Marked, Closed
  <1> QED
    BY <1>11, <1>12, <1>13, <1>14, <1>15, <1>16, <1>17 DEF ComponentInv

(* Following a call of a function that was discovered before.              *)
LEMMA LowerComponents ==
  ASSUME SearchInv, ComponentInv, Follow,
         Discovered(module.dependencies[Top.function][Top.next_dependency])
  PROVE  ComponentInv'
  <1> DEFINE n == Len(traversal)
             f == Top.function
             d == module.dependencies[f][Top.next_dependency]
  <1>1. /\ Basic /\ traversal # <<>> /\ n \in Nat \ {0} /\ f = At(n)
        /\ discovery \in [F -> Int] /\ lowlink \in [F -> Int]
        /\ \A i \in 1 .. n : At(i) \in active
        /\ \A g \in active : g \in F /\ discovery[g] \in Int /\ lowlink[g] \in Int
        /\ f \in active
        /\ d \in Callees(module, f)
    <2>1. Basic /\ traversal # <<>>
      BY DEF SearchInv, Follow
    <2>2. n \in Nat \ {0} /\ f = At(n) /\ f \in F
      BY <2>1, TopFacts DEF At
    <2>3. /\ \A i \in 1 .. n : At(i) \in active
          /\ \A g \in active : g \in F /\ discovery[g] \in Int /\ lowlink[g] \in Int
      BY <2>1, StackTypes DEF ComponentInv
    <2>4. Top.next_dependency \in DOMAIN module.dependencies[f]
      BY DEF Follow
    <2>5. d \in Callees(module, f)
      BY <2>4 DEF Callees
    <2> QED BY <2>1, <2>2, <2>3, <2>5 DEF Basic, ComponentInv, Numbered
  <1>2. /\ Len(traversal') = n
        /\ \A i \in 1 .. n : At(i)' = At(i)
        /\ \A i \in 1 .. n : i # n => traversal'[i].next_dependency = traversal[i].next_dependency
        /\ \A i : i = n => traversal'[i].next_dependency = Top.next_dependency + 1
    BY <1>1, AdvancedFacts DEF Follow, Discovered, At
  <1>3. /\ UNCHANGED <<module, discovery, active, component_stack, next_discovery, recursive>>
        /\ F' = F
        /\ lowlink' = IF d \in active THEN [lowlink EXCEPT ![f] = Lower(@, discovery[d])] ELSE lowlink
    BY DEF Follow, Discovered, F, Lowers
  <1> HIDE DEF f, d
  <1>4. /\ \A g \in F : g # f => lowlink'[g] = lowlink[g]
        /\ lowlink'[f] = IF d \in active THEN Lower(lowlink[f], discovery[d]) ELSE lowlink[f]
        /\ lowlink' \in [F -> Int]
    BY <1>1, <1>3 DEF Lower
  <1>5. /\ lowlink'[f] <= lowlink[f]
        /\ d \in active => lowlink'[f] <= discovery[d]
        /\ lowlink'[f] = lowlink[f] \/ (d \in active /\ lowlink'[f] = discovery[d])
    BY <1>1, <1>4 DEF Lower
  <1>6. \A g : OnTraversal(g)' <=> OnTraversal(g)
    BY <1>2 DEF OnTraversal, At
  <1>7. \A g, h : (LeadsTo(g, h)' <=> LeadsTo(g, h)) /\ (OnCycle(g)' <=> OnCycle(g))
    BY <1>3 DEF LeadsTo, OnCycle, Closed
  <1>8. Numbered'
    BY <1>3, <1>4 DEF ComponentInv, Numbered, Discovered
  <1>9. FramesOnStack' /\ FramesReach'
    <2>1. FramesOnStack /\ FramesReach
      BY DEF ComponentInv
    <2>2. \A i \in 1 .. n : \A g : discovery'[At(i)'] <= discovery'[g] <=> discovery[At(i)] <= discovery[g]
      BY <1>2, <1>3
    <2>3. \A i, j \in 1 .. n : discovery'[At(i)'] < discovery'[At(j)'] <=> discovery[At(i)] < discovery[At(j)]
      BY <1>2, <1>3
    <2>4. FramesOnStack'
      BY <1>2, <1>3, <2>1, <2>2, <2>3 DEF FramesOnStack
    <2>5. FramesReach'
      BY <1>2, <1>3, <1>7, <2>1, <2>2 DEF FramesReach
    <2> QED BY <2>4, <2>5
  <1>10. LeftBehind'
    <2> SUFFICES ASSUME NEW g \in F, Discovered(g), ~ OnTraversal(g)
                 PROVE  /\ \A h \in Callees(module, g) : Discovered(h)
                        /\ g \in active => lowlink'[g] < discovery[g]
      BY <1>3, <1>6 DEF LeftBehind, Discovered
    <2>1. g # f
      BY <1>1 DEF OnTraversal, At
    <2> QED BY <1>4, <2>1 DEF ComponentInv, LeftBehind
  <1>11. LowReached'
    <2> SUFFICES ASSUME NEW g \in active
                 PROVE  /\ lowlink'[g] <= discovery[g]
                        /\ \E h \in active : discovery[h] = lowlink'[g] /\ LeadsTo(g, h)
      BY <1>3, <1>7 DEF LowReached
    <2>1. lowlink[g] <= discovery[g] /\ \E h \in active : discovery[h] = lowlink[g] /\ LeadsTo(g, h)
      BY DEF ComponentInv, LowReached
    <2>2. CASE g # f
      BY <1>1, <1>4, <2>1, <2>2
    <2>3. CASE g = f
      <3>1. lowlink'[f] <= discovery[f]
        BY <1>1, <1>4, <1>5, <2>1, <2>3
      <3>2. LeadsTo(f, d)
        BY <1>1, LeadsToCallee
      <3> QED BY <1>5, <2>1, <2>3, <3>1, <3>2
    <2> QED BY <2>2, <2>3
  <1>12. LowComplete'
    <2> SUFFICES ASSUME NEW i \in 1 .. n, NEW g \in active, InSegment(i, g)
                 PROVE  /\ lowlink'[At(i)] <= lowlink'[g]
                        /\ \A h \in Callees(module, g) \cap active :
                             HasFollowed(i, g, h)' => lowlink'[At(i)] <= discovery[h]
      <3>1. \A i \in 1 .. n, g \in active : InSegment(i, g)' <=> InSegment(i, g)
        BY <1>2, <1>3 DEF InSegment
      <3> QED BY <1>2, <1>3, <3>1 DEF LowComplete
    <2>1. /\ lowlink[At(i)] <= lowlink[g]
          /\ \A h \in Callees(module, g) \cap active :
               HasFollowed(i, g, h) => lowlink[At(i)] <= discovery[h]
      BY DEF ComponentInv, LowComplete
    <2>2. At(i) \in active /\ lowlink'[At(i)] <= lowlink[At(i)]
          /\ lowlink'[At(i)] \in Int
      <3>1. At(i) \in active /\ At(i) \in F /\ lowlink[At(i)] \in Int /\ lowlink'[At(i)] \in Int
        BY <1>1, <1>4
      <3>2. CASE At(i) = f
        BY <1>5, <3>1, <3>2
      <3>3. CASE At(i) # f
        BY <1>4, <3>1, <3>3
      <3> QED BY <3>1, <3>2, <3>3
    <2>3. lowlink'[At(i)] <= lowlink'[g]
      <3>1. CASE g # f
        BY <1>1, <1>4, <2>1, <2>2, <3>1
      <3>2. CASE g = f
        <4>1. i = n
          <5>1. ASSUME i # n PROVE discovery[g] < discovery[At(n)]
            BY <1>1, <5>1 DEF InSegment
          <5> QED BY <1>1, <3>2, <5>1
        <4> QED BY <1>1, <2>2, <3>2, <4>1
      <3> QED BY <3>1, <3>2
    <2>4. ASSUME NEW h \in Callees(module, g) \cap active, HasFollowed(i, g, h)'
          PROVE  lowlink'[At(i)] <= discovery[h]
      <3>1. CASE HasFollowed(i, g, h)
        BY <1>1, <2>1, <2>2, <2>4, <3>1
      <3>2. CASE ~ HasFollowed(i, g, h)
        <4>1. g = At(i) /\ \A k \in DOMAIN module.dependencies[g] :
                ~ (k < traversal[i].next_dependency /\ module.dependencies[g][k] = h)
          BY <3>2 DEF HasFollowed
        <4>2. PICK k \in DOMAIN module.dependencies[g] :
                k < traversal'[i].next_dependency /\ module.dependencies[g][k] = h
          BY <1>2, <1>3, <2>4, <4>1 DEF HasFollowed
        <4>3. k \in Nat
          <5>1. g \in F /\ module \in Modules
            BY <1>1 DEF Basic
          <5> QED BY <5>1, ModuleFacts
        <4>4. i = n
          BY <1>2, <4>1, <4>2
        <4>5. k < Top.next_dependency + 1 /\ ~ (k < Top.next_dependency)
              /\ Top.next_dependency \in Nat
          BY <1>1, <1>2, <4>1, <4>2, <4>4, TopFacts
        <4>6. k = Top.next_dependency
          BY <4>3, <4>5
        <4>7. g = f /\ At(i) = f
          BY <1>1, <4>1, <4>4
        <4>8. h = d
          BY <4>2, <4>6, <4>7 DEF d
        <4> QED BY <1>5, <2>4, <4>7, <4>8
      <3> QED BY <3>1, <3>2
    <2> QED BY <2>3, <2>4
  <1>13. Marked'
    BY <1>3, <1>7 DEF ComponentInv, Marked, Closed, Finished, Discovered
  <1> QED
    BY <1>8, <1>9, <1>10, <1>11, <1>12, <1>13 DEF ComponentInv

(* What leaving the innermost frame has to go by, and what it does to the  *)
(* low links: only that of the caller is lowered.                          *)
LEMMA LeaveFacts ==
  ASSUME SearchInv, ComponentInv, Leave
  PROVE  LET n == Len(traversal)
             f == Top.function
         IN  /\ Basic /\ n \in Nat \ {0} /\ f = At(n) /\ f \in active
             /\ discovery \in [F -> Int] /\ lowlink \in [F -> Int]
             /\ \A i \in 1 .. n : At(i) \in active
             /\ \A g \in active : g \in F /\ discovery[g] \in Int /\ lowlink[g] \in Int
             /\ Len(traversal') = n - 1
             /\ \A i \in 1 .. n - 1 : traversal'[i] = traversal[i] /\ At(i)' = At(i)
             /\ UNCHANGED <<module, discovery, next_discovery>> /\ F' = F
             /\ \A i \in 1 .. n - 1 : discovery[At(i)] < discovery[f]
             /\ lowlink' = IF n = 1 THEN lowlink
                           ELSE [lowlink EXCEPT ![At(n - 1)] = Lower(@, lowlink[f])]
             /\ \A g, h : (LeadsTo(g, h)' <=> LeadsTo(g, h)) /\ (OnCycle(g)' <=> OnCycle(g))
             /\ \A g \in Callees(module, f) : Discovered(g) /\ HasFollowed(n, f, g)
             /\ \A g \in F : OnTraversal(g)' <=> OnTraversal(g) /\ g # f
  <1> DEFINE n == Len(traversal)
             f == Top.function
  <1>1. Basic /\ traversal # <<>> /\ n \in Nat \ {0} /\ f = At(n) /\ traversal \in Seq(Frames)
    BY TopFacts DEF SearchInv, Leave, Basic, At
  <1>2. /\ \A i \in 1 .. n : At(i) \in active
        /\ \A g \in active : g \in F /\ discovery[g] \in Int /\ lowlink[g] \in Int
    BY <1>1, StackTypes DEF ComponentInv
  <1>3. /\ Len(Popped) = n - 1
        /\ \A i \in 1 .. n - 1 : Popped[i] = traversal[i]
    <2> HIDE DEF Frames
    <2> QED BY <1>1, PoppedSequence DEF Popped
  <1>4. /\ Len(traversal') = n - 1
        /\ \A i \in 1 .. n - 1 : traversal'[i] = traversal[i] /\ At(i)' = At(i)
    BY <1>3 DEF Leave, At
  <1>5. UNCHANGED <<module, discovery, next_discovery>> /\ F' = F
    BY DEF Leave, F
  <1>6. \A i \in 1 .. n - 1 : discovery[At(i)] < discovery[f]
    <2> SUFFICES ASSUME NEW i \in 1 .. n - 1 PROVE discovery[At(i)] < discovery[f]
      OBVIOUS
    <2>1. i \in 1 .. n /\ n \in 1 .. n /\ i < n
      BY <1>1
    <2> QED BY <1>1, <2>1 DEF ComponentInv, FramesOnStack
  <1>7. lowlink' = IF n = 1 THEN lowlink
                   ELSE [lowlink EXCEPT ![At(n - 1)] = Lower(@, lowlink[f])]
    <2>1. Popped = <<>> <=> n = 1
      <3>1. Popped \in Seq(Frames)
        <4> HIDE DEF Frames
        <4> QED BY <1>1, PoppedSequence DEF Popped
      <3>2. Popped = <<>> <=> Len(Popped) = 0
        <4> HIDE DEF Frames
        <4> QED BY <3>1, EmptySeq
      <3> QED BY <1>1, <1>3, <3>2
    <2>2. n # 1 => Popped[Len(Popped)].function = At(n - 1)
      BY <1>1, <1>3 DEF At
    <2> QED BY <2>1, <2>2 DEF Leave
  <1>8. \A g, h : (LeadsTo(g, h)' <=> LeadsTo(g, h)) /\ (OnCycle(g)' <=> OnCycle(g))
    BY <1>5 DEF LeadsTo, OnCycle, Closed
  <1>9. ASSUME NEW g \in Callees(module, f) PROVE Discovered(g) /\ HasFollowed(n, f, g)
    <2>1. PICK k \in DOMAIN module.dependencies[f] : module.dependencies[f][k] = g
      BY DEF Callees
    <2>2. f \in F /\ module \in Modules
      BY <1>1, <1>2 DEF Basic
    <2>3. k \in 1 .. Len(module.dependencies[f]) /\ Len(module.dependencies[f]) \in Nat
      BY <2>1, <2>2, ModuleFacts
    <2>4. k < Top.next_dependency /\ Top = traversal[n]
      BY <2>3 DEF Leave, Top
    <2>5. HasFollowed(n, f, g)
      BY <2>1, <2>4 DEF HasFollowed
    <2>6. n \in 1 .. n /\ traversal[n].function = f
      BY <1>1 DEF At
    <2>7. discovery[module.dependencies[f][k]] # Unvisited
      BY <2>1, <2>4, <2>6 DEF SearchInv, Followed
    <2> QED BY <2>1, <2>5, <2>7 DEF Discovered
  <1>10. ASSUME NEW g \in F PROVE OnTraversal(g)' <=> OnTraversal(g) /\ g # f
    <2>1. ASSUME OnTraversal(g)' PROVE OnTraversal(g) /\ g # f
      <3>1. PICK i \in 1 .. n - 1 : At(i) = g
        BY <1>4, <2>1 DEF OnTraversal, At
      <3>2. i \in 1 .. n /\ discovery[g] < discovery[f]
        BY <1>1, <1>6, <3>1
      <3>3. g \in active /\ discovery[g] \in Int
        BY <1>2, <3>1, <3>2
      <3> QED BY <3>1, <3>2, <3>3 DEF OnTraversal, At
    <2>2. ASSUME OnTraversal(g), g # f PROVE OnTraversal(g)'
      <3>1. PICK i \in 1 .. n : At(i) = g
        BY <2>2 DEF OnTraversal, At
      <3>2. i \in 1 .. n - 1
        BY <1>1, <2>2, <3>1
      <3> QED BY <1>4, <3>1, <3>2 DEF OnTraversal, At
    <2> QED BY <2>1, <2>2
  <1> HIDE DEF n, f
  <1>11. n \in 1 .. n /\ f \in active
    BY <1>1, <1>2
  <1>12. discovery \in [F -> Int] /\ lowlink \in [F -> Int]
    BY <1>1 DEF Basic, ComponentInv, Numbered
  <1> QED
    BY <1>1, <1>2, <1>4, <1>5, <1>6, <1>7, <1>8, <1>9, <1>10, <1>11, <1>12 DEF n, f

(* Where a function is in the segments after the innermost frame is gone.  *)
LEMMA SegmentsAfterLeave ==
  ASSUME SearchInv, ComponentInv, Leave,
         NEW i \in 1 .. Len(traversal) - 1, NEW g \in active, InSegment(i, g)'
  PROVE  \/ InSegment(i, g)
         \/ i = Len(traversal) - 1 /\ InSegment(Len(traversal), g)
  <1> DEFINE n == Len(traversal)
  <1>1. /\ n \in Nat \ {0} /\ Len(traversal') = n - 1 /\ discovery' = discovery
        /\ \A j \in 1 .. n - 1 : At(j)' = At(j)
        /\ \A j \in 1 .. n : At(j) \in active
        /\ \A h \in active : discovery[h] \in Int
        /\ \A j \in 1 .. n - 1 : discovery[At(j)] < discovery[At(n)]
    BY LeaveFacts
  <1> HIDE DEF n
  <1>2. /\ discovery[At(i)] <= discovery[g]
        /\ \A j \in 1 .. n - 1 : i < j => discovery[g] < discovery[At(j)]
    BY <1>1 DEF InSegment, n
  <1>3. CASE discovery[g] < discovery[At(n)]
    <2>1. ASSUME NEW j \in 1 .. n, i < j PROVE discovery[g] < discovery[At(j)]
      <3>1. j \in 1 .. n - 1 \/ j = n
        BY <1>1
      <3> QED BY <1>2, <1>3, <2>1, <3>1
    <2> QED BY <1>2, <2>1 DEF InSegment, n
  <1>4. CASE ~ (discovery[g] < discovery[At(n)])
    <2>1. n \in 1 .. n /\ At(n) \in active
      BY <1>1
    <2>2. discovery[At(n)] <= discovery[g]
      BY <1>1, <1>4, <2>1
    <2>3. InSegment(n, g)
      BY <1>1, <2>2 DEF InSegment, n
    <2>4. i = n - 1
      <3> SUFFICES ASSUME i # n - 1 PROVE FALSE
        OBVIOUS
      <3>1. n - 1 \in 1 .. n - 1 /\ i < n - 1 /\ n - 1 \in 1 .. n
        BY <1>1 DEF n
      <3>2. discovery[g] < discovery[At(n - 1)] /\ discovery[At(n - 1)] < discovery[At(n)]
        BY <1>1, <1>2, <3>1
      <3>3. At(n - 1) \in active
        BY <1>1, <3>1
      <3> QED BY <1>1, <2>1, <2>2, <3>2, <3>3
    <2> QED BY <2>3, <2>4 DEF n
  <1> QED BY <1>3, <1>4

(* Leaving a function whose component is not complete.                     *)
LEMMA LeaveOpen ==
  ASSUME SearchInv, ComponentInv, Leave, lowlink[Top.function] # discovery[Top.function]
  PROVE  ComponentInv'
  <1> DEFINE n == Len(traversal)
             f == Top.function
  <1>1. /\ Basic /\ n \in Nat \ {0} /\ f = At(n) /\ f \in active
        /\ discovery \in [F -> Int] /\ lowlink \in [F -> Int]
        /\ \A i \in 1 .. n : At(i) \in active
        /\ \A g \in active : g \in F /\ discovery[g] \in Int /\ lowlink[g] \in Int
        /\ Len(traversal') = n - 1
        /\ \A i \in 1 .. n - 1 : traversal'[i] = traversal[i] /\ At(i)' = At(i)
        /\ UNCHANGED <<module, discovery, next_discovery>> /\ F' = F
        /\ \A i \in 1 .. n - 1 : discovery[At(i)] < discovery[f]
        /\ lowlink' = IF n = 1 THEN lowlink
                      ELSE [lowlink EXCEPT ![At(n - 1)] = Lower(@, lowlink[f])]
        /\ \A g, h : (LeadsTo(g, h)' <=> LeadsTo(g, h)) /\ (OnCycle(g)' <=> OnCycle(g))
        /\ \A g \in Callees(module, f) : Discovered(g) /\ HasFollowed(n, f, g)
        /\ \A g \in F : OnTraversal(g)' <=> OnTraversal(g) /\ g # f
    BY LeaveFacts
  <1>2. UNCHANGED <<active, component_stack, recursive>>
    BY DEF Leave
  <1>p. PICK p : p = At(n - 1)
    OBVIOUS
  <1> HIDE DEF n, f
  <1>3. lowlink[f] < discovery[f]
    <2>1. lowlink[f] # discovery[f] /\ lowlink[f] <= discovery[f]
      BY <1>1 DEF ComponentInv, LowReached, f
    <2> QED BY <1>1, <2>1
  <1>4. n # 1
    <2>1. PICK h \in active : discovery[h] = lowlink[f]
      BY <1>1 DEF ComponentInv, LowReached
    <2>2. PICK i \in 1 .. n : discovery[At(i)] <= discovery[h]
      BY <2>1 DEF ComponentInv, FramesOnStack, n
    <2>3. At(i) \in active
      BY <1>1
    <2>4. discovery[At(i)] < discovery[f]
      BY <1>1, <1>3, <2>1, <2>2, <2>3
    <2>5. i # n
      BY <1>1, <2>4
    <2> QED BY <1>1, <2>5
  <1>5. /\ n - 1 \in 1 .. n - 1 /\ n - 1 \in 1 .. n /\ p \in active /\ p # f
        /\ discovery[p] < discovery[f]
        /\ f \in Callees(module, p)
    <2>1. n - 1 \in 1 .. n - 1 /\ n - 1 \in 1 .. n /\ n - 1 + 1 = n
      BY <1>1, <1>4
    <2>2. At(n - 1 + 1) \in Callees(module, At(n - 1))
      BY <2>1 DEF SearchInv, Chain, At, n
    <2>3. discovery[p] < discovery[f] /\ p \in active
      BY <1>1, <1>p, <2>1
    <2> QED BY <1>1, <1>p, <2>1, <2>2, <2>3
  <1>6. /\ \A g \in F : g # p => lowlink'[g] = lowlink[g]
        /\ lowlink'[p] = Lower(lowlink[p], lowlink[f])
        /\ lowlink' \in [F -> Int]
    BY <1>1, <1>p, <1>4, <1>5 DEF Lower
  <1>7. /\ lowlink'[p] <= lowlink[p] /\ lowlink'[p] <= lowlink[f]
        /\ lowlink'[p] \in {lowlink[p], lowlink[f]}
    BY <1>1, <1>5, <1>6 DEF Lower
  <1>8. OnTraversal(p)'
    BY <1>1, <1>p, <1>5 DEF OnTraversal, At
  <1>9. Numbered'
    <2>1. Numbered
      BY DEF ComponentInv
    <2>2. \A g : Discovered(g)' <=> Discovered(g)
      BY <1>1 DEF Discovered
    <2>3. /\ UNCHANGED <<discovery, next_discovery, active, component_stack>>
          /\ F' = F /\ lowlink' \in [F -> Int]
      BY <1>1, <1>2, <1>6
    <2> QED BY <2>1, <2>2, <2>3 DEF Numbered
  <1>10. FramesOnStack'
    <2>1. \A i \in 1 .. n - 1 : i \in 1 .. n
      BY <1>1
    <2>2. \A i, j \in 1 .. n - 1 : i < j => discovery[At(i)] < discovery[At(j)]
      BY <2>1 DEF ComponentInv, FramesOnStack, n
    <2>3. ASSUME NEW g \in active PROVE \E i \in 1 .. n - 1 : discovery[At(i)] <= discovery[g]
      <3>1. PICK i \in 1 .. n : discovery[At(i)] <= discovery[g]
        BY DEF ComponentInv, FramesOnStack, n
      <3>2. CASE i # n
        BY <1>1, <3>1, <3>2
      <3>3. CASE i = n
        <4>1. discovery[p] <= discovery[g]
          BY <1>1, <1>5, <3>1, <3>3
        <4> QED BY <1>p, <1>5, <4>1
      <3> QED BY <3>2, <3>3
    <2>4. \A i \in 1 .. n - 1 : At(i)' \in active'
      BY <1>1, <1>2, <2>1
    <2>5. \A i, j \in 1 .. n - 1 : i < j => discovery'[At(i)'] < discovery'[At(j)']
      BY <1>1, <2>2
    <2>6. \A g \in active' : \E i \in 1 .. n - 1 : discovery'[At(i)'] <= discovery'[g]
      BY <1>1, <1>2, <2>3
    <2> QED BY <1>1, <2>4, <2>5, <2>6 DEF FramesOnStack
  <1>11. LeftBehind'
    <2> SUFFICES ASSUME NEW g \in F, Discovered(g), ~ (OnTraversal(g) /\ g # f), ~ OnTraversal(g)'
                 PROVE  /\ \A h \in Callees(module, g) : Discovered(h)
                        /\ g \in active => lowlink'[g] < discovery[g]
      BY <1>1, <1>2 DEF LeftBehind, Discovered
    <2>1. g # p /\ lowlink'[g] = lowlink[g]
      BY <1>6, <1>8
    <2>2. CASE g = f
      BY <1>1, <1>3, <2>1, <2>2
    <2>3. CASE g # f
      BY <2>1, <2>3 DEF ComponentInv, LeftBehind
    <2> QED BY <2>2, <2>3
  <1>12. LowReached'
    <2> SUFFICES ASSUME NEW g \in active
                 PROVE  /\ lowlink'[g] <= discovery[g]
                        /\ \E h \in active : discovery[h] = lowlink'[g] /\ LeadsTo(g, h)
      BY <1>1, <1>2 DEF LowReached
    <2>1. lowlink[g] <= discovery[g] /\ \E h \in active : discovery[h] = lowlink[g] /\ LeadsTo(g, h)
      BY DEF ComponentInv, LowReached
    <2>2. CASE g # p
      BY <1>1, <1>6, <2>1, <2>2
    <2>3. CASE g = p
      <3>1. lowlink'[p] <= discovery[p]
        <4>1. lowlink'[p] \in Int /\ lowlink[p] \in Int /\ discovery[p] \in Int
          BY <1>1, <1>5, <1>6
        <4> QED BY <1>7, <2>1, <2>3, <4>1
      <3>2. CASE lowlink'[p] = lowlink[p]
        BY <2>1, <2>3, <3>1, <3>2
      <3>3. CASE lowlink'[p] = lowlink[f]
        <4>1. PICK h \in active : discovery[h] = lowlink[f] /\ LeadsTo(f, h)
          BY <1>1 DEF ComponentInv, LowReached
        <4>2. LeadsTo(p, h)
          BY <1>5, <4>1, LeadsToCallee, LeadsToTransitive
        <4> QED BY <2>3, <3>1, <3>3, <4>1, <4>2
      <3> QED BY <1>7, <3>2, <3>3
    <2> QED BY <2>2, <2>3
  <1>13. FramesReach'
    <2>1. \A i \in 1 .. n - 1 : i \in 1 .. n
      BY <1>1
    <2>2. \A i \in 1 .. n - 1 : \A g \in active : discovery[At(i)] <= discovery[g] => LeadsTo(At(i), g)
      BY <2>1 DEF ComponentInv, FramesReach, n
    <2>3. \A i \in 1 .. n - 1 : \A g \in active :
            discovery'[At(i)'] <= discovery'[g] => LeadsTo(At(i)', g)
      BY <1>1, <2>2
    <2> QED BY <1>1, <1>2, <2>3 DEF FramesReach
  <1>14. LowComplete'
    <2> SUFFICES ASSUME NEW i \in 1 .. n - 1, NEW g \in active, InSegment(i, g)'
                 PROVE  /\ lowlink'[At(i)] <= lowlink'[g]
                        /\ \A h \in Callees(module, g) \cap active :
                             HasFollowed(i, g, h)' => lowlink'[At(i)] <= discovery[h]
      BY <1>1, <1>2 DEF LowComplete
    <2>1. i \in 1 .. n /\ At(i) \in active /\ At(i)' = At(i) /\ traversal'[i] = traversal[i]
          /\ discovery[At(i)] < discovery[f]
      BY <1>1
    <2>2. \A h : HasFollowed(i, g, h)' <=> HasFollowed(i, g, h)
      BY <1>1, <2>1 DEF HasFollowed
    <2>3. lowlink'[At(i)] <= lowlink[At(i)] /\ lowlink'[At(i)] \in Int /\ lowlink'[g] \in Int
      <3>1. lowlink[At(i)] \in Int /\ lowlink'[At(i)] \in Int /\ lowlink'[g] \in Int /\ At(i) \in F
        BY <1>1, <1>6, <2>1
      <3>2. CASE At(i) = p
        BY <1>7, <3>1, <3>2
      <3>3. CASE At(i) # p
        BY <1>6, <3>1, <3>3
      <3> QED BY <3>1, <3>2, <3>3
    <2>4. CASE InSegment(i, g)
      <3>1. /\ lowlink[At(i)] <= lowlink[g]
            /\ \A h \in Callees(module, g) \cap active :
                 HasFollowed(i, g, h) => lowlink[At(i)] <= discovery[h]
        BY <2>1, <2>4 DEF ComponentInv, LowComplete, n
      <3>2. lowlink'[At(i)] <= lowlink'[g]
        <4>1. CASE g # p
          BY <1>1, <1>6, <2>1, <2>3, <3>1, <4>1
        <4>2. CASE g = p
          <5>1. i = n - 1
            <6>1. ASSUME i # n - 1 PROVE discovery[g] < discovery[At(n - 1)]
              <7>1. i < n - 1 /\ n - 1 \in 1 .. n
                BY <1>1, <1>5, <6>1
              <7> QED BY <2>4, <7>1 DEF InSegment, n
            <6> QED BY <1>1, <1>p, <1>5, <4>2, <6>1
          <5> QED BY <1>p, <2>3, <4>2, <5>1
        <4> QED BY <4>1, <4>2
      <3>3. ASSUME NEW h \in Callees(module, g) \cap active, HasFollowed(i, g, h)
            PROVE  lowlink'[At(i)] <= discovery[h]
        BY <1>1, <2>1, <2>3, <3>1, <3>3
      <3> QED BY <2>2, <3>2, <3>3
    <2>5. CASE i = n - 1 /\ InSegment(n, g)
      <3>1. /\ At(i) = p /\ n \in 1 .. n
            /\ discovery[f] <= discovery[g]
        BY <1>1, <1>p, <2>5 DEF InSegment
      <3>2. /\ lowlink[f] <= lowlink[g]
            /\ \A h \in Callees(module, g) \cap active :
                 HasFollowed(n, g, h) => lowlink[f] <= discovery[h]
        BY <1>1, <2>5, <3>1 DEF ComponentInv, LowComplete, n
      <3>3. g # p /\ lowlink'[g] = lowlink[g]
        BY <1>1, <1>5, <1>6, <3>1
      <3>4. lowlink'[p] <= lowlink'[g]
        BY SMTT(30), <1>1, <1>5, <1>6, <1>7, <3>2, <3>3
      <3>5. ASSUME NEW h \in Callees(module, g) \cap active PROVE lowlink'[p] <= discovery[h]
        <4>1. HasFollowed(n, g, h)
          BY <1>1 DEF HasFollowed
        <4> QED BY SMTT(30), <1>1, <1>5, <1>6, <1>7, <3>2, <4>1
      <3> QED BY <3>1, <3>4, <3>5
    <2> QED BY <2>4, <2>5, SegmentsAfterLeave DEF n
  <1>15. Marked'
    BY <1>1, <1>2 DEF ComponentInv, Marked, Closed, Finished, Discovered
  <1> QED
    BY <1>9, <1>10, <1>11, <1>12, <1>13, <1>14, <1>15 DEF ComponentInv

(* What is above the innermost frame is its component when its low link    *)
(* has not been lowered: each leads to something lower, down to it.        *)
LEMMA MembersLeadBack ==
  ASSUME SearchInv, ComponentInv, Leave, lowlink[Top.function] = discovery[Top.function],
         NEW g \in active, discovery[Top.function] <= discovery[g]
  PROVE  LeadsTo(g, Top.function)
  <1> DEFINE n == Len(traversal)
             f == Top.function
             astray == {h \in active : discovery[f] <= discovery[h] /\ ~ LeadsTo(h, f)}
  <1>1. /\ n \in Nat \ {0} /\ f = At(n) /\ f \in active
        /\ \A i \in 1 .. n : At(i) \in active
        /\ \A h \in active : h \in F /\ discovery[h] \in Int /\ lowlink[h] \in Int
        /\ \A i \in 1 .. n - 1 : discovery[At(i)] < discovery[f]
    BY LeaveFacts
  <1>2. \A h \in active : discovery[h] \in Nat
    BY StackTypes DEF SearchInv, ComponentInv
  <1> HIDE DEF n, f
  <1>3. ASSUME NEW h \in active, discovery[f] <= discovery[h], h # f
        PROVE  /\ lowlink[h] < discovery[h]
               /\ discovery[f] <= lowlink[h]
    <2>1. InSegment(n, h)
      BY <1>1, <1>3 DEF InSegment, n
    <2>2. n \in 1 .. n
      BY <1>1
    <2>3. lowlink[f] <= lowlink[h]
      BY <1>1, <2>1, <2>2 DEF ComponentInv, LowComplete, n
    <2>4. ~ OnTraversal(h)
      <3> SUFFICES ASSUME NEW i \in 1 .. n, At(i) = h PROVE FALSE
        BY DEF OnTraversal, At, n
      <3>1. i \in 1 .. n - 1
        BY <1>1, <1>3
      <3> QED BY <1>1, <1>3, <3>1
    <2>5. lowlink[h] < discovery[h]
      <3>1. Discovered(h) /\ h \in F
        BY <1>1 DEF ComponentInv, Numbered
      <3> QED BY <2>4, <3>1 DEF ComponentInv, LeftBehind
    <2> QED BY <2>3, <2>5 DEF f
  <1> SUFFICES ASSUME g \in astray PROVE FALSE
    BY DEF f
  <1>4. {discovery[h] : h \in astray} \subseteq Nat /\ {discovery[h] : h \in astray} # {}
    BY <1>2
  <1>5. PICK m \in {discovery[h] : h \in astray} : \A x \in {discovery[h] : h \in astray} : m <= x
    <2> HIDE DEF astray
    <2> QED BY <1>4, Least
  <1>6. PICK h \in astray : m = discovery[h]
    OBVIOUS
  <1>7. h \in active /\ discovery[f] <= discovery[h] /\ h # f
    BY <1>6, LeadsToSelf
  <1>8. PICK y \in active : discovery[y] = lowlink[h] /\ LeadsTo(h, y)
    BY <1>7 DEF ComponentInv, LowReached
  <1>9. discovery[y] < discovery[h] /\ discovery[f] <= discovery[y]
    BY <1>3, <1>7, <1>8
  <1>10. y \notin astray
    <2> SUFFICES ASSUME y \in astray PROVE FALSE
      OBVIOUS
    <2>1. m <= discovery[y]
      BY <1>5
    <2> QED BY <1>1, <1>6, <1>7, <1>8, <1>9, <2>1
  <1>11. LeadsTo(y, f)
    BY <1>8, <1>9, <1>10
  <1> QED BY <1>6, <1>8, <1>11, LeadsToTransitive

(* Leaving the first function of a component closes it.                    *)
LEMMA LeaveClosed ==
  ASSUME SearchInv, ComponentInv, Leave, lowlink[Top.function] = discovery[Top.function]
  PROVE  ComponentInv'
  <1> DEFINE n == Len(traversal)
             f == Top.function
             members == Component(f)
  <1>1. /\ Basic /\ n \in Nat \ {0} /\ f = At(n) /\ f \in active
        /\ discovery \in [F -> Int] /\ lowlink \in [F -> Int]
        /\ \A i \in 1 .. n : At(i) \in active
        /\ \A g \in active : g \in F /\ discovery[g] \in Int /\ lowlink[g] \in Int
        /\ Len(traversal') = n - 1
        /\ \A i \in 1 .. n - 1 : traversal'[i] = traversal[i] /\ At(i)' = At(i)
        /\ UNCHANGED <<module, discovery, next_discovery>> /\ F' = F
        /\ \A i \in 1 .. n - 1 : discovery[At(i)] < discovery[f]
        /\ lowlink' = IF n = 1 THEN lowlink
                      ELSE [lowlink EXCEPT ![At(n - 1)] = Lower(@, lowlink[f])]
        /\ \A g, h : (LeadsTo(g, h)' <=> LeadsTo(g, h)) /\ (OnCycle(g)' <=> OnCycle(g))
        /\ \A g \in Callees(module, f) : Discovered(g) /\ HasFollowed(n, f, g)
        /\ \A g \in F : OnTraversal(g)' <=> OnTraversal(g) /\ g # f
    BY LeaveFacts
  <1>2. /\ active' = active \ members
        /\ component_stack' = SubSeq(component_stack, 1, Position(f) - 1)
        /\ recursive' = IF members # {f} \/ SelfCalling(f) THEN recursive \cup members ELSE recursive
    BY DEF Leave
  <1>3. members = {g \in active : discovery[f] <= discovery[g]}
    BY <1>1, ComponentOnStack DEF ComponentInv
  <1>4. /\ component_stack' \in Seq(F)
        /\ active' = {component_stack'[i] : i \in 1 .. Len(component_stack')}
        /\ \A i \in 1 .. Len(component_stack') : component_stack'[i] = component_stack[i]
        /\ Len(component_stack') <= Len(component_stack)
    BY SMTT(30), <1>1, <1>2, ComponentOnStack DEF ComponentInv
  <1>5. lowlink[f] = discovery[f]
    OBVIOUS
  <1>back. \A g \in members : LeadsTo(g, f)
    BY <1>3, MembersLeadBack
  <1>self. SelfCalling(f) <=> f \in Callees(module, f)
    BY DEF SelfCalling
  <1> HIDE DEF n, f, members
  <1>6. \A g \in active' : g \in active /\ discovery[g] < discovery[f]
    BY <1>1, <1>2, <1>3
  <1>7. \A g : g \in active /\ discovery[g] < discovery[f] => g \in active'
    BY <1>1, <1>2, <1>3
  <1>8. lowlink' = lowlink
    <2>1. CASE n = 1
      BY <1>1, <2>1
    <2>2. CASE n # 1
      <3> DEFINE p == At(n - 1)
      <3>1. n - 1 \in 1 .. n - 1 /\ n - 1 \in 1 .. n
        BY <1>1, <2>2
      <3>2. p \in active /\ discovery[p] < discovery[f] /\ lowlink[p] <= discovery[p]
        BY <1>1, <3>1 DEF ComponentInv, LowReached
      <3>3. lowlink[p] < lowlink[f] /\ p \in F
        BY <1>1, <1>5, <3>2
      <3>4. Lower(lowlink[p], lowlink[f]) = lowlink[p]
        BY <3>3 DEF Lower
      <3>5. lowlink' = [lowlink EXCEPT ![p] = Lower(lowlink[p], lowlink[f])]
        BY <1>1, <2>2
      <3> HIDE DEF p
      <3> QED BY <1>1, <3>3, <3>4, <3>5
    <2> QED BY <2>1, <2>2
  <1>9. Numbered'
    <2>1. Numbered
      BY DEF ComponentInv
    <2>2. \A g : Discovered(g)' <=> Discovered(g)
      BY <1>1 DEF Discovered
    <2>3. /\ UNCHANGED <<discovery, next_discovery, lowlink>> /\ F' = F
      BY <1>1, <1>8
    <2>4. ASSUME NEW i \in 1 .. Len(component_stack'), NEW j \in 1 .. Len(component_stack'), i < j
          PROVE  discovery[component_stack'[i]] < discovery[component_stack'[j]]
      <3>1. Len(component_stack) \in Nat /\ Len(component_stack') \in Nat
        BY <1>4, <2>1 DEF Numbered
      <3>2. i \in 1 .. Len(component_stack) /\ j \in 1 .. Len(component_stack)
        BY <1>4, <3>1
      <3> QED BY <1>4, <2>1, <2>4, <3>2 DEF Numbered
    <2>5. \A g \in active' : Discovered(g)
      BY <1>6, <2>1 DEF Numbered
    <2> QED BY <1>4, <2>1, <2>2, <2>3, <2>4, <2>5 DEF Numbered
  <1>10. FramesOnStack'
    <2>1. \A i \in 1 .. n - 1 : i \in 1 .. n
      BY <1>1
    <2>2. \A i \in 1 .. n - 1 : At(i)' \in active'
      BY <1>1, <1>7, <2>1
    <2>3. \A i, j \in 1 .. n - 1 : i < j => discovery[At(i)] < discovery[At(j)]
      BY <2>1 DEF ComponentInv, FramesOnStack, n
    <2>4. \A i, j \in 1 .. n - 1 : i < j => discovery'[At(i)'] < discovery'[At(j)']
      BY <1>1, <2>3
    <2>5. ASSUME NEW g \in active' PROVE \E i \in 1 .. n - 1 : discovery[At(i)] <= discovery[g]
      <3>1. PICK i \in 1 .. n : discovery[At(i)] <= discovery[g]
        BY <1>6 DEF ComponentInv, FramesOnStack, n
      <3>2. i # n
        BY <1>1, <1>6, <3>1
      <3> QED BY <1>1, <3>1, <3>2
    <2>6. \A g \in active' : \E i \in 1 .. n - 1 : discovery'[At(i)'] <= discovery'[g]
      BY <1>1, <2>5
    <2> QED BY <1>1, <2>2, <2>4, <2>6 DEF FramesOnStack
  <1>11. LeftBehind'
    <2> SUFFICES ASSUME NEW g \in F, Discovered(g), ~ (OnTraversal(g) /\ g # f)
                 PROVE  /\ \A h \in Callees(module, g) : Discovered(h)
                        /\ g \in active' => lowlink[g] < discovery[g]
      BY <1>1, <1>8 DEF LeftBehind, Discovered
    <2>1. CASE g = f
      <3>1. g \notin active'
        BY <1>1, <1>6, <2>1
      <3> QED BY <1>1, <2>1, <3>1
    <2>2. CASE g # f
      BY <1>6, <2>2 DEF ComponentInv, LeftBehind
    <2> QED BY <2>1, <2>2
  <1>12. LowReached'
    <2> SUFFICES ASSUME NEW g \in active'
                 PROVE  /\ lowlink[g] <= discovery[g]
                        /\ \E h \in active' : discovery[h] = lowlink[g] /\ LeadsTo(g, h)
      BY <1>1, <1>8 DEF LowReached
    <2>1. g \in active /\ discovery[g] < discovery[f] /\ lowlink[g] <= discovery[g]
      BY <1>6 DEF ComponentInv, LowReached
    <2>2. PICK h \in active : discovery[h] = lowlink[g] /\ LeadsTo(g, h)
      BY <2>1 DEF ComponentInv, LowReached
    <2>3. h \in active'
      BY <1>1, <1>7, <2>1, <2>2
    <2> QED BY <2>1, <2>2, <2>3
  <1>13. FramesReach'
    <2>1. \A i \in 1 .. n - 1 : i \in 1 .. n
      BY <1>1
    <2>2. \A i \in 1 .. n - 1 : \A g \in active' : discovery[At(i)] <= discovery[g] => LeadsTo(At(i), g)
      BY <1>6, <2>1 DEF ComponentInv, FramesReach, n
    <2>3. \A i \in 1 .. n - 1 : \A g \in active' :
            discovery'[At(i)'] <= discovery'[g] => LeadsTo(At(i)', g)
      BY <1>1, <2>2
    <2> QED BY <1>1, <2>3 DEF FramesReach
  <1>14. LowComplete'
    <2> SUFFICES ASSUME NEW i \in 1 .. n - 1, NEW g \in active', InSegment(i, g)'
                 PROVE  /\ lowlink[At(i)] <= lowlink[g]
                        /\ \A h \in Callees(module, g) \cap active' :
                             HasFollowed(i, g, h)' => lowlink[At(i)] <= discovery[h]
      BY SMTT(30), <1>1, <1>8 DEF LowComplete
    <2>1. i \in 1 .. n /\ At(i)' = At(i) /\ traversal'[i] = traversal[i]
          /\ g \in active /\ discovery[g] < discovery[f]
      BY <1>1, <1>6
    <2>2. \A h : HasFollowed(i, g, h)' <=> HasFollowed(i, g, h)
      BY <1>1, <2>1 DEF HasFollowed
    <2>3. InSegment(i, g)
      <3>1. ~ InSegment(n, g)
        BY <1>1, <2>1 DEF InSegment
      <3> QED BY <2>1, <3>1, SegmentsAfterLeave DEF n
    <2> QED BY <1>6, <2>1, <2>2, <2>3 DEF ComponentInv, LowComplete, n
  <1>15. Finished' = Finished \cup members
    <2>1. \A g \in members : g \in F /\ Discovered(g) /\ g \in active
      BY <1>1, <1>3 DEF ComponentInv, Numbered
    <2>2. \A g : Discovered(g)' <=> Discovered(g)
      BY <1>1 DEF Discovered
    <2> QED BY <1>1, <1>2, <2>1, <2>2 DEF Finished
  <1>16. ASSUME NEW g \in members, NEW h \in Callees(module, g)
         PROVE  h \in Finished \cup members
    <2>1. g \in F /\ Discovered(g) /\ g \in active /\ discovery[f] <= discovery[g]
      BY <1>1, <1>3 DEF ComponentInv, Numbered
    <2>2. Discovered(h) /\ HasFollowed(n, g, h)
      <3>1. CASE g = f
        BY <1>1, <1>16, <3>1
      <3>2. CASE g # f
        <4>1. ~ OnTraversal(g)
          <5> SUFFICES ASSUME NEW i \in 1 .. n, At(i) = g PROVE FALSE
            BY DEF OnTraversal, At, n
          <5>1. i \in 1 .. n - 1
            BY <1>1, <3>2
          <5> QED BY <1>1, <2>1, <5>1
        <4> QED BY <1>1, <1>16, <2>1, <3>2, <4>1 DEF ComponentInv, LeftBehind, HasFollowed
      <3> QED BY <3>1, <3>2
    <2>3. h \in F
      BY <1>1, <1>16, <2>1, ModuleFacts DEF Basic, Callees
    <2>4. CASE h \in active
      <3>1. InSegment(n, g) /\ n \in 1 .. n
        BY <1>1, <2>1 DEF InSegment, n
      <3>2. lowlink[f] <= discovery[h]
        BY <1>1, <1>16, <2>1, <2>2, <2>4, <3>1 DEF ComponentInv, LowComplete, n
      <3> QED BY <1>3, <1>5, <2>4, <3>2
    <2>5. CASE h \notin active
      BY <2>2, <2>3, <2>5 DEF Finished
    <2> QED BY <2>4, <2>5
  <1>17. ASSUME NEW g \in members PROVE LeadsTo(g, f) /\ LeadsTo(f, g) /\ g \in F
    <2>1. g \in active /\ discovery[At(n)] <= discovery[g] /\ n \in 1 .. n
      BY <1>1, <1>3
    <2>2. LeadsTo(f, g)
      BY <1>1, <2>1 DEF ComponentInv, FramesReach, n
    <2> QED BY <1>1, <1>back, <2>1, <2>2
  <1>18. f \in members /\ f \in F /\ module \in Modules
    BY <1>1, <1>3 DEF Basic
  <1>19. Closed(Finished) /\ recursive = {g \in Finished : OnCycle(g)}
    BY DEF ComponentInv, Marked
  <1>20. Closed(Finished \cup members)
    BY <1>16, <1>19 DEF Closed
  <1>21. ASSUME recursive' = {g \in Finished \cup members : OnCycle(g)} PROVE Marked'
    <2>1. \A g \in Finished' : Callees(module, g) \subseteq Finished'
      BY <1>15, <1>20 DEF Closed
    <2>2. module' = module /\ \A g : OnCycle(g)' <=> OnCycle(g)
      BY <1>1
    <2>3. Closed(Finished)'
      BY <2>1, <2>2 DEF Closed
    <2>4. recursive' = {g \in Finished' : OnCycle(g)'}
      BY <1>15, <1>21, <2>2
    <2> QED BY <2>3, <2>4 DEF Marked
  <1>22. ASSUME members # {f} \/ SelfCalling(f) PROVE Marked'
    <2>1. ASSUME NEW g \in members PROVE OnCycle(g)
      <3>1. CASE \E h \in members : h # g
        <4>1. PICK h \in members : h # g
          BY <3>1
        <4>2. LeadsTo(g, h) /\ LeadsTo(h, g)
          BY <1>17, <4>1, LeadsToTransitive
        <4> QED BY <1>17, <1>18, <4>1, <4>2, CycleThrough
      <3>2. CASE \A h \in members : h = g
        <4>1. g = f /\ members = {f}
          BY <1>18, <3>2
        <4> QED BY <1>22, <1>self, <4>1, LeadsToSelf DEF OnCycle
      <3> QED BY <3>1, <3>2
    <2>2. recursive' = {g \in Finished \cup members : OnCycle(g)}
      BY <1>2, <1>22, <1>19, <2>1
    <2> QED BY <1>21, <2>2
  <1>23. ASSUME members = {f}, ~ SelfCalling(f) PROVE Marked'
    <2>1. ~ OnCycle(f)
      <3> SUFFICES ASSUME NEW h \in Callees(module, f), LeadsTo(h, f) PROVE FALSE
        BY DEF OnCycle
      <3>1. h \in Finished
        BY <1>16, <1>23, <1>self
      <3>2. Closed(Finished) /\ Finished \in SUBSET Functions(module)
        BY DEF ComponentInv, Marked, Finished, F
      <3>3. f \in Finished
        BY <3>1, <3>2 DEF LeadsTo
      <3> QED BY <1>1, <3>3 DEF Finished
    <2>2. recursive' = {g \in Finished \cup members : OnCycle(g)}
      BY <1>2, <1>23, <1>19, <2>1
    <2> QED BY <1>21, <2>2
  <1>24. Marked'
    BY <1>22, <1>23
  <1> QED
    BY <1>9, <1>10, <1>11, <1>12, <1>13, <1>14, <1>24 DEF ComponentInv

(* Steps that touch nothing that this is about.                            *)
LEMMA KeepComponents ==
  ASSUME ComponentInv,
         UNCHANGED <<module, traversal, discovery, lowlink, active, component_stack,
                     next_discovery, recursive>>
  PROVE  ComponentInv'
  <1>1. /\ F' = F /\ Finished' = Finished
        /\ \A f, g : LeadsTo(f, g)' <=> LeadsTo(f, g)
        /\ \A f : OnCycle(f)' <=> OnCycle(f)
        /\ \A f : (Discovered(f)' <=> Discovered(f)) /\ (OnTraversal(f)' <=> OnTraversal(f))
    BY DEF F, Finished, Discovered, LeadsTo, OnCycle, Closed, OnTraversal
  <1>2. /\ \A i : At(i)' = At(i)
        /\ \A i, f : InSegment(i, f)' <=> InSegment(i, f)
        /\ \A i, f, g : HasFollowed(i, f, g)' <=> HasFollowed(i, f, g)
    BY DEF At, InSegment, HasFollowed
  <1>3. Numbered'
    BY <1>1 DEF ComponentInv, Numbered
  <1>4. FramesOnStack'
    BY <1>2 DEF ComponentInv, FramesOnStack
  <1>5. LeftBehind'
    BY <1>1 DEF ComponentInv, LeftBehind
  <1>6. LowReached'
    BY <1>1 DEF ComponentInv, LowReached
  <1>7. FramesReach'
    BY <1>1, <1>2 DEF ComponentInv, FramesReach
  <1>8. LowComplete'
    BY <1>2 DEF ComponentInv, LowComplete
  <1>9. Marked'
    BY <1>1 DEF ComponentInv, Marked, Closed
  <1> QED BY <1>3, <1>4, <1>5, <1>6, <1>7, <1>8, <1>9 DEF ComponentInv

LEMMA NextComponents == SearchInv /\ ComponentInv /\ Next => ComponentInv'
  <1> SUFFICES ASSUME SearchInv, ComponentInv, Next PROVE ComponentInv'
    OBVIOUS
  <1>1. Basic
    BY DEF SearchInv
  <1>2. CASE Root
    <2> DEFINE f == module.functions[next_root]
    <2>1. f \in F /\ traversal = <<>> /\ Len(traversal) = 0 /\ traversal \in Seq(Frames)
          /\ module' = module /\ recursive' = recursive
      BY <1>1, <1>2, ModuleFacts DEF Root, Basic
    <2>2. CASE ~ Discovered(f)
      <3>1. Enter(f, traversal)
        BY <1>2, <2>2 DEF Root, Discovered
      <3> HIDE DEF f, Frames
      <3>2. \A i \in 1 .. Len(traversal) : FALSE
        BY <2>1
      <3> QED BY <2>1, <2>2, <3>1, <3>2, EnterComponents
    <2>3. CASE Discovered(f)
      <3>1. UNCHANGED <<module, traversal, discovery, lowlink, active, component_stack,
                        next_discovery, recursive>>
        BY <1>2, <2>3 DEF Root, Discovered
      <3> QED BY <3>1, KeepComponents
    <2> QED BY <2>2, <2>3
  <1>3. CASE Follow
    <2> DEFINE f == Top.function
               d == module.dependencies[f][Top.next_dependency]
               n == Len(traversal)
    <2>1. traversal # <<>> /\ n \in Nat \ {0} /\ Top = traversal[n] /\ f \in F
          /\ Top.next_dependency \in Nat \ {0}
          /\ Top.next_dependency \in DOMAIN module.dependencies[f]
          /\ module' = module /\ recursive' = recursive
      BY <1>1, <1>3, TopFacts DEF Follow
    <2>2. d \in F /\ d \in Callees(module, f)
      BY <1>1, <2>1, ModuleFacts DEF Basic, Callees
    <2>3. CASE ~ Discovered(d)
      <3>1. Enter(d, Advanced)
        BY <1>3, <2>3 DEF Follow, Discovered
      <3>2. /\ Advanced \in Seq(Frames) /\ Len(Advanced) = n
            /\ \A i \in 1 .. n : Advanced[i].function = traversal[i].function
            /\ \A i \in 1 .. n : i # n => Advanced[i].next_dependency = traversal[i].next_dependency
            /\ Advanced[n].next_dependency = Top.next_dependency + 1
        BY <1>1, <2>1, AdvancedFacts
      <3>3. ASSUME NEW i \in 1 .. n, NEW k \in DOMAIN module.dependencies[traversal[i].function],
                   k < Advanced[i].next_dependency, ~ (k < traversal[i].next_dependency)
            PROVE  module.dependencies[traversal[i].function][k] = d
        <4>1. i = n
          BY <3>2, <3>3
        <4>2. k \in Nat
          BY <1>1, <2>1, <4>1, ModuleFacts DEF Basic
        <4>3. k = Top.next_dependency
          BY <2>1, <3>2, <3>3, <4>1, <4>2
        <4> QED BY <2>1, <4>1, <4>3
      <3>4. f = Top.function
        OBVIOUS
      <3> HIDE DEF d, f, Frames
      <3> QED BY <2>1, <2>2, <2>3, <3>1, <3>2, <3>3, <3>4, EnterComponents
    <2>4. CASE Discovered(d)
      BY <1>3, <2>4, LowerComponents
    <2> QED BY <2>3, <2>4
  <1>4. CASE Leave
    BY <1>4, LeaveOpen, LeaveClosed
  <1> QED BY <1>2, <1>3, <1>4 DEF Next

(* When the search is over nothing is left on the stack: all is finished.  *)
LEMMA AllMarked ==
  ASSUME SearchInv, ComponentInv, Searched
  PROVE  recursive = {f \in F : OnCycle(f)}
  <1>1. Basic /\ traversal = <<>> /\ next_root = Len(module.functions) + 1
    BY DEF SearchInv, Searched
  <1>2. Len(module.functions) \in Nat /\ DOMAIN module.functions = 1 .. Len(module.functions)
    BY <1>1, ModuleFacts DEF Basic
  <1>3. active = {}
    BY <1>1 DEF ComponentInv, FramesOnStack
  <1>4. ASSUME NEW g \in F PROVE g \in Finished
    <2>1. PICK i \in DOMAIN module.functions : g = module.functions[i]
      BY DEF F, Functions
    <2>2. Discovered(g)
      BY <1>1, <1>2, <2>1 DEF SearchInv, RootsSeen, Discovered
    <2> QED BY <1>3, <2>2 DEF Finished
  <1>5. Finished = F
    BY <1>4 DEF Finished
  <1> QED BY <1>5 DEF ComponentInv, Marked

(* Whatever functions call whatever functions: the search marks exactly    *)
(* those whose calls lead back to them.                                    *)
THEOREM RecursiveFound == Spec => []RecursiveExact
  <1>1. Init => SearchInv /\ ComponentInv
    BY InitSearch, ComponentInit
  <1>2. SearchInv /\ ComponentInv /\ [Next]_vars => (SearchInv /\ ComponentInv)'
    BY NextSearch, KeepSearch, NextComponents, KeepComponents DEF vars
  <1>3. SearchInv /\ ComponentInv => RecursiveExact
    BY AllMarked DEF RecursiveExact, F
  <1> QED
    BY <1>1, <1>2, <1>3, PTL DEF Spec

-----------------------------------------------------------------------------

(***************************************************************************)
(* The capability check follows the calls as often as there are statements *)
(* and has then followed them all: as long as something is added, the set  *)
(* grows with every round, and it cannot grow beyond the functions.        *)
(***************************************************************************)
Onward(X) == X \cup UNION {Callees(module, g) : g \in X}

Rounds(f, N) ==
  CHOOSE reach : reach = [n \in 0 .. N |-> IF n = 0 THEN Callees(module, f) ELSE Onward(reach[n - 1])]

LEMMA ReachedByRounds == \A f : Reached(f) = Rounds(f, module.count)[module.count]
  BY DEF Reached, Rounds, Onward

LEMMA RoundsExist ==
  ASSUME NEW C, NEW N \in Nat
  PROVE  \E h : h = [n \in 0 .. N |-> IF n = 0 THEN C ELSE Onward(h[n - 1])]
  <1> DEFINE Fits(h, k) == h = [n \in 0 .. k |-> IF n = 0 THEN C ELSE Onward(h[n - 1])]
             failing == {k \in Nat : ~ \E h : Fits(h, k)}
  <1> SUFFICES ASSUME failing # {} PROVE FALSE
    OBVIOUS
  <1>1. PICK k \in failing : \A x \in failing : k <= x
    <2>1. failing \subseteq Nat
      OBVIOUS
    <2> HIDE DEF failing
    <2> QED BY <2>1, Least
  <1>2. CASE k = 0
    <2> DEFINE h == [n \in 0 .. 0 |-> C]
    <2>1. h = [n \in 0 .. 0 |-> IF n = 0 THEN C ELSE Onward(h[n - 1])]
      OBVIOUS
    <2> QED BY <1>1, <1>2, <2>1
  <1>3. CASE k # 0
    <2>1. k \in Nat /\ k - 1 \in Nat /\ ~ (k <= k - 1)
      BY <1>1, <1>3
    <2>2. k - 1 \notin failing
      BY <1>1, <2>1
    <2>3. PICK h : Fits(h, k - 1)
      BY <2>1, <2>2
    <2> DEFINE e == [n \in 0 .. k |-> IF n = k THEN Onward(h[k - 1]) ELSE h[n]]
    <2>4. \A n \in 0 .. k : e[n] = IF n = 0 THEN C ELSE Onward(e[n - 1])
      <3> SUFFICES ASSUME NEW n \in 0 .. k PROVE e[n] = IF n = 0 THEN C ELSE Onward(e[n - 1])
        OBVIOUS
      <3>1. CASE n = k
        BY <1>3, <2>1, <3>1
      <3>2. CASE n # k
        <4>1. n \in 0 .. k - 1 /\ e[n] = h[n]
          BY <2>1, <3>2
        <4>2. h[n] = IF n = 0 THEN C ELSE Onward(h[n - 1])
          BY <2>3, <4>1
        <4>3. n # 0 => e[n - 1] = h[n - 1]
          BY <2>1, <4>1
        <4> QED BY <4>1, <4>2, <4>3
      <3> QED BY <3>1, <3>2
    <2>5. e = [n \in 0 .. k |-> e[n]]
      OBVIOUS
    <2> HIDE DEF e
    <2>6. e = [n \in 0 .. k |-> IF n = 0 THEN C ELSE Onward(e[n - 1])]
      BY <2>4, <2>5
    <2> QED BY <1>1, <2>6
  <1> QED BY <1>2, <1>3

LEMMA RoundsRecur ==
  ASSUME NEW f, NEW N \in Nat
  PROVE  /\ Rounds(f, N)[0] = Callees(module, f)
         /\ \A n \in 1 .. N : Rounds(f, N)[n] = Onward(Rounds(f, N)[n - 1])
  <1> DEFINE C == Callees(module, f)
             reach == CHOOSE h : h = [n \in 0 .. N |-> IF n = 0 THEN C ELSE Onward(h[n - 1])]
  <1>1. \E h : h = [n \in 0 .. N |-> IF n = 0 THEN C ELSE Onward(h[n - 1])]
    BY RoundsExist
  <1>2. reach = [n \in 0 .. N |-> IF n = 0 THEN C ELSE Onward(reach[n - 1])]
    BY <1>1
  <1>3. Rounds(f, N) = reach
    BY DEF Rounds
  <1> HIDE DEF reach
  <1> QED BY <1>2, <1>3

LEMMA ReachedClosed ==
  ASSUME module \in Modules, NEW f \in F
  PROVE  Closed(Reached(f)) /\ Callees(module, f) \subseteq Reached(f) /\ Reached(f) \subseteq F
  <1> DEFINE N == module.count
             R(n) == Rounds(f, N)[n]
             Grown(n) == /\ Callees(module, f) \subseteq R(n) /\ R(n) \subseteq F
                         /\ Closed(R(n)) \/ Cardinality(R(n)) > n
             failing == {n \in 0 .. N : ~ Grown(n)}
  <1>1. N \in Nat /\ F \subseteq 1 .. N /\ \A g \in F : Callees(module, g) \subseteq F
    BY ModuleFacts DEF Callees
  <1>2. R(0) = Callees(module, f) /\ \A n \in 1 .. N : R(n) = Onward(R(n - 1))
    BY <1>1, RoundsRecur
  <1>3. \A X \in SUBSET F : IsFiniteSet(X) /\ Cardinality(X) \in Nat /\ Cardinality(X) <= N
    <2>1. IsFiniteSet(1 .. N) /\ Cardinality(1 .. N) = N
      <3>1. N \in Int /\ 1 \in Int
        BY <1>1
      <3> HIDE DEF N
      <3>2. IsFiniteSet(1 .. N) /\ Cardinality(1 .. N) = IF 1 > N THEN 0 ELSE N - 1 + 1
        BY <3>1, FS_Interval
      <3> QED BY <1>1, <3>2
    <2>2. ASSUME NEW X \in SUBSET F
          PROVE  IsFiniteSet(X) /\ Cardinality(X) \in Nat /\ Cardinality(X) <= N
      <3>1. X \in SUBSET (1 .. N)
        BY <1>1
      <3>2. IsFiniteSet(X) /\ Cardinality(X) <= N
        BY <2>1, <3>1, FS_Subset
      <3> QED BY <3>2, FS_CardinalityType
    <2> QED BY <2>2
  <1> HIDE DEF N, R
  <1>4. failing = {}
    <2> SUFFICES ASSUME failing # {} PROVE FALSE
      OBVIOUS
    <2>1. PICK k \in failing : \A x \in failing : k <= x
      <3>1. failing \subseteq Nat
        BY <1>1
      <3> HIDE DEF failing
      <3> QED BY <3>1, Least
    <2>2. k \in 0 .. N /\ ~ Grown(k)
      BY <2>1
    <2>3. CASE k = 0
      <3>1. R(0) \in SUBSET F
        BY <1>1, <1>2
      <3>2. CASE R(0) = {}
        BY <1>2, <2>2, <2>3, <3>1, <3>2 DEF Closed
      <3>3. CASE R(0) # {}
        <4>1. Cardinality(R(0)) # 0
          BY <1>3, <3>1, <3>3, FS_EmptySet
        <4>2. Cardinality(R(0)) > 0
          BY <1>3, <3>1, <4>1
        <4> QED BY <1>2, <2>2, <2>3, <3>1, <4>2
      <3> QED BY <3>2, <3>3
    <2>4. CASE k # 0
      <3>1. k - 1 \in 0 .. N /\ k \in 1 .. N /\ ~ (k <= k - 1) /\ k \in Nat
        BY <1>1, <2>2, <2>4
      <3>2. k - 1 \notin failing
        BY <2>1, <3>1
      <3>3. Grown(k - 1)
        BY <3>1, <3>2
      <3>4. R(k) = Onward(R(k - 1)) /\ R(k - 1) \in SUBSET F
        BY <1>2, <3>1, <3>3
      <3>5. R(k) \in SUBSET F /\ R(k - 1) \subseteq R(k)
        BY <1>1, <3>4 DEF Onward
      <3>6. CASE Closed(R(k - 1))
        <4>1. R(k) = R(k - 1)
          BY <3>4, <3>6 DEF Onward, Closed
        <4> QED BY <2>2, <3>3, <3>6, <4>1
      <3>7. CASE ~ Closed(R(k - 1))
        <4>1. R(k) # R(k - 1)
          BY <3>4, <3>7 DEF Onward, Closed
        <4>2. Cardinality(R(k - 1)) < Cardinality(R(k))
          <5>1. IsFiniteSet(R(k)) /\ R(k - 1) \in SUBSET R(k)
            BY <1>3, <3>5
          <5>2. Cardinality(R(k - 1)) <= Cardinality(R(k))
                /\ (Cardinality(R(k - 1)) = Cardinality(R(k)) => R(k - 1) = R(k))
            BY <5>1, FS_Subset
          <5>3. Cardinality(R(k)) \in Nat /\ Cardinality(R(k - 1)) \in Nat
            BY <1>3, <3>4, <3>5
          <5> QED BY <4>1, <5>2, <5>3
        <4>3. Cardinality(R(k - 1)) > k - 1
          BY <3>3, <3>7
        <4>4. Cardinality(R(k)) \in Nat /\ Cardinality(R(k - 1)) \in Nat
          BY <1>3, <3>4, <3>5
        <4>5. Cardinality(R(k)) > k
          BY <3>1, <4>2, <4>3, <4>4
        <4> QED BY <2>2, <3>3, <3>5, <4>5
      <3> QED BY <3>6, <3>7
    <2> QED BY <2>3, <2>4
  <1>5. Grown(N)
    BY <1>1, <1>4
  <1>6. Closed(R(N))
    BY <1>1, <1>3, <1>5
  <1>7. Reached(f) = R(N)
    BY ReachedByRounds DEF R, N
  <1> QED BY <1>5, <1>6, <1>7

-----------------------------------------------------------------------------

(***************************************************************************)
(* The consumers.  The analyzer and the back end go through the functions  *)
(* as they are listed, and then through what is no function.               *)
(***************************************************************************)
InOrder(s) ==
  /\ s \in Seq(1 .. module.count)
  /\ s # <<>> => Searched
  /\ \A i \in 1 .. Len(s) :
       IF i <= Len(definition_order) THEN s[i] = definition_order[i]
       ELSE s[i] \notin F

(* What the capability check has found when the back end gets to work, and *)
(* what is declared then.                                                  *)
Checked ==
  /\ capable # "none" => Searched
  /\ capable \in {"yes", "planned"} =>
       \A f \in F : f \in Reached(f) => f \in module.representable
  /\ capable = "planned" => declared = {f \in recursive : f \in module.representable}
  /\ emitted # <<>> => capable = "planned"

OrderInv == SearchInv /\ ComponentInv /\ InOrder(analyzed) /\ InOrder(emitted) /\ Checked

LEMMA InOrderTypes ==
  ASSUME Basic, NEW s, InOrder(s)
  PROVE  /\ Len(s) \in Nat /\ DOMAIN s = 1 .. Len(s)
         /\ \A j \in 1 .. Len(s) : s[j] \in 1 .. module.count
         /\ Len(definition_order) \in Nat /\ DOMAIN definition_order = 1 .. Len(definition_order)
  <1> DEFINE N == 1 .. module.count
  <1>1. s \in Seq(N) /\ definition_order \in Seq(F)
    BY DEF InOrder, Basic
  <1> HIDE DEF N
  <1>2. /\ Len(s) \in Nat /\ DOMAIN s = 1 .. Len(s)
        /\ \A j \in 1 .. Len(s) : s[j] \in N
        /\ Len(definition_order) \in Nat /\ DOMAIN definition_order = 1 .. Len(definition_order)
    BY <1>1
  <1> QED
    BY <1>2 DEF N

(* Going on to what comes next.                                            *)
LEMMA NextStaysInOrder ==
  ASSUME Basic, Searched, NEW s, InOrder(s), NEW n \in 1 .. module.count, NextInOrder(s, n)
  PROVE  InOrder(Append(s, n))
  <1> DEFINE k == Len(s)
             t == Append(s, n)
  <1>1. k \in Nat /\ Len(definition_order) \in Nat
    BY InOrderTypes
  <1>2. /\ t \in Seq(1 .. module.count) /\ Len(t) = k + 1
        /\ \A i \in 1 .. k : t[i] = s[i]
        /\ t[k + 1] = n
    BY <1>1 DEF InOrder
  <1>3. IF k + 1 <= Len(definition_order) THEN n = definition_order[k + 1] ELSE n \notin F
    BY <1>1 DEF NextInOrder, F
  <1> HIDE DEF t, k
  <1>4. ASSUME NEW i \in 1 .. k + 1
        PROVE  IF i <= Len(definition_order) THEN t[i] = definition_order[i] ELSE t[i] \notin F
    <2>1. CASE i = k + 1
      BY <1>2, <1>3, <2>1
    <2>2. CASE i # k + 1
      <3>1. i \in 1 .. k
        BY <1>1, <2>2
      <3> QED
        BY <1>2, <3>1 DEF InOrder, k
    <2> QED
      BY <2>1, <2>2
  <1> QED
    BY <1>2, <1>4 DEF InOrder, t

(* What comes in this order comes after what it calls, recursion apart.    *)
LEMMA OrderedAfterCallees ==
  ASSUME SearchInv, NEW s, InOrder(s), NEW i \in DOMAIN s, NEW g \in module.calls[s[i]] \ {0}
  PROVE  /\ g \in F
         /\ \/ Before(s, i, g)
            \/ s[i] \in F /\ g \in Callees(module, s[i]) /\ LeadsTo(g, s[i])
  <1>1. /\ i \in 1 .. Len(s) /\ Len(s) \in Nat /\ s[i] \in 1 .. module.count
        /\ Len(definition_order) \in Nat /\ DOMAIN definition_order = 1 .. Len(definition_order)
    BY InOrderTypes DEF SearchInv
  <1>2. Basic /\ module \in Modules
    BY DEF SearchInv, Basic
  <1>3. g \in F
    BY <1>1, <1>2, ModuleFacts
  <1>4. CASE i <= Len(definition_order)
    <2>1. s[i] = definition_order[i] /\ i \in DOMAIN definition_order
      BY <1>1, <1>4 DEF InOrder
    <2>2. s[i] \in F
      BY <1>2, <2>1 DEF Basic
    <2>3. g \in Callees(module, s[i])
      BY <1>2, <2>2, ModuleFacts
    <2>4. \/ \E j \in 1 .. i - 1 : definition_order[j] = g
          \/ LeadsTo(g, s[i])
      BY <2>1, <2>3 DEF SearchInv, CalleesFirst
    <2>5. \A j \in 1 .. i - 1 : s[j] = definition_order[j]
      BY <1>1, <1>4 DEF InOrder
    <2> QED
      BY <1>3, <2>2, <2>3, <2>4, <2>5 DEF Before
  <1>5. CASE ~ (i <= Len(definition_order))
    <2>1. Searched
      <3>1. s # <<>>
        BY <1>1
      <3> QED
        BY <3>1 DEF InOrder
    <2>2. PICK j \in 1 .. Len(definition_order) : definition_order[j] = g
      BY <1>3, <2>1, SearchOver DEF IsListed
    <2>3. j \in 1 .. i - 1 /\ j \in 1 .. Len(s) /\ j <= Len(definition_order)
      BY <1>1, <1>5, <2>2
    <2>4. s[j] = g
      BY <2>2, <2>3 DEF InOrder
    <2> QED
      BY <1>3, <2>3, <2>4 DEF Before
  <1> QED
    BY <1>4, <1>5

LEMMA InitOrder == OrderInit => OrderInv
  <1> SUFFICES ASSUME OrderInit PROVE OrderInv
    OBVIOUS
  <1>1. SearchInv /\ ComponentInv
    BY InitSearch, ComponentInit DEF OrderInit
  <1>2. /\ analyzed = <<>> /\ Len(analyzed) = 0 /\ emitted = <<>> /\ Len(emitted) = 0
        /\ capable = "none"
    BY DEF OrderInit
  <1>3. InOrder(analyzed) /\ InOrder(emitted)
    BY <1>2 DEF InOrder
  <1>4. Checked
    BY <1>2 DEF Checked
  <1> QED
    BY <1>1, <1>3, <1>4 DEF OrderInv

LEMMA NextOrder == OrderInv /\ [OrderNext]_allVars => OrderInv'
  <1> SUFFICES ASSUME OrderInv, [OrderNext]_allVars PROVE OrderInv'
    OBVIOUS
  <1>1. CASE Search
    <2>1. ~ Searched /\ UNCHANGED consumers /\ Next
      BY <1>1, SearchOver DEF OrderInv, Search
    <2>2. analyzed = <<>> /\ emitted = <<>> /\ capable = "none"
      BY <2>1 DEF OrderInv, InOrder, Checked
    <2>3. /\ analyzed' = <<>> /\ Len(analyzed') = 0 /\ emitted' = <<>> /\ Len(emitted') = 0
          /\ capable' = "none"
      BY <2>1, <2>2 DEF consumers
    <2>4. InOrder(analyzed)' /\ InOrder(emitted)' /\ Checked'
      BY <2>3 DEF InOrder, Checked
    <2> QED
      BY <2>1, <2>4, NextSearch, NextComponents DEF OrderInv
  <1>2. CASE UNCHANGED vars
    <2>1. SearchInv' /\ ComponentInv'
      BY <1>2, KeepSearch, KeepComponents DEF OrderInv, vars
    <2>2. /\ UNCHANGED <<module, definition_order, recursive>>
          /\ F' = F /\ (Searched' <=> Searched)
          /\ \A f : Reached(f)' = Reached(f)
      BY <1>2 DEF vars, F, Searched, Reached
    <2>3. \A s : InOrder(s) => /\ s \in Seq(1 .. module'.count)
                               /\ s # <<>> => Searched'
                               /\ \A i \in 1 .. Len(s) :
                                    IF i <= Len(definition_order') THEN s[i] = definition_order'[i]
                                    ELSE s[i] \notin F'
      BY <2>2 DEF InOrder
    <2>4. ASSUME InOrder(analyzed') PROVE InOrder(analyzed)'
      BY <2>3, <2>4 DEF InOrder
    <2>5. ASSUME InOrder(emitted') PROVE InOrder(emitted)'
      BY <2>3, <2>5 DEF InOrder
    <2>6. InOrder(analyzed) /\ InOrder(emitted) /\ Checked /\ Basic
      BY DEF OrderInv, SearchInv
    <2>7. CASE Analyze
      <3>1. InOrder(analyzed')
        BY <2>6, <2>7, NextStaysInOrder DEF Analyze
      <3>2. UNCHANGED <<capable, declared, emitted>>
        BY <2>7 DEF Analyze
      <3>3. Checked'
        BY <2>2, <2>6, <3>2 DEF Checked
      <3> QED BY <2>1, <2>4, <2>5, <2>6, <3>1, <3>2, <3>3 DEF OrderInv
    <2>8. CASE Validate
      <3>1. /\ Searched /\ UNCHANGED <<analyzed, declared, emitted>> /\ capable = "none"
            /\ capable' = "yes" => \A f \in F : f \in Reached(f) => f \in module.representable
            /\ capable' # "planned"
        BY <2>8 DEF Validate, F
      <3>2. emitted = <<>>
        BY <2>6, <3>1 DEF Checked
      <3>3. Checked'
        BY <2>2, <3>1, <3>2 DEF Checked
      <3> QED BY <2>1, <2>4, <2>5, <2>6, <3>1, <3>3 DEF OrderInv
    <2>9. CASE Plan
      <3>1. /\ capable = "yes" /\ capable' = "planned" /\ UNCHANGED <<analyzed, emitted>>
            /\ declared' = {f \in recursive : f \in module.representable}
        BY <2>9 DEF Plan
      <3>2. Checked'
        BY <2>2, <2>6, <3>1 DEF Checked
      <3> QED BY <2>1, <2>4, <2>5, <2>6, <3>1, <3>2 DEF OrderInv
    <2>10. CASE Emit
      <3>1. capable = "planned" /\ UNCHANGED <<analyzed, capable, declared>>
        BY <2>10 DEF Emit
      <3>2. Searched
        BY <2>6, <3>1 DEF Checked
      <3>3. InOrder(emitted')
        BY <2>6, <2>10, <3>2, NextStaysInOrder DEF Emit
      <3>4. Checked'
        BY <2>2, <2>6, <3>1 DEF Checked
      <3> QED BY <2>1, <2>4, <2>5, <2>6, <3>1, <3>3, <3>4 DEF OrderInv
    <2>11. CASE UNCHANGED consumers
      <3>1. UNCHANGED <<analyzed, capable, declared, emitted>>
        BY <2>11 DEF consumers
      <3>2. Checked'
        BY <2>2, <2>6, <3>1 DEF Checked
      <3> QED BY <2>1, <2>4, <2>5, <2>6, <3>1, <3>2 DEF OrderInv
    <2> QED
      BY <1>1, <2>7, <2>8, <2>9, <2>10, <2>11 DEF OrderNext, allVars, Search
  <1> QED
    BY <1>1, <1>2 DEF OrderNext, Analyze, Validate, Plan, Emit, allVars

LEMMA OrderKept == OrderSpec => []OrderInv
  BY InitOrder, NextOrder, PTL DEF OrderSpec

(* Whatever functions call whatever functions: when the analyzer reaches a *)
(* statement, it has been through every function the statement calls,      *)
(* unless the call is recursive.                                           *)
THEOREM FactsAreReady == OrderSpec => []FactsReady
  <1>1. OrderInv => FactsReady
    BY OrderedAfterCallees DEF OrderInv, FactsReady, F
  <1> QED
    BY <1>1, OrderKept, PTL

(* Whatever functions call whatever functions, in a unit that is emitted   *)
(* nothing is used before it is defined or declared: a call that comes too *)
(* early closes a cycle, so that the components have marked the callee and *)
(* the check of the program's calls has made sure of its return type.      *)
THEOREM UsesAreDeclared == OrderSpec => []UsesDeclared
  <1>1. ASSUME OrderInv PROVE UsesDeclared
    <2> SUFFICES ASSUME NEW i \in DOMAIN emitted, NEW g \in module.calls[emitted[i]] \ {0},
                        ~ Before(emitted, i, g)
                 PROVE  g \in declared
      BY DEF UsesDeclared
    <2>1. SearchInv /\ ComponentInv /\ InOrder(emitted) /\ Checked /\ module \in Modules
      BY <1>1 DEF OrderInv, SearchInv, Basic
    <2>2. capable = "planned" /\ Searched
      <3>1. emitted # <<>>
        BY <2>1 DEF SearchInv
      <3> QED
        BY <2>1, <3>1 DEF Checked
    <2> DEFINE f == emitted[i]
    <2>3. g \in F /\ f \in F /\ g \in Callees(module, f) /\ LeadsTo(g, f)
      BY <2>1, OrderedAfterCallees
    <2>4. OnCycle(g)
      <3>1. CASE g = f
        BY <2>3, <3>1, LeadsToSelf DEF OnCycle
      <3>2. CASE g # f
        BY <2>1, <2>3, <3>2, LeadsToCallee, CycleThrough
      <3> QED BY <3>1, <3>2
    <2>5. g \in recursive
      BY <2>1, <2>2, <2>3, <2>4, AllMarked
    <2>6. g \in Reached(g)
      <3>1. PICK h \in Callees(module, g) : LeadsTo(h, g)
        BY <2>4 DEF OnCycle
      <3>2. Closed(Reached(g)) /\ h \in Reached(g) /\ Reached(g) \in SUBSET Functions(module)
        BY <2>1, <2>3, ReachedClosed DEF F
      <3> QED
        BY <3>1, <3>2 DEF LeadsTo
    <2> QED
      BY <2>1, <2>2, <2>3, <2>5, <2>6 DEF Checked
  <1> QED
    BY <1>1, OrderKept, PTL
=============================================================================
