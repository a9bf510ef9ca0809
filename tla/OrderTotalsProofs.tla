-------------------------- MODULE OrderTotalsProofs --------------------------
(***************************************************************************)
(* Proofs about the totals of OrderManager, for any number of slots, ids,  *)
(* volumes and prices.  A sum over a finite set is unfolded by induction   *)
(* over its subsets first; what a step changes in the sums is then the     *)
(* part of one slot and of one request.                                    *)
(***************************************************************************)
EXTENDS OrderManagerProofs, OrderTotals

-----------------------------------------------------------------------------
(* Sums over finite sets.                                                  *)

Pick(s) == CHOOSE x \in s : TRUE

Sums(f, S, g) ==
  g = [s \in SUBSET S |-> IF s = {} THEN 0 ELSE f[Pick(s)] + g[s \ {Pick(s)}]]

LEMMA Unfolded ==
  ASSUME NEW f, NEW S
  PROVE  SumFunctionOnSet(f, S) = (CHOOSE g : Sums(f, S, g))[S]
BY DEF SumFunctionOnSet, FoldFunctionOnSet, MapThenFoldSet, Sums, Pick

LEMMA SubsetInduction ==
  ASSUME NEW S, IsFiniteSet(S), NEW P,
         \A U \in SUBSET S : (\A V \in SUBSET U : V # U => V \in P) => U \in P
  PROVE  S \in P
<1> DEFINE Bad == {U \in SUBSET S : U \notin P}
<1>1. IsWellFoundedOn(StrictSubsetOrdering(S), FiniteSubsetsOf(S))
  BY FS_StrictSubsetOrderingWellFounded
<1>2. FiniteSubsetsOf(S) = SUBSET S
  BY FS_FiniteSubsetsOfFinite
<1>3. Bad \subseteq FiniteSubsetsOf(S)
  BY <1>2
<1>4. Bad # {} => \E U \in Bad : \A V \in Bad : ~(<<V, U>> \in StrictSubsetOrdering(S))
  <2> HIDE DEF Bad
  <2>1. QED
    BY <1>1, <1>3, WFMin
<1>5. Bad = {}
  BY <1>4 DEF StrictSubsetOrdering
<1>6. QED
  BY <1>5

LEMMA PickIn == ASSUME NEW s, s # {} PROVE Pick(s) \in s
BY DEF Pick

LEMMA SumsUnique ==
  ASSUME NEW f, NEW A, NEW B, NEW g, NEW h, Sums(f, A, g), Sums(f, B, h),
         NEW S, S \subseteq A, S \subseteq B, IsFiniteSet(S)
  PROVE  g[S] = h[S]
<1> DEFINE P == {U \in SUBSET S : g[U] = h[U]}
<1>1. ASSUME NEW U \in SUBSET S, \A V \in SUBSET U : V # U => V \in P
      PROVE  U \in P
  <2>1. /\ g[U] = IF U = {} THEN 0 ELSE f[Pick(U)] + g[U \ {Pick(U)}]
        /\ h[U] = IF U = {} THEN 0 ELSE f[Pick(U)] + h[U \ {Pick(U)}]
    BY DEF Sums
  <2>2. CASE U # {}
    <3>1. Pick(U) \in U
      BY <2>2, PickIn
    <3>2. g[U \ {Pick(U)}] = h[U \ {Pick(U)}]
      BY <1>1, <3>1
    <3>3. QED
      BY <2>1, <2>2, <3>2
  <2>3. QED
    BY <2>1, <2>2
<1>2. S \in P
  <2> HIDE DEF P
  <2>1. QED
    BY <1>1, SubsetInduction
<1>3. QED
  BY <1>2

LEMMA SumsExist ==
  ASSUME NEW f, NEW S, IsFiniteSet(S)
  PROVE  \E g : Sums(f, S, g)
<1> DEFINE P == {U \in SUBSET S : \E g : Sums(f, U, g)}
           total(s) == (CHOOSE g : Sums(f, s, g))[s]
           next(s) == IF s = {} THEN 0 ELSE f[Pick(s)] + total(s \ {Pick(s)})
<1>1. ASSUME NEW U \in SUBSET S, \A V \in SUBSET U : V # U => V \in P
      PROVE  U \in P
  <2>1. ASSUME NEW s \in SUBSET U, s # U
        PROVE  total(s) = next(s)
    <3> DEFINE h == CHOOSE k : Sums(f, s, k)
    <3>1. Sums(f, s, h)
      BY <1>1, <2>1
    <3>2. h[s] = IF s = {} THEN 0 ELSE f[Pick(s)] + h[s \ {Pick(s)}]
      BY <3>1 DEF Sums
    <3>3. CASE s # {}
      <4> DEFINE r == s \ {Pick(s)}
      <4>1. Pick(s) \in s /\ r \subseteq s /\ r # U /\ r \subseteq U
        BY <2>1, <3>3, PickIn
      <4>2. Sums(f, r, CHOOSE k : Sums(f, r, k))
        BY <1>1, <4>1
      <4>3. IsFiniteSet(r)
        BY <1>1, <4>1, FS_Subset
      <4>4. h[r] = total(r)
        BY <3>1, <4>1, <4>2, <4>3, SumsUnique
      <4>5. QED
        BY <3>2, <3>3, <4>4
    <3>4. QED
      BY <3>2, <3>3
  <2> DEFINE g == [s \in SUBSET U |-> next(s)]
  <2>2. ASSUME NEW s \in SUBSET U, s # {}
        PROVE  g[s \ {Pick(s)}] = total(s \ {Pick(s)})
    <3>1. s \ {Pick(s)} # U /\ s \ {Pick(s)} \in SUBSET U
      BY <2>2, PickIn
    <3> HIDE DEF total, next
    <3>2. QED
      BY <2>1, <3>1
  <2>3. Sums(f, U, g)
    <3> HIDE DEF total
    <3>1. QED
      BY <2>2 DEF Sums
  <2>4. QED
    BY <2>3
<1>2. S \in P
  <2> HIDE DEF P
  <2>1. QED
    BY <1>1, SubsetInduction
<1>3. QED
  BY <1>2

(* The sum over a finite set, one element at a time. *)
LEMMA SumEmpty ==
  ASSUME NEW f PROVE SumFunctionOnSet(f, {}) = 0
<1>1. \E g : Sums(f, {}, g)
  BY SumsExist, FS_EmptySet
<1>2. QED
  BY <1>1, Unfolded DEF Sums

LEMMA SumPick ==
  ASSUME NEW f, NEW S, IsFiniteSet(S), S # {}
  PROVE  SumFunctionOnSet(f, S) = f[Pick(S)] + SumFunctionOnSet(f, S \ {Pick(S)})
<1> DEFINE g == CHOOSE h : Sums(f, S, h)
           r == S \ {Pick(S)}
           k == CHOOSE h : Sums(f, r, h)
<1>1. Sums(f, S, g)
  BY SumsExist
<1>2. IsFiniteSet(r) /\ r \subseteq S
  BY FS_Subset
<1>3. Sums(f, r, k)
  BY <1>2, SumsExist
<1>4. g[r] = k[r]
  BY <1>1, <1>2, <1>3, SumsUnique
<1>5. g[S] = f[Pick(S)] + g[r]
  BY <1>1 DEF Sums
<1>6. SumFunctionOnSet(f, S) = g[S] /\ SumFunctionOnSet(f, r) = k[r]
  BY Unfolded
<1>7. QED
  BY <1>4, <1>5, <1>6

(* Two functions that agree on a set have the same sum over it. *)
LEMMA SumSame ==
  ASSUME NEW S, IsFiniteSet(S), NEW f, NEW h, \A s \in S : f[s] = h[s]
  PROVE  SumFunctionOnSet(f, S) = SumFunctionOnSet(h, S)
<1> DEFINE P == {s \in SUBSET S : SumFunctionOnSet(f, s) = SumFunctionOnSet(h, s)}
<1>1. ASSUME NEW U \in SUBSET S, \A V \in SUBSET U : V # U => V \in P
      PROVE  U \in P
  <2>1. CASE U = {}
    BY <2>1, SumEmpty
  <2>2. CASE U # {}
    <3>1. IsFiniteSet(U) /\ Pick(U) \in U
      BY <2>2, PickIn, FS_Subset
    <3>2. SumFunctionOnSet(f, U \ {Pick(U)}) = SumFunctionOnSet(h, U \ {Pick(U)})
      BY <1>1, <3>1
    <3>3. f[Pick(U)] = h[Pick(U)]
      BY <3>1
    <3>4. QED
      BY <2>2, <3>1, <3>2, <3>3, SumPick
  <2>3. QED
    BY <2>1, <2>2
<1>2. S \in P
  <2> HIDE DEF P
  <2>1. QED
    BY <1>1, SubsetInduction
<1>3. QED
  BY <1>2

LEMMA SumType ==
  ASSUME NEW S, IsFiniteSet(S), NEW f, \A s \in S : f[s] \in Int
  PROVE  SumFunctionOnSet(f, S) \in Int
<1> DEFINE P == {s \in SUBSET S : SumFunctionOnSet(f, s) \in Int}
<1>1. ASSUME NEW U \in SUBSET S, \A V \in SUBSET U : V # U => V \in P
      PROVE  U \in P
  <2>1. CASE U = {}
    BY <2>1, SumEmpty
  <2>2. CASE U # {}
    <3>1. IsFiniteSet(U) /\ Pick(U) \in U
      BY <2>2, PickIn, FS_Subset
    <3>2. SumFunctionOnSet(f, U \ {Pick(U)}) \in Int
      BY <1>1, <3>1
    <3>3. f[Pick(U)] \in Int
      BY <3>1
    <3>4. QED
      BY <2>2, <3>1, <3>2, <3>3, SumPick
  <2>3. QED
    BY <2>1, <2>2
<1>2. S \in P
  <2> HIDE DEF P
  <2>1. QED
    BY <1>1, SubsetInduction
<1>3. QED
  BY <1>2

(* Any element may be taken out first. *)
LEMMA SumTakeOut ==
  ASSUME NEW S, IsFiniteSet(S), NEW f, \A s \in S : f[s] \in Int, NEW x \in S
  PROVE  SumFunctionOnSet(f, S) = SumFunctionOnSet(f, S \ {x}) + f[x]
<1> DEFINE Out(s, y) == SumFunctionOnSet(f, s) = SumFunctionOnSet(f, s \ {y}) + f[y]
           P == {s \in SUBSET S : \A y \in s : Out(s, y)}
<1>1. ASSUME NEW U \in SUBSET S, \A V \in SUBSET U : V # U => V \in P
      PROVE  U \in P
  <2>1. SUFFICES ASSUME NEW y \in U PROVE Out(U, y)
    OBVIOUS
  <2>2. PICK p \in U : /\ IsFiniteSet(U)
                       /\ SumFunctionOnSet(f, U) = f[p] + SumFunctionOnSet(f, U \ {p})
    BY PickIn, FS_Subset, SumPick
  <2> DEFINE V == U \ {p}
             W == U \ {y}
             X == U \ {p, y}
  <2>3. IsFiniteSet(V) /\ IsFiniteSet(W) /\ IsFiniteSet(X)
    BY <2>2, FS_Subset
  <2>4. /\ SumFunctionOnSet(f, V) \in Int /\ SumFunctionOnSet(f, W) \in Int
        /\ SumFunctionOnSet(f, X) \in Int /\ f[p] \in Int /\ f[y] \in Int
    BY <2>3, SumType
  <2>5. CASE p = y
    BY <2>2, <2>4, <2>5
  <2>6. CASE p # y
    <3>1. V \in P /\ W \in P /\ y \in V /\ p \in W
      BY <1>1, <2>6
    <3>2. V \ {y} = X /\ W \ {p} = X
      OBVIOUS
    <3>3. /\ SumFunctionOnSet(f, V) = SumFunctionOnSet(f, X) + f[y]
          /\ SumFunctionOnSet(f, W) = SumFunctionOnSet(f, X) + f[p]
      BY <3>1, <3>2
    <3> HIDE DEF V, W, X
    <3>4. SumFunctionOnSet(f, U) = SumFunctionOnSet(f, W) + f[y]
      BY <2>2, <2>4, <3>3 DEF V
    <3>5. QED
      BY <3>4 DEF W
  <2>7. QED
    BY <2>5, <2>6
<1>2. S \in P
  <2> HIDE DEF P
  <2>1. QED
    BY <1>1, SubsetInduction
<1>3. QED
  BY <1>2

(* The part of x in the sum. *)
Part(f, S, x) == IF x \in S THEN f[x] ELSE 0

LEMMA SumWithout ==
  ASSUME NEW S, IsFiniteSet(S), NEW f, \A s \in S : f[s] \in Int, NEW x
  PROVE  /\ SumFunctionOnSet(f, S) = SumFunctionOnSet(f, S \ {x}) + Part(f, S, x)
         /\ SumFunctionOnSet(f, S) \in Int
         /\ SumFunctionOnSet(f, S \ {x}) \in Int
         /\ Part(f, S, x) \in Int
<1>1. IsFiniteSet(S \ {x})
  BY FS_Subset
<1>2. /\ SumFunctionOnSet(f, S) \in Int
      /\ SumFunctionOnSet(f, S \ {x}) \in Int
  BY <1>1, SumType
<1>3. CASE x \in S
  BY <1>2, <1>3, SumTakeOut DEF Part
<1>4. CASE x \notin S
  <2>1. S \ {x} = S
    BY <1>4
  <2>2. SumFunctionOnSet(f, S \ {x}) = SumFunctionOnSet(f, S)
    BY <2>1
  <2>3. Part(f, S, x) = 0
    BY <1>4 DEF Part
  <2>4. QED
    BY <1>2, <2>2, <2>3
<1>5. QED
  BY <1>3, <1>4

(* A change at one element only, of its value or of its membership. *)
LEMMA SumStep ==
  ASSUME NEW S, IsFiniteSet(S), NEW T, IsFiniteSet(T), NEW f, NEW h, NEW x,
         \A s \in S : f[s] \in Int, \A t \in T : h[t] \in Int,
         S \ {x} = T \ {x}, \A s \in S \ {x} : f[s] = h[s]
  PROVE  SumFunctionOnSet(h, T) =
           (SumFunctionOnSet(f, S) + Part(h, T, x)) - Part(f, S, x)
<1> DEFINE R == S \ {x}
<1>1. IsFiniteSet(R) /\ R = T \ {x}
  BY FS_Subset
<1>2. SumFunctionOnSet(f, R) = SumFunctionOnSet(h, R)
  BY <1>1, SumSame
<1>3. /\ SumFunctionOnSet(f, S) = SumFunctionOnSet(f, R) + Part(f, S, x)
      /\ SumFunctionOnSet(f, R) \in Int /\ Part(f, S, x) \in Int
  BY SumWithout
<1>4. /\ SumFunctionOnSet(h, T) = SumFunctionOnSet(h, T \ {x}) + Part(h, T, x)
      /\ Part(h, T, x) \in Int
  BY SumWithout
<1> HIDE DEF R
<1>5. SumFunctionOnSet(h, T) = SumFunctionOnSet(h, R) + Part(h, T, x)
  BY <1>1, <1>4
<1>6. QED
  BY <1>2, <1>3, <1>4, <1>5

(* The elements of a set of numbers may be renumbered. *)
LEMMA SumShifted ==
  ASSUME NEW S \in SUBSET Int, IsFiniteSet(S), NEW f, NEW h,
         \A i \in S : f[i] \in Int /\ h[i + 1] = f[i]
  PROVE  SumFunctionOnSet(h, {i + 1 : i \in S}) = SumFunctionOnSet(f, S)
<1> DEFINE up(U) == {i + 1 : i \in U}
           P == {U \in SUBSET S :
                   /\ IsFiniteSet(up(U))
                   /\ SumFunctionOnSet(h, up(U)) = SumFunctionOnSet(f, U)}
<1>1. ASSUME NEW U \in SUBSET S, \A V \in SUBSET U : V # U => V \in P
      PROVE  U \in P
  <2>1. CASE U = {}
    <3>1. up(U) = {}
      BY <2>1
    <3>2. QED
      BY <2>1, <3>1, SumEmpty, FS_EmptySet
  <2>2. CASE U # {}
    <3>1. PICK p \in U : TRUE
      BY <2>2
    <3> DEFINE V == U \ {p}
    <3>2. V \in P
      BY <1>1, <3>1
    <3>3. IsFiniteSet(U) /\ \A i \in U : f[i] \in Int
      BY FS_Subset
    <3>4. up(U) = up(V) \cup {p + 1}
      BY <3>1
    <3>5. up(U) \ {p + 1} = up(V)
      BY <3>1
    <3>6. \A i \in up(U) : h[i] \in Int
      OBVIOUS
    <3>7. p + 1 \in up(U)
      BY <3>1
    <3>8. SumFunctionOnSet(f, U) = SumFunctionOnSet(f, V) + f[p]
      BY <3>1, <3>3, SumTakeOut
    <3>9. /\ IsFiniteSet(up(V))
          /\ SumFunctionOnSet(h, up(V)) = SumFunctionOnSet(f, V)
      BY <3>2
    <3> HIDE DEF up
    <3>10. IsFiniteSet(up(U))
      <4>1. IsFiniteSet(up(V) \cup {p + 1})
        BY <3>9, FS_AddElement
      <4>2. QED
        BY <3>4, <4>1
    <3>11. SumFunctionOnSet(h, up(U)) =
             SumFunctionOnSet(h, up(U) \ {p + 1}) + h[p + 1]
      BY <3>6, <3>7, <3>10, SumTakeOut
    <3>12. SumFunctionOnSet(h, up(U)) = SumFunctionOnSet(f, U)
      BY <3>5, <3>8, <3>9, <3>11
    <3>13. QED
      BY <3>10, <3>12
  <2>3. QED
    BY <2>1, <2>2
<1>2. S \in P
  <2> HIDE DEF P
  <2>1. QED
    BY <1>1, SubsetInduction
<1>3. QED
  BY <1>2

(* Over the places of a queue, the oldest may be taken out first.          *)
LEMMA SumTail ==
  ASSUME NEW S, S \subseteq Nat \ {0}, IsFiniteSet(S),
         NEW T, T \subseteq Nat \ {0}, IsFiniteSet(T),
         NEW f, NEW h, \A i \in S : f[i] \in Int,
         \A i \in Nat \ {0} : i \in T <=> i + 1 \in S,
         \A i \in T : h[i] = f[i + 1]
  PROVE  SumFunctionOnSet(h, T) = SumFunctionOnSet(f, S) - Part(f, S, 1)
<1>1. {i + 1 : i \in T} = S \ {1}
  <2>1. \A i \in S \ {1} : i - 1 \in Nat \ {0} /\ (i - 1) + 1 = i
    OBVIOUS
  <2>2. \A i \in S \ {1} : i - 1 \in T
    BY <2>1
  <2>3. \A i \in T : i + 1 \in S /\ i + 1 # 1
    OBVIOUS
  <2>4. ASSUME NEW i \in S \ {1}
        PROVE  \E k \in T : i = k + 1
    BY <2>1, <2>2
  <2> DEFINE U == {i + 1 : i \in T}
  <2>5. U \subseteq S \ {1}
    BY <2>3
  <2>6. S \ {1} \subseteq U
    BY <2>4
  <2> HIDE DEF U
  <2>7. U = S \ {1}
    BY <2>5, <2>6
  <2>8. QED
    BY <2>7 DEF U
<1>2. T \in SUBSET Int /\ \A i \in T : h[i] \in Int /\ f[i + 1] = h[i]
  OBVIOUS
<1>3. SumFunctionOnSet(f, {i + 1 : i \in T}) = SumFunctionOnSet(h, T)
  BY <1>2, SumShifted
<1>4. /\ SumFunctionOnSet(f, S) =
           SumFunctionOnSet(f, S \ {1}) + Part(f, S, 1)
      /\ SumFunctionOnSet(f, S \ {1}) \in Int
      /\ Part(f, S, 1) \in Int
  BY SumWithout
<1>5. SumFunctionOnSet(f, S \ {1}) = SumFunctionOnSet(h, T)
  BY <1>1, <1>3
<1>6. QED
  BY <1>4, <1>5

-----------------------------------------------------------------------------
(* The manager and the SymbolState change their shares alike.              *)

AgreeOn(t, u) ==
  /\ t.pendingShares = u.pendingShares
  /\ t.pendingCancellations = u.pendingCancellations
  /\ t.ownShares = u.ownShares

LEMMA AddPendingAgrees ==
  ASSUME NEW t \in Totals, NEW u \in Totals, AgreeOn(t, u), NEW side,
         NEW volume \in Int, NEW value \in Int, NEW worth \in Int
  PROVE  AgreeOn(AddPending(t, side, volume, value),
                 AddPending(u, side, volume, worth))
BY DEF AgreeOn, AddPending, Totals

LEMMA AddCancellingAgrees ==
  ASSUME NEW t \in Totals, NEW u \in Totals, AgreeOn(t, u), NEW side,
         NEW volume \in Int
  PROVE  AgreeOn(AddCancelling(t, side, volume), AddCancelling(u, side, volume))
BY DEF AgreeOn, AddCancelling, Totals

LEMMA FillAgrees ==
  ASSUME NEW t \in Totals, NEW u \in Totals, AgreeOn(t, u), NEW side,
         NEW price \in Int, NEW volume \in Int
  PROVE  AgreeOn(onOrderFill(t, side, price, volume),
                 onOrderFill(u, side, price, volume))
<1> DEFINE a == AddPending(t, side, -volume, -(volume * price))
           b == AddPending(u, side, -volume, -(volume * price))
<1>1. -volume \in Int /\ -(volume * price) \in Int
  OBVIOUS
<1>2. AgreeOn(a, b) /\ a \in Totals /\ b \in Totals
  BY <1>1, AddPendingAgrees, AddPendingType
<1> HIDE DEF a, b
<1>3. AgreeOn([a EXCEPT !.ownShares = IF side = "BUY" THEN @ + volume ELSE @ - volume],
              [b EXCEPT !.ownShares = IF side = "BUY" THEN @ + volume ELSE @ - volume])
  BY <1>2 DEF AgreeOn, Totals
<1>4. QED
  BY <1>3 DEF onOrderFill, a, b

(* The entry a report is about, and the numbers its handler adds.          *)
LEMMA EntryNumbers ==
  ASSUME TypeOK, NEW i \in Ids, HasEntry(i)
  PROVE  /\ SlotOf(i) \in Slots /\ EntryOf(i) \in OrderEntry
         /\ EntryOf(i).price \in Nat /\ EntryOf(i).volume \in Nat
         /\ EntryOf(i).newPrice \in Nat /\ EntryOf(i).newVolume \in Nat
         /\ EntryOf(i).filled \in Nat
         /\ Unfilled(EntryOf(i)) \in Int /\ -Unfilled(EntryOf(i)) \in Int
<1>1. EntryTypes
  BY DEF TypeOK, EntryTypes
<1>2. SlotOf(i) \in Slots /\ EntryOf(i) \in OrderEntry
  BY <1>1, EntryFound
<1>3. QED
  BY <1>2 DEF OrderEntry, Unfilled

LEMMA HandleAgrees ==
  ASSUME TypeOK, SymbolAgrees, NEW m \in ProperReport,
         Handle(m) \/ UNCHANGED handled
  PROVE  SymbolAgrees'
<1> DEFINE e == EntryOf(m.id)
           u == Unfilled(e)
<1>1. totals \in Totals /\ symbol \in Totals /\ AgreeOn(totals, symbol)
  BY DEF TypeOK, SymbolAgrees, AgreeOn
<1>2. SUFFICES ASSUME HasEntry(m.id), ~UNCHANGED handled
               PROVE  AgreeOn(totals', symbol')
  <2>1. AgreeOn(totals', symbol') => SymbolAgrees'
    BY DEF AgreeOn, SymbolAgrees
  <2>2. UNCHANGED handled => SymbolAgrees'
    BY DEF handled, SymbolAgrees
  <2>3. QED
    BY <2>1, <2>2 DEF Handle
<1>3. /\ m.id \in Ids /\ m.price \in Int /\ m.qty \in Int
  BY DEF ProperReport
<1>4. /\ u \in Int /\ -u \in Int /\ e.price \in Int /\ e.volume \in Int
      /\ e.newPrice \in Int /\ e.newVolume \in Int
  BY <1>2, <1>3, EntryNumbers
<1> HIDE DEF u, e
<1>5. CASE m.type = "NEW" /\ handleSingleOrderAck(m)
  BY <1>1, <1>5 DEF handleSingleOrderAck
<1>6. CASE m.type = "REJECTED" /\ handleSingleOrderReject(m)
  <2>1. /\ totals' = AddPending(totals, e.side, -u, -(u * e.price))
        /\ symbol' = AddPending(symbol, e.side, -u, -(u * e.price))
    BY <1>6 DEF handleSingleOrderReject, onSingleOrderReject, u, e
  <2>2. -(u * e.price) \in Int
    BY <1>4
  <2>3. QED
    BY <1>1, <1>4, <2>1, <2>2, AddPendingAgrees
<1>7. CASE m.type = "TRADE" /\ handleOrderFill(m)
  <2>1. CASE UNCHANGED <<totals, symbol>>
    BY <1>1, <2>1
  <2>2. CASE /\ totals' = onOrderFill(totals, m.side, m.price, m.qty)
             /\ symbol' = onOrderFill(symbol, m.side, m.price, m.qty)
    BY <1>1, <1>3, <2>2, FillAgrees
  <2>3. QED
    BY <1>7, <2>1, <2>2 DEF handleOrderFill, handled, Abort
<1>8. CASE m.type = "CANCELED" /\ handleCanceledOrder(m)
  <2> DEFINE a == AddCancelling(totals, e.side, -u)
             b == AddCancelling(symbol, e.side, -u)
  <2>1. /\ totals' = AddPending(a, e.side, -u, 0)
        /\ symbol' = AddPending(b, e.side, -u, -(u * e.price))
    BY <1>8 DEF handleCanceledOrder, onCancelOrderAck, u, e
  <2>2. -(u * e.price) \in Int
    BY <1>4
  <2>3. AgreeOn(a, b) /\ a \in Totals /\ b \in Totals
    BY <1>1, <1>4, AddCancellingAgrees, AddCancellingType
  <2> HIDE DEF a, b
  <2>4. QED
    BY <1>4, <2>1, <2>2, <2>3, AddPendingAgrees
<1>9. CASE m.type = "REPLACED" /\ handleEditOrderAck(m)
  BY <1>1, <1>9 DEF handleEditOrderAck
<1>10. CASE m.type = "CANCEL_REJECT" /\ handleCancelOrderReject(m)
  <2>1. /\ totals' = AddCancelling(totals, e.side, -u)
        /\ symbol' = AddCancelling(symbol, e.side, -u)
    BY <1>10 DEF handleCancelOrderReject, onCancelOrderReject, u, e
  <2>2. QED
    BY <1>1, <1>4, <2>1, AddCancellingAgrees
<1>11. CASE m.type = "REPLACE_REJECT" /\ handleEditOrderReject(m)
  <2> DEFINE change == e.volume - e.newVolume
             value == e.volume * e.price - e.newVolume * e.newPrice
  <2>1. /\ totals' = AddPending(totals, e.side, change, 0)
        /\ symbol' = AddPending(symbol, e.side, change, value)
    BY <1>11 DEF handleEditOrderReject, onEditOrderReject, e
  <2>2. change \in Int /\ value \in Int
    BY <1>4
  <2> HIDE DEF change, value
  <2>3. QED
    BY <1>1, <2>1, <2>2, AddPendingAgrees
<1>12. QED
  BY <1>2, <1>5, <1>6, <1>7, <1>8, <1>9, <1>10, <1>11 DEF Handle

-----------------------------------------------------------------------------
(* What the broker sends, and what it does to its book.                    *)

(* A trade that was sent does not go beyond the book, and its order is     *)
(* open unless it was the last.                                            *)
TradeSafe ==
  lastReport.type = "TRADE" =>
    /\ lastReport.cum <= book[lastReport.order].cum
    /\ ~lastReport.full => book[lastReport.order].state = "open"

LEMMA ReportFacts ==
  ASSUME IInv, NEW type \in ReportType \ {"NONE", "TRADE"}, NEW id \in Used,
         NEW order, order = parent[id],
         type \in {"REJECTED", "CANCELED", "REPLACED"} =>
           book[order].state \in {"sent", "open"},
         type = "REJECTED" => id = order,
         NEW m, m = Report(type, id, order)
  PROVE  /\ m \in ProperReport /\ Justified(m)
         /\ m.type = type /\ m.id = id /\ m.order = order
         /\ m.side = book[order].side
<1>1. /\ book \in [Ids -> BookEntry] /\ Used \subseteq Ids /\ order \in Used
  BY IdsUsed DEF IInv, TypeOK
<1>2. book[order].side \in Side
  BY <1>1 DEF BookEntry
<1>3. /\ m \in ProperReport /\ m.type = type /\ m.id = id /\ m.order = order
      /\ m.side = book[order].side /\ m.full = FALSE
  BY <1>1, <1>2 DEF Report, ProperReport
<1>4. Terminal(m) \/ m.type = "REPLACED" =>
        type \in {"REJECTED", "CANCELED", "REPLACED"}
  BY <1>3 DEF Terminal
<1>5. Justified(m)
  BY <1>3, <1>4, FreshReport
<1>6. QED
  BY <1>3, <1>5

LEMMA TradeFacts ==
  ASSUME IInv, NEW o \in Ids, NEW price \in Prices,
         NEW qty \in 1 .. book[o].volume, Fill(o, qty, price),
         NEW m, m = Trade(o, qty, price)
  PROVE  /\ m \in ProperReport /\ Justified(m)
         /\ m.type = "TRADE" /\ m.id = book[o].clid /\ m.order = o
         /\ m.id \in Used /\ parent[m.id] = o
         /\ m.side = book[o].side /\ m.qty = qty /\ m.price = price
         /\ m.cum = book[o].cum + qty
         /\ m.full <=> book[o].cum + qty = book[o].volume
         /\ book[o].state = "open" /\ o \in live
         /\ book' \in [Ids -> BookEntry]
         /\ book'[o].cum = m.cum
         /\ book'[o].state = IF m.full THEN "filled" ELSE "open"
         /\ book'[o].side = book[o].side /\ book'[o].price = book[o].price
         /\ book'[o].volume = book[o].volume /\ book'[o].clid = book[o].clid
         /\ \A p \in Ids : p # o => book'[p] = book[p]
<1> DEFINE full == book[o].cum + qty = book[o].volume
           state == IF full THEN "filled" ELSE "open"
           b == [book[o] EXCEPT !.cum = book[o].cum + qty, !.state = state]
<1>1. /\ book[o].state = "open" /\ book \in [Ids -> BookEntry]
      /\ book' = [book EXCEPT
                    ![o].cum = book[o].cum + qty,
                    ![o].state = IF full THEN "filled" ELSE @]
  BY DEF IInv, TypeOK, Fill
<1>2. /\ book[o] \in BookEntry
      /\ book[o].side \in Side /\ book[o].volume \in Nat /\ book[o].cum \in Nat
      /\ price \in Nat /\ qty \in Nat
  BY <1>1, PricesAssumption DEF BookEntry
<1>3. /\ book[o].clid \in Used /\ parent[book[o].clid] = o
      /\ book[o].clid \in Ids /\ o \in live
  BY <1>1, IdsUsed DEF IInv, Parents, BookLive
<1>4. /\ m \in ProperReport /\ m.type = "TRADE" /\ m.id = book[o].clid
      /\ m.order = o /\ m.full = full /\ m.side = book[o].side
      /\ m.qty = qty /\ m.price = price /\ m.cum = book[o].cum + qty
  BY <1>2, <1>3 DEF Trade, ProperReport, ReportType
<1>5. Justified(m)
  BY <1>1, <1>3, <1>4, FreshReport
<1>6. book' = [book EXCEPT ![o] = b]
  BY <1>1
<1>7. book[o].cum + qty \in Nat /\ state \in {"filled", "open"}
  BY <1>2
<1> HIDE DEF full, state
<1>8. /\ b \in BookEntry /\ b.cum = book[o].cum + qty /\ b.state = state
      /\ b.side = book[o].side /\ b.price = book[o].price
      /\ b.volume = book[o].volume /\ b.clid = book[o].clid
  BY <1>2, <1>7 DEF BookEntry
<1> HIDE DEF b
<1>9. /\ book' \in [Ids -> BookEntry] /\ book'[o] = b
      /\ \A p \in Ids : p # o => book'[p] = book[p]
  BY <1>1, <1>6, <1>8
<1>10. b.state = IF m.full THEN "filled" ELSE "open"
  BY <1>4, <1>8 DEF state
<1>11. QED
  BY <1>1, <1>3, <1>4, <1>5, <1>8, <1>9, <1>10 DEF full

(* A step of the broker sends a report, or sends one again.                *)
Reported(m) ==
  /\ m \in ProperReport /\ Justified(m)
  /\ m.id \in Used /\ parent[m.id] = m.order
  /\ Handle(m) \/ UNCHANGED handled
  /\ lastReport' = m
  /\ m.type = "TRADE" =>
       /\ m.cum <= book'[m.order].cum
       /\ ~m.full => book'[m.order].state = "open"
  /\ \A o \in Ids : book[o].cum <= book'[o].cum
  /\ UNCHANGED <<currentOrderID, parent>>

(* The answer to a request leaves the cumulative volumes alone.            *)
LEMMA AnswerReported ==
  ASSUME IInv, requests # << >>, requests' = Tail(requests),
         NEW type \in ReportType \ {"NONE", "TRADE"},
         type \in {"REJECTED", "CANCELED", "REPLACED"} =>
           book[Oldest.order].state \in {"sent", "open"},
         type = "REJECTED" => Oldest.id = Oldest.order,
         \A o \in Ids : book'[o].cum = book[o].cum,
         Emit(Report(type, Oldest.id, Oldest.order))
  PROVE  Reported(Report(type, Oldest.id, Oldest.order))
<1>1. Oldest.id \in Used /\ parent[Oldest.id] = Oldest.order
  BY OldestRequest
<1>2. PICK m : m = Report(type, Oldest.id, Oldest.order)
  OBVIOUS
<1>3. /\ m \in ProperReport /\ Justified(m) /\ m.type = type
      /\ m.id = Oldest.id /\ m.order = Oldest.order
  BY <1>1, <1>2, ReportFacts
<1>4. Emit(m)
  BY <1>2
<1>5. \A o \in Ids : book[o].cum <= book'[o].cum
  <2>1. \A o \in Ids : book[o].cum \in Nat
    BY DEF IInv, TypeOK, BookEntry
  <2>2. QED
    BY <2>1
<1>6. Reported(m)
  BY <1>1, <1>3, <1>4, <1>5 DEF Reported, Emit
<1>7. QED
  BY <1>2, <1>6

LEMMA BrokerReports ==
  ASSUME IInv, TradeSafe, Broker
  PROVE  \E m \in ProperReport : Reported(m)
<1>1. book \in [Ids -> BookEntry]
  BY DEF IInv, TypeOK
<1>2. ASSUME NEW type \in ReportType \ {"NONE", "TRADE"},
             requests # << >>, requests' = Tail(requests),
             type \in {"REJECTED", "CANCELED", "REPLACED"} =>
               book[Oldest.order].state \in {"sent", "open"},
             type = "REJECTED" => Oldest.id = Oldest.order,
             \A o \in Ids : book'[o].cum = book[o].cum,
             Emit(Report(type, Oldest.id, Oldest.order))
      PROVE  \E m \in ProperReport : Reported(m)
  <2>1. Reported(Report(type, Oldest.id, Oldest.order))
    BY <1>2, AnswerReported
  <2>2. QED
    BY <2>1 DEF Reported
<1>3. CASE AcceptNew
  <2>1. /\ requests # << >> /\ requests' = Tail(requests)
        /\ Oldest.kind = "new"
        /\ book' = [book EXCEPT ![Oldest.order].state = "open"]
        /\ Emit(Report("NEW", Oldest.order, Oldest.order))
    BY <1>3 DEF AcceptNew, Answer, Oldest
  <2>2. Oldest.id = Oldest.order /\ Oldest.order \in Ids
    BY <2>1, OldestRequest
  <2>3. \A o \in Ids : book'[o].cum = book[o].cum
    BY <1>1, <2>1, <2>2 DEF BookEntry
  <2>4. Emit(Report("NEW", Oldest.id, Oldest.order))
    BY <2>1, <2>2
  <2>5. QED
    BY <1>2, <2>1, <2>3, <2>4 DEF ReportType
<1>4. CASE RejectNew
  <2>1. /\ requests # << >> /\ requests' = Tail(requests)
        /\ Oldest.kind = "new"
        /\ book' = [book EXCEPT ![Oldest.order].state = "rejected"]
        /\ Emit(Report("REJECTED", Oldest.order, Oldest.order))
    BY <1>4 DEF RejectNew, Answer, Oldest
  <2>2. /\ Oldest.id = Oldest.order /\ Oldest.order \in Ids
        /\ book[Oldest.order].state = "sent"
    BY <2>1, OldestRequest
  <2>3. \A o \in Ids : book'[o].cum = book[o].cum
    BY <1>1, <2>1, <2>2 DEF BookEntry
  <2>4. Emit(Report("REJECTED", Oldest.id, Oldest.order))
    BY <2>1, <2>2
  <2>5. QED
    BY <1>2, <2>1, <2>2, <2>3, <2>4 DEF ReportType
<1>5. CASE AcceptCancel
  <2>1. /\ requests # << >> /\ requests' = Tail(requests)
        /\ book[Oldest.order].state = "open"
        /\ book' = [book EXCEPT ![Oldest.order].state = "canceled"]
        /\ Emit(Report("CANCELED", Oldest.id, Oldest.order))
    BY <1>5 DEF AcceptCancel, Answer, Oldest
  <2>2. \A o \in Ids : book'[o].cum = book[o].cum
    BY <1>1, <2>1 DEF BookEntry
  <2>3. QED
    BY <1>2, <2>1, <2>2 DEF ReportType
<1>6. CASE RejectCancel
  BY <1>2, <1>6 DEF RejectCancel, Answer, Oldest, ReportType
<1>7. CASE AcceptEdit
  <2>1. /\ requests # << >> /\ requests' = Tail(requests)
        /\ book[Oldest.order].state = "open"
        /\ book' = [book EXCEPT ![Oldest.order].price = Oldest.price,
                                ![Oldest.order].volume = Oldest.volume,
                                ![Oldest.order].clid = Oldest.id]
        /\ Emit(Report("REPLACED", Oldest.id, Oldest.order))
    BY <1>7 DEF AcceptEdit, Answer, Oldest
  <2>2. \A o \in Ids : book'[o].cum = book[o].cum
    BY <1>1, <2>1 DEF BookEntry
  <2>3. QED
    BY <1>2, <2>1, <2>2 DEF ReportType
<1>8. CASE RejectEdit
  BY <1>2, <1>8 DEF RejectEdit, Answer, Oldest, ReportType
<1>9. ASSUME NEW o \in Ids, NEW price \in Prices,
             NEW qty \in 1 .. book[o].volume, Fill(o, qty, price)
      PROVE  \E m \in ProperReport : Reported(m)
  <2>1. PICK m : m = Trade(o, qty, price)
    OBVIOUS
  <2>2. Emit(m)
    BY <1>9, <2>1 DEF Fill
  <2>3. /\ m \in ProperReport /\ Justified(m) /\ m.order = o
        /\ m.id \in Used /\ parent[m.id] = o
        /\ m.cum = book[o].cum + qty /\ book'[o].cum = m.cum
        /\ book'[o].state = IF m.full THEN "filled" ELSE "open"
        /\ \A p \in Ids : p # o => book'[p] = book[p]
    BY <1>9, <2>1, TradeFacts
  <2>4. \A p \in Ids : book[p].cum \in Nat
    BY <1>1 DEF BookEntry
  <2>5. m.cum <= book'[o].cum /\ \A p \in Ids : book[p].cum <= book'[p].cum
    BY <2>3, <2>4
  <2>6. Reported(m)
    BY <2>2, <2>3, <2>5 DEF Reported, Emit
  <2>7. QED
    BY <2>3, <2>6
<1>10. CASE Resend
  <2> DEFINE m == lastReport
  <2>1. /\ m.type # "NONE" /\ Handle(m) /\ UNCHANGED <<currentOrderID, parent>>
        /\ UNCHANGED <<requests, book, lastReport>>
    BY <1>10 DEF Resend, brokerVars
  <2>2. /\ TypeOK /\ Parents /\ Links /\ BookLive /\ ReportSafe
    BY DEF IInv
  <2>3. /\ m.id \in Used /\ parent[m.id] = m.order
        /\ m \in ProperReport /\ Justified(m)
    <3>1. /\ m.id \in Used /\ parent[m.id] = m.order /\ m.order \in Used
          /\ m.id \in Ids /\ m.order \in Ids
      BY <2>1, <2>2, IdsUsed DEF Parents
    <3>2. m \in ProperReport
      BY <2>1, <2>2, <3>1 DEF TypeOK, ProperReport
    <3>3. Justified(m)
      BY <2>2, <3>1, <3>2 DEF ReportSafe, Justified, BookLive, Links
    <3>4. QED
      BY <3>1, <3>2, <3>3
  <2>4. \A p \in Ids : book[p].cum <= book'[p].cum
    BY <1>1, <2>1 DEF BookEntry
  <2> HIDE DEF m
  <2>5. /\ m.type = "TRADE" =>
             /\ m.cum <= book'[m.order].cum
             /\ ~m.full => book'[m.order].state = "open"
    BY <2>1 DEF TradeSafe, m
  <2>6. Reported(m)
    BY <2>1, <2>3, <2>4, <2>5 DEF Reported, m
  <2>7. QED
    BY <2>3, <2>6
<1>11. QED
  BY <1>3, <1>4, <1>5, <1>6, <1>7, <1>8, <1>9, <1>10 DEF Broker

-----------------------------------------------------------------------------
(* The two properties that hold whatever is lost or comes twice.           *)

(* What a request of the strategy leaves of the fills and the book.        *)
LEMMA NewOrderAgrees ==
  ASSUME IInv, SymbolAgrees, NEW side \in Side, NEW price \in Prices,
         NEW volume \in Volumes, NewOrder(side, price, volume)
  PROVE  SymbolAgrees'
<1>1. CASE UNCHANGED <<totals, symbol>>
  BY <1>1 DEF SymbolAgrees
<1>2. CASE /\ totals' = onSingleOrder(totals, side, price, volume)
           /\ symbol' = onSingleOrder(symbol, side, price, volume)
  <2>1. volume \in Int /\ volume * price \in Int
    BY VolumesAssumption, PricesAssumption
  <2>2. /\ totals \in Totals /\ symbol \in Totals /\ AgreeOn(totals, symbol)
    BY DEF IInv, TypeOK, SymbolAgrees, AgreeOn
  <2>3. AgreeOn(totals', symbol')
    BY <1>2, <2>1, <2>2, AddPendingAgrees DEF onSingleOrder
  <2>4. QED
    BY <2>3 DEF AgreeOn, SymbolAgrees
<1>3. QED
  BY <1>1, <1>2 DEF NewOrder, Abort

LEMMA CancelOrderAgrees ==
  ASSUME IInv, SymbolAgrees, NEW orderId \in Used, CancelOrder(orderId)
  PROVE  SymbolAgrees'
<1> DEFINE e == EntryOf(orderId)
<1>1. CASE UNCHANGED <<totals, symbol>>
  BY <1>1 DEF SymbolAgrees
<1>2. CASE /\ totals' = onSingleOrderCancel(totals, e.side, Unfilled(e))
           /\ symbol' = onSingleOrderCancel(symbol, e.side, Unfilled(e))
  <2>1. Unfilled(e) \in Int
    BY IdsUsed, EntryNumbers DEF IInv, CancelOrder
  <2>2. /\ totals \in Totals /\ symbol \in Totals /\ AgreeOn(totals, symbol)
    BY DEF IInv, TypeOK, SymbolAgrees, AgreeOn
  <2> HIDE DEF e
  <2>3. AgreeOn(totals', symbol')
    BY <1>2, <2>1, <2>2, AddCancellingAgrees DEF onSingleOrderCancel
  <2>4. QED
    BY <2>3 DEF AgreeOn, SymbolAgrees
<1>3. QED
  BY <1>1, <1>2 DEF CancelOrder, Abort

LEMMA EditOrderAgrees ==
  ASSUME IInv, SymbolAgrees, NEW orderId \in Used, NEW price \in Prices,
         NEW volume \in EditVolumes, EditOrder(orderId, price, volume)
  PROVE  SymbolAgrees'
<1> DEFINE e == EntryOf(orderId)
           change == volume - e.volume
           value == volume * price - e.volume * e.price
<1>1. CASE UNCHANGED <<totals, symbol>>
  BY <1>1 DEF SymbolAgrees
<1>2. CASE /\ totals' = AddPending(totals, e.side, change, 0)
           /\ symbol' = onSingleOrderEdit(symbol, e.side, e.price, price,
                                          e.volume, volume)
  <2>1. e.volume \in Int /\ e.price \in Int /\ volume \in Int /\ price \in Int
    <3>1. orderId \in Ids /\ HasEntry(orderId) /\ TypeOK
      BY IdsUsed DEF IInv, EditOrder
    <3>2. e.volume \in Nat /\ e.price \in Nat
      BY <3>1, EntryNumbers
    <3>3. volume \in Int /\ price \in Int
      BY VolumesAssumption, PricesAssumption
    <3>4. QED
      BY <3>2, <3>3
  <2>2. /\ totals \in Totals /\ symbol \in Totals /\ AgreeOn(totals, symbol)
    BY DEF IInv, TypeOK, SymbolAgrees, AgreeOn
  <2>3. symbol' = AddPending(symbol, e.side, change, value)
    BY <1>2 DEF onSingleOrderEdit
  <2>4. change \in Int /\ value \in Int
    BY <2>1
  <2> HIDE DEF e, change, value
  <2>5. AgreeOn(totals', symbol')
    BY <1>2, <2>2, <2>3, <2>4, AddPendingAgrees
  <2>6. QED
    BY <2>5 DEF AgreeOn, SymbolAgrees
<1>3. QED
  BY <1>1, <1>2 DEF EditOrder, Abort

(* The fills an entry has counted change by a report of a trade only.      *)
LEMMA HandledFills ==
  ASSUME TypeOK, NEW m \in ProperReport, Handle(m) \/ UNCHANGED handled,
         NEW s \in Slots
  PROVE  \/ orderEntries'[s].filled = orderEntries[s].filled
         \/ /\ m.type = "TRADE" /\ HasEntry(m.id) /\ s = SlotOf(m.id)
            /\ orderEntries'[s].filled = m.cum
<1> DEFINE slot == SlotOf(m.id)
           e == EntryOf(m.id)
<1>1. SUFFICES ASSUME HasEntry(m.id), ~UNCHANGED handled
               PROVE  \/ orderEntries'[s].filled = orderEntries[s].filled
                      \/ /\ m.type = "TRADE" /\ s = slot
                         /\ orderEntries'[s].filled = m.cum
  BY DEF Handle, handled
<1>2. /\ orderEntries \in [Slots -> OrderEntry] /\ slot \in Slots
      /\ e = orderEntries[slot] /\ e \in OrderEntry
  BY <1>1, EntryNumbers DEF TypeOK, ProperReport, EntryOf
<1>3. CASE /\ m.type = "TRADE" /\ Counts(m, e)
           /\ orderEntries' = [orderEntries EXCEPT
                ![slot].filled = e.filled + m.qty,
                ![slot].status =
                  {IF m.full THEN "FILLED" ELSE "PARTIALLY_FILLED"}]
  <2> DEFINE st == {IF m.full THEN "FILLED" ELSE "PARTIALLY_FILLED"}
             r == [e EXCEPT !.filled = e.filled + m.qty, !.status = st]
  <2>1. orderEntries' = [orderEntries EXCEPT ![slot] = r]
    BY <1>2, <1>3
  <2> HIDE DEF st, slot, e
  <2>2. r.filled = m.cum
    BY <1>2, <1>3 DEF OrderEntry, Counts
  <2> HIDE DEF r
  <2>3. QED
    BY <1>2, <1>3, <2>1, <2>2
<1>4. ASSUME NEW st,
             orderEntries' = [orderEntries EXCEPT ![slot].status = st]
      PROVE  orderEntries'[s].filled = orderEntries[s].filled
  BY <1>2, <1>4 DEF OrderEntry
<1>5. CASE handleEditOrderAck(m)
  <2> DEFINE st == orderEntries[slot].status \ {"PENDING_REPLACE"}
             r == [e EXCEPT !.volume = e.newVolume, !.price = e.newPrice,
                            !.status = st]
  <2>1. orderEntries' = [orderEntries EXCEPT ![slot] = r]
    BY <1>2, <1>5 DEF handleEditOrderAck
  <2> HIDE DEF st, slot
  <2>2. r.filled = e.filled
    BY <1>2 DEF OrderEntry
  <2> HIDE DEF r, e
  <2>3. QED
    BY <1>2, <2>1, <2>2
<1>6. CASE UNCHANGED orderEntries
  BY <1>6
<1>7. QED
  <2>1. CASE m.type = "TRADE" /\ handleOrderFill(m)
    BY <1>3, <1>6, <2>1 DEF handleOrderFill, Abort, handled
  <2>2. CASE m.type = "NEW" /\ handleSingleOrderAck(m)
    BY <1>4, <2>2 DEF handleSingleOrderAck
  <2>3. CASE m.type = "REJECTED" /\ handleSingleOrderReject(m)
    BY <1>4, <2>3 DEF handleSingleOrderReject
  <2>4. CASE m.type = "CANCELED" /\ handleCanceledOrder(m)
    BY <1>6, <2>4 DEF handleCanceledOrder
  <2>5. CASE m.type = "CANCEL_REJECT" /\ handleCancelOrderReject(m)
    BY <1>4, <2>5 DEF handleCancelOrderReject
  <2>6. CASE m.type = "REPLACE_REJECT" /\ handleEditOrderReject(m)
    BY <1>4, <2>6 DEF handleEditOrderReject
  <2>7. QED
    BY <1>1, <1>5, <2>1, <2>2, <2>3, <2>4, <2>5, <2>6 DEF Handle

(* A report never puts an entry ahead of the book.                         *)
LEMMA ReportedFills ==
  ASSUME IInv, IInv', FilledNeverAhead, NEW m, Reported(m)
  PROVE  FilledNeverAhead' /\ TradeSafe'
<1>1. /\ TypeOK /\ SlotsSound /\ Links /\ m \in ProperReport /\ Justified(m)
      /\ m.id \in Used /\ parent[m.id] = m.order
      /\ Handle(m) \/ UNCHANGED handled
  BY DEF IInv, Reported
<1>2. HandledWell(m)
  BY <1>1, HandleEffect
<1>3. live' \subseteq live /\ SameIds
  BY <1>1, <1>2, HandledSlots DEF HandledWell
<1>4. TradeSafe'
  BY DEF Reported, TradeSafe
<1>5. SUFFICES ASSUME NEW s \in Slots, orderEntries'[s].orderId \in live'
               PROVE  orderEntries'[s].filled <=
                        book'[orderEntries'[s].orderId].cum
  BY <1>4 DEF FilledNeverAhead, LiveSlots
<1> DEFINE o == orderEntries[s].orderId
<1>6. /\ orderEntries'[s].orderId = o /\ o \in live /\ o \in Ids
      /\ orderEntries[s].filled <= book[o].cum /\ book[o].cum <= book'[o].cum
  BY <1>1, <1>3, <1>5 DEF SameIds, FilledNeverAhead, LiveSlots, TypeOK, Reported
<1>7. /\ orderEntries[s].filled \in Int /\ book[o].cum \in Int
      /\ book'[o].cum \in Int
  <2>1. orderEntries[s] \in OrderEntry /\ book[o] \in BookEntry
    BY <1>1, <1>6 DEF TypeOK
  <2>2. book'[o] \in BookEntry
    BY <1>6 DEF IInv, TypeOK
  <2>3. QED
    BY <2>1, <2>2 DEF OrderEntry, BookEntry
<1>8. CASE orderEntries'[s].filled = orderEntries[s].filled
  BY <1>6, <1>7, <1>8
<1>9. CASE /\ m.type = "TRADE" /\ HasEntry(m.id) /\ s = SlotOf(m.id)
           /\ orderEntries'[s].filled = m.cum
  <2>1. m.order \in live
    <3>1. CASE m.full
      BY <1>1, <1>9, <3>1 DEF Justified, Terminal
    <3>2. CASE ~m.full
      <4>1. book'[m.order].state = "open" /\ m.order \in Ids
        BY <1>1, <1>9, <3>2 DEF Reported, ProperReport
      <4>2. QED
        BY <1>3, <4>1 DEF IInv, BookLive
    <3>3. QED
      BY <3>1, <3>2 DEF Justified, ProperReport
  <2>2. o = m.order
    BY <1>1, <1>9, <2>1 DEF Links, Holds
  <2>3. QED
    BY <1>6, <1>9, <2>2 DEF Reported
<1>10. QED
  BY <1>1, <1>8, <1>9, HandledFills

(* A request neither fills an order nor changes the book of another.       *)
LEMMA RequestFills ==
  ASSUME IInv, FilledNeverAhead, TradeSafe, Strategy
  PROVE  FilledNeverAhead' /\ TradeSafe'
<1>1. /\ TypeOK /\ Fresh /\ Parents /\ SlotsSound /\ EntryTypes
  BY DEF IInv, TypeOK, EntryTypes
<1>2. CASE UNCHANGED <<orderEntries, live, book, lastReport>>
  BY <1>2 DEF FilledNeverAhead, LiveSlots, TradeSafe
<1>3. CASE /\ SameIds /\ UNCHANGED <<live, book, lastReport>>
           /\ \A s \in Slots : orderEntries'[s].filled = orderEntries[s].filled
  BY <1>3 DEF FilledNeverAhead, LiveSlots, TradeSafe, SameIds
<1>4. ASSUME NEW side \in Side, NEW price \in Prices, NEW volume \in Volumes,
             NewOrder(side, price, volume)
      PROVE  FilledNeverAhead' /\ TradeSafe'
  <2> DEFINE id == currentOrderID
             slot == freeEntries[freeEntryPtr]
             b == [state |-> "sent", side |-> side, price |-> price,
                   volume |-> volume, cum |-> 0, clid |-> id]
  <2>1. CASE Abort("order id") /\ UNCHANGED <<brokerVars, historyVars>>
    BY <1>2, <2>1 DEF Abort, brokerVars, historyVars
  <2>2. CASE /\ id < MaxOrders /\ freeEntryPtr < OrderSlots
             /\ orderEntries' = [orderEntries EXCEPT
                                   ![slot] = NewEntry(id, side, price, volume)]
             /\ Issue(id, id)
             /\ book' = [book EXCEPT ![id] = b]
             /\ live' = live \cup {id}
             /\ UNCHANGED lastReport
    <3>1. id \in Ids /\ id \notin Older
      BY <1>1, <2>2, NewId DEF Issue
    <3>2. \A s \in Slots : orderEntries[s].orderId # id
      BY <1>1, <3>1 DEF Fresh
    <3>3. lastReport.order # id
      BY <1>1, <3>1 DEF Fresh
    <3>4. /\ \A o \in Ids : o # id => book'[o] = book[o]
          /\ book'[id].cum = 0
      BY <1>1, <2>2, <3>1 DEF TypeOK
    <3>5. /\ NewEntry(id, side, price, volume).filled = 0
          /\ NewEntry(id, side, price, volume).orderId = id
      BY DEF NewEntry, DefaultEntry
    <3>6. TradeSafe'
      <4>1. lastReport.type = "TRADE" => lastReport.order \in Ids
        BY <1>1, IdsUsed DEF Parents
      <4>2. QED
        BY <2>2, <3>3, <3>4, <4>1 DEF TradeSafe
    <3>7. SUFFICES ASSUME NEW s \in Slots, orderEntries'[s].orderId \in live'
                   PROVE  orderEntries'[s].filled <=
                            book'[orderEntries'[s].orderId].cum
      BY <3>6 DEF FilledNeverAhead, LiveSlots
    <3>8. slot \in Slots
      <4>1. OrderSlots \in Nat \ {0} /\ freeEntryPtr \in 0 .. OrderSlots
        BY <1>1, OrderSlotsAssumption DEF TypeOK
      <4>2. freeEntryPtr \in Slots
        BY <2>2, <4>1 DEF Slots
      <4>3. QED
        BY <1>1, <4>2 DEF TypeOK
    <3> HIDE DEF slot, id
    <3>9. CASE s = slot
      <4>1. orderEntries'[s] = NewEntry(id, side, price, volume)
        BY <1>1, <2>2, <3>8, <3>9 DEF EntryTypes
      <4>2. orderEntries'[s].filled = 0 /\ orderEntries'[s].orderId = id
        BY <3>5, <4>1
      <4>3. QED
        BY <3>4, <4>2
    <3>10. CASE s # slot
      <4>1. orderEntries'[s] = orderEntries[s]
        BY <1>1, <2>2, <3>8, <3>10 DEF EntryTypes
      <4>2. orderEntries[s].orderId \in live /\ orderEntries[s].orderId # id
        BY <2>2, <3>2, <3>7, <4>1
      <4>3. orderEntries[s].orderId \in Ids
        BY <1>1, <4>2 DEF TypeOK
      <4>4. QED
        BY <3>4, <4>1, <4>2, <4>3 DEF FilledNeverAhead, LiveSlots
    <3>11. QED
      BY <3>9, <3>10
  <2>3. QED
    BY <1>4, <2>1, <2>2 DEF NewOrder
<1>5. ASSUME NEW orderId \in Used, CancelOrder(orderId)
      PROVE  FilledNeverAhead' /\ TradeSafe'
  <2> DEFINE slot == SlotOf(orderId)
             st == orderEntries[slot].status \cup {"PENDING_CANCEL"}
  <2>1. CASE Abort("order id") /\ UNCHANGED <<brokerVars, historyVars>>
    BY <1>2, <2>1 DEF Abort, brokerVars, historyVars
  <2>2. CASE /\ orderEntries' = [orderEntries EXCEPT ![slot].status = st]
             /\ UNCHANGED <<live, book, lastReport>>
    <3>1. slot \in Slots
      BY <1>1, <1>5, IdsUsed, EntryFound DEF CancelOrder
    <3> HIDE DEF st, slot
    <3>2. /\ SameIds
          /\ \A s \in Slots : orderEntries'[s].filled = orderEntries[s].filled
      BY <1>1, <2>2, <3>1 DEF EntryTypes, OrderEntry, SameIds
    <3>3. QED
      BY <1>3, <2>2, <3>2
  <2>3. QED
    BY <1>5, <2>1, <2>2 DEF CancelOrder
<1>6. ASSUME NEW orderId \in Used, NEW price \in Prices, NEW volume \in EditVolumes,
             EditOrder(orderId, price, volume)
      PROVE  FilledNeverAhead' /\ TradeSafe'
  <2> DEFINE slot == SlotOf(orderId)
             st == orderEntries[slot].status \cup {"PENDING_REPLACE"}
             r == [orderEntries[slot] EXCEPT !.status = st, !.newPrice = price,
                                             !.newVolume = volume]
  <2>1. CASE \E reason \in {"order id", "free entry"} :
               Abort(reason) /\ UNCHANGED <<brokerVars, historyVars>>
    BY <1>2, <2>1 DEF Abort, brokerVars, historyVars
  <2>2. CASE /\ orderEntries' = [orderEntries EXCEPT
                                   ![slot].status = st,
                                   ![slot].newPrice = price,
                                   ![slot].newVolume = volume]
             /\ UNCHANGED <<live, book, lastReport>>
    <3>1. slot \in Slots /\ orderEntries[slot] \in OrderEntry
      BY <1>1, <1>6, IdsUsed, EntryFound DEF EditOrder, EntryOf
    <3>2. orderEntries' = [orderEntries EXCEPT ![slot] = r]
      BY <1>1, <2>2, <3>1 DEF EntryTypes
    <3> HIDE DEF st, slot
    <3>3. /\ r.orderId = orderEntries[slot].orderId
          /\ r.filled = orderEntries[slot].filled
      BY <3>1 DEF OrderEntry
    <3> HIDE DEF r
    <3>4. /\ SameIds
          /\ \A s \in Slots : orderEntries'[s].filled = orderEntries[s].filled
      BY <1>1, <3>1, <3>2, <3>3 DEF EntryTypes, SameIds
    <3>5. QED
      BY <1>3, <2>2, <3>4
  <2>3. QED
    BY <1>6, <2>1, <2>2 DEF EditOrder
<1>7. QED
  BY <1>4, <1>5, <1>6 DEF Strategy, Used

LEMMA FillsPreserved ==
  ASSUME IInv, IInv', FilledNeverAhead, TradeSafe, [Next]_vars
  PROVE  FilledNeverAhead' /\ TradeSafe'
<1>1. CASE UNCHANGED vars
  BY <1>1 DEF vars, managerVars, brokerVars, historyVars, FilledNeverAhead,
              LiveSlots, TradeSafe
<1>2. CASE Broker
  BY <1>2, BrokerReports, ReportedFills
<1>3. QED
  BY <1>1, <1>2, RequestFills DEF Next

LEMMA AgreementPreserved ==
  ASSUME IInv, TradeSafe, SymbolAgrees, [Next]_vars
  PROVE  SymbolAgrees'
<1>1. CASE UNCHANGED vars
  BY <1>1 DEF vars, managerVars, SymbolAgrees
<1>2. CASE Broker
  BY <1>2, BrokerReports, HandleAgrees DEF IInv, Reported
<1>3. CASE Strategy
  BY <1>3, NewOrderAgrees, CancelOrderAgrees, EditOrderAgrees
     DEF Strategy, Used
<1>4. QED
  BY <1>1, <1>2, <1>3 DEF Next

(* The manager never counts an order as more filled than the broker has    *)
(* filled it, although a report may be dropped, or come again when the     *)
(* slot of its order already belongs to another one.                       *)
THEOREM NeverAhead == Spec => []FilledNeverAhead
<1>1. Init => IInv /\ FilledNeverAhead /\ TradeSafe
  <2>1. Init => FilledNeverAhead /\ TradeSafe
    BY DEF Init, FilledNeverAhead, LiveSlots, TradeSafe, NoReport
  <2>2. QED
    BY <2>1, Initially
<1>2. IInv /\ FilledNeverAhead /\ TradeSafe /\ [Next]_vars
        => IInv' /\ FilledNeverAhead' /\ TradeSafe'
  BY Preserved, FillsPreserved
<1>3. QED
  BY <1>1, <1>2, PTL DEF Spec

(* Both keepers of the totals, the manager and the SymbolState, hold the   *)
(* same shares, although most reports change them in two places.           *)
THEOREM Agreement == Spec => []SymbolAgrees
<1>1. Init => IInv /\ FilledNeverAhead /\ TradeSafe /\ SymbolAgrees
  <2>1. Init => FilledNeverAhead /\ TradeSafe /\ SymbolAgrees
    BY DEF Init, FilledNeverAhead, LiveSlots, TradeSafe, NoReport, SymbolAgrees
  <2>2. QED
    BY <2>1, Initially
<1>2. IInv /\ FilledNeverAhead /\ TradeSafe /\ SymbolAgrees /\ [Next]_vars
        => IInv' /\ FilledNeverAhead' /\ TradeSafe' /\ SymbolAgrees'
  BY Preserved, FillsPreserved, AgreementPreserved
<1>3. QED
  BY <1>1, <1>2, PTL DEF Spec

-----------------------------------------------------------------------------
(* The sums over orders and over requests, and what a step adds to them.   *)

Held(side) == SumFunctionOnSet(Outstanding, LiveOf(side))
HeldValue(side) == SumFunctionOnSet(Reserved, LiveOf(side))
Asked(side) == SumFunctionOnSet(Changes, EditsOf(side))
Raised(side) == SumFunctionOnSet(Increases, IncreasesOf(side))

(* The part of one slot, and of one request.                               *)
ShareOf(s, side) == IF s \in LiveOf(side) THEN Unfilled(orderEntries[s]) ELSE 0
WorthOf(s, side) ==
  IF s \in LiveOf(side)
  THEN orderEntries[s].price * Unfilled(orderEntries[s]) ELSE 0

ChangeOf(q, side) ==
  IF q.kind = "edit" /\ book[q.order].side = side THEN q.change ELSE 0
RaiseOf(q, side) ==
  IF q.kind = "edit" /\ book[q.order].side = side /\ q.change > 0
  THEN q.price * q.change ELSE 0

LEMMA SlotsFinite == IsFiniteSet(Slots)
BY OrderSlotsAssumption, FS_Interval DEF Slots

LEMMA EntryAmounts ==
  ASSUME NEW e \in OrderEntry
  PROVE  Unfilled(e) \in Int /\ e.price * Unfilled(e) \in Int
BY DEF OrderEntry, Unfilled

(* Only the entry of one slot changes, or the end of its order.            *)
OnlySlot(s) ==
  \A t \in Slots \ {s} :
    /\ orderEntries'[t] = orderEntries[t]
    /\ orderEntries[t].orderId \in live' <=> orderEntries[t].orderId \in live

LEMMA OneSlot ==
  ASSUME orderEntries \in [Slots -> OrderEntry],
         orderEntries' \in [Slots -> OrderEntry],
         NEW s \in Slots, OnlySlot(s), NEW side
  PROVE  /\ Held(side) \in Int /\ HeldValue(side) \in Int
         /\ Held(side)' = (Held(side) + ShareOf(s, side)') - ShareOf(s, side)
         /\ HeldValue(side)' =
              (HeldValue(side) + WorthOf(s, side)') - WorthOf(s, side)
<1> DEFINE S == LiveOf(side)
           T == {t \in Slots : /\ orderEntries'[t].orderId \in live'
                               /\ orderEntries'[t].side = side}
           f == [t \in Slots |-> Unfilled(orderEntries[t])]
           g == [t \in Slots |-> Unfilled(orderEntries'[t])]
           v == [t \in Slots |-> orderEntries[t].price * f[t]]
           w == [t \in Slots |-> orderEntries'[t].price * g[t]]
<1>1. /\ LiveOf(side)' = T /\ Outstanding = f /\ Outstanding' = g
      /\ Reserved = v /\ Reserved' = w
  BY DEF LiveOf, LiveSlots, Outstanding, Reserved
<1>2. S \subseteq Slots /\ T \subseteq Slots
  BY DEF LiveOf, LiveSlots
<1>3. IsFiniteSet(S) /\ IsFiniteSet(T)
  BY <1>2, SlotsFinite, FS_Subset
<1>4. \A t \in Slots : f[t] \in Int /\ g[t] \in Int
  BY EntryAmounts
<1>5. \A t \in Slots : v[t] \in Int /\ w[t] \in Int
  BY EntryAmounts
<1>6. S \ {s} = T \ {s}
  BY DEF OnlySlot, LiveOf, LiveSlots
<1>7. \A t \in S \ {s} : f[t] = g[t] /\ v[t] = w[t]
  BY <1>2 DEF OnlySlot
<1>8. /\ Part(f, S, s) = ShareOf(s, side)
      /\ Part(v, S, s) = WorthOf(s, side)
  BY DEF Part, ShareOf, WorthOf
<1>9. /\ Part(g, T, s) = ShareOf(s, side)'
      /\ Part(w, T, s) = WorthOf(s, side)'
  BY <1>1 DEF Part, ShareOf, WorthOf
<1> HIDE DEF S, T, f, g, v, w
<1>10. SumFunctionOnSet(g, T) =
         (SumFunctionOnSet(f, S) + Part(g, T, s)) - Part(f, S, s)
  BY <1>2, <1>3, <1>4, <1>6, <1>7, SumStep
<1>11. SumFunctionOnSet(w, T) =
         (SumFunctionOnSet(v, S) + Part(w, T, s)) - Part(v, S, s)
  BY <1>2, <1>3, <1>5, <1>6, <1>7, SumStep
<1>12. SumFunctionOnSet(f, S) \in Int /\ SumFunctionOnSet(v, S) \in Int
  BY <1>2, <1>3, <1>4, <1>5, SumType
<1>13. /\ Held(side) = SumFunctionOnSet(f, S)
       /\ Held(side)' = SumFunctionOnSet(g, T)
       /\ HeldValue(side) = SumFunctionOnSet(v, S)
       /\ HeldValue(side)' = SumFunctionOnSet(w, T)
  BY <1>1 DEF Held, HeldValue, S
<1>14. QED
  BY <1>8, <1>9, <1>10, <1>11, <1>12, <1>13

(* The sides of the orders that requests are about do not change.          *)
SidesStay ==
  \A n \in Places : book'[requests[n].order].side = book[requests[n].order].side

LEMMA RequestAmounts ==
  ASSUME requests \in Seq(Request), NEW side
  PROVE  /\ EditsOf(side) \subseteq Places /\ IncreasesOf(side) \subseteq Places
         /\ IsFiniteSet(EditsOf(side)) /\ IsFiniteSet(IncreasesOf(side))
         /\ \A n \in Places : Changes[n] \in Int /\ Increases[n] \in Int
         /\ Asked(side) \in Int /\ Raised(side) \in Int
<1>1. IsFiniteSet(Places)
  BY FS_Interval DEF Places
<1>2. EditsOf(side) \subseteq Places /\ IncreasesOf(side) \subseteq Places
  BY DEF EditsOf, IncreasesOf, Places
<1>3. IsFiniteSet(EditsOf(side)) /\ IsFiniteSet(IncreasesOf(side))
  BY <1>1, <1>2, FS_Subset
<1>4. \A n \in Places : requests[n] \in Request
  BY DEF Places
<1>5. \A n \in Places : Changes[n] \in Int /\ Increases[n] \in Int
  BY <1>4 DEF Changes, Increases, Places, Request
<1>6. Asked(side) \in Int /\ Raised(side) \in Int
  BY <1>2, <1>3, <1>5, SumType DEF Asked, Raised
<1>7. QED
  BY <1>2, <1>3, <1>5, <1>6

LEMMA RequestNumbers ==
  ASSUME NEW r \in Request
  PROVE  r.change \in Int /\ r.price * r.change \in Int
BY DEF Request

LEMMA RequestsKept ==
  ASSUME UNCHANGED requests, SidesStay, NEW side
  PROVE  Asked(side)' = Asked(side) /\ Raised(side)' = Raised(side)
<1>1. EditsOf(side)' = EditsOf(side)
  BY DEF EditsOf, SidesStay, Places
<1>2. Changes' = Changes /\ Increases' = Increases
  BY DEF Changes, Increases
<1>3. IncreasesOf(side)' = IncreasesOf(side)
  BY <1>1 DEF IncreasesOf
<1>4. QED
  BY <1>1, <1>2, <1>3 DEF Asked, Raised

LEMMA RequestAdded ==
  ASSUME requests \in Seq(Request), SidesStay, NEW q \in Request,
         requests' = Append(requests, q), NEW side
  PROVE  /\ Asked(side) \in Int /\ Raised(side) \in Int
         /\ Asked(side)' = Asked(side) + ChangeOf(q, side)'
         /\ Raised(side)' = Raised(side) + RaiseOf(q, side)'
<1> DEFINE x == Len(requests) + 1
           E == EditsOf(side)
           I == IncreasesOf(side)
           F == {n \in Places' : /\ requests'[n].kind = "edit"
                                 /\ book'[requests'[n].order].side = side}
           J == {n \in F : requests'[n].change > 0}
           f == [n \in Places |-> requests[n].change]
           g == [n \in Places' |-> requests'[n].change]
           v == [n \in Places |-> requests[n].price * requests[n].change]
           w == [n \in Places' |-> requests'[n].price * requests'[n].change]
<1>1. /\ requests' \in Seq(Request) /\ Len(requests) \in Nat
      /\ Places' = Places \cup {x} /\ x \notin Places
      /\ requests'[x] = q /\ \A n \in Places : requests'[n] = requests[n]
  BY Queued
<1>2. /\ EditsOf(side)' = F /\ IncreasesOf(side)' = J
      /\ Changes = f /\ Changes' = g /\ Increases = v /\ Increases' = w
  BY DEF EditsOf, IncreasesOf, Changes, Increases, Places
<1>3. /\ E \subseteq Places /\ I \subseteq Places
      /\ IsFiniteSet(E) /\ IsFiniteSet(I)
      /\ \A n \in Places : f[n] \in Int /\ v[n] \in Int
      /\ Asked(side) \in Int /\ Raised(side) \in Int
  BY <1>2, RequestAmounts
<1>4. F \subseteq Places' /\ J \subseteq Places'
  OBVIOUS
<1>5. IsFiniteSet(Places')
  BY <1>1, FS_Interval DEF Places
<1>6. IsFiniteSet(F) /\ IsFiniteSet(J)
  BY <1>4, <1>5, FS_Subset
<1>7. \A n \in Places' : requests'[n] \in Request
  BY <1>1 DEF Places
<1>8. \A n \in Places' : g[n] \in Int /\ w[n] \in Int
  BY <1>7, RequestNumbers
<1>9. E \ {x} = F \ {x} /\ I \ {x} = J \ {x} /\ x \notin E /\ x \notin I
  BY <1>1 DEF EditsOf, IncreasesOf, SidesStay, Places
<1>10. \A n \in Places : f[n] = g[n] /\ v[n] = w[n]
  BY <1>1
<1>11. /\ Part(f, E, x) = 0 /\ Part(v, I, x) = 0
  BY <1>9 DEF Part
<1>12. Part(g, F, x) = ChangeOf(q, side)' /\ ChangeOf(q, side)' \in Int
  BY <1>1 DEF Part, ChangeOf, Request
<1>13. Part(w, J, x) = RaiseOf(q, side)' /\ RaiseOf(q, side)' \in Int
  BY <1>1 DEF Part, RaiseOf, Request
<1> HIDE DEF E, I, F, J, f, g, v, w, x
<1>14. SumFunctionOnSet(g, F) =
         (SumFunctionOnSet(f, E) + Part(g, F, x)) - Part(f, E, x)
  BY <1>3, <1>4, <1>6, <1>8, <1>9, <1>10, SumStep
<1>15. SumFunctionOnSet(w, J) =
         (SumFunctionOnSet(v, I) + Part(w, J, x)) - Part(v, I, x)
  BY <1>3, <1>4, <1>6, <1>8, <1>9, <1>10, SumStep
<1>16. /\ Asked(side) = SumFunctionOnSet(f, E)
       /\ Asked(side)' = SumFunctionOnSet(g, F)
       /\ Raised(side) = SumFunctionOnSet(v, I)
       /\ Raised(side)' = SumFunctionOnSet(w, J)
  BY <1>2 DEF Asked, Raised, E, I
<1>17. QED
  BY <1>3, <1>11, <1>12, <1>13, <1>14, <1>15, <1>16

LEMMA RequestTaken ==
  ASSUME requests \in Seq(Request), SidesStay,
         requests # << >>, requests' = Tail(requests), NEW side
  PROVE  /\ Asked(side) \in Int /\ Raised(side) \in Int
         /\ Asked(side)' = Asked(side) - ChangeOf(Oldest, side)
         /\ Raised(side)' = Raised(side) - RaiseOf(Oldest, side)
         /\ ChangeOf(Oldest, side) \in Int /\ RaiseOf(Oldest, side) \in Int
<1> DEFINE k == Len(requests)
           E == EditsOf(side)
           I == IncreasesOf(side)
           F == {n \in 1 .. k - 1 :
                   /\ requests'[n].kind = "edit"
                   /\ book'[requests'[n].order].side = side}
           J == {n \in F : requests'[n].change > 0}
           f == [n \in Places |-> requests[n].change]
           g == [n \in 1 .. k - 1 |-> requests'[n].change]
           v == [n \in Places |-> requests[n].price * requests[n].change]
           w == [n \in 1 .. k - 1 |-> requests'[n].price * requests'[n].change]
<1>1. /\ k \in Nat /\ Len(requests') = k - 1
      /\ Places = 1 .. k /\ Places' = 1 .. k - 1 /\ 1 \in Places
      /\ requests[1] = Oldest /\ Oldest \in Request
      /\ \A n \in 1 .. k - 1 : n + 1 \in Places /\ requests'[n] = requests[n + 1]
  BY DEF Places, Oldest
<1>2. /\ EditsOf(side)' = F /\ IncreasesOf(side)' = J
      /\ Changes = f /\ Changes' = g /\ Increases = v /\ Increases' = w
  BY <1>1 DEF EditsOf, IncreasesOf, Changes, Increases, Places
<1>3. /\ E \subseteq 1 .. k /\ I \subseteq 1 .. k
      /\ \A n \in 1 .. k : f[n] \in Int /\ v[n] \in Int
      /\ Asked(side) \in Int /\ Raised(side) \in Int
  BY <1>1, <1>2, RequestAmounts
<1>4. F \subseteq 1 .. k - 1 /\ J \subseteq 1 .. k - 1
  OBVIOUS
<1>5. \A n \in Nat \ {0} : n \in F <=> n + 1 \in E
  BY <1>1 DEF EditsOf, SidesStay, Places
<1>6. \A n \in Nat \ {0} : n \in J <=> n + 1 \in I
  BY <1>1, <1>5 DEF IncreasesOf
<1>7. \A n \in 1 .. k - 1 : g[n] = f[n + 1] /\ w[n] = v[n + 1]
  BY <1>1
<1>8. Part(f, E, 1) = ChangeOf(Oldest, side) /\ ChangeOf(Oldest, side) \in Int
  BY <1>1 DEF Part, ChangeOf, EditsOf, Places, Request
<1>9. Part(v, I, 1) = RaiseOf(Oldest, side) /\ RaiseOf(Oldest, side) \in Int
  BY <1>1 DEF Part, RaiseOf, EditsOf, IncreasesOf, Places, Request
<1>10. /\ E \subseteq Nat \ {0} /\ I \subseteq Nat \ {0}
       /\ F \subseteq Nat \ {0} /\ J \subseteq Nat \ {0}
  BY <1>1, <1>3, <1>4
<1>11. /\ IsFiniteSet(E) /\ IsFiniteSet(I)
       /\ IsFiniteSet(F) /\ IsFiniteSet(J)
  <2> HIDE DEF E, I, F, J
  <2>1. IsFiniteSet(1 .. k) /\ IsFiniteSet(1 .. k - 1)
    BY <1>1, FS_Interval
  <2>2. QED
    BY <1>3, <1>4, <2>1, FS_Subset
<1> HIDE DEF E, I, F, J, f, g, v, w, k
<1>12. SumFunctionOnSet(g, F) = SumFunctionOnSet(f, E) - Part(f, E, 1)
  <2>1. \A i \in E : f[i] \in Int
    BY <1>3
  <2>2. \A i \in F : g[i] = f[i + 1]
    BY <1>4, <1>7
  <2>3. QED
    BY <1>5, <1>10, <1>11, <2>1, <2>2, SumTail
<1>13. SumFunctionOnSet(w, J) = SumFunctionOnSet(v, I) - Part(v, I, 1)
  <2>1. \A i \in I : v[i] \in Int
    BY <1>3
  <2>2. \A i \in J : w[i] = v[i + 1]
    BY <1>4, <1>7
  <2>3. QED
    BY <1>6, <1>10, <1>11, <2>1, <2>2, SumTail
<1>14. /\ Asked(side) = SumFunctionOnSet(f, E)
       /\ Asked(side)' = SumFunctionOnSet(g, F)
       /\ Raised(side) = SumFunctionOnSet(v, I)
       /\ Raised(side)' = SumFunctionOnSet(w, J)
  BY <1>2 DEF Asked, Raised, E, I
<1>15. QED
  BY <1>3, <1>8, <1>9, <1>12, <1>13, <1>14

-----------------------------------------------------------------------------
(* What manager and broker know of each other while no report is lost or   *)
(* comes twice.                                                            *)

(* An entry is about the order whose id it has, on that order's side.      *)
Sides ==
  \A s \in Slots : orderEntries[s].orderId # 0 =>
    /\ parent[orderEntries[s].orderId] = orderEntries[s].orderId
    /\ orderEntries[s].side = book[orderEntries[s].orderId].side

(* The id of a cancel or an edit under way has not been forgotten.         *)
Mapped == \A n \in Places : requests[n].kind # "new" => HasEntry(requests[n].id)

FilledExact ==
  fault = "none" =>
    \A s \in LiveSlots :
      orderEntries[s].filled = book[orderEntries[s].orderId].cum

(* The terms of an order are the same on both sides, and an edit under way *)
(* is the last one its entry has seen, and the only one.                   *)
TermsKnown ==
  ~misEdited =>
    \A s \in LiveSlots :
      /\ orderEntries[s].volume = book[orderEntries[s].orderId].volume
      /\ orderEntries[s].price = book[orderEntries[s].orderId].price

EditsKnown ==
  ~misEdited =>
    \A n \in Places : requests[n].kind = "edit" =>
      \A s \in Slots : Holds(s, requests[n].order) =>
        /\ orderEntries[s].newVolume = requests[n].volume
        /\ orderEntries[s].newPrice = requests[n].price
        /\ requests[n].change = requests[n].volume - orderEntries[s].volume

OneEdit ==
  ~misEdited =>
    \A k, n \in Places :
      /\ requests[k].kind = "edit" /\ requests[n].kind = "edit"
      /\ requests[k].order = requests[n].order
      => k = n

PricesKnown ==
  ~misEdited =>
    /\ \A s \in Slots : orderEntries[s].orderId # 0 =>
         orderEntries[s].price \in Prices
    /\ \A n \in Places : requests[n].kind = "edit" => requests[n].price \in Prices

NoEdits ==
  EditVolumes = {} => ~misEdited /\ \A n \in Places : requests[n].kind # "edit"

Terms ==
  /\ Sides /\ FilledExact /\ TermsKnown /\ EditsKnown /\ OneEdit
  /\ PricesKnown /\ NoEdits

Known == Terms /\ Mapped

(* Every report reaches the manager once.                                  *)
Exact == MayLose = FALSE /\ MayResend = FALSE

(* The entries but for their status and their fills.                       *)
SameTerms ==
  \A s \in Slots :
    /\ orderEntries'[s].orderId = orderEntries[s].orderId
    /\ orderEntries'[s].side = orderEntries[s].side
    /\ orderEntries'[s].price = orderEntries[s].price
    /\ orderEntries'[s].volume = orderEntries[s].volume
    /\ orderEntries'[s].newPrice = orderEntries[s].newPrice
    /\ orderEntries'[s].newVolume = orderEntries[s].newVolume

SameFills == \A s \in Slots : orderEntries'[s].filled = orderEntries[s].filled

LEMMA StatusKept ==
  ASSUME orderEntries \in [Slots -> OrderEntry], NEW s \in Slots, NEW st,
         orderEntries' = [orderEntries EXCEPT ![s].status = st]
  PROVE  SameTerms /\ SameFills
BY DEF OrderEntry, SameTerms, SameFills

(* The book but for the states of its orders and their fills.              *)
SameBook ==
  \A o \in Ids : /\ book'[o].side = book[o].side
                /\ book'[o].price = book[o].price
                /\ book'[o].volume = book[o].volume

(* The id of an entry that is taken is one that was issued.                *)
LEMMA EntryIds ==
  ASSUME IInv, NEW s \in Slots, orderEntries[s].orderId # 0
  PROVE  orderEntries[s].orderId \in Ids /\ orderEntries[s].orderId \in Used
<1>1. orderEntries[s].orderId \in Older /\ orderEntries[s] \in OrderEntry
  BY DEF IInv, TypeOK, Fresh
<1>2. currentOrderID \in 1 .. MaxOrders /\ MaxOrders \in Nat
  BY MaxOrdersAssumption DEF IInv, TypeOK
<1>3. QED
  BY <1>1, <1>2 DEF Older, Used, Ids

LEMMA RequestsTyped ==
  ASSUME IInv
  PROVE  /\ requests \in Seq(Request)
         /\ \A n \in Places : requests[n] \in Request /\ requests[n].order \in Ids
<1>1. requests \in Seq(Request)
  BY DEF IInv, TypeOK
<1>2. \A n \in Places : requests[n] \in Request
  BY <1>1 DEF Places
<1>3. QED
  BY <1>1, <1>2 DEF Request

(* A report that changes nothing of the entries but status and fills.      *)
LEMMA QuietTerms ==
  ASSUME IInv, Terms, SameTerms, SameBook, live' \subseteq live, FilledExact',
         Advance, misEdited => misEdited', EditVolumes = {} => ~misEdited',
         UNCHANGED parent
  PROVE  Terms'
<1>1. /\ requests \in Seq(Request) /\ live \subseteq Ids
      /\ \A n \in Places : requests[n].order \in Ids
  BY RequestsTyped DEF IInv, TypeOK
<1>2. PICK d \in {0, 1} :
        \A n \in Places' : n + d \in Places /\ requests'[n] = requests[n + d]
  BY <1>1, Advanced
<1>3. Sides'
  BY EntryIds DEF Terms, Sides, SameTerms, SameBook
<1>5. TermsKnown'
  BY <1>1 DEF Terms, TermsKnown, LiveSlots, SameTerms, SameBook
<1>6. EditsKnown'
  <2>1. SUFFICES ASSUME ~misEdited', NEW n \in Places', NEW s \in Slots,
                        requests'[n].kind = "edit",
                        orderEntries'[s].orderId = requests'[n].order
                 PROVE  /\ orderEntries'[s].newVolume = requests'[n].volume
                        /\ orderEntries'[s].newPrice = requests'[n].price
                        /\ requests'[n].change =
                             requests'[n].volume - orderEntries'[s].volume
    BY DEF EditsKnown, Holds
  <2>2. PICK k \in Places : requests'[n] = requests[k]
    BY <1>2
  <2>3. Holds(s, requests[k].order) /\ requests[k].kind = "edit"
    BY <2>1, <2>2 DEF Holds, SameTerms
  <2>4. /\ orderEntries[s].newVolume = requests[k].volume
        /\ orderEntries[s].newPrice = requests[k].price
        /\ requests[k].change = requests[k].volume - orderEntries[s].volume
    BY <2>1, <2>3 DEF Terms, EditsKnown
  <2>5. QED
    BY <2>2, <2>4 DEF SameTerms
<1>7. OneEdit'
  <2>1. SUFFICES ASSUME ~misEdited', NEW k \in Places', NEW n \in Places',
                        requests'[k].kind = "edit", requests'[n].kind = "edit",
                        requests'[k].order = requests'[n].order
                 PROVE  k = n
    BY DEF OneEdit
  <2>2. k + d = n + d
    BY <1>2, <2>1 DEF Terms, OneEdit
  <2>3. QED
    BY <2>2 DEF Places
<1>8. PricesKnown'
  BY <1>2 DEF Terms, PricesKnown, SameTerms
<1>9. NoEdits'
  BY <1>2 DEF Terms, NoEdits
<1>10. QED
  BY <1>3, <1>5, <1>6, <1>7, <1>8, <1>9 DEF Terms

(* The id of a request under way is not the one a report is about, nor     *)
(* that of its order, so that no report makes the manager forget it.       *)
LEMMA MappedKept ==
  ASSUME IInv, Mapped, NEW m, HandledWell(m), m.id \in Used,
         parent[m.id] = m.order, Advance,
         \A n \in Places' : requests'[n].kind # "new" => requests'[n].id # m.id
  PROVE  Mapped'
<1>1. SUFFICES ASSUME NEW n \in Places', requests'[n].kind # "new"
               PROVE  orderIDVsEntryMap'[requests'[n].id] # orderEntryEnd
  BY DEF Mapped, HasEntry
<1>2. /\ requests \in Seq(Request) /\ EntryTypes /\ TypeOK /\ Parents /\ Queue
      /\ Fresh
  BY DEF IInv, TypeOK, EntryTypes
<1>3. PICK k \in Places : requests'[n] = requests[k]
  BY <1>2, Advanced
<1>4. PICK i : i = requests[k].id
  OBVIOUS
<1>5. /\ HasEntry(i) /\ i \in Used /\ i \in Ids /\ i # m.id
      /\ i # requests[k].order /\ parent[i] = requests[k].order
  <2>1. i \in Used /\ parent[i] = requests[k].order
    BY <1>2, <1>4 DEF Fresh, Parents
  <2>2. Used \subseteq Ids
    BY <1>2, <2>1, IdsUsed
  <2>3. HasEntry(i) /\ i # requests[k].order /\ i # m.id
    BY <1>1, <1>2, <1>3, <1>4 DEF Mapped, Queue
  <2>4. QED
    BY <2>1, <2>2, <2>3
<1>6. i # m.order
  <2>1. parent[m.order] = m.order
    BY <1>2, IdsUsed
  <2>2. QED
    BY <1>5, <2>1
<1>7. ASSUME NEW ids, ids \subseteq {m.id, m.order}, Forget(ids)
      PROVE  orderIDVsEntryMap'[i] # orderEntryEnd
  <2>1. i \notin ids
    BY <1>5, <1>6, <1>7
  <2>2. QED
    BY <1>2, <1>5, <1>7, <2>1 DEF EntryTypes, Forget, HasEntry, SlotOf, Ids
<1>8. CASE UNCHANGED orderIDVsEntryMap
  BY <1>3, <1>4, <1>5, <1>8 DEF HasEntry
<1>9. \/ UNCHANGED orderIDVsEntryMap
      \/ Forget({m.id}) \/ Forget({m.order}) \/ Forget({m.order, m.id})
  BY DEF HandledWell, Keeps, Releases
<1>10. QED
  BY <1>3, <1>4, <1>7, <1>8, <1>9

(* The slot of an order that is not over, and the ids that lead to it.     *)
LEMMA OrderSlot ==
  ASSUME IInv, NEW o \in live
  PROVE  \E s \in Slots :
           /\ orderEntries[s].orderId = o /\ orderEntries[s] \in OrderEntry
           /\ \A t \in Slots \ {s} : orderEntries[t].orderId # o
           /\ HasEntry(book[o].clid) /\ SlotOf(book[o].clid) = s
           /\ EntryOf(book[o].clid) = orderEntries[s]
           /\ \A n \in Places : requests[n].order = o =>
                HasEntry(requests[n].id) /\ SlotOf(requests[n].id) = s
<1>1. SlotsSound /\ ReportsFindOrder /\ TypeOK
  BY DEF IInv
<1>2. PICK s \in Slots : Holds(s, o)
  BY <1>1 DEF SlotsSound
<1>3. \A t \in Slots \ {s} : orderEntries[t].orderId # o
  BY <1>1, <1>2 DEF SlotsSound, Holds
<1>4. QED
  BY <1>1, <1>2, <1>3 DEF ReportsFindOrder, Holds, EntryOf, Places, TypeOK

(* The answers that change the status of entries only.                     *)
LEMMA AnsweredTerms ==
  ASSUME IInv, Known, NEW m, HandledWell(m), Justified(m), SameTerms, SameFills,
         SameBook, \A o \in Ids : book'[o].cum = book[o].cum,
         fault' = "none" => fault = "none",
         requests # << >>, requests' = Tail(requests), m.id = Oldest.id,
         m.order = Oldest.order, misEdited => misEdited',
         EditVolumes = {} => ~misEdited', UNCHANGED parent
  PROVE  Known'
<1>1. /\ TypeOK /\ SlotsSound /\ live \subseteq Ids /\ Terms /\ Mapped
  BY DEF IInv, TypeOK, Known
<1>2. live' \subseteq live
  BY <1>1, HandledSlots
<1>3. FilledExact'
  BY <1>1, <1>2 DEF Terms, FilledExact, LiveSlots, SameTerms, SameFills
<1>4. /\ Oldest.id \in Used /\ parent[Oldest.id] = Oldest.order /\ Advance
      /\ \A n \in Places' : requests'[n].id # Oldest.id
  BY OldestRequest
<1>5. Terms'
  BY <1>1, <1>2, <1>3, <1>4, QuietTerms
<1>6. Mapped'
  BY <1>1, <1>4, MappedKept
<1>7. QED
  BY <1>5, <1>6 DEF Known

-----------------------------------------------------------------------------
(* What a step moves, on one side, in each part of the accounts.           *)

On(d, side, n) == IF side = d THEN n ELSE 0

OrdersMove(d, shares, value) ==
  \A side \in Side :
    /\ Held(side) \in Int /\ HeldValue(side) \in Int
    /\ Held(side)' = Held(side) + On(d, side, shares)
    /\ HeldValue(side)' = HeldValue(side) + On(d, side, value)

RequestsMove(d, shares, value) ==
  \A side \in Side :
    /\ Asked(side) \in Int /\ Raised(side) \in Int
    /\ Asked(side)' = Asked(side) + On(d, side, shares)
    /\ Raised(side)' = Raised(side) + On(d, side, value)

TotalsMove(d, shares, value) ==
  \A side \in Side :
    /\ totals.pendingShares[side] \in Int
    /\ symbol.pendingShareValues[side] \in Int
    /\ totals'.pendingShares[side] =
         totals.pendingShares[side] + On(d, side, shares)
    /\ symbol'.pendingShareValues[side] =
         symbol.pendingShareValues[side] + On(d, side, value)

TradesMove(d, limit, paid) ==
  \A side \in Side :
    /\ traded.limit[side] \in Int /\ traded.paid[side] \in Int
    /\ traded'.limit[side] = traded.limit[side] + On(d, side, limit)
    /\ traded'.paid[side] = traded.paid[side] + On(d, side, paid)

(* What the totals are off, and what the balance and the orders are worth. *)
SharesOff(side) == totals.pendingShares[side] - (Held(side) + Asked(side))

ValueOff(side) ==
  symbol.pendingShareValues[side]
    - ((HeldValue(side) + traded.limit[side]) - traded.paid[side])

Funds == currentBalance + Bound

LEMMA Balance ==
  ASSUME NEW d \in Side, NEW h \in Int, NEW w \in Int, NEW a \in Int,
         NEW r \in Int, NEW n \in Int, NEW v \in Int, NEW l \in Int,
         NEW p \in Int, NEW money \in Int,
         OrdersMove(d, h, w), RequestsMove(d, a, r), TotalsMove(d, n, v),
         TradesMove(d, l, p),
         currentBalance \in Int, currentBalance' = currentBalance + money
  PROVE  /\ n = h + a => \A side \in Side : SharesOff(side)' = SharesOff(side)
         /\ v = (w + l) - p =>
              \A side \in Side : ValueOff(side)' = ValueOff(side)
         /\ Funds \in Int
         /\ Funds' = Funds + (money + (IF d = "BUY" THEN (w + r) + l ELSE 0))
<1>1. ASSUME n = h + a, NEW side \in Side
      PROVE  SharesOff(side)' = SharesOff(side)
  BY <1>1 DEF SharesOff, OrdersMove, RequestsMove, TotalsMove, On
<1>2. ASSUME v = (w + l) - p, NEW side \in Side
      PROVE  ValueOff(side)' = ValueOff(side)
  BY <1>2 DEF ValueOff, OrdersMove, TradesMove, TotalsMove, On
<1>3. Bound = (HeldValue("BUY") + Raised("BUY")) + traded.limit["BUY"]
  <2>1. /\ HeldValue("BUY") \in Int /\ Raised("BUY") \in Int
        /\ traded.limit["BUY"] \in Int
    BY DEF OrdersMove, RequestsMove, TradesMove, Side
  <2>2. /\ HeldValue("BUY") = SumFunctionOnSet(Reserved, LiveOf("BUY"))
        /\ Raised("BUY") = SumFunctionOnSet(Increases, IncreasesOf("BUY"))
    BY DEF HeldValue, Raised
  <2>3. QED
    BY <2>1, <2>2 DEF Bound
<1>4. Bound' = (HeldValue("BUY")' + Raised("BUY")') + traded'.limit["BUY"]
  <2>1. /\ HeldValue("BUY")' \in Int /\ Raised("BUY")' \in Int
        /\ traded'.limit["BUY"] \in Int
    BY DEF OrdersMove, RequestsMove, TradesMove, Side, On
  <2>2. /\ HeldValue("BUY")' = SumFunctionOnSet(Reserved, LiveOf("BUY"))'
        /\ Raised("BUY")' = SumFunctionOnSet(Increases, IncreasesOf("BUY"))'
    BY DEF HeldValue, Raised
  <2>3. QED
    BY <2>1, <2>2 DEF Bound
<1>5. /\ Funds \in Int
      /\ Funds' = Funds + (money + (IF d = "BUY" THEN (w + r) + l ELSE 0))
  BY <1>3, <1>4 DEF Funds, OrdersMove, RequestsMove, TradesMove, Side, On
<1>6. QED
  BY <1>1, <1>2, <1>5

(* The parts of the accounts, one by one.                                  *)
EntriesTyped ==
  /\ orderEntries \in [Slots -> OrderEntry]
  /\ orderEntries' \in [Slots -> OrderEntry]

(* The entries but for their status and the terms of an edit.              *)
SameAmounts ==
  \A s \in Slots :
    /\ orderEntries'[s].orderId = orderEntries[s].orderId
    /\ orderEntries'[s].side = orderEntries[s].side
    /\ orderEntries'[s].price = orderEntries[s].price
    /\ orderEntries'[s].volume = orderEntries[s].volume
    /\ orderEntries'[s].filled = orderEntries[s].filled

LEMMA OrdersKept ==
  ASSUME EntriesTyped, SameAmounts, UNCHANGED live, NEW d
  PROVE  OrdersMove(d, 0, 0)
<1>1. SUFFICES ASSUME NEW side \in Side
               PROVE  /\ Held(side) \in Int /\ HeldValue(side) \in Int
                      /\ Held(side)' = Held(side)
                      /\ HeldValue(side)' = HeldValue(side)
  BY DEF OrdersMove, On
<1>2. Outstanding' = Outstanding
  BY DEF Outstanding, Unfilled, SameAmounts
<1>3. Reserved' = Reserved
  BY <1>2 DEF Reserved, SameAmounts
<1>4. LiveOf(side)' = LiveOf(side)
  BY DEF LiveOf, LiveSlots, SameAmounts
<1>5. /\ LiveOf(side) \subseteq Slots
      /\ \A s \in Slots : Outstanding[s] \in Int /\ Reserved[s] \in Int
  BY EntryAmounts DEF EntriesTyped, LiveOf, LiveSlots, Outstanding, Reserved
<1>6. IsFiniteSet(LiveOf(side))
  BY <1>5, SlotsFinite, FS_Subset
<1>7. Held(side) \in Int /\ HeldValue(side) \in Int
  BY <1>5, <1>6, SumType DEF Held, HeldValue
<1>8. QED
  BY <1>2, <1>3, <1>4, <1>7 DEF Held, HeldValue

(* An order is over: its slot counts no more.                              *)
LEMMA OrderEnds ==
  ASSUME EntriesTyped, NEW s \in Slots, NEW o \in live,
         orderEntries[s].orderId = o, orderEntries'[s].orderId = o,
         live' = live \ {o},
         \A t \in Slots \ {s} : /\ orderEntries[t].orderId # o
                                /\ orderEntries'[t] = orderEntries[t],
         NEW u, u = Unfilled(orderEntries[s]),
         NEW w, w = orderEntries[s].price * u
  PROVE  OrdersMove(orderEntries[s].side, -u, -w)
<1>1. SUFFICES ASSUME NEW side \in Side
               PROVE  LET d == orderEntries[s].side IN
                      /\ Held(side) \in Int /\ HeldValue(side) \in Int
                      /\ Held(side)' = Held(side) + On(d, side, -u)
                      /\ HeldValue(side)' = HeldValue(side) + On(d, side, -w)
  BY DEF OrdersMove
<1>2. OnlySlot(s)
  BY DEF OnlySlot
<1>3. u \in Int /\ w \in Int
  BY EntryAmounts DEF EntriesTyped
<1>4. ShareOf(s, side)' = 0 /\ WorthOf(s, side)' = 0
  BY DEF ShareOf, WorthOf, LiveOf, LiveSlots
<1>5. /\ ShareOf(s, side) = On(orderEntries[s].side, side, u)
      /\ WorthOf(s, side) = On(orderEntries[s].side, side, w)
  BY DEF ShareOf, WorthOf, LiveOf, LiveSlots, On
<1>6. /\ Held(side) \in Int /\ HeldValue(side) \in Int
      /\ Held(side)' = (Held(side) + ShareOf(s, side)') - ShareOf(s, side)
      /\ HeldValue(side)' =
           (HeldValue(side) + WorthOf(s, side)') - WorthOf(s, side)
  BY <1>2, OneSlot DEF EntriesTyped
<1>7. QED
  BY <1>3, <1>4, <1>5, <1>6 DEF On

(* The entry of an order that stays open changes.                          *)
LEMMA OrderChanges ==
  ASSUME EntriesTyped, NEW s \in Slots, orderEntries[s].orderId \in live,
         UNCHANGED live,
         orderEntries'[s].orderId = orderEntries[s].orderId,
         orderEntries'[s].side = orderEntries[s].side,
         \A t \in Slots \ {s} : orderEntries'[t] = orderEntries[t],
         NEW h, h = Unfilled(orderEntries'[s]) - Unfilled(orderEntries[s]),
         NEW w, w = orderEntries'[s].price * Unfilled(orderEntries'[s])
                      - orderEntries[s].price * Unfilled(orderEntries[s])
  PROVE  OrdersMove(orderEntries[s].side, h, w)
<1>1. SUFFICES ASSUME NEW side \in Side
               PROVE  LET d == orderEntries[s].side IN
                      /\ Held(side) \in Int /\ HeldValue(side) \in Int
                      /\ Held(side)' = Held(side) + On(d, side, h)
                      /\ HeldValue(side)' = HeldValue(side) + On(d, side, w)
  BY DEF OrdersMove
<1>2. OnlySlot(s)
  BY DEF OnlySlot
<1>3. PICK m : m = Unfilled(orderEntries[s])
  OBVIOUS
<1>4. PICK n : n = Unfilled(orderEntries'[s])
  OBVIOUS
<1>5. PICK x : x = orderEntries[s].price * m
  OBVIOUS
<1>6. PICK y : y = orderEntries'[s].price * n
  OBVIOUS
<1>7. m \in Int /\ n \in Int /\ x \in Int /\ y \in Int
  BY <1>3, <1>4, <1>5, <1>6, EntryAmounts DEF EntriesTyped
<1>8. /\ ShareOf(s, side)' = On(orderEntries[s].side, side, n)
      /\ WorthOf(s, side)' = On(orderEntries[s].side, side, y)
  BY <1>4, <1>6 DEF ShareOf, WorthOf, LiveOf, LiveSlots, On
<1>9. /\ ShareOf(s, side) = On(orderEntries[s].side, side, m)
      /\ WorthOf(s, side) = On(orderEntries[s].side, side, x)
  BY <1>3, <1>5 DEF ShareOf, WorthOf, LiveOf, LiveSlots, On
<1>10. /\ Held(side) \in Int /\ HeldValue(side) \in Int
       /\ Held(side)' = (Held(side) + ShareOf(s, side)') - ShareOf(s, side)
       /\ HeldValue(side)' =
            (HeldValue(side) + WorthOf(s, side)') - WorthOf(s, side)
  BY <1>2, OneSlot DEF EntriesTyped
<1>11. h = n - m /\ w = y - x
  BY <1>3, <1>4, <1>5, <1>6
<1>12. QED
  BY <1>7, <1>8, <1>9, <1>10, <1>11 DEF On

(* A slot that was free gets an order.                                     *)
LEMMA OrderAdded ==
  ASSUME EntriesTyped, NEW s \in Slots, orderEntries[s].orderId \notin live,
         NEW o, orderEntries'[s].orderId = o, live' = live \cup {o},
         \A t \in Slots \ {s} : /\ orderEntries[t].orderId # o
                                /\ orderEntries'[t] = orderEntries[t],
         NEW u, u = Unfilled(orderEntries'[s]),
         NEW w, w = orderEntries'[s].price * u
  PROVE  OrdersMove(orderEntries'[s].side, u, w)
<1>1. SUFFICES ASSUME NEW side \in Side
               PROVE  LET d == orderEntries'[s].side IN
                      /\ Held(side) \in Int /\ HeldValue(side) \in Int
                      /\ Held(side)' = Held(side) + On(d, side, u)
                      /\ HeldValue(side)' = HeldValue(side) + On(d, side, w)
  BY DEF OrdersMove
<1>2. OnlySlot(s)
  BY DEF OnlySlot
<1>3. u \in Int /\ w \in Int
  BY EntryAmounts DEF EntriesTyped
<1>4. ShareOf(s, side) = 0 /\ WorthOf(s, side) = 0
  BY DEF ShareOf, WorthOf, LiveOf, LiveSlots
<1>5. /\ ShareOf(s, side)' = On(orderEntries'[s].side, side, u)
      /\ WorthOf(s, side)' = On(orderEntries'[s].side, side, w)
  BY DEF ShareOf, WorthOf, LiveOf, LiveSlots, On
<1>6. /\ Held(side) \in Int /\ HeldValue(side) \in Int
      /\ Held(side)' = (Held(side) + ShareOf(s, side)') - ShareOf(s, side)
      /\ HeldValue(side)' =
           (HeldValue(side) + WorthOf(s, side)') - WorthOf(s, side)
  BY <1>2, OneSlot DEF EntriesTyped
<1>7. QED
  BY <1>3, <1>4, <1>5, <1>6 DEF On

(* What a request for an edit asks for.                                    *)
EditChange(q) == IF q.kind = "edit" THEN q.change ELSE 0
EditRaise(q) ==
  IF q.kind = "edit" /\ q.change > 0 THEN q.price * q.change ELSE 0

LEMMA SidesStaying ==
  ASSUME IInv, SameBook
  PROVE  SidesStay
BY RequestsTyped DEF SidesStay, SameBook

LEMMA RequestsSame ==
  ASSUME IInv, UNCHANGED requests, SidesStay, NEW d
  PROVE  RequestsMove(d, 0, 0)
<1>1. requests \in Seq(Request)
  BY RequestsTyped
<1>2. QED
  BY <1>1, RequestsKept, RequestAmounts DEF RequestsMove, On

LEMMA AnswerMoves ==
  ASSUME IInv, requests # << >>, requests' = Tail(requests), SidesStay
  PROVE  /\ RequestsMove(book[Oldest.order].side,
                         -EditChange(Oldest), -EditRaise(Oldest))
         /\ EditChange(Oldest) \in Int /\ EditRaise(Oldest) \in Int
         /\ Oldest.kind # "edit" => \A d : RequestsMove(d, 0, 0)
<1>1. requests \in Seq(Request) /\ Oldest \in Request
  BY RequestsTyped, OldestRequest
<1>2. EditChange(Oldest) \in Int /\ EditRaise(Oldest) \in Int
  BY <1>1, RequestNumbers DEF EditChange, EditRaise
<1>3. PICK c : c = EditChange(Oldest)
  OBVIOUS
<1>4. PICK r : r = EditRaise(Oldest)
  OBVIOUS
<1>5. \A side \in Side : /\ ChangeOf(Oldest, side) = On(book[Oldest.order].side, side, c)
                         /\ RaiseOf(Oldest, side) = On(book[Oldest.order].side, side, r)
  BY <1>3, <1>4 DEF ChangeOf, RaiseOf, On, EditChange, EditRaise
<1>6. \A side \in Side :
        /\ Asked(side) \in Int /\ Raised(side) \in Int
        /\ Asked(side)' = Asked(side) - ChangeOf(Oldest, side)
        /\ Raised(side)' = Raised(side) - RaiseOf(Oldest, side)
  BY <1>1, RequestTaken
<1>7. RequestsMove(book[Oldest.order].side, -c, -r)
  BY <1>2, <1>3, <1>4, <1>5, <1>6 DEF RequestsMove, On
<1>8. Oldest.kind # "edit" => c = 0 /\ r = 0
  BY <1>3, <1>4 DEF EditChange, EditRaise
<1>9. Oldest.kind # "edit" => \A d : RequestsMove(d, 0, 0)
  BY <1>5, <1>6, <1>8 DEF RequestsMove, On
<1>10. QED
  BY <1>2, <1>3, <1>4, <1>7, <1>9

LEMMA RequestMoves ==
  ASSUME IInv, NEW q \in Request, requests' = Append(requests, q), SidesStay
  PROVE  /\ RequestsMove(book'[q.order].side, EditChange(q), EditRaise(q))
         /\ EditChange(q) \in Int /\ EditRaise(q) \in Int
         /\ q.kind # "edit" => \A d : RequestsMove(d, 0, 0)
<1>1. requests \in Seq(Request)
  BY RequestsTyped
<1>2. EditChange(q) \in Int /\ EditRaise(q) \in Int
  BY <1>1, RequestNumbers DEF EditChange, EditRaise
<1>3. PICK c : c = EditChange(q)
  OBVIOUS
<1>4. PICK r : r = EditRaise(q)
  OBVIOUS
<1>5. \A side \in Side : /\ ChangeOf(q, side)' = On(book'[q.order].side, side, c)
                         /\ RaiseOf(q, side)' = On(book'[q.order].side, side, r)
  BY <1>3, <1>4 DEF ChangeOf, RaiseOf, On, EditChange, EditRaise
<1>6. \A side \in Side :
        /\ Asked(side) \in Int /\ Raised(side) \in Int
        /\ Asked(side)' = Asked(side) + ChangeOf(q, side)'
        /\ Raised(side)' = Raised(side) + RaiseOf(q, side)'
  BY <1>1, RequestAdded
<1>7. RequestsMove(book'[q.order].side, c, r)
  BY <1>5, <1>6 DEF RequestsMove
<1>8. q.kind # "edit" => c = 0 /\ r = 0
  BY <1>3, <1>4 DEF EditChange, EditRaise
<1>9. q.kind # "edit" => \A d : RequestsMove(d, 0, 0)
  BY <1>5, <1>6, <1>8 DEF RequestsMove, On
<1>10. QED
  BY <1>2, <1>3, <1>4, <1>7, <1>9

(* The totals.                                                             *)
LEMMA PendingMoves ==
  ASSUME NEW t \in Totals, NEW d \in Side, NEW n \in Int, NEW v \in Int,
         NEW side \in Side
  PROVE  /\ t.pendingShares[side] \in Int /\ t.pendingShareValues[side] \in Int
         /\ AddPending(t, d, n, v).pendingShares[side] =
              t.pendingShares[side] + On(d, side, n)
         /\ AddPending(t, d, n, v).pendingShareValues[side] =
              t.pendingShareValues[side] + On(d, side, v)
BY DEF AddPending, Totals, On

LEMMA CancellingMoves ==
  ASSUME NEW t \in Totals, NEW d, NEW n \in Int
  PROVE  /\ AddCancelling(t, d, n).pendingShares = t.pendingShares
         /\ AddCancelling(t, d, n).pendingShareValues = t.pendingShareValues
BY DEF AddCancelling, Totals

LEMMA FillMoves ==
  ASSUME NEW t \in Totals, NEW d \in Side, NEW p \in Int, NEW n \in Int,
         NEW side \in Side
  PROVE  /\ onOrderFill(t, d, p, n).pendingShares[side] =
              t.pendingShares[side] + On(d, side, -n)
         /\ onOrderFill(t, d, p, n).pendingShareValues[side] =
              t.pendingShareValues[side] + On(d, side, -(n * p))
<1>1. PICK v : v = -(n * p)
  OBVIOUS
<1>2. -n \in Int /\ v \in Int
  BY <1>1
<1> DEFINE a == AddPending(t, d, -n, v)
<1>3. /\ a \in Totals
      /\ a.pendingShares[side] = t.pendingShares[side] + On(d, side, -n)
      /\ a.pendingShareValues[side] = t.pendingShareValues[side] + On(d, side, v)
  BY <1>2, AddPendingType, PendingMoves
<1> HIDE DEF a
<1>4. onOrderFill(t, d, p, n) =
        [a EXCEPT !.ownShares = IF d = "BUY" THEN @ + n ELSE @ - n]
  BY <1>1 DEF onOrderFill, a
<1>5. /\ onOrderFill(t, d, p, n).pendingShares = a.pendingShares
      /\ onOrderFill(t, d, p, n).pendingShareValues = a.pendingShareValues
  BY <1>3, <1>4 DEF Totals
<1>6. QED
  BY <1>1, <1>3, <1>5

LEMMA TradeMoves ==
  ASSUME NEW t \in Trades, NEW d \in Side, NEW l \in Int, NEW p \in Int,
         NEW side \in Side
  PROVE  /\ t.limit[side] \in Int /\ t.paid[side] \in Int
         /\ AddTrade(t, d, l, p).limit[side] = t.limit[side] + On(d, side, l)
         /\ AddTrade(t, d, l, p).paid[side] = t.paid[side] + On(d, side, p)
BY DEF AddTrade, Trades, On

LEMMA TotalsKept ==
  ASSUME TypeOK, NEW d,
         totals'.pendingShares = totals.pendingShares,
         symbol'.pendingShareValues = symbol.pendingShareValues
  PROVE  TotalsMove(d, 0, 0)
<1>1. \A side \in Side : /\ totals.pendingShares[side] \in Int
                         /\ symbol.pendingShareValues[side] \in Int
  BY DEF TypeOK, Totals
<1>2. QED
  BY <1>1 DEF TotalsMove, On

LEMMA TradesKept ==
  ASSUME TypeOK, NEW d, UNCHANGED traded
  PROVE  TradesMove(d, 0, 0)
<1>1. \A side \in Side : traded.limit[side] \in Int /\ traded.paid[side] \in Int
  BY DEF TypeOK, Trades
<1>2. QED
  BY <1>1 DEF TradesMove, On

(* The commission is nothing: its rate is divided by the scale first.      *)
LEMMA Costs ==
  ASSUME NEW price \in Int, NEW volume \in Int, NEW side
  PROVE  calculateCost(price, volume, side) =
           IF side = "BUY" THEN price * volume ELSE 0
<1>1. CommissionRate \div PriceScale = 0
  BY DEF CommissionRate, PriceScale
<1>2. PICK c : c = price * volume
  OBVIOUS
<1>3. c \in Int
  BY <1>2
<1>4. calculateCommission(price, volume) = 0
  BY <1>1, <1>2, <1>3 DEF calculateCommission
<1>5. QED
  BY <1>2, <1>3, <1>4 DEF calculateCost

-----------------------------------------------------------------------------
(* Each step keeps what is known and the balance of the accounts.          *)

OnePrice == \A p, q \in Prices : p = q

Balanced ==
  /\ misEdited => misEdited'
  /\ fault' = "none" /\ ~misEdited' =>
       \A side \in Side : SharesOff(side)' = SharesOff(side)
  /\ fault' = "none" /\ EditVolumes = {} =>
       /\ \A side \in Side : ValueOff(side)' = ValueOff(side)
       /\ Funds' = Funds
  /\ ~misEdited' /\ OnePrice =>
       Funds \in Int /\ Funds' \in Int /\ Funds' <= Funds

(* The book changes in the state of one order.                             *)
LEMMA StateChanged ==
  ASSUME book \in [Ids -> BookEntry], NEW o \in Ids, NEW st,
         book' = [book EXCEPT ![o].state = st]
  PROVE  SameBook /\ \A p \in Ids : book'[p].cum = book[p].cum
BY DEF BookEntry, SameBook

LEMMA BookUnchanged ==
  ASSUME UNCHANGED book
  PROVE  SameBook /\ \A p \in Ids : book'[p].cum = book[p].cum
BY DEF SameBook

(* An answer, and what the manager does with it: none is lost.             *)
LEMMA AnswerHandled ==
  ASSUME IInv, Exact, requests # << >>, requests' = Tail(requests),
         NEW type \in ReportType \ {"NONE", "TRADE"},
         type \in {"REJECTED", "CANCELED", "REPLACED"} =>
           book[Oldest.order].state \in {"sent", "open"},
         type = "REJECTED" => Oldest.id = Oldest.order,
         NEW m, m = Report(type, Oldest.id, Oldest.order), Emit(m)
  PROVE  /\ m \in ProperReport /\ Justified(m) /\ HandledWell(m) /\ Handle(m)
         /\ m.type = type /\ m.id = Oldest.id /\ m.order = Oldest.order
         /\ UNCHANGED parent
<1>1. Oldest.id \in Used /\ parent[Oldest.id] = Oldest.order
  BY OldestRequest
<1>2. /\ m \in ProperReport /\ Justified(m) /\ m.type = type
      /\ m.id = Oldest.id /\ m.order = Oldest.order
  BY <1>1, ReportFacts
<1>3. Handle(m) /\ UNCHANGED parent
  BY DEF Exact, Emit
<1>4. HandledWell(m)
  BY <1>2, <1>3, HandleEffect DEF IInv
<1>5. QED
  BY <1>2, <1>3, <1>4

(* The answers that move nothing.                                          *)
LEMMA QuietBalance ==
  ASSUME IInv, IInv', SameTerms, SameFills, SameBook,
         requests # << >>, requests' = Tail(requests), Oldest.kind # "edit",
         totals'.pendingShares = totals.pendingShares,
         symbol'.pendingShareValues = symbol.pendingShareValues,
         UNCHANGED <<live, traded, currentBalance, misEdited>>
  PROVE  Balanced
<1>1. TypeOK /\ EntriesTyped /\ currentBalance \in Int /\ SameAmounts
  BY DEF IInv, TypeOK, EntriesTyped, SameTerms, SameFills, SameAmounts
<1>2. /\ OrdersMove("BUY", 0, 0) /\ RequestsMove("BUY", 0, 0)
      /\ TotalsMove("BUY", 0, 0) /\ TradesMove("BUY", 0, 0)
  BY <1>1, OrdersKept, SidesStaying, AnswerMoves, TotalsKept, TradesKept
<1>3. "BUY" \in Side /\ 0 \in Int /\ currentBalance' = currentBalance + 0
  BY <1>1 DEF Side
<1>4. /\ 0 = 0 + 0 => \A side \in Side : SharesOff(side)' = SharesOff(side)
      /\ 0 = (0 + 0) - 0 => \A side \in Side : ValueOff(side)' = ValueOff(side)
      /\ Funds \in Int
      /\ Funds' = Funds + (0 + (IF "BUY" = "BUY" THEN (0 + 0) + 0 ELSE 0))
  BY <1>1, <1>2, <1>3, Balance
<1>5. QED
  BY <1>4 DEF Balanced

LEMMA AcceptNewBalance ==
  ASSUME IInv, IInv', Known, Exact, AcceptNew
  PROVE  Known' /\ Balanced
<1>1. /\ requests # << >> /\ requests' = Tail(requests)
      /\ Oldest.kind = "new"
      /\ book' = [book EXCEPT ![Oldest.order].state = "open"]
      /\ Emit(Report("NEW", Oldest.order, Oldest.order))
  BY DEF AcceptNew, Answer, Oldest
<1>2. /\ Oldest.id = Oldest.order /\ Oldest.order \in Ids
      /\ book[Oldest.order].state = "sent"
  BY <1>1, OldestRequest
<1>3. PICK m : m = Report("NEW", Oldest.id, Oldest.order)
  OBVIOUS
<1>4. /\ m \in ProperReport /\ Justified(m) /\ HandledWell(m) /\ Handle(m)
      /\ m.type = "NEW" /\ m.id = Oldest.id /\ m.order = Oldest.order
      /\ UNCHANGED parent
  BY <1>1, <1>2, <1>3, AnswerHandled DEF ReportType
<1>5. book \in [Ids -> BookEntry] /\ Oldest.order \in live /\ TypeOK
  BY <1>2 DEF IInv, TypeOK, BookLive
<1>6. SameBook /\ \A p \in Ids : book'[p].cum = book[p].cum
  BY <1>1, <1>2, <1>5, StateChanged
<1>7. HasEntry(m.id) /\ m.id \in Ids
  BY <1>1, <1>2, <1>4, <1>5, OldestRequest DEF IInv, SlotsSound
<1>8. handleSingleOrderAck(m)
  BY <1>4, <1>7 DEF Handle
<1>9. SlotOf(m.id) \in Slots /\ orderEntries \in [Slots -> OrderEntry]
  BY <1>5, <1>7, EntryNumbers DEF TypeOK
<1>10. SameTerms /\ SameFills
  BY <1>8, <1>9, StatusKept DEF handleSingleOrderAck
<1>11. /\ UNCHANGED <<totals, symbol, currentBalance, fault, live, traded, misEdited>>
  BY <1>8 DEF handleSingleOrderAck
<1>12. EditVolumes = {} => ~misEdited
  BY DEF Known, Terms, NoEdits
<1>13. Known'
  BY <1>1, <1>4, <1>6, <1>10, <1>11, <1>12, AnsweredTerms
<1>14. QED
  BY <1>1, <1>6, <1>10, <1>11, <1>13, QuietBalance

LEMMA RejectCancelBalance ==
  ASSUME IInv, IInv', Known, Exact, RejectCancel
  PROVE  Known' /\ Balanced
<1>1. /\ requests # << >> /\ requests' = Tail(requests)
      /\ Oldest.kind = "cancel" /\ UNCHANGED book
      /\ Emit(Report("CANCEL_REJECT", Oldest.id, Oldest.order))
  BY DEF RejectCancel, Answer, Oldest
<1>2. PICK m : m = Report("CANCEL_REJECT", Oldest.id, Oldest.order)
  OBVIOUS
<1>3. /\ m \in ProperReport /\ Justified(m) /\ HandledWell(m) /\ Handle(m)
      /\ m.type = "CANCEL_REJECT" /\ m.id = Oldest.id /\ m.order = Oldest.order
      /\ UNCHANGED parent
  BY <1>1, <1>2, AnswerHandled DEF ReportType
<1>4. SameBook /\ \A p \in Ids : book'[p].cum = book[p].cum
  BY <1>1, BookUnchanged
<1>5. HasEntry(m.id) /\ m.id \in Ids /\ TypeOK
  <2>1. 1 \in Places /\ requests[1] = Oldest
    BY <1>1, RequestsTyped DEF Places, Oldest
  <2>2. HasEntry(Oldest.id)
    BY <1>1, <2>1 DEF Known, Mapped
  <2>3. QED
    BY <1>3, <2>2 DEF ProperReport, IInv
<1>6. handleCancelOrderReject(m)
  BY <1>3, <1>5 DEF Handle
<1>7. /\ SlotOf(m.id) \in Slots /\ orderEntries \in [Slots -> OrderEntry]
      /\ -Unfilled(EntryOf(m.id)) \in Int
      /\ totals \in Totals /\ symbol \in Totals
  BY <1>5, EntryNumbers DEF TypeOK
<1>8. SameTerms /\ SameFills
  BY <1>6, <1>7, StatusKept DEF handleCancelOrderReject
<1>9. /\ UNCHANGED <<currentBalance, fault, live, traded, misEdited>>
      /\ totals'.pendingShares = totals.pendingShares
      /\ symbol'.pendingShareValues = symbol.pendingShareValues
  BY <1>6, <1>7, CancellingMoves
     DEF handleCancelOrderReject, onCancelOrderReject
<1>10. EditVolumes = {} => ~misEdited
  BY DEF Known, Terms, NoEdits
<1>11. Known'
  BY <1>1, <1>3, <1>4, <1>8, <1>9, <1>10, AnsweredTerms
<1>12. QED
  BY <1>1, <1>4, <1>8, <1>9, <1>11, QuietBalance

(* The answers that end an order give back what it had bound.              *)
LEMMA EndBalance ==
  ASSUME IInv, IInv', SameBook, UNCHANGED <<traded, misEdited>>,
         requests # << >>, requests' = Tail(requests), Oldest.kind # "edit",
         NEW s \in Slots, NEW o \in live,
         orderEntries[s].orderId = o, orderEntries'[s].orderId = o,
         live' = live \ {o},
         \A t \in Slots \ {s} : /\ orderEntries[t].orderId # o
                                /\ orderEntries'[t] = orderEntries[t],
         NEW d \in Side, d = orderEntries[s].side,
         NEW u, u = Unfilled(orderEntries[s]),
         NEW w, w = orderEntries[s].price * u,
         TotalsMove(d, -u, -w),
         currentBalance' = currentBalance + (IF d = "BUY" THEN w ELSE 0)
  PROVE  Balanced
<1>1. TypeOK /\ EntriesTyped /\ currentBalance \in Int
  BY DEF IInv, TypeOK, EntriesTyped
<1>2. /\ OrdersMove(d, -u, -w) /\ RequestsMove(d, 0, 0) /\ TradesMove(d, 0, 0)
  BY <1>1, OrderEnds, SidesStaying, AnswerMoves, TradesKept
<1>3. u \in Int /\ w \in Int
  BY <1>1, EntryAmounts DEF EntriesTyped
<1>4. PICK money : money = IF d = "BUY" THEN w ELSE 0
  OBVIOUS
<1>5. /\ -u \in Int /\ -w \in Int /\ 0 \in Int /\ money \in Int
      /\ currentBalance' = currentBalance + money
  BY <1>3, <1>4
<1>6. /\ -u = -u + 0 => \A side \in Side : SharesOff(side)' = SharesOff(side)
      /\ -w = (-w + 0) - 0 => \A side \in Side : ValueOff(side)' = ValueOff(side)
      /\ Funds \in Int
      /\ Funds' = Funds + (money + (IF d = "BUY" THEN (-w + 0) + 0 ELSE 0))
  BY <1>1, <1>2, <1>5, Balance
<1>7. /\ \A side \in Side : SharesOff(side)' = SharesOff(side)
      /\ \A side \in Side : ValueOff(side)' = ValueOff(side)
      /\ Funds' = Funds
  BY <1>3, <1>4, <1>6
<1>8. QED
  BY <1>6, <1>7 DEF Balanced

(* The entry an order that is not over ends with.                          *)
LEMMA EndingOrder ==
  ASSUME IInv, Known, requests # << >>, requests' = Tail(requests),
         book[Oldest.order].state \in {"sent", "open"}
  PROVE  \E s \in Slots :
           /\ HasEntry(Oldest.id) /\ SlotOf(Oldest.id) = s
           /\ Oldest.order \in live /\ orderEntries[s].orderId = Oldest.order
           /\ orderEntries[s] \in OrderEntry
           /\ \A t \in Slots \ {s} : orderEntries[t].orderId # Oldest.order
           /\ orderEntries[s].side = book[Oldest.order].side
           /\ orderEntries[s].side \in Side
           /\ EntryOf(Oldest.id) = orderEntries[s]
<1>1. /\ Oldest.order \in Ids /\ Oldest.order \in live
      /\ book \in [Ids -> BookEntry]
  BY OldestRequest DEF IInv, BookLive, TypeOK
<1>2. 1 \in Places /\ requests[1] = Oldest
  BY RequestsTyped DEF Places, Oldest
<1>3. PICK s \in Slots :
        /\ orderEntries[s].orderId = Oldest.order
        /\ orderEntries[s] \in OrderEntry
        /\ \A t \in Slots \ {s} : orderEntries[t].orderId # Oldest.order
        /\ HasEntry(Oldest.id) /\ SlotOf(Oldest.id) = s
  BY <1>1, <1>2, OrderSlot
<1>4. orderEntries[s].orderId # 0
  BY <1>1, <1>3 DEF Ids
<1>5. orderEntries[s].side = book[Oldest.order].side
  BY <1>3, <1>4 DEF Known, Terms, Sides
<1>6. orderEntries[s].side \in Side
  BY <1>1, <1>5 DEF BookEntry
<1>7. QED
  BY <1>1, <1>3, <1>5, <1>6 DEF EntryOf

LEMMA RejectNewBalance ==
  ASSUME IInv, IInv', Known, Exact, RejectNew
  PROVE  Known' /\ Balanced
<1>1. /\ requests # << >> /\ requests' = Tail(requests)
      /\ Oldest.kind = "new"
      /\ book' = [book EXCEPT ![Oldest.order].state = "rejected"]
      /\ Emit(Report("REJECTED", Oldest.order, Oldest.order))
  BY DEF RejectNew, Answer, Oldest
<1>2. /\ Oldest.id = Oldest.order /\ Oldest.order \in Ids
      /\ book[Oldest.order].state = "sent"
  BY <1>1, OldestRequest
<1>3. PICK m : m = Report("REJECTED", Oldest.id, Oldest.order)
  OBVIOUS
<1>4. /\ m \in ProperReport /\ Justified(m) /\ HandledWell(m) /\ Handle(m)
      /\ m.type = "REJECTED" /\ m.id = Oldest.id /\ m.order = Oldest.order
      /\ UNCHANGED parent
  BY <1>1, <1>2, <1>3, AnswerHandled DEF ReportType
<1>5. PICK s \in Slots :
        /\ HasEntry(m.id) /\ SlotOf(m.id) = s
        /\ m.order \in live /\ orderEntries[s].orderId = m.order
        /\ orderEntries[s] \in OrderEntry
        /\ \A t \in Slots \ {s} : orderEntries[t].orderId # m.order
        /\ orderEntries[s].side \in Side
        /\ EntryOf(m.id) = orderEntries[s]
  BY <1>1, <1>2, <1>4, EndingOrder
<1>6. /\ book \in [Ids -> BookEntry] /\ TypeOK
      /\ orderEntries \in [Slots -> OrderEntry]
      /\ totals \in Totals /\ symbol \in Totals
  BY DEF IInv, TypeOK
<1>7. SameBook /\ \A p \in Ids : book'[p].cum = book[p].cum
  BY <1>1, <1>2, <1>6, StateChanged
<1>8. handleSingleOrderReject(m)
  BY <1>4, <1>5 DEF Handle
<1>9. PICK e : e = orderEntries[s]
  OBVIOUS
<1>10. PICK u : u = Unfilled(e)
  OBVIOUS
<1>11. PICK w : w = e.price * u
  OBVIOUS
<1>12. /\ u \in Int /\ -u \in Int /\ w \in Int /\ e.price \in Int
       /\ -(u * e.price) = -w /\ -w \in Int
  <2>1. u \in Int /\ w \in Int /\ e.price \in Int
    BY <1>5, <1>9, <1>10, <1>11, EntryAmounts DEF OrderEntry
  <2>2. QED
    BY <1>11, <2>1
<1>13. /\ orderEntries' = [orderEntries EXCEPT ![s].status = {"REJECTED"}]
       /\ totals' = AddPending(totals, e.side, -u, -w)
       /\ symbol' = AddPending(symbol, e.side, -u, -w)
       /\ currentBalance' = currentBalance + calculateCost(e.price, u, e.side)
       /\ live' = live \ {m.order}
       /\ UNCHANGED <<fault, traded, misEdited>>
  BY <1>5, <1>8, <1>9, <1>10, <1>12
     DEF handleSingleOrderReject, onSingleOrderReject
<1>14. SameTerms /\ SameFills
  BY <1>6, <1>13, StatusKept
<1>15. TotalsMove(e.side, -u, -w)
  <2>1. totals \in Totals /\ symbol \in Totals
    BY <1>6
  <2>2. e.side \in Side
    BY <1>5, <1>9
  <2>3. PICK nu, nw \in Int : nu = -u /\ nw = -w
    BY <1>12
  <2>4. SUFFICES ASSUME NEW side \in Side
                 PROVE  /\ totals.pendingShares[side] \in Int
                        /\ symbol.pendingShareValues[side] \in Int
                        /\ totals'.pendingShares[side] =
                             totals.pendingShares[side] + On(e.side, side, nu)
                        /\ symbol'.pendingShareValues[side] =
                             symbol.pendingShareValues[side]
                               + On(e.side, side, nw)
    BY <2>3 DEF TotalsMove
  <2>5. /\ totals.pendingShares[side] \in Int
        /\ AddPending(totals, e.side, nu, nw).pendingShares[side] =
             totals.pendingShares[side] + On(e.side, side, nu)
    BY <2>1, <2>2, PendingMoves
  <2>6. /\ symbol.pendingShareValues[side] \in Int
        /\ AddPending(symbol, e.side, nu, nw).pendingShareValues[side] =
             symbol.pendingShareValues[side] + On(e.side, side, nw)
    BY <2>1, <2>2, PendingMoves
  <2>7. QED
    BY <1>13, <2>3, <2>5, <2>6
<1>16. currentBalance' = currentBalance + (IF e.side = "BUY" THEN w ELSE 0)
  BY <1>11, <1>12, <1>13, Costs
<1>17. EditVolumes = {} => ~misEdited
  BY DEF Known, Terms, NoEdits
<1>18. Known'
  BY <1>1, <1>4, <1>7, <1>13, <1>14, <1>17, AnsweredTerms
<1>19. /\ orderEntries'[s].orderId = m.order
       /\ \A t \in Slots \ {s} : orderEntries'[t] = orderEntries[t]
  BY <1>5, <1>6, <1>13, <1>14 DEF SameTerms
<1>20. Balanced
  BY <1>1, <1>5, <1>7, <1>9, <1>10, <1>11, <1>13, <1>15, <1>16, <1>19, EndBalance
<1>21. QED
  BY <1>18, <1>20

LEMMA AcceptCancelBalance ==
  ASSUME IInv, IInv', Known, Exact, AcceptCancel
  PROVE  Known' /\ Balanced
<1>1. /\ requests # << >> /\ requests' = Tail(requests)
      /\ Oldest.kind = "cancel" /\ book[Oldest.order].state = "open"
      /\ book' = [book EXCEPT ![Oldest.order].state = "canceled"]
      /\ Emit(Report("CANCELED", Oldest.id, Oldest.order))
  BY DEF AcceptCancel, Answer, Oldest
<1>2. Oldest.order \in Ids
  BY <1>1, OldestRequest
<1>3. PICK m : m = Report("CANCELED", Oldest.id, Oldest.order)
  OBVIOUS
<1>4. /\ m \in ProperReport /\ Justified(m) /\ HandledWell(m) /\ Handle(m)
      /\ m.type = "CANCELED" /\ m.id = Oldest.id /\ m.order = Oldest.order
      /\ UNCHANGED parent
  BY <1>1, <1>3, AnswerHandled DEF ReportType
<1>5. PICK s \in Slots :
        /\ HasEntry(m.id) /\ SlotOf(m.id) = s
        /\ m.order \in live /\ orderEntries[s].orderId = m.order
        /\ orderEntries[s] \in OrderEntry
        /\ \A t \in Slots \ {s} : orderEntries[t].orderId # m.order
        /\ orderEntries[s].side \in Side
        /\ EntryOf(m.id) = orderEntries[s]
  BY <1>1, <1>4, EndingOrder
<1>6. /\ book \in [Ids -> BookEntry] /\ TypeOK
      /\ orderEntries \in [Slots -> OrderEntry]
      /\ totals \in Totals /\ symbol \in Totals
  BY DEF IInv, TypeOK
<1>7. SameBook /\ \A p \in Ids : book'[p].cum = book[p].cum
  BY <1>1, <1>2, <1>6, StateChanged
<1>8. handleCanceledOrder(m)
  BY <1>4, <1>5 DEF Handle
<1>9. PICK e : e = orderEntries[s]
  OBVIOUS
<1>10. PICK u : u = Unfilled(e)
  OBVIOUS
<1>11. PICK w : w = e.price * u
  OBVIOUS
<1>12. /\ u \in Int /\ -u \in Int /\ w \in Int /\ e.price \in Int
       /\ -(u * e.price) = -w /\ -w \in Int
  <2>1. u \in Int /\ w \in Int /\ e.price \in Int
    BY <1>5, <1>9, <1>10, <1>11, EntryAmounts DEF OrderEntry
  <2>2. QED
    BY <1>11, <2>1
<1>13. PICK a : a = AddCancelling(totals, e.side, -u)
  OBVIOUS
<1>14. PICK b : b = AddCancelling(symbol, e.side, -u)
  OBVIOUS
<1>15. /\ totals' = AddPending(a, e.side, -u, 0)
       /\ symbol' = AddPending(b, e.side, -u, -w)
       /\ currentBalance' = currentBalance + calculateCost(e.price, u, e.side)
       /\ live' = live \ {m.order}
       /\ UNCHANGED <<orderEntries, fault, traded, misEdited>>
  BY <1>5, <1>8, <1>9, <1>10, <1>12, <1>13, <1>14
     DEF handleCanceledOrder, onCancelOrderAck
<1>16. SameTerms /\ SameFills
  BY <1>15 DEF SameTerms, SameFills
<1>17. TotalsMove(e.side, -u, -w)
  <2>1. /\ a \in Totals /\ b \in Totals
        /\ a.pendingShares = totals.pendingShares
        /\ b.pendingShareValues = symbol.pendingShareValues
    BY <1>6, <1>12, <1>13, <1>14, AddCancellingType, CancellingMoves
  <2>2. 0 \in Int
    OBVIOUS
  <2>3. \A side \in Side :
          /\ a.pendingShares[side] \in Int
          /\ b.pendingShareValues[side] \in Int
          /\ totals'.pendingShares[side] =
               a.pendingShares[side] + On(e.side, side, -u)
          /\ symbol'.pendingShareValues[side] =
               b.pendingShareValues[side] + On(e.side, side, -w)
    <3>1. e.side \in Side
      BY <1>5, <1>9
    <3>2. TAKE side \in Side
    <3>3. /\ a.pendingShares[side] \in Int
          /\ AddPending(a, e.side, -u, 0).pendingShares[side] =
               a.pendingShares[side] + On(e.side, side, -u)
      BY <1>12, <2>1, <2>2, <3>1, PendingMoves
    <3>4. /\ b.pendingShareValues[side] \in Int
          /\ AddPending(b, e.side, -u, -w).pendingShareValues[side] =
               b.pendingShareValues[side] + On(e.side, side, -w)
      BY <1>12, <2>1, <3>1, PendingMoves
    <3>5. QED
      BY <1>15, <3>3, <3>4
  <2>4. QED
    BY <2>1, <2>3 DEF TotalsMove
<1>18. currentBalance' = currentBalance + (IF e.side = "BUY" THEN w ELSE 0)
  BY <1>11, <1>12, <1>15, Costs
<1>19. EditVolumes = {} => ~misEdited
  BY DEF Known, Terms, NoEdits
<1>20. Known'
  BY <1>1, <1>4, <1>7, <1>15, <1>16, <1>19, AnsweredTerms
<1>21. Balanced
  BY <1>1, <1>5, <1>7, <1>9, <1>10, <1>11, <1>15, <1>17, <1>18, EndBalance
<1>22. QED
  BY <1>20, <1>21

(* A fill takes its volume at the limit from the orders, and what it was   *)
(* made at from the totals.                                                *)
LEMMA FillAccounts ==
  ASSUME IInv, IInv', SameBook, UNCHANGED requests,
         UNCHANGED <<currentBalance, misEdited>>,
         NEW d \in Side, NEW q \in Nat, NEW p \in Nat, NEW paid \in Nat,
         OrdersMove(d, -q, -(p * q)), TotalsMove(d, -q, -(q * paid)),
         TradesMove(d, q * p, q * paid)
  PROVE  Balanced
<1>1. PICK x : x = q * p
  OBVIOUS
<1>2. PICK y : y = q * paid
  OBVIOUS
<1>3. /\ x \in Int /\ y \in Int /\ -x \in Int /\ -y \in Int /\ -q \in Int
      /\ p * q = x /\ 0 \in Int
  BY <1>1, <1>2
<1>4. currentBalance \in Int /\ currentBalance' = currentBalance + 0
  <2>1. currentBalance \in Int
    BY DEF IInv, TypeOK
  <2>2. QED
    BY <2>1
<1>5. /\ OrdersMove(d, -q, -x) /\ TotalsMove(d, -q, -y) /\ TradesMove(d, x, y)
      /\ RequestsMove(d, 0, 0)
  BY <1>1, <1>2, <1>3, SidesStaying, RequestsSame
<1>6. /\ -q = -q + 0 => \A side \in Side : SharesOff(side)' = SharesOff(side)
      /\ -y = (-x + x) - y => \A side \in Side : ValueOff(side)' = ValueOff(side)
      /\ Funds \in Int
      /\ Funds' = Funds + (0 + (IF d = "BUY" THEN (-x + 0) + x ELSE 0))
  BY <1>3, <1>4, <1>5, Balance
<1>7. /\ \A side \in Side : SharesOff(side)' = SharesOff(side)
      /\ \A side \in Side : ValueOff(side)' = ValueOff(side)
      /\ Funds' = Funds
  BY <1>3, <1>6
<1>8. QED
  BY <1>6, <1>7 DEF Balanced

(* What a step leaves of the balance when it ends the process.             *)
LEMMA AbortBalance ==
  ASSUME IInv, IInv', SameBook, fault' # "none",
         UNCHANGED <<orderEntries, live, requests, totals, symbol, traded,
                     currentBalance, misEdited>>
  PROVE  Balanced
<1>1. TypeOK /\ EntriesTyped /\ currentBalance \in Int
  BY DEF IInv, TypeOK, EntriesTyped
<1>2. SameAmounts
  BY DEF SameAmounts
<1>3. /\ OrdersMove("BUY", 0, 0) /\ RequestsMove("BUY", 0, 0)
      /\ TotalsMove("BUY", 0, 0) /\ TradesMove("BUY", 0, 0)
  BY <1>1, <1>2, OrdersKept, SidesStaying, RequestsSame, TotalsKept, TradesKept
<1>4. "BUY" \in Side /\ 0 \in Int /\ currentBalance' = currentBalance + 0
  BY <1>1 DEF Side
<1>5. /\ Funds \in Int
      /\ Funds' = Funds + (0 + (IF "BUY" = "BUY" THEN (0 + 0) + 0 ELSE 0))
  BY <1>1, <1>3, <1>4, Balance
<1>6. QED
  BY <1>5 DEF Balanced

LEMMA FillBalance ==
  ASSUME IInv, IInv', Known, Exact, fault = "none", NEW o \in Ids,
         NEW price \in Prices, NEW qty \in 1 .. book[o].volume,
         Fill(o, qty, price)
  PROVE  Known' /\ Balanced
<1>1. PICK m : m = Trade(o, qty, price)
  OBVIOUS
<1>2. /\ m \in ProperReport /\ Justified(m)
      /\ m.type = "TRADE" /\ m.id = book[o].clid /\ m.order = o
      /\ m.id \in Used /\ parent[m.id] = o
      /\ m.side = book[o].side /\ m.qty = qty /\ m.price = price
      /\ m.cum = book[o].cum + qty
      /\ m.full <=> book[o].cum + qty = book[o].volume
      /\ o \in live
      /\ book'[o].cum = m.cum
      /\ book'[o].side = book[o].side /\ book'[o].price = book[o].price
      /\ book'[o].volume = book[o].volume
      /\ \A p \in Ids : p # o => book'[p] = book[p]
  BY <1>1, TradeFacts
<1>3. Handle(m) /\ UNCHANGED <<parent, requests>>
  BY <1>1 DEF Exact, Emit, Fill
<1>4. HandledWell(m)
  BY <1>2, <1>3, HandleEffect DEF IInv
<1>5. /\ TypeOK /\ EntriesTyped /\ book \in [Ids -> BookEntry]
      /\ totals \in Totals /\ symbol \in Totals /\ traded \in Trades
      /\ live \subseteq Ids /\ SlotsSound
      /\ Terms /\ Mapped
  BY DEF IInv, TypeOK, EntriesTyped, Known
<1>6. SameBook
  BY <1>2 DEF SameBook
<1>7. PICK s \in Slots :
        /\ orderEntries[s].orderId = o /\ orderEntries[s] \in OrderEntry
        /\ \A t \in Slots \ {s} : orderEntries[t].orderId # o
        /\ HasEntry(m.id) /\ SlotOf(m.id) = s
        /\ EntryOf(m.id) = orderEntries[s]
  BY <1>2, OrderSlot
<1>8. PICK e : e = orderEntries[s]
  OBVIOUS
<1>9. /\ book[o] \in BookEntry /\ e \in OrderEntry
      /\ e.filled \in Nat /\ e.price \in Nat /\ e.volume \in Nat
      /\ book[o].cum \in Nat /\ book[o].volume \in Nat
      /\ book[o].side \in Side /\ qty \in Nat /\ price \in Nat
  BY <1>5, <1>7, <1>8, PricesAssumption DEF BookEntry, OrderEntry
<1>10. /\ e.filled = book[o].cum
       /\ ~misEdited => e.volume = book[o].volume
  BY <1>2, <1>5, <1>7, <1>8 DEF Terms, FilledExact, TermsKnown, LiveSlots
<1>11. e.side = book[o].side
  BY <1>5, <1>7, <1>8 DEF Terms, Sides, Ids
<1>12. EditVolumes = {} => ~misEdited
  BY <1>5 DEF Terms, NoEdits
<1>13. Mapped'
  <2>1. \A n \in Places' : requests'[n].kind # "new" => requests'[n].id # m.id
    BY <1>2, <1>3 DEF IInv, Queue, Places
  <2>2. QED
    BY <1>2, <1>3, <1>4, <1>5, <2>1, MappedKept DEF Advance
<1>14. live' \subseteq live
  BY <1>4, <1>5, HandledSlots
<1>15. CASE Abort("division") /\ UNCHANGED <<live, traded, misEdited>>
  <2>1. /\ fault' = "division"
        /\ UNCHANGED <<orderEntries, totals, symbol, currentBalance>>
    BY <1>15 DEF Abort
  <2>2. SameTerms /\ FilledExact'
    BY <2>1 DEF SameTerms, FilledExact
  <2>3. Terms'
    BY <1>3, <1>5, <1>6, <1>12, <1>14, <1>15, <2>2, QuietTerms DEF Advance
  <2>4. Balanced
    BY <1>3, <1>6, <1>15, <2>1, AbortBalance
  <2>5. QED
    BY <1>13, <2>3, <2>4 DEF Known
<1>16. CASE
     /\ orderEntries' = [orderEntries EXCEPT
          ![s].filled = e.filled + m.qty,
          ![s].status = {IF m.full THEN "FILLED" ELSE "PARTIALLY_FILLED"}]
     /\ totals' = onOrderFill(totals, m.side, m.price, m.qty)
     /\ symbol' = onOrderFill(symbol, m.side, m.price, m.qty)
     /\ IF m.full THEN live' = live \ {m.order} ELSE UNCHANGED live
     /\ traded' = AddTrade(traded, m.side, m.qty * e.price, m.qty * m.price)
     /\ UNCHANGED <<currentBalance, fault, misEdited>>
  <2> DEFINE st == {IF m.full THEN "FILLED" ELSE "PARTIALLY_FILLED"}
             f == e.filled + m.qty
             r == [e EXCEPT !.filled = f, !.status = st]
  <2>1. orderEntries' = [orderEntries EXCEPT ![s] = r]
    BY <1>5, <1>8, <1>16 DEF EntriesTyped
  <2> HIDE DEF st, f
  <2>2. /\ r.filled = f /\ r.orderId = e.orderId /\ r.side = e.side
        /\ r.price = e.price /\ r.volume = e.volume
        /\ r.newPrice = e.newPrice /\ r.newVolume = e.newVolume
    BY <1>9 DEF OrderEntry
  <2> HIDE DEF r
  <2>3. /\ orderEntries'[s] = r
        /\ \A t \in Slots \ {s} : orderEntries'[t] = orderEntries[t]
    BY <1>5, <2>1 DEF EntriesTyped
  <2>4. SameTerms
    BY <1>8, <2>2, <2>3 DEF SameTerms
  <2>5. f = m.cum
    BY <1>2, <1>10 DEF f
  <2>6. FilledExact'
    <3>1. SUFFICES ASSUME NEW t \in Slots, orderEntries'[t].orderId \in live'
                   PROVE  orderEntries'[t].filled =
                            book'[orderEntries'[t].orderId].cum
      BY DEF FilledExact, LiveSlots
    <3>2. CASE t = s
      BY <1>2, <1>7, <1>8, <2>2, <2>3, <2>5, <3>2
    <3>3. CASE t # s
      <4>1. /\ orderEntries'[t] = orderEntries[t]
            /\ orderEntries[t].orderId \in live /\ orderEntries[t].orderId # o
        BY <1>7, <1>14, <2>3, <3>1, <3>3
      <4>2. orderEntries[t].filled = book[orderEntries[t].orderId].cum
        BY <1>5, <4>1 DEF Terms, FilledExact, LiveSlots
      <4>3. QED
        BY <1>2, <1>5, <4>1, <4>2
    <3>4. QED
      BY <3>2, <3>3
  <2>7. Terms'
    BY <1>3, <1>5, <1>6, <1>12, <1>14, <1>16, <2>4, <2>6, QuietTerms DEF Advance
  <2>8. Balanced
    <3>1. CASE misEdited
      <4>1. misEdited' /\ EditVolumes # {}
        BY <1>12, <1>16, <3>1
      <4>2. QED
        BY <4>1 DEF Balanced
    <3>2. CASE ~misEdited
      <4>1. OrdersMove(e.side, -qty, -(e.price * qty))
        <5>1. CASE m.full
          <6>1. Unfilled(e) = qty
            BY <1>2, <1>9, <1>10, <3>2, <5>1 DEF Unfilled
          <6>2. PICK w : w = e.price * qty
            OBVIOUS
          <6>3. /\ live' = live \ {o} /\ orderEntries'[s].orderId = o
                /\ qty = Unfilled(orderEntries[s])
                /\ w = orderEntries[s].price * qty
            BY <1>2, <1>7, <1>8, <1>16, <2>2, <2>3, <5>1, <6>1, <6>2
          <6>4. OrdersMove(orderEntries[s].side, -qty, -w)
            BY <1>2, <1>5, <1>7, <2>3, <6>3, OrderEnds
          <6>5. QED
            BY <1>8, <6>2, <6>4
        <5>2. CASE ~m.full
          <6>1. /\ Unfilled(r) = Unfilled(e) - qty
                /\ Unfilled(e) \in Int
            BY <1>2, <1>9, <2>2 DEF Unfilled, f
          <6>2. PICK h : h = Unfilled(r) - Unfilled(e)
            OBVIOUS
          <6>3. PICK w : w = r.price * Unfilled(r) - e.price * Unfilled(e)
            OBVIOUS
          <6>4. OrdersMove(e.side, h, w)
            BY <1>2, <1>5, <1>7, <1>8, <1>16, <2>2, <2>3, <5>2, <6>2, <6>3,
               OrderChanges
          <6>5. h = -qty
            BY <1>9, <6>1, <6>2
          <6>6. w = -(e.price * qty)
            <7>1. PICK n \in Int : n = Unfilled(e)
              BY <6>1
            <7>2. w = e.price * (n - qty) - e.price * n
              BY <2>2, <6>1, <6>3, <7>1
            <7>3. QED
              BY <1>9, <7>2
          <6>7. QED
            BY <6>4, <6>5, <6>6
        <5>3. QED
          BY <5>1, <5>2
      <4>2. TotalsMove(e.side, -qty, -(qty * price))
        <5>1. /\ totals' = onOrderFill(totals, e.side, price, qty)
              /\ symbol' = onOrderFill(symbol, e.side, price, qty)
          BY <1>2, <1>11, <1>16
        <5>2. \A side \in Side :
                /\ totals.pendingShares[side] \in Int
                /\ symbol.pendingShareValues[side] \in Int
          BY <1>5 DEF Totals
        <5>3. e.side \in Side /\ price \in Int /\ qty \in Int
          BY <1>9, <1>11
        <5>4. \A side \in Side :
                /\ totals'.pendingShares[side] =
                     totals.pendingShares[side] + On(e.side, side, -qty)
                /\ symbol'.pendingShareValues[side] =
                     symbol.pendingShareValues[side]
                       + On(e.side, side, -(qty * price))
          BY <1>5, <5>1, <5>3, FillMoves
        <5>5. QED
          BY <5>2, <5>4 DEF TotalsMove
      <4>3. TradesMove(e.side, qty * e.price, qty * price)
        <5>1. PICK x : x = qty * e.price
          OBVIOUS
        <5>2. PICK y : y = qty * price
          OBVIOUS
        <5>3. x \in Int /\ y \in Int /\ e.side \in Side
          BY <1>9, <1>11, <5>1, <5>2
        <5>4. traded' = AddTrade(traded, e.side, x, y)
          BY <1>2, <1>11, <1>16, <5>1, <5>2
        <5>5. TradesMove(e.side, x, y)
          BY <1>5, <5>3, <5>4, TradeMoves DEF TradesMove
        <5>6. QED
          BY <5>1, <5>2, <5>5
      <4>4. e.side \in Side
        BY <1>9, <1>11
      <4>5. QED
        BY <1>3, <1>6, <1>9, <1>16, <4>1, <4>2, <4>3, <4>4, FillAccounts
    <3>3. QED
      BY <3>1, <3>2
  <2>9. QED
    BY <1>13, <2>7, <2>8 DEF Known
<1>17. QED
  <2>1. handleOrderFill(m)
    BY <1>2, <1>3, <1>7 DEF Handle
  <2>2. Counts(m, e)
    BY <1>2, <1>10 DEF Counts
  <2>3. QED
    BY <1>7, <1>8, <1>15, <1>16, <2>1, <2>2 DEF handleOrderFill

-----------------------------------------------------------------------------
(* Edits.                                                                  *)

LEMMA SamePriceCost ==
  ASSUME NEW e \in OrderEntry, NEW price \in Nat, NEW volume \in Nat,
         price = e.price
  PROVE  EditCost(e, price, volume) =
           IF e.side = "BUY" THEN price * (volume - e.volume) ELSE 0
<1>1. /\ e.volume \in Int /\ e.filled \in Int /\ volume - e.filled \in Int
      /\ Unfilled(e) \in Int /\ Unfilled(e) = e.volume - e.filled
  BY DEF OrderEntry, Unfilled
<1>2. /\ calculateCost(price, volume - e.filled, e.side) =
           IF e.side = "BUY" THEN price * (volume - e.filled) ELSE 0
      /\ calculateCost(e.price, Unfilled(e), e.side) =
           IF e.side = "BUY" THEN price * (e.volume - e.filled) ELSE 0
  BY <1>1, Costs
<1>3. PICK c \in Int : c = e.volume
  BY <1>1
<1>4. PICK f \in Int : f = e.filled
  BY <1>1
<1>5. price * (volume - f) - price * (c - f) = price * (volume - c)
  OBVIOUS
<1>6. QED
  BY <1>2, <1>3, <1>4, <1>5 DEF EditCost

LEMMA Sign ==
  ASSUME NEW p \in Nat \ {0}, NEW c \in Int
  PROVE  p * c \in Int /\ (p * c > 0 <=> c > 0)
OBVIOUS

(* The oldest request, an edit: what is known of it.                       *)
LEMMA OldestEdit ==
  ASSUME IInv, Known, requests # << >>, Oldest.kind = "edit", ~misEdited,
         NEW s \in Slots, orderEntries[s].orderId = Oldest.order
  PROVE  /\ orderEntries[s].newVolume = Oldest.volume
         /\ orderEntries[s].newPrice = Oldest.price
         /\ Oldest.change = Oldest.volume - orderEntries[s].volume
         /\ Oldest.price \in Prices /\ orderEntries[s].price \in Prices
         /\ \A n \in Places : requests[n].kind = "edit" /\ n # 1 =>
              requests[n].order # Oldest.order
<1>1. /\ 1 \in Places /\ requests[1] = Oldest /\ Oldest.order \in Ids
  BY RequestsTyped DEF Places, Oldest
<1>2. EditsKnown /\ OneEdit /\ PricesKnown
  BY DEF Known, Terms
<1>3. orderEntries[s].orderId # 0
  BY <1>1 DEF Ids
<1>4. QED
  BY <1>1, <1>2, <1>3 DEF EditsKnown, OneEdit, PricesKnown, Holds

(* An accepted edit: the new terms are the terms.                          *)
LEMMA AcceptEditBalance ==
  ASSUME IInv, IInv', Known, Exact, AcceptEdit
  PROVE  Known' /\ Balanced
<1>1. /\ requests # << >> /\ requests' = Tail(requests)
      /\ Oldest.kind = "edit" /\ book[Oldest.order].state = "open"
      /\ book' = [book EXCEPT ![Oldest.order].price = Oldest.price,
                              ![Oldest.order].volume = Oldest.volume,
                              ![Oldest.order].clid = Oldest.id]
      /\ Emit(Report("REPLACED", Oldest.id, Oldest.order))
  BY DEF AcceptEdit, Answer, Oldest
<1>2. PICK o : o = Oldest.order
  OBVIOUS
<1>3. /\ o \in Ids /\ Oldest \in Request /\ Oldest.id \in Used
      /\ parent[Oldest.id] = o /\ Advance
      /\ \A n \in Places' : requests'[n].id # Oldest.id
  BY <1>1, <1>2, OldestRequest
<1>4. PICK m : m = Report("REPLACED", Oldest.id, Oldest.order)
  OBVIOUS
<1>5. /\ m \in ProperReport /\ Justified(m) /\ HandledWell(m) /\ Handle(m)
      /\ m.type = "REPLACED" /\ m.id = Oldest.id /\ m.order = o
      /\ UNCHANGED parent
  BY <1>1, <1>2, <1>4, AnswerHandled DEF ReportType
<1>6. PICK s \in Slots :
        /\ HasEntry(m.id) /\ SlotOf(m.id) = s
        /\ o \in live /\ orderEntries[s].orderId = o
        /\ orderEntries[s] \in OrderEntry
        /\ \A t \in Slots \ {s} : orderEntries[t].orderId # o
        /\ orderEntries[s].side = book[o].side
        /\ orderEntries[s].side \in Side
        /\ EntryOf(m.id) = orderEntries[s]
  BY <1>1, <1>2, <1>5, EndingOrder
<1>7. /\ book \in [Ids -> BookEntry] /\ TypeOK /\ EntriesTyped
      /\ live \subseteq Ids /\ Terms /\ Mapped
  BY DEF IInv, TypeOK, EntriesTyped, Known
<1>8. /\ book'[o].price = Oldest.price /\ book'[o].volume = Oldest.volume
      /\ book'[o].side = book[o].side /\ book'[o].cum = book[o].cum
      /\ \A p \in Ids : p # o => book'[p] = book[p]
  BY <1>1, <1>2, <1>3, <1>7 DEF BookEntry
<1>9. handleEditOrderAck(m)
  BY <1>5, <1>6 DEF Handle
<1>10. PICK e : e = orderEntries[s]
  OBVIOUS
<1> DEFINE st == e.status \ {"PENDING_REPLACE"}
           r == [e EXCEPT !.volume = e.newVolume, !.price = e.newPrice,
                          !.status = st]
<1>11. /\ orderEntries' = [orderEntries EXCEPT ![s] = r]
       /\ UNCHANGED <<totals, symbol, currentBalance, fault, live, traded,
                      misEdited>>
  BY <1>6, <1>7, <1>9, <1>10 DEF handleEditOrderAck, EntriesTyped
<1> HIDE DEF st
<1>12. /\ r.volume = e.newVolume /\ r.price = e.newPrice
       /\ r.orderId = e.orderId /\ r.side = e.side /\ r.filled = e.filled
       /\ r.newVolume = e.newVolume /\ r.newPrice = e.newPrice
       /\ e \in OrderEntry
  BY <1>6, <1>10 DEF OrderEntry
<1> HIDE DEF r
<1>13. /\ orderEntries'[s] = r
       /\ \A t \in Slots \ {s} : orderEntries'[t] = orderEntries[t]
  BY <1>7, <1>11 DEF EntriesTyped
<1>14. \A t \in Slots :
         /\ orderEntries'[t].orderId = orderEntries[t].orderId
         /\ orderEntries'[t].side = orderEntries[t].side
         /\ orderEntries'[t].filled = orderEntries[t].filled
  BY <1>10, <1>12, <1>13
<1>15. ~misEdited =>
         /\ e.newVolume = Oldest.volume /\ e.newPrice = Oldest.price
         /\ Oldest.change = Oldest.volume - e.volume
         /\ Oldest.price \in Prices /\ e.price \in Prices
         /\ \A n \in Places : requests[n].kind = "edit" /\ n # 1 =>
              requests[n].order # o
  BY <1>1, <1>2, <1>6, <1>10, OldestEdit
<1>16. /\ Len(requests) \in Nat
       /\ \A n \in Places' : /\ n + 1 \in Places /\ n + 1 # 1
                             /\ requests'[n] = requests[n + 1]
  BY <1>1, RequestsTyped DEF Places
<1>17. EditVolumes # {}
  <2>1. 1 \in Places /\ requests[1] = Oldest
    BY <1>1, RequestsTyped DEF Places, Oldest
  <2>2. QED
    BY <1>1, <1>7, <2>1 DEF Terms, NoEdits
<1>18. Sides'
  <2>1. \A t \in Slots : orderEntries[t].orderId # 0 => orderEntries[t].orderId \in Ids
    BY EntryIds
  <2>2. QED
    BY <1>5, <1>7, <1>8, <1>14, <2>1 DEF Terms, Sides
<1>19. FilledExact'
  BY <1>7, <1>8, <1>11, <1>14 DEF Terms, FilledExact, LiveSlots
<1>20. TermsKnown'
  <2>1. SUFFICES ASSUME ~misEdited, NEW t \in Slots,
                        orderEntries[t].orderId \in live
                 PROVE  /\ orderEntries'[t].volume =
                             book'[orderEntries[t].orderId].volume
                        /\ orderEntries'[t].price =
                             book'[orderEntries[t].orderId].price
    BY <1>11, <1>14 DEF TermsKnown, LiveSlots
  <2>2. CASE t = s
    BY <1>6, <1>8, <1>12, <1>13, <1>15, <2>1, <2>2
  <2>3. CASE t # s
    <3>1. /\ orderEntries[t].volume = book[orderEntries[t].orderId].volume
          /\ orderEntries[t].price = book[orderEntries[t].orderId].price
      BY <1>7, <2>1 DEF Terms, TermsKnown, LiveSlots
    <3>2. QED
      BY <1>6, <1>7, <1>8, <1>13, <2>1, <2>3, <3>1
  <2>4. QED
    BY <2>2, <2>3
<1>21. EditsKnown'
  <2>1. SUFFICES ASSUME ~misEdited, NEW n \in Places', NEW t \in Slots,
                        requests'[n].kind = "edit",
                        orderEntries'[t].orderId = requests'[n].order
                 PROVE  /\ orderEntries'[t].newVolume = requests'[n].volume
                        /\ orderEntries'[t].newPrice = requests'[n].price
                        /\ requests'[n].change =
                             requests'[n].volume - orderEntries'[t].volume
    BY <1>11 DEF EditsKnown, Holds
  <2>2. PICK k \in Places : k = n + 1 /\ k # 1 /\ requests'[n] = requests[k]
    BY <1>16
  <2>3. requests[k].order # o /\ orderEntries[t].orderId = requests[k].order
    BY <1>14, <1>15, <2>1, <2>2
  <2>4. orderEntries'[t] = orderEntries[t]
    BY <1>6, <1>13, <2>3
  <2>5. /\ orderEntries[t].newVolume = requests[k].volume
        /\ orderEntries[t].newPrice = requests[k].price
        /\ requests[k].change = requests[k].volume - orderEntries[t].volume
    BY <1>7, <2>1, <2>2, <2>3 DEF Terms, EditsKnown, Holds
  <2>6. QED
    BY <2>2, <2>4, <2>5
<1>22. OneEdit'
  <2>1. SUFFICES ASSUME ~misEdited, NEW k \in Places', NEW n \in Places',
                        requests'[k].kind = "edit", requests'[n].kind = "edit",
                        requests'[k].order = requests'[n].order
                 PROVE  k = n
    BY <1>11 DEF OneEdit
  <2>2. k + 1 = n + 1
    BY <1>7, <1>16, <2>1 DEF Terms, OneEdit
  <2>3. QED
    BY <2>2 DEF Places
<1>23. PricesKnown'
  <2>1. SUFFICES ASSUME ~misEdited
                 PROVE  /\ \A t \in Slots : orderEntries'[t].orderId # 0 =>
                             orderEntries'[t].price \in Prices
                        /\ \A n \in Places' : requests'[n].kind = "edit" =>
                             requests'[n].price \in Prices
    BY <1>11 DEF PricesKnown
  <2>2. PricesKnown
    BY <1>7 DEF Terms
  <2>3. \A t \in Slots : orderEntries'[t].orderId # 0 =>
          orderEntries'[t].price \in Prices
    BY <1>12, <1>13, <1>15, <2>1, <2>2 DEF PricesKnown
  <2>4. \A n \in Places' : requests'[n].kind = "edit" =>
          requests'[n].price \in Prices
    BY <1>16, <2>1, <2>2 DEF PricesKnown
  <2>5. QED
    BY <2>3, <2>4
<1>24. NoEdits' /\ Mapped'
  BY <1>3, <1>5, <1>7, <1>17, MappedKept DEF NoEdits
<1>25. Known'
  BY <1>18, <1>19, <1>20, <1>21, <1>22, <1>23, <1>24 DEF Known, Terms
<1>26. Balanced
  <2>1. CASE misEdited
    BY <1>11, <1>17, <2>1 DEF Balanced
  <2>2. CASE ~misEdited
    <3>1. SidesStay /\ e.side = book[o].side /\ e.side \in Side
      BY <1>6, <1>8, <1>10, RequestsTyped DEF SidesStay
    <3>2. PICK c : c = Oldest.change
      OBVIOUS
    <3>3. PICK x : x = EditRaise(Oldest)
      OBVIOUS
    <3>4. c = EditChange(Oldest)
      BY <1>1, <3>2 DEF EditChange
    <3>5. RequestsMove(e.side, -c, -x) /\ c \in Int /\ x \in Int
      BY <1>1, <1>2, <3>1, <3>3, <3>4, AnswerMoves
    <3>6. PICK h : h = Unfilled(r) - Unfilled(e)
      OBVIOUS
    <3>7. PICK w : w = r.price * Unfilled(r) - e.price * Unfilled(e)
      OBVIOUS
    <3>8. OrdersMove(e.side, h, w)
      BY <1>6, <1>7, <1>10, <1>11, <1>12, <1>13, <3>6, <3>7, OrderChanges
    <3>9. /\ e.volume \in Int /\ e.filled \in Int /\ e.newVolume \in Int
          /\ e.price \in Int /\ e.newPrice \in Int
      BY <1>12 DEF OrderEntry
    <3>10. /\ Unfilled(e) = e.volume - e.filled
           /\ Unfilled(r) = e.newVolume - e.filled
           /\ c = e.newVolume - e.volume
      BY <1>12, <1>15, <2>2, <3>2 DEF Unfilled
    <3>11. h \in Int /\ h = c
      BY <3>6, <3>9, <3>10
    <3>12. w \in Int
      BY <1>12, <3>7, <3>9, <3>10
    <3>13. currentBalance \in Int /\ currentBalance' = currentBalance + 0
      <4>1. currentBalance \in Int
        BY <1>7 DEF TypeOK
      <4>2. QED
        BY <1>11, <4>1
    <3>14. TotalsMove(e.side, 0, 0) /\ TradesMove(e.side, 0, 0)
      BY <1>7, <1>11, TotalsKept, TradesKept
    <3>15. -c \in Int /\ -x \in Int /\ 0 \in Int
      BY <3>5
    <3>16. /\ 0 = h + (-c) => \A side \in Side : SharesOff(side)' = SharesOff(side)
           /\ Funds \in Int
           /\ Funds' = Funds + (0 + (IF e.side = "BUY" THEN (w + (-x)) + 0 ELSE 0))
      BY <3>1, <3>5, <3>8, <3>11, <3>12, <3>13, <3>14, <3>15, Balance
    <3>17. ASSUME OnePrice PROVE w <= x
      <4>1. PICK p \in Nat \ {0} : e.price = p /\ e.newPrice = p /\ Oldest.price = p
        BY <1>15, <2>2, <3>17, PricesAssumption DEF OnePrice
      <4>2. w = p * c
        <5>1. PICK f \in Int : f = e.filled
          BY <3>9
        <5>2. PICK v \in Int : v = e.volume
          BY <3>9
        <5>3. PICK n \in Int : n = e.newVolume
          BY <3>9
        <5>4. p * (n - f) - p * (v - f) = p * (n - v)
          OBVIOUS
        <5>5. QED
          BY <1>12, <3>7, <3>10, <4>1, <5>1, <5>2, <5>3, <5>4
      <4>3. x = IF c > 0 THEN p * c ELSE 0
        BY <1>1, <3>2, <3>3, <4>1 DEF EditRaise
      <4>4. p * c \in Int /\ (p * c > 0 <=> c > 0)
        BY <3>5, Sign
      <4>5. QED
        BY <4>2, <4>3, <4>4
    <3>18. \A side \in Side : SharesOff(side)' = SharesOff(side)
      BY <3>5, <3>11, <3>16
    <3>19. OnePrice => Funds' \in Int /\ Funds' <= Funds
      BY <3>5, <3>12, <3>16, <3>17
    <3>20. QED
      BY <1>17, <2>2, <3>16, <3>18, <3>19 DEF Balanced
  <2>3. QED
    BY <2>1, <2>2
<1>27. QED
  BY <1>25, <1>26

(* A rejected edit: the change asked for is taken back, and what it cost.  *)
LEMMA RejectEditBalance ==
  ASSUME IInv, IInv', Known, Exact, RejectEdit
  PROVE  Known' /\ Balanced
<1>1. /\ requests # << >> /\ requests' = Tail(requests)
      /\ Oldest.kind = "edit" /\ UNCHANGED book
      /\ Emit(Report("REPLACE_REJECT", Oldest.id, Oldest.order))
  BY DEF RejectEdit, Answer, Oldest
<1>2. PICK o : o = Oldest.order
  OBVIOUS
<1>3. PICK m : m = Report("REPLACE_REJECT", Oldest.id, Oldest.order)
  OBVIOUS
<1>4. /\ m \in ProperReport /\ Justified(m) /\ HandledWell(m) /\ Handle(m)
      /\ m.type = "REPLACE_REJECT" /\ m.id = Oldest.id /\ m.order = o
      /\ UNCHANGED parent
  BY <1>1, <1>2, <1>3, AnswerHandled DEF ReportType
<1>5. SameBook /\ \A p \in Ids : book'[p].cum = book[p].cum
  BY <1>1, BookUnchanged
<1>6. 1 \in Places /\ requests[1] = Oldest /\ o \in Ids /\ Oldest \in Request
  BY <1>1, <1>2, RequestsTyped, OldestRequest DEF Places, Oldest
<1>7. HasEntry(m.id) /\ m.id \in Ids /\ TypeOK
  <2>1. HasEntry(Oldest.id)
    BY <1>1, <1>6 DEF Known, Mapped
  <2>2. QED
    BY <1>4, <2>1 DEF ProperReport, IInv
<1>8. handleEditOrderReject(m)
  BY <1>4, <1>7 DEF Handle
<1>9. PICK s : s = SlotOf(m.id)
  OBVIOUS
<1>10. PICK e : e = orderEntries[s]
  OBVIOUS
<1>11. /\ s \in Slots /\ e \in OrderEntry /\ e = EntryOf(m.id)
       /\ EntriesTyped
  BY <1>7, <1>9, <1>10, EntryNumbers DEF EntryOf, IInv, TypeOK, EntriesTyped
<1>12. PICK cost : cost = EditCost(e, e.newPrice, e.newVolume)
  OBVIOUS
<1>13. PICK value : value = e.volume * e.price - e.newVolume * e.newPrice
  OBVIOUS
<1>14. /\ orderEntries' = [orderEntries EXCEPT
                             ![s].status = @ \ {"PENDING_REPLACE"}]
       /\ totals' = AddPending(totals, e.side, e.volume - e.newVolume, 0)
       /\ symbol' = AddPending(symbol, e.side, e.volume - e.newVolume, value)
       /\ currentBalance' = IF cost > 0 THEN currentBalance + cost
                            ELSE currentBalance
       /\ misEdited' = (misEdited \/ e.orderId # m.order)
       /\ UNCHANGED <<fault, live, traded>>
  BY <1>8, <1>9, <1>11, <1>12, <1>13
     DEF handleEditOrderReject, onEditOrderReject
<1>15. SameTerms /\ SameFills
  BY <1>11, <1>14, StatusKept DEF EntriesTyped
<1>16. EditVolumes # {}
  BY <1>1, <1>6 DEF Known, Terms, NoEdits
<1>17. Known'
  BY <1>1, <1>2, <1>4, <1>5, <1>14, <1>15, <1>16, AnsweredTerms
<1>18. Balanced
  <2>1. CASE misEdited'
    BY <1>16, <2>1 DEF Balanced
  <2>2. CASE ~misEdited'
    <3>1. ~misEdited /\ e.orderId = o
      BY <1>4, <1>14, <2>2
    <3>2. /\ e.newVolume = Oldest.volume /\ e.newPrice = Oldest.price
          /\ Oldest.change = Oldest.volume - e.volume
          /\ Oldest.price \in Prices /\ e.price \in Prices
      BY <1>1, <1>2, <1>10, <1>11, <3>1, OldestEdit
    <3>3. SidesStay /\ e.side = book[o].side /\ e.side \in Side
      <4>1. e.orderId # 0 /\ book[o].side \in Side
        <5>1. book \in [Ids -> BookEntry]
          BY <1>7 DEF TypeOK
        <5>2. QED
          BY <1>6, <3>1, <5>1 DEF BookEntry, Ids
      <4>2. e.side = book[o].side
        BY <1>10, <1>11, <3>1, <4>1 DEF Known, Terms, Sides
      <4>3. QED
        BY <1>5, <4>1, <4>2, SidesStaying
    <3>4. PICK c : c = Oldest.change
      OBVIOUS
    <3>5. PICK x : x = EditRaise(Oldest)
      OBVIOUS
    <3>6. c = EditChange(Oldest)
      BY <1>1, <3>4 DEF EditChange
    <3>7. RequestsMove(e.side, -c, -x) /\ c \in Int /\ x \in Int
      BY <1>1, <1>2, <3>3, <3>5, <3>6, AnswerMoves
    <3>8. SameAmounts
      BY <1>15 DEF SameTerms, SameFills, SameAmounts
    <3>9. /\ e.volume \in Int /\ e.newVolume \in Nat
          /\ e.price \in Int /\ e.newPrice \in Nat
      BY <1>11 DEF OrderEntry
    <3>10. /\ e.volume - e.newVolume = -c /\ value \in Int /\ -c \in Int
           /\ -x \in Int /\ 0 \in Int /\ -c = 0 + (-c)
      BY <1>13, <3>2, <3>4, <3>7, <3>9
    <3>11. TotalsMove(e.side, -c, value)
      <4>1. totals \in Totals /\ symbol \in Totals
        BY <1>7 DEF TypeOK
      <4>2. SUFFICES ASSUME NEW side \in Side
                     PROVE  /\ totals.pendingShares[side] \in Int
                            /\ symbol.pendingShareValues[side] \in Int
                            /\ totals'.pendingShares[side] =
                                 totals.pendingShares[side] + On(e.side, side, -c)
                            /\ symbol'.pendingShareValues[side] =
                                 symbol.pendingShareValues[side]
                                   + On(e.side, side, value)
        BY DEF TotalsMove
      <4>3. /\ totals.pendingShares[side] \in Int
            /\ AddPending(totals, e.side, -c, 0).pendingShares[side] =
                 totals.pendingShares[side] + On(e.side, side, -c)
        BY <3>3, <3>10, <4>1, PendingMoves
      <4>4. /\ symbol.pendingShareValues[side] \in Int
            /\ AddPending(symbol, e.side, -c, value).pendingShareValues[side] =
                 symbol.pendingShareValues[side] + On(e.side, side, value)
        BY <3>3, <3>10, <4>1, PendingMoves
      <4>5. QED
        BY <1>14, <3>10, <4>3, <4>4
    <3>12. PICK money : money = IF cost > 0 THEN cost ELSE 0
      OBVIOUS
    <3>13. cost \in Int
      BY <1>11, <1>12, <3>9, EditCostType
    <3>14. /\ currentBalance \in Int /\ money \in Int
           /\ currentBalance' = currentBalance + money
      <4>1. currentBalance \in Int
        BY <1>7 DEF TypeOK
      <4>2. QED
        BY <1>14, <3>12, <3>13, <4>1
    <3>15. /\ OrdersMove(e.side, 0, 0) /\ TradesMove(e.side, 0, 0)
      BY <1>7, <1>11, <1>14, <3>8, OrdersKept, TradesKept
    <3>16. /\ \A side \in Side : SharesOff(side)' = SharesOff(side)
           /\ Funds \in Int
           /\ Funds' = Funds + (money + (IF e.side = "BUY" THEN (0 + (-x)) + 0 ELSE 0))
      <4>1. PICK a, r, v \in Int : a = -c /\ r = -x /\ v = value
        BY <3>10
      <4>2. RequestsMove(e.side, a, r) /\ TotalsMove(e.side, a, v)
        BY <3>7, <3>11, <4>1
      <4>3. e.side \in Side /\ 0 \in Int /\ a = 0 + a
        BY <3>3, <4>1
      <4>4. /\ \A side \in Side : SharesOff(side)' = SharesOff(side)
            /\ Funds \in Int
            /\ Funds' = Funds + (money + (IF e.side = "BUY" THEN (0 + r) + 0 ELSE 0))
        BY <3>14, <3>15, <4>1, <4>2, <4>3, Balance
      <4>5. QED
        BY <4>1, <4>4
    <3>17. ASSUME OnePrice PROVE money = IF e.side = "BUY" THEN x ELSE 0
      <4>1. PICK p \in Nat \ {0} : e.price = p /\ e.newPrice = p /\ Oldest.price = p
        BY <3>2, <3>17, PricesAssumption DEF OnePrice
      <4>2. cost = IF e.side = "BUY" THEN p * (e.newVolume - e.volume) ELSE 0
        BY <1>11, <1>12, <3>9, <4>1, SamePriceCost
      <4>3. e.newVolume - e.volume = c
        BY <3>2, <3>4
      <4>4. x = IF c > 0 THEN p * c ELSE 0
        BY <1>1, <3>4, <3>5, <4>1 DEF EditRaise
      <4>5. p * c \in Int /\ (p * c > 0 <=> c > 0)
        BY <3>7, Sign
      <4>6. QED
        BY <3>12, <4>2, <4>3, <4>4, <4>5
    <3>18. \A side \in Side : SharesOff(side)' = SharesOff(side)
      BY <3>7, <3>16
    <3>19. OnePrice => Funds' \in Int /\ Funds' <= Funds
      BY <3>7, <3>14, <3>16, <3>17
    <3>20. QED
      BY <1>16, <3>1, <3>16, <3>18, <3>19 DEF Balanced
  <2>3. QED
    BY <2>1, <2>2
<1>19. QED
  BY <1>17, <1>18

-----------------------------------------------------------------------------
(* The requests of the strategy.                                           *)

(* A request for an order that exists keeps what is known: an edit that    *)
(* did not go astray is the first one under way for its order.             *)
LEMMA AskKnown ==
  ASSUME IInv, Known, NEW orderId \in Used, HasEntry(orderId),
         currentOrderID < MaxOrders, NEW q \in Request, q.kind # "new",
         q.id = currentOrderID, q.order = parent[orderId],
         requests' = Append(requests, q),
         orderIDVsEntryMap' =
           [orderIDVsEntryMap EXCEPT ![currentOrderID] = SlotOf(orderId)],
         Issue(currentOrderID, parent[orderId]), SameAmounts,
         UNCHANGED <<fault, book, live>>,
         NEW s \in Slots, s = SlotOf(orderId),
         \A t \in Slots : t # s \/ q.kind # "edit" =>
           /\ orderEntries'[t].newPrice = orderEntries[t].newPrice
           /\ orderEntries'[t].newVolume = orderEntries[t].newVolume,
         q.kind # "edit" => misEdited' = misEdited,
         q.kind = "edit" =>
           /\ orderEntries'[s].newPrice = q.price
           /\ orderEntries'[s].newVolume = q.volume
           /\ q.change = q.volume - orderEntries[s].volume
           /\ q.price \in Prices /\ EditVolumes # {}
           /\ misEdited' = (misEdited \/ parent[orderId] \notin live
                                      \/ EditPending(parent[orderId]))
  PROVE  Known'
<1>1. PICK id : id = currentOrderID
  OBVIOUS
<1>2. PICK last : last = Len(requests) + 1
  OBVIOUS
<1>3. PICK o : o = parent[orderId]
  OBVIOUS
<1>4. /\ TypeOK /\ EntryTypes /\ SlotsSound /\ Links /\ Queue /\ Fresh
      /\ Terms /\ Mapped
  BY DEF IInv, TypeOK, EntryTypes, Known
<1>5. /\ id \in Ids /\ id \notin Used /\ id \in 0 .. MaxOrders - 1
      /\ Used \subseteq Ids
  BY <1>1, <1>4, NewId DEF Issue
<1>6. \A i \in Used : parent'[i] = parent[i]
  BY <1>1, <1>4, <1>5 DEF TypeOK, Issue
<1>7. /\ requests' \in Seq(Request) /\ last \notin Places
      /\ Places' = Places \cup {last} /\ requests'[last] = q
      /\ \A n \in Places : requests'[n] = requests[n]
  BY <1>2, RequestsTyped, Queued
<1>8. misEdited => misEdited'
  OBVIOUS
<1>9. ASSUME q.kind = "edit", ~misEdited'
      PROVE  /\ orderEntries[s].orderId = o /\ o \in live
             /\ \A t \in Slots \ {s} : orderEntries[t].orderId # o
             /\ \A n \in Places : requests[n].kind = "edit" =>
                  requests[n].order # o
  <2>1. o \in live /\ ~EditPending(o)
    BY <1>3, <1>9
  <2>2. orderEntries[s].orderId = o
    BY <1>3, <1>4, <2>1 DEF Links, Holds
  <2>3. \A t \in Slots \ {s} : orderEntries[t].orderId # o
    BY <1>4, <2>1, <2>2 DEF SlotsSound
  <2>4. QED
    BY <2>1, <2>2, <2>3 DEF EditPending, Places
<1>10. Sides'
  BY <1>4, <1>6, EntryIds DEF Terms, Sides, SameAmounts
<1>11. FilledExact' /\ TermsKnown'
  BY <1>4, <1>8 DEF Terms, FilledExact, TermsKnown, LiveSlots, SameAmounts
<1>12. EditsKnown'
  <2>1. SUFFICES ASSUME ~misEdited', NEW n \in Places', NEW t \in Slots,
                        requests'[n].kind = "edit",
                        orderEntries'[t].orderId = requests'[n].order
                 PROVE  /\ orderEntries'[t].newVolume = requests'[n].volume
                        /\ orderEntries'[t].newPrice = requests'[n].price
                        /\ requests'[n].change =
                             requests'[n].volume - orderEntries'[t].volume
    BY DEF EditsKnown, Holds
  <2>2. CASE n \in Places
    <3>1. /\ requests'[n] = requests[n]
          /\ orderEntries[t].orderId = requests[n].order
          /\ orderEntries'[t].volume = orderEntries[t].volume
      BY <1>7, <2>1, <2>2 DEF SameAmounts
    <3>2. /\ orderEntries[t].newVolume = requests[n].volume
          /\ orderEntries[t].newPrice = requests[n].price
          /\ requests[n].change = requests[n].volume - orderEntries[t].volume
      BY <1>4, <1>8, <2>1, <2>2, <3>1 DEF Terms, EditsKnown, Holds
    <3>3. t # s \/ q.kind # "edit"
      BY <1>9, <2>1, <2>2, <3>1
    <3>4. QED
      BY <3>1, <3>2, <3>3
  <2>3. CASE n = last
    <3>1. q.kind = "edit" /\ t = s
      BY <1>3, <1>7, <1>9, <2>1, <2>3 DEF SameAmounts
    <3>2. QED
      BY <1>7, <2>3, <3>1 DEF SameAmounts
  <2>4. QED
    BY <1>7, <2>2, <2>3
<1>13. OneEdit'
  <2>1. SUFFICES ASSUME ~misEdited', NEW k \in Places', NEW n \in Places',
                        requests'[k].kind = "edit", requests'[n].kind = "edit",
                        requests'[k].order = requests'[n].order
                 PROVE  k = n
    BY DEF OneEdit
  <2>2. CASE k \in Places /\ n \in Places
    BY <1>4, <1>7, <1>8, <2>1, <2>2 DEF Terms, OneEdit
  <2>3. CASE k = last /\ n \in Places
    <3>1. /\ q.kind = "edit" /\ requests[n].kind = "edit"
          /\ requests[n].order = q.order
      BY <1>7, <2>1, <2>3
    <3>2. QED
      BY <1>3, <1>9, <2>1, <2>3, <3>1
  <2>4. CASE n = last /\ k \in Places
    BY <1>3, <1>7, <1>9, <2>1, <2>4
  <2>5. QED
    BY <1>7, <2>2, <2>3, <2>4
<1>14. PricesKnown' /\ NoEdits'
  <2>1. PricesKnown /\ NoEdits
    BY <1>4 DEF Terms
  <2>2. EditVolumes = {} => ~misEdited' /\ q.kind # "edit"
    BY <2>1 DEF NoEdits
  <2>3. NoEdits'
    BY <1>7, <2>1, <2>2 DEF NoEdits
  <2>4. PricesKnown'
    BY <1>7, <1>8, <2>1 DEF PricesKnown, SameAmounts
  <2>5. QED
    BY <2>3, <2>4
<1>15. Mapped'
  <2>1. SUFFICES ASSUME NEW n \in Places', requests'[n].kind # "new"
                 PROVE  orderIDVsEntryMap'[requests'[n].id] # orderEntryEnd
    BY DEF Mapped, HasEntry
  <2>2. CASE n \in Places
    <3>1. PICK i : i = requests[n].id
      OBVIOUS
    <3>2. i \in Used /\ orderIDVsEntryMap[i] # orderEntryEnd
      BY <1>4, <1>7, <2>1, <2>2, <3>1 DEF Fresh, Mapped, HasEntry
    <3>3. orderIDVsEntryMap'[i] = orderIDVsEntryMap[i]
      BY <1>1, <1>4, <1>5, <3>2 DEF EntryTypes, Ids
    <3>4. QED
      BY <1>7, <2>2, <3>1, <3>2, <3>3
  <2>3. CASE n = last
    BY <1>1, <1>4, <1>5, <1>7, <2>3 DEF EntryTypes, HasEntry, SlotOf
  <2>4. QED
    BY <1>7, <2>2, <2>3
<1>16. QED
  BY <1>10, <1>11, <1>12, <1>13, <1>14, <1>15 DEF Known, Terms

(* A request that ends the process.                                        *)
LEMMA AbortedKnown ==
  ASSUME IInv, IInv', Known, NEW reason, reason # "none", Abort(reason),
         UNCHANGED <<brokerVars, historyVars>>
  PROVE  Known' /\ Balanced
<1>1. /\ UNCHANGED <<orderIDVsEntryMap, orderEntries, totals, symbol,
                     currentBalance, requests, book, parent, live, traded,
                     misEdited>>
      /\ fault' # "none"
  BY DEF Abort, brokerVars, historyVars
<1>2. Known'
  BY <1>1 DEF Known, Terms, Sides, FilledExact, TermsKnown, EditsKnown, OneEdit,
              PricesKnown, NoEdits, Mapped, LiveSlots, Holds, HasEntry, Places
<1>3. SameBook
  BY <1>1 DEF SameBook
<1>4. Balanced
  BY <1>1, <1>3, AbortBalance
<1>5. QED
  BY <1>2, <1>4

LEMMA CancelOrderBalance ==
  ASSUME IInv, IInv', Known, NEW orderId \in Used, CancelOrder(orderId)
  PROVE  Known' /\ Balanced
<1> DEFINE id == currentOrderID
           slot == SlotOf(orderId)
           e == EntryOf(orderId)
<1>1. CASE Abort("order id") /\ UNCHANGED <<brokerVars, historyVars>>
  BY <1>1, AbortedKnown
<1>2. CASE
      /\ id < MaxOrders
      /\ orderIDVsEntryMap' = [orderIDVsEntryMap EXCEPT ![id] = slot]
      /\ orderEntries' = [orderEntries EXCEPT
                            ![slot].status = @ \cup {"PENDING_CANCEL"}]
      /\ totals' = onSingleOrderCancel(totals, e.side, Unfilled(e))
      /\ symbol' = onSingleOrderCancel(symbol, e.side, Unfilled(e))
      /\ Issue(id, parent[orderId])
      /\ Send("cancel", id, parent[orderId], 0, 0, 0)
      /\ UNCHANGED <<freeEntries, freeEntryPtr, currentBalance, fault,
                     book, lastReport, live, traded, misEdited>>
  <2>1. /\ HasEntry(orderId) /\ TypeOK /\ EntriesTyped /\ Parents
        /\ totals \in Totals /\ symbol \in Totals
    BY DEF CancelOrder, IInv, TypeOK, EntriesTyped
  <2>2. id \in Ids /\ Used \subseteq Ids /\ parent[orderId] \in Ids
    BY <1>2, <2>1, IdsUsed, NewId DEF Issue
  <2>3. slot \in Slots /\ Unfilled(e) \in Int
    BY <2>1, <2>2, EntryNumbers
  <2>4. PICK q \in Request :
          /\ requests' = Append(requests, q) /\ q.kind = "cancel"
          /\ q.id = currentOrderID /\ q.order = parent[orderId]
    BY <1>2, <2>2 DEF Request, Send
  <2>5. SameTerms /\ SameFills
    <3>1. orderEntries \in [Slots -> OrderEntry]
      BY <2>1 DEF EntriesTyped
    <3> HIDE DEF slot
    <3>2. QED
      BY <1>2, <2>3, <3>1, StatusKept
  <2>6. SameAmounts /\ SameBook /\ SidesStay
    <3>1. SameAmounts /\ SameBook
      BY <1>2, <2>5 DEF SameTerms, SameFills, SameAmounts, SameBook
    <3>2. QED
      BY <3>1, SidesStaying
  <2>7. Known'
    BY <1>2, <2>1, <2>3, <2>4, <2>5, <2>6, AskKnown DEF SameTerms
  <2>8. /\ totals'.pendingShares = totals.pendingShares
        /\ symbol'.pendingShareValues = symbol.pendingShareValues
    <3> HIDE DEF e
    <3>1. QED
      BY <1>2, <2>1, <2>3, CancellingMoves DEF onSingleOrderCancel
  <2>9. /\ OrdersMove("BUY", 0, 0) /\ RequestsMove("BUY", 0, 0)
        /\ TotalsMove("BUY", 0, 0) /\ TradesMove("BUY", 0, 0)
    BY <1>2, <2>1, <2>4, <2>6, <2>8, OrdersKept, RequestMoves, TotalsKept,
       TradesKept
  <2>10. /\ currentBalance \in Int /\ currentBalance' = currentBalance + 0
         /\ "BUY" \in Side /\ 0 \in Int
    <3>1. currentBalance \in Int
      BY <2>1 DEF TypeOK
    <3>2. QED
      BY <1>2, <3>1 DEF Side
  <2>11. /\ 0 = 0 + 0 => \A side \in Side : SharesOff(side)' = SharesOff(side)
         /\ 0 = (0 + 0) - 0 =>
              \A side \in Side : ValueOff(side)' = ValueOff(side)
         /\ Funds \in Int
         /\ Funds' = Funds + (0 + (IF "BUY" = "BUY" THEN (0 + 0) + 0 ELSE 0))
    BY <2>9, <2>10, Balance
  <2>12. Balanced
    BY <1>2, <2>11 DEF Balanced
  <2>13. QED
    BY <2>7, <2>12
<1>3. QED
  BY <1>1, <1>2 DEF CancelOrder

LEMMA EditOrderBalance ==
  ASSUME IInv, IInv', Known, NEW orderId \in Used, NEW price \in Prices,
         NEW volume \in EditVolumes, EditOrder(orderId, price, volume)
  PROVE  Known' /\ Balanced
<1> DEFINE id == currentOrderID
<1>1. PICK s : s = SlotOf(orderId)
  OBVIOUS
<1>2. PICK e : e = EntryOf(orderId)
  OBVIOUS
<1>3. PICK cost : cost = EditCost(e, price, volume)
  OBVIOUS
<1>4. PICK c : c = volume - e.volume
  OBVIOUS
<1>5. PICK value : value = volume * price - e.volume * e.price
  OBVIOUS
<1>6. CASE \E reason \in {"free entry", "order id"} :
             Abort(reason) /\ UNCHANGED <<brokerVars, historyVars>>
  BY <1>6, AbortedKnown
<1>7. CASE
      /\ id < MaxOrders
      /\ currentBalance' = IF cost > 0 THEN currentBalance - cost
                           ELSE currentBalance
      /\ orderIDVsEntryMap' = [orderIDVsEntryMap EXCEPT ![id] = s]
      /\ orderEntries' = [orderEntries EXCEPT
                            ![s].status = @ \cup {"PENDING_REPLACE"},
                            ![s].newPrice = price,
                            ![s].newVolume = volume]
      /\ totals' = AddPending(totals, e.side, c, 0)
      /\ symbol' = AddPending(symbol, e.side, c, value)
      /\ Issue(id, parent[orderId])
      /\ Send("edit", id, parent[orderId], price, volume, c)
      /\ misEdited' = (misEdited \/ parent[orderId] \notin live
                                 \/ EditPending(parent[orderId]))
      /\ UNCHANGED <<freeEntries, freeEntryPtr, fault,
                     book, lastReport, live, traded>>
  <2>1. /\ HasEntry(orderId) /\ TypeOK /\ EntriesTyped /\ Parents /\ Links
        /\ totals \in Totals /\ symbol \in Totals /\ book \in [Ids -> BookEntry]
        /\ currentBalance \in Int
    BY DEF EditOrder, IInv, TypeOK, EntriesTyped
  <2>2. /\ id \in Ids /\ Used \subseteq Ids /\ orderId \in Ids
        /\ parent[orderId] \in Ids
    BY <1>7, <2>1, IdsUsed, NewId DEF Issue
  <2>3. /\ s \in Slots /\ e \in OrderEntry /\ e = orderEntries[s]
    BY <1>1, <1>2, <2>1, <2>2, EntryNumbers DEF EntryOf
  <2>4. /\ price \in Nat \ {0} /\ volume \in Nat /\ EditVolumes # {}
        /\ e.volume \in Int /\ e.price \in Int
    BY <2>3, PricesAssumption, VolumesAssumption DEF OrderEntry
  <2>5. c \in Int /\ value \in Int /\ 0 \in Int /\ c = 0 + c
    BY <1>4, <1>5, <2>4
  <2>6. PICK q \in Request :
          /\ requests' = Append(requests, q) /\ q.kind = "edit"
          /\ q.id = currentOrderID /\ q.order = parent[orderId]
          /\ q.price = price /\ q.volume = volume /\ q.change = c
    BY <1>7, <2>2, <2>4, <2>5 DEF Request, Send
  <2> DEFINE st == e.status \cup {"PENDING_REPLACE"}
             r == [e EXCEPT !.status = st, !.newPrice = price,
                            !.newVolume = volume]
  <2>7. orderEntries' = [orderEntries EXCEPT ![s] = r]
    BY <1>7, <2>1, <2>3 DEF EntriesTyped
  <2> HIDE DEF st
  <2>8. /\ r.orderId = e.orderId /\ r.side = e.side /\ r.price = e.price
        /\ r.volume = e.volume /\ r.filled = e.filled
        /\ r.newPrice = price /\ r.newVolume = volume
    BY <2>3 DEF OrderEntry
  <2> HIDE DEF r
  <2>9. /\ orderEntries'[s] = r
        /\ \A t \in Slots \ {s} : orderEntries'[t] = orderEntries[t]
    BY <2>1, <2>3, <2>7 DEF EntriesTyped
  <2>10. SameAmounts /\ SameBook /\ SidesStay
    <3>1. SameAmounts
      BY <2>3, <2>8, <2>9 DEF SameAmounts
    <3>2. SameBook
      BY <1>7 DEF SameBook
    <3>3. QED
      BY <3>1, <3>2, SidesStaying
  <2>11. Known'
    <3>1. \A t \in Slots : t # s =>
            /\ orderEntries'[t].newPrice = orderEntries[t].newPrice
            /\ orderEntries'[t].newVolume = orderEntries[t].newVolume
      BY <2>9
    <3>2. /\ orderEntries'[s].newPrice = q.price
          /\ orderEntries'[s].newVolume = q.volume
          /\ q.change = q.volume - orderEntries[s].volume
          /\ q.price \in Prices
      BY <1>4, <2>3, <2>6, <2>8, <2>9
    <3>3. /\ q.kind # "new"
          /\ \A t \in Slots : t # s \/ q.kind # "edit" =>
               /\ orderEntries'[t].newPrice = orderEntries[t].newPrice
               /\ orderEntries'[t].newVolume = orderEntries[t].newVolume
          /\ q.kind # "edit" => misEdited' = misEdited
          /\ q.kind = "edit" =>
               /\ orderEntries'[s].newPrice = q.price
               /\ orderEntries'[s].newVolume = q.volume
               /\ q.change = q.volume - orderEntries[s].volume
               /\ q.price \in Prices /\ EditVolumes # {}
               /\ misEdited' = (misEdited \/ parent[orderId] \notin live
                                          \/ EditPending(parent[orderId]))
      BY <1>7, <2>4, <2>6, <3>1, <3>2
    <3>4. /\ orderIDVsEntryMap' =
               [orderIDVsEntryMap EXCEPT ![currentOrderID] = SlotOf(orderId)]
          /\ Issue(currentOrderID, parent[orderId])
          /\ currentOrderID < MaxOrders /\ HasEntry(orderId)
          /\ UNCHANGED <<fault, book, live>>
      BY <1>1, <1>7, <2>1
    <3>5. QED
      BY <1>1, <2>3, <2>6, <2>10, <3>3, <3>4, AskKnown
  <2>12. CASE misEdited'
    <3>1. Balanced
      BY <2>4, <2>12 DEF Balanced
    <3>2. QED
      BY <2>11, <3>1
  <2>13. CASE ~misEdited'
    <3>1. PICK o : o = parent[orderId]
      OBVIOUS
    <3>2. ~misEdited /\ o \in live /\ o \in Ids
      BY <1>7, <2>2, <2>13, <3>1
    <3>3. e.orderId = o /\ e.orderId # 0
      BY <1>1, <2>1, <2>3, <3>1, <3>2 DEF Links, Holds, Ids
    <3>4. /\ e.side = book[o].side /\ book[o].side \in Side /\ e.price \in Prices
      BY <2>1, <2>3, <3>2, <3>3 DEF Known, Terms, Sides, PricesKnown, BookEntry
    <3>5. book'[q.order].side = e.side /\ e.side \in Side
      BY <1>7, <2>6, <3>1, <3>4
    <3>6. PICK x : x = EditRaise(q)
      OBVIOUS
    <3>7. c = EditChange(q)
      BY <2>6 DEF EditChange
    <3>8. RequestsMove(e.side, c, x) /\ x \in Int
      BY <2>6, <2>10, <3>5, <3>6, <3>7, RequestMoves
    <3>9. TotalsMove(e.side, c, value)
      <4>1. SUFFICES ASSUME NEW side \in Side
                     PROVE  /\ totals.pendingShares[side] \in Int
                            /\ symbol.pendingShareValues[side] \in Int
                            /\ totals'.pendingShares[side] =
                                 totals.pendingShares[side] + On(e.side, side, c)
                            /\ symbol'.pendingShareValues[side] =
                                 symbol.pendingShareValues[side]
                                   + On(e.side, side, value)
        BY DEF TotalsMove
      <4>2. /\ totals.pendingShares[side] \in Int
            /\ AddPending(totals, e.side, c, 0).pendingShares[side] =
                 totals.pendingShares[side] + On(e.side, side, c)
        BY <2>1, <2>5, <3>5, PendingMoves
      <4>3. /\ symbol.pendingShareValues[side] \in Int
            /\ AddPending(symbol, e.side, c, value).pendingShareValues[side] =
                 symbol.pendingShareValues[side] + On(e.side, side, value)
        BY <2>1, <2>5, <3>5, PendingMoves
      <4>4. QED
        BY <1>7, <4>2, <4>3
    <3>10. PICK money : money = IF cost > 0 THEN -cost ELSE 0
      OBVIOUS
    <3>11. cost \in Int
      BY <1>3, <2>3, <2>4, EditCostType
    <3>12. money \in Int /\ currentBalance' = currentBalance + money
      BY <1>7, <2>1, <3>10, <3>11
    <3>13. OrdersMove(e.side, 0, 0) /\ TradesMove(e.side, 0, 0)
      BY <1>7, <2>1, <2>10, OrdersKept, TradesKept
    <3>14. /\ \A side \in Side : SharesOff(side)' = SharesOff(side)
           /\ Funds \in Int
           /\ Funds' = Funds + (money + (IF e.side = "BUY" THEN (0 + x) + 0 ELSE 0))
      BY <2>1, <2>5, <3>5, <3>8, <3>9, <3>12, <3>13, Balance
    <3>15. ASSUME OnePrice PROVE money = IF e.side = "BUY" THEN -x ELSE 0
      <4>1. price = e.price
        BY <3>4, <3>15 DEF OnePrice
      <4>2. cost = IF e.side = "BUY" THEN price * c ELSE 0
        BY <1>3, <1>4, <2>3, <2>4, <4>1, SamePriceCost
      <4>3. x = IF c > 0 THEN price * c ELSE 0
        BY <2>6, <3>6 DEF EditRaise
      <4>4. price * c \in Int /\ (price * c > 0 <=> c > 0)
        BY <2>4, <2>5, Sign
      <4>5. QED
        BY <3>10, <4>2, <4>3, <4>4
    <3>16. OnePrice => Funds' \in Int /\ Funds' <= Funds
      BY <3>8, <3>12, <3>14, <3>15
    <3>17. Balanced
      BY <2>4, <3>2, <3>14, <3>16 DEF Balanced
    <3>18. QED
      BY <2>11, <3>17
  <2>14. QED
    BY <2>12, <2>13
<1>8. QED
  BY <1>1, <1>2, <1>3, <1>4, <1>5, <1>6, <1>7 DEF EditOrder, onSingleOrderEdit

(* A new order is an entry nothing else is about.                          *)
LEMMA NewOrderBalance ==
  ASSUME IInv, IInv', Known, NEW side \in Side, NEW price \in Prices,
         NEW volume \in Volumes, NewOrder(side, price, volume)
  PROVE  Known' /\ Balanced
<1>1. PICK id : id = currentOrderID
  OBVIOUS
<1>2. PICK s : s = freeEntries[freeEntryPtr]
  OBVIOUS
<1>3. PICK w : w = price * volume
  OBVIOUS
<1>4. CASE Abort("order id") /\ UNCHANGED <<brokerVars, historyVars>>
  BY <1>4, AbortedKnown
<1>5. CASE
      /\ id < MaxOrders /\ freeEntryPtr < OrderSlots
      /\ currentBalance' = currentBalance - calculateCost(price, volume, side)
      /\ orderIDVsEntryMap' = [orderIDVsEntryMap EXCEPT ![id] = s]
      /\ orderEntries' = [orderEntries EXCEPT
                            ![s] = NewEntry(id, side, price, volume)]
      /\ totals' = onSingleOrder(totals, side, price, volume)
      /\ symbol' = onSingleOrder(symbol, side, price, volume)
      /\ Issue(id, id)
      /\ Send("new", id, id, price, volume, 0)
      /\ book' = [book EXCEPT ![id] =
                   [state |-> "sent", side |-> side, price |-> price,
                    volume |-> volume, cum |-> 0, clid |-> id]]
      /\ live' = live \cup {id}
      /\ UNCHANGED <<freeEntries, fault, lastReport, traded, misEdited>>
  <2>1. /\ TypeOK /\ EntriesTyped /\ EntryTypes /\ Fresh /\ SlotsSound
        /\ totals \in Totals /\ symbol \in Totals /\ book \in [Ids -> BookEntry]
        /\ currentBalance \in Int /\ Terms /\ Mapped /\ live \subseteq Ids
    BY DEF IInv, TypeOK, EntriesTyped, EntryTypes, Known
  <2>2. /\ id \in Ids /\ id \notin Used /\ id \notin Older
        /\ id \in 0 .. MaxOrders - 1 /\ Used \subseteq Ids
    BY <1>1, <1>5, <2>1, NewId DEF Issue
  <2>3. /\ s \in Slots /\ orderEntries[s].orderId \notin live
    <3>1. OrderSlots \in Nat \ {0} /\ freeEntryPtr \in 0 .. OrderSlots
      BY <2>1, OrderSlotsAssumption DEF TypeOK
    <3>2. freeEntryPtr \in Slots /\ freeEntryPtr \in freeEntryPtr .. OrderSlots - 1
      BY <1>5, <3>1 DEF Slots
    <3>3. s \in Slots
      BY <1>2, <2>1, <3>2 DEF TypeOK
    <3>4. s \in FreeSlots
      BY <1>2, <3>2 DEF FreeSlots
    <3>5. QED
      BY <2>1, <3>3, <3>4 DEF SlotsSound
  <2>4. /\ volume \in Nat /\ price \in Nat /\ w \in Int /\ volume * price = w
    <3>1. volume \in Nat /\ price \in Nat
      BY PricesAssumption, VolumesAssumption
    <3>2. QED
      BY <1>3, <3>1
  <2>5. PICK r : r = NewEntry(id, side, price, volume)
    OBVIOUS
  <2>6. /\ r.orderId = id /\ r.side = side /\ r.price = price
        /\ r.volume = volume /\ r.filled = 0
    BY <2>5 DEF NewEntry, DefaultEntry
  <2>7. /\ orderEntries'[s] = r
        /\ \A t \in Slots \ {s} : orderEntries'[t] = orderEntries[t]
    BY <1>5, <2>1, <2>3, <2>5 DEF EntriesTyped
  <2>8. /\ book'[id].side = side /\ book'[id].price = price
        /\ book'[id].volume = volume /\ book'[id].cum = 0
        /\ \A p \in Ids : p # id => book'[p] = book[p]
    BY <1>5, <2>1, <2>2
  <2>9. /\ \A t \in Slots : orderEntries[t].orderId # id
        /\ \A t \in Slots : orderEntries[t].orderId # 0 =>
             orderEntries[t].orderId \in Ids /\ orderEntries[t].orderId \in Used
        /\ \A n \in Places : /\ requests[n].order # id /\ requests[n].id # id
                             /\ requests[n].order \in Ids
                             /\ requests[n].id \in Used
    BY <2>1, <2>2, EntryIds, RequestsTyped DEF Fresh
  <2>10. /\ parent'[id] = id /\ \A i \in Used : parent'[i] = parent[i]
    BY <1>5, <2>1, <2>2 DEF TypeOK, Issue
  <2>11. PICK q \in Request : requests' = Append(requests, q) /\ q.kind = "new"
                               /\ q.order = id
    BY <1>5, <2>2, <2>4 DEF Request, Send
  <2>12. PICK last : last = Len(requests) + 1
    OBVIOUS
  <2>13. /\ Places' = Places \cup {last} /\ requests'[last] = q
         /\ \A n \in Places : requests'[n] = requests[n]
         /\ \A n \in Places' : requests'[n].kind # "new" =>
              n \in Places /\ requests'[n] = requests[n]
    BY <2>11, <2>12, RequestsTyped, Queued
  <2>14. Sides'
    BY <2>1, <2>6, <2>7, <2>8, <2>9, <2>10 DEF Terms, Sides
  <2>15. FilledExact' /\ TermsKnown'
    <3>1. SUFFICES ASSUME NEW t \in Slots, orderEntries'[t].orderId \in live'
                   PROVE  /\ fault = "none" =>
                               orderEntries'[t].filled =
                                 book'[orderEntries'[t].orderId].cum
                          /\ ~misEdited =>
                               /\ orderEntries'[t].volume =
                                    book'[orderEntries'[t].orderId].volume
                               /\ orderEntries'[t].price =
                                    book'[orderEntries'[t].orderId].price
      BY <1>5 DEF FilledExact, TermsKnown, LiveSlots
    <3>2. CASE t = s
      BY <2>6, <2>7, <2>8, <3>2
    <3>3. CASE t # s
      <4>1. /\ orderEntries'[t] = orderEntries[t]
            /\ orderEntries[t].orderId # id /\ orderEntries[t].orderId \in live
        BY <1>5, <2>7, <2>9, <3>1, <3>3
      <4>2. orderEntries[t].orderId \in Ids
        BY <2>1, <4>1
      <4>3. QED
        BY <2>1, <2>8, <4>1, <4>2 DEF Terms, FilledExact, TermsKnown, LiveSlots
    <3>4. QED
      BY <3>2, <3>3
  <2>16. EditsKnown'
    <3>1. SUFFICES ASSUME ~misEdited, NEW n \in Places', NEW t \in Slots,
                          requests'[n].kind = "edit",
                          orderEntries'[t].orderId = requests'[n].order
                   PROVE  /\ orderEntries'[t].newVolume = requests'[n].volume
                          /\ orderEntries'[t].newPrice = requests'[n].price
                          /\ requests'[n].change =
                               requests'[n].volume - orderEntries'[t].volume
      BY <1>5 DEF EditsKnown, Holds
    <3>2. n \in Places /\ requests'[n] = requests[n] /\ requests[n].order # id
      BY <2>9, <2>13, <3>1
    <3>3. orderEntries'[t] = orderEntries[t]
      BY <2>6, <2>7, <3>1, <3>2
    <3>4. QED
      BY <2>1, <3>1, <3>2, <3>3 DEF Terms, EditsKnown, Holds
  <2>17. OneEdit' /\ NoEdits'
    BY <1>5, <2>1, <2>13 DEF Terms, OneEdit, NoEdits
  <2>18. PricesKnown'
    <3>1. PricesKnown
      BY <2>1 DEF Terms
    <3>2. QED
      BY <1>5, <2>6, <2>7, <2>13, <3>1 DEF PricesKnown
  <2>19. Mapped'
    <3>1. SUFFICES ASSUME NEW n \in Places', requests'[n].kind # "new"
                   PROVE  orderIDVsEntryMap'[requests'[n].id] # orderEntryEnd
      BY DEF Mapped, HasEntry
    <3>2. PICK i : i = requests[n].id
      OBVIOUS
    <3>3. i \in Used /\ i # id /\ orderIDVsEntryMap[i] # orderEntryEnd
      BY <2>1, <2>9, <2>13, <3>1, <3>2 DEF Mapped, HasEntry
    <3>4. orderIDVsEntryMap'[i] = orderIDVsEntryMap[i]
      BY <1>5, <2>1, <2>2, <3>3 DEF EntryTypes, Ids
    <3>5. QED
      BY <2>13, <3>1, <3>2, <3>3, <3>4
  <2>20. Known'
    BY <2>14, <2>15, <2>16, <2>17, <2>18, <2>19 DEF Known, Terms
  <2>21. SidesStay
    BY <2>8, <2>9 DEF SidesStay
  <2>22. OrdersMove(side, volume, w)
    <3>1. Unfilled(r) = volume
      BY <2>4, <2>6 DEF Unfilled
    <3>2. /\ volume = Unfilled(orderEntries'[s])
          /\ w = orderEntries'[s].price * volume
          /\ orderEntries'[s].orderId = id
          /\ \A t \in Slots \ {s} : /\ orderEntries[t].orderId # id
                                    /\ orderEntries'[t] = orderEntries[t]
      BY <1>3, <2>6, <2>7, <2>9, <3>1
    <3>3. OrdersMove(orderEntries'[s].side, volume, w)
      BY <1>5, <2>1, <2>3, <3>2, OrderAdded
    <3>4. QED
      BY <2>6, <2>7, <3>3
  <2>23. TotalsMove(side, volume, w)
    BY <1>5, <2>1, <2>4, PendingMoves DEF TotalsMove, onSingleOrder
  <2>24. RequestsMove(side, 0, 0) /\ TradesMove(side, 0, 0)
    BY <1>5, <2>1, <2>11, <2>21, RequestMoves, TradesKept
  <2>25. PICK money : money = IF side = "BUY" THEN -w ELSE 0
    OBVIOUS
  <2>26. /\ money \in Int /\ currentBalance' = currentBalance + money
         /\ volume \in Int /\ 0 \in Int
    <3>1. calculateCost(price, volume, side) = IF side = "BUY" THEN w ELSE 0
      BY <1>3, <2>4, Costs
    <3>2. QED
      BY <1>5, <2>1, <2>4, <2>25, <3>1
  <2>27. /\ volume = volume + 0 =>
              \A d \in Side : SharesOff(d)' = SharesOff(d)
         /\ w = (w + 0) - 0 => \A d \in Side : ValueOff(d)' = ValueOff(d)
         /\ Funds \in Int
         /\ Funds' = Funds + (money + (IF side = "BUY" THEN (w + 0) + 0 ELSE 0))
    BY <2>1, <2>4, <2>22, <2>23, <2>24, <2>26, Balance
  <2>28. /\ \A d \in Side : SharesOff(d)' = SharesOff(d)
         /\ \A d \in Side : ValueOff(d)' = ValueOff(d)
         /\ Funds' = Funds
    BY <2>4, <2>25, <2>26, <2>27
  <2>29. Balanced
    BY <1>5, <2>27, <2>28 DEF Balanced
  <2>30. QED
    BY <2>20, <2>29
<1>6. QED
  BY <1>1, <1>2, <1>4, <1>5 DEF NewOrder

-----------------------------------------------------------------------------
(* The accounts: what has not gone astray is balanced.                     *)

Accounts ==
  /\ fault = "none" /\ ~misEdited => \A side \in Side : SharesOff(side) = 0
  /\ fault = "none" /\ EditVolumes = {} =>
       /\ \A side \in Side : ValueOff(side) = 0
       /\ Funds = Deposit
  /\ ~misEdited /\ OnePrice => Funds \in Int /\ Funds <= Deposit

LEMMA StepBalance ==
  ASSUME IInv, IInv', Known, Exact, Next
  PROVE  Known' /\ Balanced
<1>1. CASE Strategy
  BY <1>1, NewOrderBalance, CancelOrderBalance, EditOrderBalance
     DEF Strategy, Used
<1>2. CASE Broker
  BY <1>2, AcceptNewBalance, RejectNewBalance, FillBalance,
     AcceptCancelBalance, RejectCancelBalance, AcceptEditBalance,
     RejectEditBalance DEF Broker, Resend, Exact, Next
<1>3. QED
  BY <1>1, <1>2 DEF Next

LEMMA StutterKnown ==
  ASSUME Known, UNCHANGED vars
  PROVE  Known'
<1>1. UNCHANGED <<orderIDVsEntryMap, orderEntries, fault, requests, book,
                  parent, live, misEdited>>
  BY DEF vars, managerVars, brokerVars, historyVars
<1>2. Places' = Places /\ LiveSlots' = LiveSlots
  BY <1>1 DEF Places, LiveSlots
<1>3. /\ Sides' /\ FilledExact' /\ TermsKnown' /\ EditsKnown'
  BY <1>1, <1>2
     DEF Known, Terms, Sides, FilledExact, TermsKnown, EditsKnown, Holds
<1>4. OneEdit' /\ PricesKnown' /\ NoEdits' /\ Mapped'
  BY <1>1, <1>2
     DEF Known, Terms, OneEdit, PricesKnown, NoEdits, Mapped, HasEntry
<1>5. QED
  BY <1>3, <1>4 DEF Known, Terms

LEMMA StutterBalance ==
  ASSUME UNCHANGED vars
  PROVE  /\ UNCHANGED <<fault, misEdited>>
         /\ \A side \in Side : /\ SharesOff(side)' = SharesOff(side)
                               /\ ValueOff(side)' = ValueOff(side)
         /\ Funds' = Funds
<1>1. UNCHANGED <<orderEntries, totals, symbol, currentBalance, fault,
                  requests, book, live, traded, misEdited>>
  BY DEF vars, managerVars, brokerVars, historyVars
<1>2. /\ Outstanding' = Outstanding /\ Changes' = Changes
      /\ Increases' = Increases /\ LiveSlots' = LiveSlots
  BY <1>1 DEF Outstanding, Changes, Increases, LiveSlots
<1>3. Reserved' = Reserved
  BY <1>1, <1>2 DEF Reserved
<1>4. ASSUME NEW side
      PROVE  /\ LiveOf(side)' = LiveOf(side) /\ EditsOf(side)' = EditsOf(side)
             /\ IncreasesOf(side)' = IncreasesOf(side)
  BY <1>1, <1>2 DEF LiveOf, EditsOf, IncreasesOf
<1>5. ASSUME NEW side
      PROVE  /\ Held(side)' = Held(side) /\ HeldValue(side)' = HeldValue(side)
             /\ Asked(side)' = Asked(side)
  BY <1>2, <1>3, <1>4 DEF Held, HeldValue, Asked
<1>6. Bound' = Bound
  BY <1>1, <1>2, <1>3, <1>4 DEF Bound
<1>7. QED
  BY <1>1, <1>5, <1>6 DEF SharesOff, ValueOff, Funds

LEMMA AccountsKept ==
  ASSUME Accounts, Balanced, fault = "none"
  PROVE  Accounts'
<1>1. /\ fault' = "none" /\ ~misEdited' =>
           \A side \in Side : SharesOff(side)' = 0
      /\ fault' = "none" /\ EditVolumes = {} =>
           /\ \A side \in Side : ValueOff(side)' = 0
           /\ Funds' = Deposit
  BY DEF Accounts, Balanced
<1>2. ~misEdited' /\ OnePrice => Funds' \in Int /\ Funds' <= Deposit
  BY DepositAssumption DEF Accounts, Balanced
<1>3. QED
  BY <1>1, <1>2 DEF Accounts, OnePrice

LEMMA AccountsPreserved ==
  ASSUME IInv, IInv', Known, Accounts, Exact, [Next]_vars
  PROVE  Known' /\ Accounts'
<1>1. CASE UNCHANGED vars
  BY <1>1, StutterKnown, StutterBalance DEF Accounts, OnePrice
<1>2. CASE Next
  BY <1>2, StepBalance, AccountsKept DEF Next
<1>3. QED
  BY <1>1, <1>2

(* Nothing is ordered at first, and nothing bound.                         *)
LEMMA InitiallyKnown ==
  ASSUME Init
  PROVE  Known
<1>1. Places = {} /\ live = {} /\ ~misEdited
  BY DEF Init, Places
<1>2. \A s \in Slots : orderEntries[s].orderId = 0
  BY DEF Init, DefaultEntry
<1>3. /\ Sides /\ FilledExact /\ TermsKnown /\ EditsKnown
  BY <1>1, <1>2 DEF Sides, FilledExact, TermsKnown, EditsKnown, LiveSlots
<1>4. OneEdit /\ PricesKnown /\ NoEdits /\ Mapped
  BY <1>1, <1>2 DEF OneEdit, PricesKnown, NoEdits, Mapped
<1>5. QED
  BY <1>3, <1>4 DEF Known, Terms

LEMMA InitiallyBalanced ==
  ASSUME Init
  PROVE  Accounts
<1>1. /\ live = {} /\ requests = << >> /\ totals = NoTotals
      /\ symbol = NoTotals /\ traded = NoTrades /\ currentBalance = Deposit
  BY DEF Init
<1>2. \A side : /\ LiveOf(side) = {} /\ EditsOf(side) = {}
                /\ IncreasesOf(side) = {}
  BY <1>1 DEF LiveOf, LiveSlots, EditsOf, IncreasesOf
<1>3. \A side : /\ Held(side) = 0 /\ HeldValue(side) = 0
                /\ Asked(side) = 0 /\ Raised(side) = 0
  BY <1>2, SumEmpty DEF Held, HeldValue, Asked, Raised
<1>4. \A side \in Side :
        /\ totals.pendingShares[side] = 0
        /\ symbol.pendingShareValues[side] = 0
        /\ traded.limit[side] = 0 /\ traded.paid[side] = 0
  BY <1>1 DEF NoTotals, NoTrades
<1>5. ASSUME NEW side \in Side
      PROVE  SharesOff(side) = 0 /\ ValueOff(side) = 0
  <2>1. Held(side) = 0 /\ HeldValue(side) = 0 /\ Asked(side) = 0
    BY <1>3
  <2>2. 0 - (0 + 0) = 0 /\ 0 - ((0 + 0) - 0) = 0
    OBVIOUS
  <2>3. QED
    BY <1>4, <2>1, <2>2 DEF SharesOff, ValueOff
<1>6. Bound = (HeldValue("BUY") + Raised("BUY")) + traded.limit["BUY"]
  BY DEF Bound, HeldValue, Raised
<1>7. Funds = Deposit /\ Deposit \in Nat
  BY <1>1, <1>3, <1>4, <1>6, DepositAssumption DEF Funds, Side
<1>8. QED
  BY <1>5, <1>7 DEF Accounts

(* The accounts are integers, so that their differences say what they are. *)
LEMMA AccountTypes ==
  ASSUME IInv, NEW side \in Side
  PROVE  /\ Held(side) \in Int /\ HeldValue(side) \in Int
         /\ Asked(side) \in Int
         /\ totals.pendingShares[side] \in Int
         /\ symbol.pendingShareValues[side] \in Int
         /\ traded.limit[side] \in Int /\ traded.paid[side] \in Int
<1>1. /\ orderEntries \in [Slots -> OrderEntry] /\ requests \in Seq(Request)
      /\ totals \in Totals /\ symbol \in Totals /\ traded \in Trades
  BY DEF IInv, TypeOK
<1>2. /\ LiveOf(side) \subseteq Slots
      /\ \A s \in Slots : Outstanding[s] \in Int /\ Reserved[s] \in Int
  BY <1>1, EntryAmounts DEF LiveOf, LiveSlots, Outstanding, Reserved
<1>3. IsFiniteSet(LiveOf(side))
  BY <1>2, SlotsFinite, FS_Subset
<1>4. Held(side) \in Int /\ HeldValue(side) \in Int
  BY <1>2, <1>3, SumType DEF Held, HeldValue
<1>5. Asked(side) \in Int
  BY <1>1, RequestAmounts
<1>6. QED
  BY <1>1, <1>4, <1>5 DEF Totals, Trades

LEMMA AccountsInvariant ==
  ASSUME Exact
  PROVE  Spec => [](IInv /\ Known /\ Accounts)
<1>1. Init => IInv /\ Known /\ Accounts
  BY Initially, InitiallyKnown, InitiallyBalanced
<1>2. IInv /\ Known /\ Accounts /\ [Next]_vars
        => IInv' /\ Known' /\ Accounts'
  BY Preserved, AccountsPreserved
<1>3. QED
  BY <1>1, <1>2, PTL DEF Spec

(* If every report reaches the manager once, the shares it counts as       *)
(* pending are those its orders have open, plus what the edits under way   *)
(* would change, in whatever order requests and reports cross and as long  *)
(* as no edit went astray.                                                 *)
THEOREM PendingExactly ==
  ASSUME Exact
  PROVE  Spec => []PendingSharesExact
<1>1. ASSUME IInv, Accounts PROVE PendingSharesExact
  <2>1. SUFFICES ASSUME ~misEdited, fault = "none", NEW side \in Side
                 PROVE  totals.pendingShares[side] = Held(side) + Asked(side)
    BY DEF PendingSharesExact, Held, Asked
  <2>2. SharesOff(side) = 0
    BY <1>1, <2>1 DEF Accounts
  <2>3. QED
    BY <1>1, <2>2, AccountTypes DEF SharesOff
<1>2. QED
  BY <1>1, AccountsInvariant, PTL

(* Without edits, the balance is the deposit less what buying orders       *)
(* reserve, what was paid, and what fills were cheaper than their limit.   *)
THEOREM BalanceExactly ==
  ASSUME Exact, EditVolumes = {}
  PROVE  Spec => []BalanceExact
<1>1. ASSUME IInv, Known, Accounts PROVE BalanceExact
  <2>1. SUFFICES ASSUME fault = "none"
                 PROVE  currentBalance =
                          Deposit - HeldValue("BUY") - traded.paid["BUY"] - Improvement
    BY DEF BalanceExact, HeldValue
  <2>2. Funds = Deposit
    BY <1>1, <2>1 DEF Accounts
  <2>3. Funds = currentBalance + ((HeldValue("BUY") + Raised("BUY")) + traded.limit["BUY"])
    BY DEF Funds, Bound, HeldValue, Raised
  <2>4. Raised("BUY") = 0
    <3>1. IncreasesOf("BUY") = {}
      BY <1>1 DEF Known, Terms, NoEdits, Places, IncreasesOf, EditsOf
    <3>2. QED
      BY <3>1, SumEmpty DEF Raised
  <2>5. /\ HeldValue("BUY") \in Int /\ currentBalance \in Int
        /\ traded.limit["BUY"] \in Int /\ traded.paid["BUY"] \in Int
    BY <1>1, AccountTypes DEF IInv, TypeOK, Side
  <2>6. QED
    BY <2>2, <2>3, <2>4, <2>5, DepositAssumption DEF Improvement
<1>2. QED
  BY <1>1, AccountsInvariant, PTL

(* Without edits, the value the SymbolState keeps for open orders is that  *)
(* of their unfilled shares, plus what fills differed from the limit.      *)
THEOREM ValueExactly ==
  ASSUME Exact, EditVolumes = {}
  PROVE  Spec => []SymbolValueExact
<1>1. ASSUME IInv, Accounts PROVE SymbolValueExact
  <2>1. SUFFICES ASSUME fault = "none", NEW side \in Side
                 PROVE  symbol.pendingShareValues[side] =
                          HeldValue(side) + (traded.limit[side] - traded.paid[side])
    BY DEF SymbolValueExact, HeldValue
  <2>2. ValueOff(side) = 0
    BY <1>1, <2>1 DEF Accounts
  <2>3. QED
    BY <1>1, <2>2, AccountTypes DEF ValueOff
<1>2. QED
  BY <1>1, AccountsInvariant, PTL

(* Edits that keep the price never let the balance and what is bound       *)
(* exceed the deposit, even an edit rejected after its order was filled in *)
(* part, as long as none went astray.                                      *)
THEOREM MoneyBounded ==
  ASSUME Exact, OnePrice
  PROVE  Spec => []MoneyNeverCreated
<1>1. ASSUME Accounts PROVE MoneyNeverCreated
  BY <1>1 DEF Accounts, MoneyNeverCreated, Funds
<1>2. QED
  BY <1>1, AccountsInvariant, PTL

=============================================================================
