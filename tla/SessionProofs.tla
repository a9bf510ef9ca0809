---------------------------- MODULE SessionProofs ----------------------------
(***************************************************************************)
(* What holds of a Session for every script of the broker, every size of   *)
(* its buffer and its queues, and whatever the other thread sends: the     *)
(* order in which it acts on messages, what it sends and how, why it is    *)
(* closed, and its types.                                                  *)
(***************************************************************************)
EXTENDS Session, TLAPS, FiniteSetTheorems

-----------------------------------------------------------------------------
(* The order in which messages are handled.                                *)

(* What of the state the argument is about.                                *)
orderVars == <<script, expected, handled>>

(* handled is a sequence: of what does not matter.                         *)
HandledIsSeq == \E Any : handled \in Seq(Any)

OrderInv == expected \in Nat \ {0} /\ HandledIsSeq /\ HandledInOrder

LEMMA SeqGrows ==
  ASSUME NEW Any, NEW s \in Seq(Any), NEW x
  PROVE /\ Append(s, x) \in Seq(Any \cup {x})
        /\ Len(s) \in Nat
        /\ Len(Append(s, x)) = Len(s) + 1
        /\ \A i \in 1 .. Len(s) : Append(s, x)[i] = s[i]
        /\ Append(s, x)[Len(s) + 1] = x
<1>1. s \in Seq(Any \cup {x})
  OBVIOUS
<1> QED BY <1>1

LEMMA InitOrderInv == Init => OrderInv
<1> SUFFICES ASSUME Init PROVE OrderInv
  OBVIOUS
<1>1. expected = 1 /\ handled = << >>
  BY DEF Init
<1>2. handled \in Seq({})
  BY <1>1
<1> QED BY <1>1, <1>2 DEF OrderInv, HandledIsSeq, HandledInOrder

(* Every other step leaves the order alone.                                *)
LEMMA Stutters == ASSUME OrderInv, UNCHANGED orderVars PROVE OrderInv'
BY DEF OrderInv, orderVars, HandledIsSeq, HandledInOrder

(* A message is handled only when its number is the expected one, and the  *)
(* next one is expected then.                                              *)
LEMMA ParseExpectedInOrder == ASSUME OrderInv, ParseExpected PROVE OrderInv'
<1>1. script' = script /\ SeqNum = expected
  BY DEF ParseExpected
<1>2. CASE UNCHANGED <<handled, expected>>
  BY <1>1, <1>2, Stutters DEF orderVars
<1>3. ASSUME NEW h, h.seqNum = SeqNum, h.index = FoundIndex,
             handled' = Append(handled, h), expected' = expected + 1
      PROVE OrderInv'
  <2>1. PICK Any : handled \in Seq(Any)
    BY DEF OrderInv, HandledIsSeq
  <2>2. handled' \in Seq(Any \cup {h})
    BY <1>3, <2>1, SeqGrows
  <2>3. Len(handled) = expected - 1 /\ expected \in Nat \ {0}
    BY DEF OrderInv, HandledInOrder
  <2>4. Len(handled') = expected' - 1 /\ expected' \in Nat \ {0}
        /\ 1 .. Len(handled') = (1 .. Len(handled)) \cup {expected}
    BY <1>3, <2>1, <2>3, SeqGrows
  <2>5. /\ \A i \in 1 .. Len(handled) : handled'[i] = handled[i]
        /\ handled'[expected] = h
    BY <1>3, <2>1, <2>3, SeqGrows
  <2>6. h.seqNum = expected /\ Header[script[h.index]].seqNum = expected
    BY <1>1, <1>3 DEF SeqNum
  <2>7. HandledInOrder'
    BY <1>1, <2>4, <2>5, <2>6 DEF OrderInv, HandledInOrder, Header
  <2> QED BY <2>2, <2>4, <2>7 DEF OrderInv, HandledIsSeq
<1>4. \/ UNCHANGED <<handled, expected>>
      \/ \E h : /\ h.seqNum = SeqNum /\ h.index = FoundIndex
                /\ handled' = Append(handled, h) /\ expected' = expected + 1
  BY DEF ParseExpected, HandleBody, Handle
<1> QED BY <1>2, <1>3, <1>4

LEMMA NextOrderInv == ASSUME OrderInv, [Next]_vars PROVE OrderInv'
<1>1. CASE ParseExpected
  BY <1>1, ParseExpectedInOrder
<1>2. CASE Open
  BY <1>2, Stutters DEF Open, OpenConnected, OpenInProgress, OpenUnbuilt, OpenFails, orderVars,
                        inVars
<1>3. CASE BeginRound \/ Send
  BY <1>3, Stutters DEF BeginRound, Send, SendNothing, TakeMessage, SendSome, SendFails,
                        orderVars, inVars
<1>4. CASE Read
  BY <1>4, Stutters DEF Read, Receive, ReceiveFails, ReceiveNothing, orderVars, inVars
<1>5. CASE HeartBeatNotDue \/ SendHeartBeat \/ HeartBeatBecomesDue
  BY <1>5, Stutters DEF HeartBeatNotDue, SendHeartBeat, HeartBeatBecomesDue, orderVars, inVars
<1>6. CASE ParseIncomplete \/ ParseFails \/ ParseAborts \/ ParseOld \/ ParseAhead
  BY <1>6, Stutters DEF ParseIncomplete, ParseFails, ParseAborts, ParseOld, ParseAhead,
                        orderVars, inVars
<1>7. ASSUME NEW c, AddMessage(c) PROVE OrderInv'
  BY <1>7, Stutters DEF AddMessage, LookAgain, Refused, Claim, Advance, Complete, Disconnect,
                        Close, orderVars, inVars
<1>8. ASSUME NEW request, SendRequest(request) PROVE OrderInv'
  BY <1>8, Stutters DEF SendRequest, orderVars, inVars
<1>9. CASE UNCHANGED vars
  BY <1>9, Stutters DEF vars, orderVars, inVars
<1> QED BY <1>1, <1>2, <1>3, <1>4, <1>5, <1>6, <1>7, <1>8, <1>9
        DEF Next, Gateway, Parse, KeepAlive, Engine, EngineCall

(* The program acts on the messages 1, 2, 3, ... of the broker, each once, *)
(* whatever the broker sends, however the stream is cut into pieces and    *)
(* however large the buffers are (readMessages of Session.h).              *)
THEOREM InOrder == Spec => []HandledInOrder
<1>1. Init => OrderInv
  BY InitOrderInv
<1>2. OrderInv /\ [Next]_vars => OrderInv'
  BY NextOrderInv
<1>3. OrderInv => HandledInOrder
  BY DEF OrderInv
<1> QED BY <1>1, <1>2, <1>3, PTL DEF Spec

-----------------------------------------------------------------------------
(* Induction and recursion over an interval of numbers.                    *)
LEMMA LeastOf ==
  ASSUME NEW T, T \subseteq Nat, T # {}
  PROVE  \E n \in T : \A m \in T : n <= m
<1>1. PICK Upto : Upto = {0 .. n : n \in T}
  OBVIOUS
<1>2. ASSUME NEW n \in T PROVE (0 .. n) \in SUBSET Nat /\ IsFiniteSet(0 .. n)
  <2>1. n \in Int /\ 0 \in Int
    OBVIOUS
  <2>2. IsFiniteSet(0 .. n)
    BY <2>1, FS_Interval
  <2> QED BY <2>2
<1>3. Upto # {} /\ \A U \in Upto : U \in SUBSET Nat /\ IsFiniteSet(U)
  BY <1>1, <1>2
<1>4. Upto \subseteq FiniteSubsetsOf(Nat)
  BY <1>3 DEF FiniteSubsetsOf
<1>5. PICK U \in Upto : \A V \in Upto : ~(<<V, U>> \in StrictSubsetOrdering(Nat))
  BY <1>3, <1>4, FS_StrictSubsetOrderingWellFounded, WFMin
<1>6. PICK n \in T : U = 0 .. n
  BY <1>1
<1>7. ASSUME NEW m \in T, m < n PROVE FALSE
  <2>1. 0 .. m \in Upto
    BY <1>1
  <2>2. ~(0 .. m \subseteq 0 .. n /\ 0 .. m # 0 .. n)
    BY <1>3, <1>5, <1>6, <2>1 DEF StrictSubsetOrdering
  <2>3. 0 .. m \subseteq 0 .. n /\ n \in 0 .. n /\ n \notin 0 .. m
    BY <1>7
  <2> QED BY <2>2, <2>3
<1> QED BY <1>7

(* A set that contains 0 and, with a number, the next one.                 *)
LEMMA UpTo ==
  ASSUME NEW n \in Nat, NEW S, 0 \in S,
         \A i \in 0 .. n - 1 : i \in S => i + 1 \in S
  PROVE  0 .. n \subseteq S
<1>1. PICK missing : missing = (0 .. n) \ S
  OBVIOUS
<1>2. SUFFICES ASSUME missing # {} PROVE FALSE
  BY <1>1
<1>3. missing \subseteq Nat
  BY <1>1
<1>4. PICK k \in missing : \A m \in missing : k <= m
  BY <1>2, <1>3, LeastOf
<1>5. k \in 1 .. n /\ k \notin S
  BY <1>1
<1>6. k - 1 \in 0 .. n - 1 /\ ~(k <= k - 1) /\ (k - 1) + 1 = k
  BY <1>5
<1>7. k - 1 \notin missing /\ k - 1 \in 0 .. n
  BY <1>4, <1>6
<1>8. k - 1 \in S
  BY <1>1, <1>7
<1> QED BY <1>5, <1>6, <1>8

(* What a recursion over 0 .. n computes: each of its values lies where    *)
(* the step, taken from where the value before lies, leads.                *)
Recursion(n, base, step, f) ==
  f = [i \in 0 .. n |-> IF i = 0 THEN base ELSE step[<<f[i - 1], i>>]]

LEMMA RecursionWorks ==
  ASSUME NEW n \in Nat, NEW base, NEW step, NEW T,
         base \in T[0],
         \A i \in 1 .. n : \A t \in T[i - 1] : step[<<t, i>>] \in T[i]
  PROVE  \E f : Recursion(n, base, step, f) /\ \A i \in 0 .. n : f[i] \in T[i]
<1> DEFINE Good(k, f) ==
      /\ f = [i \in 0 .. k |-> f[i]]
      /\ f[0] = base
      /\ \A i \in 1 .. k : f[i] = step[<<f[i - 1], i>>]
      /\ \A i \in 0 .. k : f[i] \in T[i]
<1>1. PICK S : S = {k \in 0 .. n : \E f : Good(k, f)}
  OBVIOUS
<1>2. 0 \in S
  <2>1. PICK f : f = [i \in 0 .. 0 |-> base]
    OBVIOUS
  <2>2. Good(0, f)
    BY <2>1
  <2> QED BY <1>1, <2>2
<1>3. ASSUME NEW k \in 0 .. n - 1, k \in S PROVE k + 1 \in S
  <2>1. PICK g : Good(k, g)
    BY <1>1, <1>3
  <2>2. PICK f : f = [i \in 0 .. k + 1 |-> IF i = k + 1 THEN step[<<g[k], k + 1>>] ELSE g[i]]
    OBVIOUS
  <2>3. k + 1 \in 1 .. n /\ (k + 1) - 1 = k /\ k \in 0 .. k
    OBVIOUS
  <2>4. f[k + 1] = step[<<g[k], k + 1>>] /\ \A i \in 0 .. k : f[i] = g[i]
    BY <2>2
  <2>5. f[k + 1] \in T[k + 1]
    BY <2>1, <2>3, <2>4
  <2>6. \A i \in 0 .. k + 1 : f[i] \in T[i]
    BY <2>1, <2>4, <2>5
  <2>7. ASSUME NEW i \in 1 .. k + 1 PROVE f[i] = step[<<f[i - 1], i>>]
    <3>1. CASE i = k + 1
      BY <2>3, <2>4, <3>1
    <3>2. CASE i # k + 1
      <4>1. i \in 1 .. k /\ i \in 0 .. k /\ i - 1 \in 0 .. k
        BY <3>2
      <4> QED BY <2>1, <2>4, <4>1
    <3> QED BY <3>1, <3>2
  <2>8. f[0] = base /\ f = [i \in 0 .. k + 1 |-> f[i]]
    BY <2>1, <2>2, <2>4
  <2>9. Good(k + 1, f)
    BY <2>6, <2>7, <2>8
  <2>10. \E h : Good(k + 1, h)
    BY <2>9
  <2> HIDE DEF Good
  <2> QED BY <1>1, <2>3, <2>10
<1>4. 0 .. n \subseteq S
  BY <1>2, <1>3, UpTo
<1>5. PICK f : Good(n, f)
  BY <1>1, <1>4
<1>6. ASSUME NEW i \in 0 .. n
      PROVE f[i] = IF i = 0 THEN base ELSE step[<<f[i - 1], i>>]
  <2>1. CASE i = 0
    BY <1>5, <2>1
  <2>2. CASE i # 0
    <3>1. i \in 1 .. n
      BY <2>2
    <3> QED BY <1>5, <2>2, <3>1
  <2> QED BY <2>1, <2>2
<1>7. Recursion(n, base, step, f)
  BY <1>5, <1>6 DEF Recursion
<1> QED BY <1>5, <1>7


-----------------------------------------------------------------------------
(* What the builder makes of a request.  A field takes some bytes.         *)
WidthsAreNat == \A tag, value : Width(tag, value) \in Nat

Wide(field) == Width(field.tag, field.value)

(* The size of the first i fields is a running total.                      *)
Totals(fields, f) ==
  f = [i \in 0 .. Len(fields) |-> IF i = 0 THEN 0 ELSE f[i - 1] + Wide(fields[i])]

LEMMA SizeIsTotal ==
  ASSUME WidthsAreNat, NEW fields, Len(fields) \in Nat
  PROVE  \E f : /\ Totals(fields, f)
                /\ \A i \in 0 .. Len(fields) : f[i] \in Nat
                /\ SizesOf(fields) = f /\ SizeOf(fields) = f[Len(fields)]
<1>1. PICK n \in Nat : n = Len(fields)
  OBVIOUS
<1>2. PICK step : step = [p \in Nat \X (1 .. n) |-> p[1] + Wide(fields[p[2]])]
  OBVIOUS
<1>3. PICK T : T = [i \in 0 .. n |-> Nat]
  OBVIOUS
<1>4. \A field : Wide(field) \in Nat
  BY DEF WidthsAreNat, Wide
<1>5. ASSUME NEW t \in Nat, NEW i \in 1 .. n
      PROVE step[<<t, i>>] = t + Wide(fields[i]) /\ step[<<t, i>>] \in Nat
  BY <1>2, <1>4
<1>6. PICK g : Recursion(n, 0, step, g) /\ \A i \in 0 .. n : g[i] \in T[i]
  <2>1. 0 \in T[0] /\ \A i \in 1 .. n : \A t \in T[i - 1] : step[<<t, i>>] \in T[i]
    BY <1>3, <1>5
  <2> QED BY <2>1, RecursionWorks
<1>7. Totals(fields, g)
  <2>1. \A i \in 0 .. n : g[i] \in Nat
    BY <1>3, <1>6
  <2>2. ASSUME NEW i \in 0 .. n
        PROVE g[i] = IF i = 0 THEN 0 ELSE g[i - 1] + Wide(fields[i])
    <3>1. CASE i = 0
      BY <1>6, <3>1 DEF Recursion
    <3>2. CASE i # 0
      <4>1. i \in 1 .. n /\ i - 1 \in 0 .. n
        BY <3>2
      <4>2. g[i] = step[<<g[i - 1], i>>]
        BY <1>6, <3>2 DEF Recursion
      <4> QED BY <1>5, <2>1, <3>2, <4>1, <4>2
    <3> QED BY <3>1, <3>2
  <2>3. g = [i \in 0 .. n |-> g[i]]
    BY <1>6 DEF Recursion
  <2> QED BY <1>1, <2>2, <2>3 DEF Totals
<1>8. PICK f : f = CHOOSE h : Totals(fields, h)
  OBVIOUS
<1>9. Totals(fields, f)
  BY <1>7, <1>8
<1>10. SizesOf(fields) = f /\ SizeOf(fields) = f[Len(fields)]
  BY <1>8 DEF SizeOf, SizesOf, Totals, Wide
<1>11. \A i \in 0 .. n : f[i] \in Nat
  <2>1. PICK S : S = {i \in 0 .. n : f[i] \in Nat}
    OBVIOUS
  <2>2. 0 \in S
    BY <1>1, <1>9, <2>1 DEF Totals
  <2>3. ASSUME NEW i \in 0 .. n - 1, i \in S PROVE i + 1 \in S
    <3>1. i + 1 \in 0 .. n /\ i + 1 # 0 /\ (i + 1) - 1 = i
      OBVIOUS
    <3>2. f[i + 1] = f[i] + Wide(fields[i + 1])
      BY <1>1, <1>9, <3>1 DEF Totals
    <3> QED BY <1>4, <2>1, <2>3, <3>1, <3>2
  <2>4. 0 .. n \subseteq S
    BY <2>2, <2>3, UpTo
  <2> QED BY <2>1, <2>4
<1> QED BY <1>1, <1>9, <1>10, <1>11

(* Messages with fields as wide take as many bytes.                        *)
LEMMA SameTotals ==
  ASSUME WidthsAreNat, NEW a, NEW b, NEW n \in Nat, NEW f, NEW g,
         Len(a) \in Nat, Len(b) \in Nat, n <= Len(a), n <= Len(b),
         Totals(a, f), Totals(b, g), \A i \in 1 .. n : Wide(a[i]) = Wide(b[i])
  PROVE  f[n] = g[n]
<1>1. PICK S : S = {i \in 0 .. n : f[i] = g[i]}
  OBVIOUS
<1>2. 0 \in S
  BY <1>1 DEF Totals
<1>3. ASSUME NEW i \in 0 .. n - 1, i \in S PROVE i + 1 \in S
  <2>1. i + 1 \in 1 .. n /\ i + 1 \in 0 .. Len(a) /\ i + 1 \in 0 .. Len(b)
        /\ i + 1 # 0 /\ (i + 1) - 1 = i
    OBVIOUS
  <2>2. f[i + 1] = f[i] + Wide(a[i + 1]) /\ g[i + 1] = g[i] + Wide(b[i + 1])
    BY <2>1 DEF Totals
  <2> QED BY <1>1, <1>3, <2>1, <2>2
<1>4. 0 .. n \subseteq S
  BY <1>2, <1>3, UpTo
<1> QED BY <1>1, <1>4

LEMMA SizeIsNat ==
  ASSUME WidthsAreNat, NEW fields, Len(fields) \in Nat
  PROVE  SizeOf(fields) \in Nat
<1>1. PICK f : /\ \A i \in 0 .. Len(fields) : f[i] \in Nat
               /\ SizeOf(fields) = f[Len(fields)]
  BY SizeIsTotal
<1> QED BY <1>1

(* A message that leaves a byte of the buffer fits with all its fields.    *)
LEMMA SmallFits ==
  ASSUME WidthsAreNat, NEW fields, Len(fields) \in Nat, SizeOf(fields) < BufferSize
  PROVE  Fits(fields)
<1>1. PICK f : /\ Totals(fields, f)
               /\ \A i \in 0 .. Len(fields) : f[i] \in Nat
               /\ SizesOf(fields) = f /\ SizeOf(fields) = f[Len(fields)]
  BY SizeIsTotal
<1>2. PICK n \in Nat : n = Len(fields)
  OBVIOUS
<1>3. PICK S : S = {i \in 0 .. n : \A j \in 0 .. i : f[j] <= f[i]}
  OBVIOUS
<1>4. 0 \in S
  <2>1. f[0] <= f[0] /\ \A j \in 0 .. 0 : j = 0
    BY <1>1, <1>2
  <2> QED BY <1>3, <2>1
<1>5. ASSUME NEW i \in 0 .. n - 1, i \in S PROVE i + 1 \in S
  <2>1. i + 1 \in 0 .. n /\ i + 1 # 0 /\ (i + 1) - 1 = i /\ i \in 0 .. n
    OBVIOUS
  <2>2. f[i + 1] = f[i] + Wide(fields[i + 1])
    BY <1>1, <1>2, <2>1 DEF Totals
  <2>3. Wide(fields[i + 1]) \in Nat
    BY DEF WidthsAreNat, Wide
  <2>4. f[i] \in Nat /\ f[i + 1] \in Nat
    BY <1>1, <1>2, <2>1
  <2>5. ASSUME NEW j \in 0 .. i + 1 PROVE f[j] <= f[i + 1]
    <3>1. CASE j = i + 1
      BY <2>4, <3>1
    <3>2. CASE j # i + 1
      <4>1. j \in 0 .. i /\ j \in 0 .. n
        BY <3>2
      <4>2. f[j] <= f[i] /\ f[j] \in Nat
        BY <1>1, <1>2, <1>3, <1>5, <4>1
      <4> QED BY <2>2, <2>3, <2>4, <4>2
    <3> QED BY <3>1, <3>2
  <2> QED BY <1>3, <2>1, <2>5
<1>6. n \in S
  <2>1. \A i \in 0 .. n - 1 : i \in S => i + 1 \in S
    BY <1>5
  <2>2. n \in 0 .. n
    OBVIOUS
  <2> QED BY <1>4, <2>1, <2>2, UpTo
<1>7. ASSUME NEW i \in 1 .. Len(fields)
      PROVE  SizesOf(fields)[i] <= BufferSize - Spare(fields[i].tag)
  <2>1. i \in 0 .. n
    BY <1>2
  <2>2. f[i] \in Nat /\ f[n] \in Nat /\ f[i] <= f[n] /\ f[n] < BufferSize
    BY <1>1, <1>2, <1>3, <1>6, <2>1
  <2>3. Spare(fields[i].tag) \in {0, 1} /\ BufferSize \in Nat
    BY BuilderAssumption DEF Spare
  <2>4. f[i] <= BufferSize - Spare(fields[i].tag)
    BY <2>2, <2>3
  <2> QED BY <1>1, <2>4
<1> QED BY <1>7 DEF Fits

LEMMA SameSize ==
  ASSUME WidthsAreNat, NEW a, NEW b, Len(a) \in Nat, Len(b) = Len(a),
         \A i \in 1 .. Len(a) : Wide(a[i]) = Wide(b[i])
  PROVE  SizeOf(a) = SizeOf(b)
<1>1. PICK f : Totals(a, f) /\ SizeOf(a) = f[Len(a)]
  BY SizeIsTotal
<1>2. PICK g : Totals(b, g) /\ SizeOf(b) = g[Len(b)]
  BY SizeIsTotal
<1> QED BY <1>1, <1>2, SameTotals

LEMMA SizeAppends ==
  ASSUME WidthsAreNat, NEW Any, NEW a \in Seq(Any), NEW field
  PROVE  SizeOf(Append(a, field)) = SizeOf(a) + Wide(field)
<1>1. PICK b : b = Append(a, field)
  OBVIOUS
<1>2. /\ Len(a) \in Nat /\ Len(b) = Len(a) + 1 /\ b[Len(b)] = field
      /\ \A i \in 1 .. Len(a) : b[i] = a[i]
  BY <1>1, SeqGrows
<1>3. PICK f : Totals(a, f) /\ SizeOf(a) = f[Len(a)]
  BY <1>2, SizeIsTotal
<1>4. PICK g : Totals(b, g) /\ SizeOf(b) = g[Len(b)]
  BY <1>2, SizeIsTotal
<1>5. Len(b) \in 0 .. Len(b) /\ Len(b) # 0 /\ Len(b) - 1 = Len(a)
  BY <1>2
<1>6. g[Len(b)] = g[Len(a)] + Wide(b[Len(b)])
  BY <1>4, <1>5 DEF Totals
<1>7. f[Len(a)] = g[Len(a)]
  <2>1. \A i \in 1 .. Len(a) : Wide(a[i]) = Wide(b[i])
    BY <1>2
  <2>2. Len(a) <= Len(a) /\ Len(a) <= Len(b) /\ Len(b) \in Nat
    BY <1>2
  <2> QED BY <1>2, <1>3, <1>4, <2>1, <2>2, SameTotals
<1> QED BY <1>1, <1>2, <1>3, <1>4, <1>6, <1>7

-----------------------------------------------------------------------------
(* The fields of a message that was built, and of one that is sent.        *)
LEMMA LayoutTypes ==
  ASSUME NEW type \in DOMAIN Layout
  PROVE  /\ Len(Layout[type]) \in Nat
         /\ Required[type] \subseteq
              {Layout[type][i] : i \in 1 .. Len(Layout[type])} \cup {"OrderType"}
         /\ \A i \in 1 .. Len(Layout[type]) :
              LET tag == Layout[type][i]
              IN /\ tag \in DOMAIN FixTypesOf =>
                      tag \in Required[type] \/ (type = "LOGON" /\ tag = "ResetSeqNumFlag")
                 /\ tag = "Price" => "Price" \in Required[type]
                 /\ tag = "StopPx" => type \in {"NEW_ORDER_SINGLE", "ORDER_REPLACE"}
                 /\ type = "HEART_BEAT" => tag = "TestReqID"
<1>0. DOMAIN FixTypesOf = {"UpdateType", "EntryType", "ResetSeqNumFlag",
                           "SubscriptionRequestType", "Side", "OrderType", "TimeInForce"}
  BY DEF FixTypesOf
<1>1. type \in {"LOGON", "HEART_BEAT", "MARKET_DATA_REQUEST", "NEW_ORDER_SINGLE",
                "ORDER_REPLACE", "ORDER_CANCEL"}
  BY DEF Layout
<1>2. CASE type = "LOGON"
  BY <1>0, <1>2 DEF Layout, Required, LogonFields
<1>3. CASE type = "HEART_BEAT"
  BY <1>0, <1>3 DEF Layout, Required, HeartBeatFields
<1>4. CASE type = "MARKET_DATA_REQUEST"
  <2>1. Layout[type] = MarketDataRequestFields /\ Required[type] =
          {"ReqID", "Symbols", "SubscriptionRequestType", "UpdateType"}
    BY <1>4 DEF Layout, Required
  <2> QED BY <1>0, <1>4, <2>1 DEF MarketDataRequestFields
<1>5. CASE type = "NEW_ORDER_SINGLE"
  <2>1. Layout[type] = NewOrderFields /\ Required[type] =
          {"ClOrdID", "Symbol", "Side", "TransactionTime", "OrderQty", "Price", "OrderType",
           "TimeInForce"}
    BY <1>5 DEF Layout, Required
  <2> QED BY <1>0, <1>5, <2>1 DEF NewOrderFields
<1>6. CASE type = "ORDER_REPLACE"
  <2>1. Layout[type] = ReplaceFields /\ Required[type] =
          {"ClOrdID", "OrigClOrdID", "Symbol", "Side", "TransactionTime", "OrderQty", "Price",
           "OrderType", "TimeInForce"}
    BY <1>6 DEF Layout, Required
  <2> QED BY <1>0, <1>6, <2>1 DEF ReplaceFields
<1>7. CASE type = "ORDER_CANCEL"
  <2>1. Layout[type] = CancelFields /\ Required[type] =
          {"ClOrdID", "OrigClOrdID", "Symbol", "Side", "TransactionTime", "OrderQty"}
    BY <1>7 DEF Layout, Required
  <2> QED BY <1>0, <1>7, <2>1 DEF CancelFields
<1> QED BY <1>1, <1>2, <1>3, <1>4, <1>5, <1>6, <1>7

(* After the header come the fields that are present, in some order.       *)
BodyField(type, request, field) ==
  \E i \in 1 .. Len(Layout[type]) :
    Present(type, request, Layout[type][i]) /\ field = FieldFor(type, request, Layout[type][i])

Built(type, request, s) ==
  /\ \E Any : s \in Seq(Any)
  /\ Len(s) >= 2
  /\ s[1] = HeaderFields(type, 0)[1] /\ s[2] = HeaderFields(type, 0)[2]
  /\ \A k \in 3 .. Len(s) : BodyField(type, request, s[k])

HasTag(s, tag) == \E k \in 1 .. Len(s) : s[k].tag = tag

(* All the fields the first i of the layout call for.                      *)
HasFirst(type, request, i, s) ==
  \A j \in 1 .. i : Present(type, request, Layout[type][j]) => HasTag(s, Layout[type][j])

LEMMA HeaderIsBuilt ==
  ASSUME NEW type, NEW request
  PROVE  Built(type, request, HeaderFields(type, 0))
<1>1. PICK h : h = HeaderFields(type, 0)
  OBVIOUS
<1>2. Len(h) = 2 /\ h \in Seq({h[1], h[2]})
  BY <1>1 DEF HeaderFields
<1>3. 3 .. Len(h) = {}
  BY <1>2
<1> QED BY <1>1, <1>2, <1>3 DEF Built

LEMMA OneMoreField ==
  ASSUME NEW type, NEW request, NEW s, Built(type, request, s),
         NEW i \in 1 .. Len(Layout[type]), Len(Layout[type]) \in Nat,
         HasFirst(type, request, i - 1, s), Present(type, request, Layout[type][i])
  PROVE  /\ Built(type, request, Append(s, FieldFor(type, request, Layout[type][i])))
         /\ HasFirst(type, request, i, Append(s, FieldFor(type, request, Layout[type][i])))
<1>1. PICK field : field = FieldFor(type, request, Layout[type][i])
  OBVIOUS
<1>2. PICK Any : s \in Seq(Any)
  BY DEF Built
<1>3. PICK t : t = Append(s, field)
  OBVIOUS
<1>4. /\ t \in Seq(Any \cup {field})
      /\ Len(s) \in Nat /\ Len(t) = Len(s) + 1
      /\ \A k \in 1 .. Len(s) : t[k] = s[k]
      /\ t[Len(s) + 1] = field
  BY <1>2, <1>3, SeqGrows
<1>5. Len(s) >= 2
  BY DEF Built
<1>6. \A k \in 3 .. Len(t) : BodyField(type, request, t[k])
  <2>1. BodyField(type, request, field)
    BY <1>1 DEF BodyField
  <2>2. ASSUME NEW k \in 3 .. Len(t) PROVE BodyField(type, request, t[k])
    <3>1. CASE k = Len(s) + 1
      BY <1>4, <2>1, <3>1
    <3>2. CASE k # Len(s) + 1
      <4>1. k \in 3 .. Len(s) /\ k \in 1 .. Len(s)
        BY <1>4, <3>2
      <4> QED BY <1>4, <4>1 DEF Built
    <3> QED BY <3>1, <3>2
  <2> QED BY <2>2
<1>7. t[1] = s[1] /\ t[2] = s[2] /\ Len(t) >= 2
  BY <1>4, <1>5
<1>8. Built(type, request, t)
  BY <1>4, <1>6, <1>7 DEF Built
<1>9. ASSUME NEW j \in 1 .. i, Present(type, request, Layout[type][j])
      PROVE HasTag(t, Layout[type][j])
  <2>1. CASE j = i
    <3>1. field.tag = Layout[type][j] /\ Len(s) + 1 \in 1 .. Len(t)
      BY <1>1, <1>4, <2>1 DEF FieldFor
    <3> QED BY <1>4, <3>1 DEF HasTag
  <2>2. CASE j # i
    <3>1. j \in 1 .. i - 1
      BY <2>2
    <3>2. PICK k \in 1 .. Len(s) : s[k].tag = Layout[type][j]
      BY <1>9, <3>1 DEF HasFirst, HasTag
    <3>3. k \in 1 .. Len(t) /\ t[k].tag = Layout[type][j]
      BY <1>4, <3>2
    <3> QED BY <3>3 DEF HasTag
  <2> QED BY <2>1, <2>2
<1>10. HasFirst(type, request, i, t)
  BY <1>9 DEF HasFirst
<1> QED BY <1>1, <1>3, <1>8, <1>10

LEMMA FieldsAreBuilt ==
  ASSUME NEW type \in DOMAIN Layout, NEW request
  PROVE  /\ Built(type, request, FieldsOf(type, request))
         /\ HasFirst(type, request, Len(Layout[type]), FieldsOf(type, request))
<1> DEFINE next(s, i) == IF Present(type, request, Layout[type][i])
                         THEN Append(s, FieldFor(type, request, Layout[type][i])) ELSE s
           upTo(f, m) == f = [i \in 0 .. m |-> IF i = 0 THEN HeaderFields(type, 0)
                                               ELSE next(f[i - 1], i)]
           good(i, s) == Built(type, request, s) /\ HasFirst(type, request, i, s)
<1>1. PICK n \in Nat : n = Len(Layout[type])
  BY LayoutTypes
<1>2. good(0, HeaderFields(type, 0))
  BY HeaderIsBuilt DEF HasFirst
<1>3. ASSUME NEW i \in 1 .. n, NEW s, good(i - 1, s) PROVE good(i, next(s, i))
  <2>1. CASE Present(type, request, Layout[type][i])
    BY <1>1, <1>3, <2>1, OneMoreField
  <2>2. CASE ~Present(type, request, Layout[type][i])
    <3>1. next(s, i) = s
      BY <2>2
    <3>2. \A j \in 1 .. i : j = i \/ j \in 1 .. i - 1
      OBVIOUS
    <3> QED BY <1>3, <2>2, <3>1, <3>2 DEF HasFirst
  <2> QED BY <2>1, <2>2
<1> HIDE DEF good
<1>4. \E f : upTo(f, n)
  <2>1. PICK Any : Any = {FieldFor(type, request, Layout[type][i]) : i \in 1 .. n}
                         \cup {HeaderFields(type, 0)[i] : i \in 1 .. 2}
    OBVIOUS
  <2>2. HeaderFields(type, 0) \in Seq(Any)
    <3>1. HeaderFields(type, 0)[1] \in Any /\ HeaderFields(type, 0)[2] \in Any
      BY <2>1
    <3>2. HeaderFields(type, 0) = <<HeaderFields(type, 0)[1], HeaderFields(type, 0)[2]>>
      BY DEF HeaderFields
    <3>3. \A a, b \in Any : <<a, b>> \in Seq(Any)
      OBVIOUS
    <3> QED BY <3>1, <3>2, <3>3
  <2>3. PICK step : step = [p \in Seq(Any) \X (1 .. n) |-> next(p[1], p[2])]
    OBVIOUS
  <2>4. ASSUME NEW s \in Seq(Any), NEW i \in 1 .. n
        PROVE step[<<s, i>>] = next(s, i) /\ next(s, i) \in Seq(Any)
    <3>1. FieldFor(type, request, Layout[type][i]) \in Any
      BY <2>1
    <3>2. next(s, i) \in Seq(Any)
      BY <3>1
    <3> HIDE DEF next
    <3>3. step[<<s, i>>] = next(s, i)
      BY <2>3
    <3> QED BY <3>2, <3>3
  <2>5. PICK T : T = [i \in 0 .. n |-> Seq(Any)]
    OBVIOUS
  <2> HIDE DEF next
  <2>6. /\ HeaderFields(type, 0) \in T[0]
        /\ \A i \in 1 .. n : \A s \in T[i - 1] : step[<<s, i>>] \in T[i]
    BY <2>2, <2>4, <2>5
  <2>7. PICK g : /\ Recursion(n, HeaderFields(type, 0), step, g)
                 /\ \A i \in 0 .. n : g[i] \in T[i]
    BY <2>6, RecursionWorks
  <2>8. ASSUME NEW i \in 0 .. n
        PROVE g[i] = IF i = 0 THEN HeaderFields(type, 0) ELSE next(g[i - 1], i)
    <3>1. CASE i = 0
      BY <2>7, <3>1 DEF Recursion
    <3>2. CASE i # 0
      <4>1. i \in 1 .. n /\ i - 1 \in 0 .. n
        BY <3>2
      <4>2. g[i] = step[<<g[i - 1], i>>] /\ g[i - 1] \in Seq(Any)
        BY <2>5, <2>7, <3>2, <4>1 DEF Recursion
      <4> QED BY <2>4, <3>2, <4>1, <4>2
    <3> QED BY <3>1, <3>2
  <2>9. g = [i \in 0 .. n |-> g[i]]
    BY <2>7 DEF Recursion
  <2>10. upTo(g, n)
    BY <2>8, <2>9
  <2> HIDE DEF upTo
  <2> QED BY <2>10
<1>5. PICK f : f = CHOOSE h : upTo(h, n)
  OBVIOUS
<1>6. upTo(f, n)
  <2> HIDE DEF upTo
  <2> QED BY <1>4, <1>5
<1>7. FieldsOf(type, request) = f[n]
  BY <1>1, <1>5 DEF FieldsOf
<1>8. PICK S : S = {i \in 0 .. n : good(i, f[i])}
  OBVIOUS
<1> HIDE DEF next
<1>9. 0 \in S
  <2>1. f[0] = HeaderFields(type, 0)
    BY <1>6
  <2> QED BY <1>2, <1>8, <2>1
<1>10. ASSUME NEW i \in 0 .. n - 1, i \in S PROVE i + 1 \in S
  <2>1. i + 1 \in 0 .. n /\ i + 1 \in 1 .. n /\ i + 1 # 0 /\ (i + 1) - 1 = i
    OBVIOUS
  <2>2. f[i + 1] = next(f[i], i + 1)
    BY <1>6, <2>1
  <2>3. good((i + 1) - 1, f[i])
    BY <1>8, <1>10, <2>1
  <2>4. good(i + 1, next(f[i], i + 1))
    BY <1>3, <2>1, <2>3
  <2> QED BY <1>8, <2>1, <2>2, <2>4
<1>11. 0 .. n \subseteq S
  BY <1>9, <1>10, UpTo
<1>12. good(n, f[n])
  BY <1>8, <1>11
<1> QED BY <1>1, <1>7, <1>12 DEF good

-----------------------------------------------------------------------------
(* What is asked for, by the program and by the session itself.            *)
Asked(type, request) ==
  \/ type = "LOGON" /\ request \in LogonRequests
  \/ type = "HEART_BEAT" /\ DOMAIN request = {"TestReqID"}
  \/ \E r \in Requests : type = r.type /\ request = r.request

LEMMA AskedTypes ==
  ASSUME NEW type, NEW request, Asked(type, request)
  PROVE  /\ type \in DOMAIN Layout
         /\ type = "LOGON" => IsSet(request, "ResetSeqNumFlag")
         /\ {"MsgType", "MsgSeqNum", "CheckSum"} \cap DOMAIN request = {}
         /\ type # "HEART_BEAT" =>
              \A a \in DOMAIN request : IsSet(request, a) =>
                /\ a \in DOMAIN FixTypesOf => request[a] \in FixTypesOf[a]
                /\ a \in {"Price", "StopPx"} => request[a] \in Int
<1>1. CASE type = "LOGON" /\ request \in LogonRequests
  BY <1>1, RequestsAssumption DEF Layout
<1>2. CASE type = "HEART_BEAT" /\ DOMAIN request = {"TestReqID"}
  BY <1>2 DEF Layout
<1>3. ASSUME NEW r \in Requests, type = r.type, request = r.request
      PROVE  /\ type \in DOMAIN Layout \ {"LOGON"}
             /\ {"MsgType", "MsgSeqNum", "CheckSum"} \cap DOMAIN request = {}
             /\ \A a \in DOMAIN request : IsSet(request, a) =>
                  /\ a \in DOMAIN FixTypesOf => request[a] \in FixTypesOf[a]
                  /\ a \in {"Price", "StopPx"} => request[a] \in Int
  BY <1>3, RequestsAssumption
<1> QED BY <1>1, <1>2, <1>3 DEF Asked

(* A field of the body of a request that can be written says what it does. *)
LEMMA BodySaysAsAsked ==
  ASSUME NEW type, NEW request, Asked(type, request), HasRequired(type, request),
         CanBeWritten(type, request),
         NEW field, BodyField(type, request, field), field.tag \in DOMAIN request
  PROVE  field.ok /\ field.value = request[field.tag]
<1>1. PICK i \in 1 .. Len(Layout[type]) :
        /\ Present(type, request, Layout[type][i])
        /\ field = FieldFor(type, request, Layout[type][i])
  BY DEF BodyField
<1>2. PICK tag : tag = Layout[type][i]
  OBVIOUS
<1>3. PICK v : v = IF IsSet(request, SourceOf(type, tag))
                   THEN request[SourceOf(type, tag)] ELSE Unset
  OBVIOUS
<1>4. field.tag = tag /\ field.value = toFixType(tag, v) /\ field.ok = WellWritten(tag, v)
  BY <1>1, <1>2, <1>3 DEF FieldFor
<1>5. type \in DOMAIN Layout
  BY AskedTypes
<1>6. /\ tag \in DOMAIN FixTypesOf =>
           tag \in Required[type] \/ (type = "LOGON" /\ tag = "ResetSeqNumFlag")
      /\ tag = "Price" => "Price" \in Required[type]
      /\ tag = "StopPx" => type \in {"NEW_ORDER_SINGLE", "ORDER_REPLACE"}
      /\ type = "HEART_BEAT" => tag = "TestReqID"
  BY <1>1, <1>2, <1>5, LayoutTypes
<1>7. \A a \in Required[type] : IsSet(request, a)
  BY DEF HasRequired
<1>8. /\ "Price" \notin DOMAIN FixTypesOf /\ "StopPx" \notin DOMAIN FixTypesOf
      /\ "TestReqID" \notin DOMAIN FixTypesOf
  BY DEF FixTypesOf
<1>9. SourceOf(type, tag) = tag
  <2>1. CASE type = "NEW_ORDER_SINGLE" /\ tag = "StopPx"
    BY <1>1, <1>2, <2>1 DEF CanBeWritten
  <2> QED BY <2>1 DEF SourceOf
<1>10. field.value = request[tag]
  <2>1. CASE tag \notin DOMAIN FixTypesOf
    BY <1>3, <1>4, <1>9, <2>1 DEF toFixType, IsSet
  <2>2. CASE tag \in DOMAIN FixTypesOf
    <3>1. IsSet(request, tag) /\ type # "HEART_BEAT"
      BY <1>6, <1>7, <1>8, <2>2, AskedTypes
    <3>2. request[tag] \in FixTypesOf[tag]
      BY <1>4, <2>2, <3>1, AskedTypes
    <3> QED BY <1>3, <1>4, <1>9, <3>1, <3>2 DEF toFixType
  <2> QED BY <2>1, <2>2
<1>11. field.ok
  <2>1. CASE tag \in {"Price", "StopPx"}
    <3>1. IsSet(request, tag)
      <4>1. CASE tag = "Price"
        BY <1>6, <1>7, <4>1
      <4>2. CASE tag = "StopPx"
        BY <1>1, <1>2, <4>2 DEF Present
      <4> QED BY <2>1, <4>1, <4>2
    <3>2. v = request[tag] /\ request[tag] >= SmallestWritten
      BY <1>3, <1>9, <2>1, <3>1 DEF CanBeWritten
    <3> QED BY <1>4, <3>2 DEF WellWritten
  <2>2. CASE tag \notin {"Price", "StopPx"}
    BY <1>4, <2>2 DEF WellWritten
  <2> QED BY <2>1, <2>2
<1> QED BY <1>4, <1>10, <1>11

(* What sending it makes of the fields of a message.                       *)
WithNumber(f, n) == [f EXCEPT ![2].value = n]

LEMMA Numbered ==
  ASSUME NEW Any, NEW f \in Seq(Any), Len(f) >= 2, NEW n, NEW a, NEW b, NEW c,
         f[2] = [tag |-> a, value |-> b, ok |-> c],
         NEW g, g = WithNumber(f, n)
  PROVE  /\ \E Some : g \in Seq(Some)
         /\ Len(g) = Len(f)
         /\ g[2] = [tag |-> a, value |-> n, ok |-> c]
         /\ \A k \in 1 .. Len(f) : g[k].tag = f[k].tag /\ (k # 2 => g[k] = f[k])
<1>1. PICK h : h = [tag |-> a, value |-> n, ok |-> c]
  OBVIOUS
<1>2. h = [f[2] EXCEPT !.value = n] /\ h.tag = f[2].tag
  BY <1>1
<1>3. g = [f EXCEPT ![2] = h]
  BY <1>2 DEF WithNumber
<1>4. g \in Seq(Any \cup {h}) /\ Len(g) = Len(f)
  BY <1>3
<1>5. g[2] = h /\ \A k \in 1 .. Len(f) : k # 2 => g[k] = f[k]
  BY <1>3, <1>4
<1> QED BY <1>1, <1>2, <1>4, <1>5

FieldOfSent(type, request, field) ==
  BodyField(type, request, field) \/ field \in {CheckSumField, CheckSumCut}

LEMMA Finalized ==
  ASSUME WidthsAreNat, NEW type \in DOMAIN Layout, NEW request, NEW n \in Nat,
         NEW s, s = finalizeOutMessage(FieldsOf(type, request), n)
  PROVE  /\ \E Any : s \in Seq(Any)
         /\ Len(s) >= 2
         /\ s[1] = [tag |-> "MsgType", value |-> type, ok |-> TRUE]
         /\ s[2] = [tag |-> "MsgSeqNum", value |-> IF n <= LargestSeqNum THEN n ELSE 0,
                    ok |-> TRUE]
         /\ \A k \in 3 .. Len(s) : FieldOfSent(type, request, s[k])
         /\ HasFirst(type, request, Len(Layout[type]), s)
         /\ n <= LargestSeqNum /\ HasRoom(type, request) => s[Len(s)] = CheckSumField
<1>1. PICK f : f = FieldsOf(type, request)
  OBVIOUS
<1>2. Built(type, request, f) /\ HasFirst(type, request, Len(Layout[type]), f)
  BY <1>1, FieldsAreBuilt
<1>3. PICK Any : f \in Seq(Any)
  BY <1>2 DEF Built
<1>4. /\ Len(f) \in Nat /\ Len(f) >= 2
      /\ f[1] = [tag |-> "MsgType", value |-> type, ok |-> TRUE]
      /\ f[2] = [tag |-> "MsgSeqNum", value |-> 0, ok |-> TRUE]
      /\ \A k \in 3 .. Len(f) : BodyField(type, request, f[k])
  BY <1>2, <1>3 DEF Built, HeaderFields
<1>5. PICK g : g = WithNumber(f, n)
  OBVIOUS
<1>6. /\ \E Some : g \in Seq(Some)
      /\ Len(g) = Len(f)
      /\ g[2] = [tag |-> "MsgSeqNum", value |-> n, ok |-> TRUE]
      /\ \A k \in 1 .. Len(f) : g[k].tag = f[k].tag /\ (k # 2 => g[k] = f[k])
  <2>1. PICK a, b, c : a = "MsgSeqNum" /\ b = 0 /\ c = TRUE
    OBVIOUS
  <2>2. f[2] = [tag |-> a, value |-> b, ok |-> c]
    BY <1>4, <2>1
  <2>3. /\ \E Some : g \in Seq(Some)
        /\ Len(g) = Len(f)
        /\ g[2] = [tag |-> a, value |-> n, ok |-> c]
        /\ \A k \in 1 .. Len(f) : g[k].tag = f[k].tag /\ (k # 2 => g[k] = f[k])
    BY <1>3, <1>4, <1>5, <2>2, Numbered
  <2> QED BY <2>1, <2>3
<1>7. /\ g[1] = f[1]
      /\ \A k \in 3 .. Len(g) : BodyField(type, request, g[k])
      /\ HasFirst(type, request, Len(Layout[type]), g)
  <2>1. g[1] = f[1]
    BY <1>4, <1>6
  <2>2. \A k \in 3 .. Len(g) : g[k] = f[k]
    BY <1>4, <1>6
  <2>3. \A tag : HasTag(f, tag) => HasTag(g, tag)
    BY <1>6 DEF HasTag
  <2>4. HasFirst(type, request, Len(Layout[type]), g)
    BY <1>2, <2>3 DEF HasFirst
  <2> QED BY <1>4, <1>6, <2>1, <2>2, <2>4
<1>8. LargestSeqNum \in Nat /\ BufferSize \in Nat
  BY BuilderAssumption
<1>9. CASE n > LargestSeqNum
  <2>1. s = f /\ ~(n <= LargestSeqNum)
    BY <1>1, <1>8, <1>9 DEF finalizeOutMessage, WithNumber
  <2> QED BY <1>2, <1>3, <1>4, <2>1 DEF FieldOfSent
<1>10. PICK whole : whole = Append(g, CheckSumField)
  OBVIOUS
<1>11. ASSUME ~(n > LargestSeqNum)
       PROVE  /\ n <= LargestSeqNum
              /\ s = whole \/ s = Append(g, CheckSumCut) \/ s = g
              /\ Fits(whole) => s = whole
  BY <1>1, <1>5, <1>8, <1>10, <1>11 DEF finalizeOutMessage, WithNumber
<1>12. ASSUME ~(n > LargestSeqNum), HasRoom(type, request) PROVE s = whole
  <2>1. PICK Some : g \in Seq(Some)
    BY <1>6
  <2>2. SizeOf(whole) = SizeOf(g) + Wide(CheckSumField)
    BY <1>10, <2>1, SizeAppends
  <2>3. SizeOf(f) \in Nat /\ Wide(CheckSumField) = Width("CheckSum", Unset)
        /\ Width("CheckSum", Unset) \in Nat
    BY <1>4, SizeIsNat DEF Wide, CheckSumField, WidthsAreNat
  <2>4. SizeOf(f) = SizeOf(g)
    <3>1. Wide(f[2]) = Wide(g[2])
      <4>1. Wide(f[2]) = Width("MsgSeqNum", 0) /\ Wide(g[2]) = Width("MsgSeqNum", n)
        BY <1>4, <1>6 DEF Wide
      <4>2. n \in 0 .. LargestSeqNum
        BY <1>8, <1>12
      <4> QED BY <4>1, <4>2, BuilderAssumption
    <3>2. \A k \in 1 .. Len(f) : Wide(f[k]) = Wide(g[k])
      BY <1>6, <3>1
    <3> QED BY <1>4, <1>6, <3>2, SameSize
  <2>5. SizeOf(whole) < BufferSize
    BY <1>1, <1>12, <2>2, <2>3, <2>4 DEF HasRoom
  <2>6. Len(whole) \in Nat
    BY <1>10, <2>1
  <2> QED BY <1>11, <1>12, <2>5, <2>6, SmallFits
<1>13. ASSUME NEW last \in {CheckSumField, CheckSumCut}, s = Append(g, last), n <= LargestSeqNum,
              last = CheckSumField \/ ~HasRoom(type, request)
       PROVE  /\ \E Some : s \in Seq(Some)
              /\ Len(s) >= 2 /\ s[1] = g[1] /\ s[2] = g[2]
              /\ \A k \in 3 .. Len(s) : FieldOfSent(type, request, s[k])
              /\ HasFirst(type, request, Len(Layout[type]), s)
              /\ HasRoom(type, request) => s[Len(s)] = CheckSumField
  <2>2. PICK Some : g \in Seq(Some)
    BY <1>6
  <2>3. /\ s \in Seq(Some \cup {last})
        /\ Len(g) \in Nat /\ Len(s) = Len(g) + 1
        /\ \A k \in 1 .. Len(g) : s[k] = g[k]
        /\ s[Len(g) + 1] = last
    BY <1>13, <2>2, SeqGrows
  <2>4. s[1] = g[1] /\ s[2] = g[2] /\ Len(s) >= 2
    BY <1>4, <1>6, <2>3
  <2>5. ASSUME NEW k \in 3 .. Len(s) PROVE FieldOfSent(type, request, s[k])
    <3>1. CASE k = Len(g) + 1
      BY <1>13, <2>3, <3>1 DEF FieldOfSent
    <3>2. CASE k # Len(g) + 1
      <4>1. k \in 3 .. Len(g) /\ k \in 1 .. Len(g)
        BY <2>3, <3>2
      <4> QED BY <1>7, <2>3, <4>1 DEF FieldOfSent
    <3> QED BY <3>1, <3>2
  <2>6. \A tag : HasTag(g, tag) => HasTag(s, tag)
    BY <2>3 DEF HasTag
  <2>7. HasFirst(type, request, Len(Layout[type]), s)
    BY <1>7, <2>6 DEF HasFirst
  <2> QED BY <1>13, <2>3, <2>4, <2>5, <2>7
<1>14. CASE ~(n > LargestSeqNum) /\ s = whole
  <2>1. n <= LargestSeqNum
    BY <1>11, <1>14
  <2>2. CheckSumField \in {CheckSumField, CheckSumCut} /\ s = Append(g, CheckSumField)
    BY <1>10, <1>14
  <2> QED BY <1>4, <1>6, <1>7, <1>13, <2>1, <2>2
<1>15. CASE ~(n > LargestSeqNum) /\ s # whole /\ s = Append(g, CheckSumCut)
  <2>1. n <= LargestSeqNum /\ ~HasRoom(type, request)
    BY <1>11, <1>12, <1>15
  <2>2. CheckSumCut \in {CheckSumField, CheckSumCut}
    OBVIOUS
  <2> QED BY <1>4, <1>6, <1>7, <1>13, <1>15, <2>1, <2>2
<1>16. CASE ~(n > LargestSeqNum) /\ s # whole /\ s = g
  <2>1. n <= LargestSeqNum /\ ~HasRoom(type, request)
    BY <1>11, <1>12, <1>16
  <2> QED BY <1>4, <1>6, <1>7, <1>16, <2>1 DEF FieldOfSent
<1> QED BY <1>9, <1>11, <1>14, <1>15, <1>16

-----------------------------------------------------------------------------
(* The ring of built messages, the threads that write into it, the message *)
(* that is being sent, and what was sent, as an invariant.                 *)
IsSeq(s) == \E Any : s \in Seq(Any)

(* A slot that is in use and a message that was numbered say what was      *)
(* asked for.                                                              *)
SlotBuilt(slot) ==
  /\ slot = [state |-> slot.state, type |-> slot.type, request |-> slot.request,
             fields |-> slot.fields]
  /\ slot.state \in {"free", "writing", "abandoned", "valid", "reading"}
  /\ slot.state # "free" =>
       /\ Asked(slot.type, slot.request)
       /\ slot.fields = FieldsOf(slot.type, slot.request)
  /\ slot.state \in {"valid", "reading"} => HasRequired(slot.type, slot.request)

MessageBuilt(message, n) ==
  /\ Asked(message.type, message.request)
  /\ HasRequired(message.type, message.request)
  /\ message.fields = finalizeOutMessage(FieldsOf(message.type, message.request), n)

RingInv ==
  /\ outQueue = [s \in Slots |-> outQueue[s]]
  /\ \A s \in Slots : SlotBuilt(outQueue[s])
  /\ writeIndex \in Slots /\ readIndex \in Slots

(* A thread that has claimed a slot finds it as it left it, and no other   *)
(* thread has it.                                                          *)
CallBuilt(call) ==
  /\ call = [at |-> call.at, slot |-> call.slot, type |-> call.type, request |-> call.request]
  /\ call.at \in {"out", "claim", "advance", "build", "close"}
  /\ call.slot \in Slots
  /\ call.at = "claim" => Asked(call.type, call.request)

Owns(call) == call.at \in {"advance", "build"}

CallerInv ==
  /\ caller = [c \in Callers |-> caller[c]]
  /\ \A c \in Callers : CallBuilt(caller[c])
  /\ \A c \in Callers : Owns(caller[c]) => outQueue[caller[c].slot].state = "writing"
  /\ \A c, d \in Callers :
       c # d /\ Owns(caller[c]) /\ Owns(caller[d]) => caller[c].slot # caller[d].slot
  /\ caller["gateway"].at # "out" <=> gateway = "queueing"

SentInv ==
  /\ IsSeq(sent)
  /\ msgSeqNum = Len(sent)
  /\ \A n \in 1 .. Len(sent) : MessageBuilt(sent[n], n)

(* A message keeps its slot until all of it is sent.                       *)
CurrentInv ==
  \/ current = NoMessage
  \/ /\ current = [slot |-> current.slot, fields |-> current.fields, sent |-> current.sent]
     /\ current.slot \in Slots /\ outQueue[current.slot].state = "reading"
     /\ msgSeqNum # 0
     /\ current.fields = sent[msgSeqNum].fields
     /\ current.sent \in Nat
     /\ current.sent = 0 \/ current.sent < SizeOf(current.fields)

(* The byte that is sent next.                                             *)
Upcoming ==
  IF current = NoMessage THEN <<msgSeqNum + 1, 1>> ELSE <<msgSeqNum, current.sent + 1>>

WireInv ==
  /\ IsSeq(wire)
  /\ \A j \in 1 .. Len(wire) : wire[j][1] \in 1 .. Len(sent)
  /\ IF wire = << >> THEN Upcoming = <<1, 1>> ELSE NextByte(wire[Len(wire)]) = Upcoming
  /\ WireIsWhole

OutInv ==
  /\ RingInv
  /\ CallerInv
  /\ SentInv
  /\ CurrentInv
  /\ WireInv
  /\ gateway = "opening" => current = NoMessage /\ \A c \in Callers : caller[c] = Out

(* What of the state it is about.                                          *)
outgoing == <<queueVars, outVars>>

LEMMA SlotsAre == 0 \in Slots /\ \A i \in Slots : NextIndex(i) \in Slots
<1>1. PICK n \in Nat \ {0} : n = QueueSize
  BY SessionAssumption
<1>2. 0 \in 0 .. n - 1
  BY <1>1
<1>3. ASSUME NEW i \in 0 .. n - 1 PROVE (i + 1) % n \in 0 .. n - 1
  OBVIOUS
<1> QED BY <1>1, <1>2, <1>3 DEF Slots, NextIndex

LEMMA SeqGains ==
  ASSUME NEW s, IsSeq(s), NEW x
  PROVE  /\ IsSeq(Append(s, x))
         /\ Len(s) \in Nat /\ Len(Append(s, x)) = Len(s) + 1
         /\ \A i \in 1 .. Len(s) : Append(s, x)[i] = s[i]
         /\ Append(s, x)[Len(s) + 1] = x
<1>1. PICK Any : s \in Seq(Any)
  BY DEF IsSeq
<1>2. /\ Append(s, x) \in Seq(Any \cup {x})
      /\ Len(s) \in Nat /\ Len(Append(s, x)) = Len(s) + 1
      /\ \A i \in 1 .. Len(s) : Append(s, x)[i] = s[i]
      /\ Append(s, x)[Len(s) + 1] = x
  BY <1>1, SeqGrows
<1>3. IsSeq(Append(s, x))
  BY <1>2 DEF IsSeq
<1> QED BY <1>2, <1>3

(* A slot of the ring changes.                                             *)
LEMMA RingChanges ==
  ASSUME RingInv, NEW i \in Slots, NEW slot, SlotBuilt(slot),
         outQueue' = [outQueue EXCEPT ![i] = slot],
         writeIndex' \in Slots, readIndex' \in Slots
  PROVE  /\ RingInv'
         /\ outQueue'[i] = slot
         /\ \A s \in Slots : s # i => outQueue'[s] = outQueue[s]
<1>1. outQueue = [s \in Slots |-> outQueue[s]] /\ \A s \in Slots : SlotBuilt(outQueue[s])
  BY DEF RingInv
<1>2. outQueue' = [s \in Slots |-> IF s = i THEN slot ELSE outQueue[s]]
  BY <1>1
<1>3. outQueue'[i] = slot /\ \A s \in Slots : s # i => outQueue'[s] = outQueue[s]
  BY <1>2
<1>4. \A s \in Slots : SlotBuilt(outQueue'[s])
  BY <1>1, <1>3
<1>5. outQueue' = [s \in Slots |-> outQueue'[s]]
  BY <1>2
<1> QED BY <1>3, <1>4, <1>5 DEF RingInv

WithState(slot, state) == [slot EXCEPT !.state = state]

LEMMA StateChanges ==
  ASSUME NEW slot, SlotBuilt(slot), NEW state
  PROVE  WithState(slot, state) = [state |-> state, type |-> slot.type,
                                   request |-> slot.request, fields |-> slot.fields]
<1>1. slot = [state |-> slot.state, type |-> slot.type, request |-> slot.request,
              fields |-> slot.fields]
  BY DEF SlotBuilt
<1>2. \A a, b, c, d : [[state |-> a, type |-> b, request |-> c, fields |-> d]
                         EXCEPT !.state = state]
                      = [state |-> state, type |-> b, request |-> c, fields |-> d]
  OBVIOUS
<1> QED BY <1>1, <1>2 DEF WithState

(* A slot in use is marked otherwise.                                      *)
LEMMA StateIsBuilt ==
  ASSUME NEW slot, SlotBuilt(slot), slot.state # "free",
         NEW state \in {"writing", "abandoned", "valid", "reading"},
         state \in {"valid", "reading"} => HasRequired(slot.type, slot.request)
  PROVE  /\ SlotBuilt(WithState(slot, state)) /\ WithState(slot, state).state = state
         /\ WithState(slot, state) = [state |-> state, type |-> slot.type,
                                      request |-> slot.request, fields |-> slot.fields]
BY StateChanges DEF SlotBuilt

LEMMA SlotIsBuilt ==
  ASSUME NEW state \in {"writing", "abandoned", "valid", "reading"},
         NEW type, NEW request, Asked(type, request),
         state \in {"valid", "reading"} => HasRequired(type, request)
  PROVE  SlotBuilt(Slot(state, type, request)) /\ Slot(state, type, request).state = state
BY DEF SlotBuilt, Slot

LEMMA FreeIsBuilt == SlotBuilt(FreeSlot) /\ FreeSlot.state = "free"
BY DEF SlotBuilt, FreeSlot

LEMMA OutIsBuilt == CallBuilt(Out) /\ Out.at = "out" /\ ~Owns(Out)
BY SlotsAre DEF CallBuilt, Out, Owns

LEMMA InitOutInv == Init => OutInv
<1> SUFFICES ASSUME Init PROVE OutInv
  OBVIOUS
<1>1. /\ outQueue = [s \in Slots |-> FreeSlot] /\ writeIndex = 0 /\ readIndex = 0
      /\ caller = [c \in Callers |-> Out] /\ gateway = "opening"
      /\ sent = << >> /\ wire = << >> /\ current = NoMessage /\ msgSeqNum = 0
  BY DEF Init
<1>2. \A s : s = << >> => s \in Seq({}) /\ Len(s) = 0
  OBVIOUS
<1>3. IsSeq(sent) /\ IsSeq(wire) /\ Len(sent) = 0 /\ Len(wire) = 0
  BY <1>1, <1>2 DEF IsSeq
<1>4. RingInv
  BY <1>1, SlotsAre, FreeIsBuilt DEF RingInv
<1>5. "gateway" \in Callers /\ \A c \in Callers : caller[c] = Out
  BY <1>1 DEF Callers
<1>6. CallerInv
  <2>1. caller["gateway"].at = "out" /\ gateway # "queueing"
    BY <1>1, <1>5, OutIsBuilt
  <2> QED BY <1>1, <1>5, <2>1, OutIsBuilt DEF CallerInv
<1>7. SentInv
  BY <1>1, <1>3 DEF SentInv
<1>8. CurrentInv
  BY <1>1 DEF CurrentInv
<1>9. WireInv
  BY <1>1, <1>3 DEF WireInv, Upcoming, WireIsWhole
<1> QED BY <1>1, <1>4, <1>5, <1>6, <1>7, <1>8, <1>9 DEF OutInv

(* Steps that only move the gateway's thread, outside of a call.           *)
LEMMA OutStutters ==
  ASSUME OutInv, UNCHANGED outgoing,
         gateway' = "opening" => gateway = "opening",
         gateway' = "queueing" <=> gateway = "queueing"
  PROVE  OutInv'
<1>1. UNCHANGED <<outQueue, writeIndex, readIndex, caller, current, msgSeqNum, sent, wire>>
  BY DEF outgoing, queueVars, outVars
<1>2. RingInv'
  BY <1>1 DEF OutInv, RingInv
<1>3. CallerInv'
  BY <1>1 DEF OutInv, CallerInv
<1>4. SentInv'
  BY <1>1 DEF OutInv, SentInv
<1>5. CurrentInv'
  BY <1>1 DEF OutInv, CurrentInv
<1>6. WireInv'
  BY <1>1 DEF OutInv, WireInv, Upcoming, WireIsWhole, NextByte
<1> QED BY <1>1, <1>2, <1>3, <1>4, <1>5, <1>6 DEF OutInv

(* A step of a call: its thread moves on, and at most the slot it has, or  *)
(* a free one it takes, changes.                                           *)
LEMMA CallSteps ==
  ASSUME OutInv, NEW c \in Callers, NEW call, CallBuilt(call),
         caller' = [caller EXCEPT ![c] = call],
         RingInv', UNCHANGED outVars, gateway # "opening", gateway' # "opening",
         \/ outQueue' = outQueue
         \/ /\ \A s \in Slots : s # caller[c].slot => outQueue'[s] = outQueue[s]
            /\ outQueue[caller[c].slot].state = "free" \/ Owns(caller[c]),
         Owns(call) => /\ call.slot = caller[c].slot
                       /\ outQueue'[call.slot].state = "writing"
                       /\ Owns(caller[c]) \/ outQueue[call.slot].state = "free",
         IF c = "gateway" THEN call.at # "out" <=> gateway' = "queueing"
         ELSE gateway' = gateway
  PROVE  OutInv'
<1>1. UNCHANGED <<current, msgSeqNum, sent, wire>>
  BY DEF outVars
<1>2. /\ caller = [d \in Callers |-> caller[d]]
      /\ \A d \in Callers : CallBuilt(caller[d])
      /\ \A d \in Callers : Owns(caller[d]) => outQueue[caller[d].slot].state = "writing"
      /\ \A d, e \in Callers :
           d # e /\ Owns(caller[d]) /\ Owns(caller[e]) => caller[d].slot # caller[e].slot
      /\ caller["gateway"].at # "out" <=> gateway = "queueing"
  BY DEF OutInv, CallerInv
<1>3. caller' = [d \in Callers |-> IF d = c THEN call ELSE caller[d]]
  BY <1>2
<1>4. caller'[c] = call /\ \A d \in Callers : d # c => caller'[d] = caller[d]
  BY <1>3
<1>5. ASSUME NEW d \in Callers, d # c, Owns(caller[d])
      PROVE  outQueue'[caller[d].slot] = outQueue[caller[d].slot]
  <2>1. CASE outQueue' = outQueue
    BY <2>1
  <2>2. CASE /\ \A s \in Slots : s # caller[c].slot => outQueue'[s] = outQueue[s]
             /\ outQueue[caller[c].slot].state = "free" \/ Owns(caller[c])
    <3>1. caller[d].slot \in Slots /\ outQueue[caller[d].slot].state = "writing"
      BY <1>2, <1>5 DEF CallBuilt
    <3>2. caller[d].slot # caller[c].slot
      BY <1>2, <1>5, <2>2, <3>1
    <3> QED BY <2>2, <3>1, <3>2
  <2> QED BY <2>1, <2>2
<1>6. \A d \in Callers : CallBuilt(caller'[d])
  BY <1>2, <1>4
<1>7. ASSUME NEW d \in Callers, Owns(caller'[d])
      PROVE  outQueue'[caller'[d].slot].state = "writing"
  BY <1>2, <1>4, <1>5, <1>7
<1>8. ASSUME NEW d \in Callers, d # c, Owns(caller[d]), Owns(call)
      PROVE  caller[d].slot # call.slot
  <2>1. CASE Owns(caller[c])
    BY <1>2, <1>8, <2>1
  <2>2. CASE outQueue[call.slot].state = "free"
    BY <1>2, <1>8, <2>2
  <2> QED BY <1>8, <2>1, <2>2
<1>9. \A d, e \in Callers :
        d # e /\ Owns(caller'[d]) /\ Owns(caller'[e]) => caller'[d].slot # caller'[e].slot
  BY <1>2, <1>4, <1>8
<1>10. caller'["gateway"].at # "out" <=> gateway' = "queueing"
  <2>1. "gateway" \in Callers
    BY DEF Callers
  <2> QED BY <1>2, <1>4, <2>1
<1>11. CallerInv'
  BY <1>3, <1>4, <1>6, <1>7, <1>9, <1>10 DEF CallerInv
<1>12. SentInv'
  BY <1>1 DEF OutInv, SentInv
<1>13. CurrentInv'
  <2>1. ASSUME current # NoMessage
        PROVE  current.slot \in Slots /\ outQueue'[current.slot] = outQueue[current.slot]
    <3>1. current.slot \in Slots /\ outQueue[current.slot].state = "reading"
      BY <2>1 DEF OutInv, CurrentInv
    <3>2. CASE outQueue' = outQueue
      BY <3>1, <3>2
    <3>3. CASE /\ \A s \in Slots : s # caller[c].slot => outQueue'[s] = outQueue[s]
               /\ outQueue[caller[c].slot].state = "free" \/ Owns(caller[c])
      BY <1>2, <3>1, <3>3
    <3> QED BY <3>1, <3>2, <3>3
  <2> QED BY <1>1, <2>1 DEF OutInv, CurrentInv
<1>14. WireInv'
  BY <1>1 DEF OutInv, WireInv, Upcoming, WireIsWhole, NextByte
<1> QED BY <1>11, <1>12, <1>13, <1>14 DEF OutInv

(* Where a call goes.                                                      *)
LEMMA CallGoes ==
  ASSUME NEW call, CallBuilt(call), NEW at \in {"advance", "build", "close"}
  PROVE  /\ CallBuilt([call EXCEPT !.at = at])
         /\ [call EXCEPT !.at = at].at = at /\ [call EXCEPT !.at = at].slot = call.slot
<1>1. call = [at |-> call.at, slot |-> call.slot, type |-> call.type, request |-> call.request]
  BY DEF CallBuilt
<1>2. \A a, b, d, e : [[at |-> a, slot |-> b, type |-> d, request |-> e] EXCEPT !.at = at]
                      = [at |-> at, slot |-> b, type |-> d, request |-> e]
  OBVIOUS
<1>3. [call EXCEPT !.at = at]
        = [at |-> at, slot |-> call.slot, type |-> call.type, request |-> call.request]
  BY <1>1, <1>2
<1> QED BY <1>3 DEF CallBuilt

LEMMA AskOutInv ==
  ASSUME OutInv, NEW c \in Callers, NEW type, NEW request, Asked(type, request),
         Ask(c, type, request), UNCHANGED outVars, gateway # "opening", gateway' # "opening",
         IF c = "gateway" THEN gateway' = "queueing" ELSE gateway' = gateway
  PROVE  OutInv'
<1>1. PICK call : call = [at |-> "claim", slot |-> writeIndex, type |-> type,
                          request |-> request]
  OBVIOUS
<1>2. writeIndex \in Slots /\ UNCHANGED <<outQueue, writeIndex, readIndex>>
      /\ caller' = [caller EXCEPT ![c] = call]
  BY <1>1 DEF Ask, OutInv, RingInv
<1>3. CallBuilt(call) /\ call.at = "claim" /\ ~Owns(call)
  BY <1>1, <1>2 DEF CallBuilt, Owns
<1>4. RingInv'
  BY <1>2 DEF OutInv, RingInv
<1> QED BY <1>2, <1>3, <1>4, CallSteps

LEMMA AddMessageOutInv ==
  ASSUME OutInv, NEW c \in Callers, AddMessage(c) PROVE OutInv'
<1>1. PICK call, slot, own : call = caller[c] /\ slot = caller[c].slot /\ own = outQueue[slot]
  OBVIOUS
<1>2. /\ CallBuilt(call) /\ slot = call.slot /\ slot \in Slots
      /\ (Owns(call) => own.state = "writing")
  BY <1>1 DEF OutInv, CallerInv, CallBuilt
<1>3. RingInv /\ SlotBuilt(own)
  BY <1>1, <1>2 DEF OutInv, RingInv
<1>4. UNCHANGED outVars /\ call.at # "out"
  BY <1>1 DEF AddMessage, LookAgain, Refused, Claim, Advance, Complete, Disconnect, Close
<1>5. c = "gateway" => gateway = "queueing"
  BY <1>1, <1>4 DEF OutInv, CallerInv
<1>6. gateway # "opening"
  BY <1>1, <1>4, OutIsBuilt DEF OutInv
<1>7. \A index : index \in Slots => NextIndex(index) \in Slots
  BY SlotsAre
<1>8. CASE LookAgain(c)
  <2>1. PICK other : other = [call EXCEPT !.slot = writeIndex]
    OBVIOUS
  <2>2. /\ caller' = [caller EXCEPT ![c] = other] /\ call.at = "claim"
        /\ UNCHANGED <<outQueue, writeIndex, readIndex, gateway>>
    BY <1>1, <1>8, <2>1 DEF LookAgain
  <2>3. call = [at |-> call.at, slot |-> call.slot, type |-> call.type,
                request |-> call.request]
    BY <1>2 DEF CallBuilt
  <2>4. other = [at |-> call.at, slot |-> writeIndex, type |-> call.type,
                 request |-> call.request]
    BY <2>1, <2>3
  <2>5. CallBuilt(other) /\ ~Owns(other) /\ other.at # "out"
    BY <1>2, <1>3, <2>2, <2>4 DEF CallBuilt, Owns, RingInv
  <2>6. RingInv'
    BY <1>3, <2>2 DEF RingInv
  <2> QED BY <1>4, <1>5, <1>6, <2>2, <2>5, <2>6, CallSteps
<1>9. CASE Refused(c)
  <2>1. /\ caller' = [caller EXCEPT ![c] = Out]
        /\ UNCHANGED <<outQueue, writeIndex, readIndex>>
        /\ gateway' = IF c = "gateway" THEN "top" ELSE gateway
    BY <1>9 DEF Refused, ReturnsTo
  <2>2. RingInv'
    BY <1>3, <2>1 DEF RingInv
  <2> QED BY <1>4, <1>6, <2>1, <2>2, OutIsBuilt, CallSteps
<1>10. CASE Claim(c)
  <2>1. PICK other, new : /\ other = [call EXCEPT !.at = "advance"]
                          /\ new = Slot("writing", call.type, call.request)
    OBVIOUS
  <2>2. /\ caller' = [caller EXCEPT ![c] = other] /\ call.at = "claim" /\ own.state = "free"
        /\ outQueue' = [outQueue EXCEPT ![slot] = new]
        /\ UNCHANGED <<writeIndex, readIndex, gateway>>
    BY <1>1, <1>10, <2>1 DEF Claim, StateAt
  <2>3. SlotBuilt(new) /\ new.state = "writing"
    BY <1>2, <2>1, <2>2, SlotIsBuilt DEF CallBuilt
  <2>4. CallBuilt(other) /\ other.at = "advance" /\ other.slot = slot
    BY <1>2, <2>1, CallGoes
  <2>5. writeIndex' \in Slots /\ readIndex' \in Slots
    BY <1>3, <2>2 DEF RingInv
  <2>6. /\ RingInv'
        /\ outQueue'[slot] = new
        /\ \A s \in Slots : s # slot => outQueue'[s] = outQueue[s]
    BY <1>2, <1>3, <2>2, <2>3, <2>5, RingChanges
  <2> QED BY <1>1, <1>4, <1>5, <1>6, <2>2, <2>3, <2>4, <2>6, CallSteps
<1>11. CASE Advance(c)
  <2>1. PICK other : other = [call EXCEPT !.at = "build"]
    OBVIOUS
  <2>2. /\ caller' = [caller EXCEPT ![c] = other] /\ call.at = "advance"
        /\ writeIndex' = NextIndex(slot) /\ UNCHANGED <<outQueue, readIndex, gateway>>
    BY <1>1, <1>11, <2>1 DEF Advance
  <2>3. CallBuilt(other) /\ other.at = "build" /\ other.slot = slot
    BY <1>2, <2>1, CallGoes
  <2>4. RingInv'
    BY <1>2, <1>3, <1>7, <2>2 DEF RingInv
  <2>5. Owns(call)
    BY <2>2 DEF Owns
  <2> QED BY <1>1, <1>2, <1>4, <1>5, <1>6, <2>2, <2>3, <2>4, <2>5, CallSteps
<1>12. CASE Complete(c)
  <2>1. PICK new : new = WithState(own, "valid")
    OBVIOUS
  <2>2. /\ caller' = [caller EXCEPT ![c] = Out] /\ call.at = "build" /\ IsBuilt(own)
        /\ outQueue' = [outQueue EXCEPT ![slot] = new]
        /\ UNCHANGED <<writeIndex, readIndex>>
        /\ gateway' = IF c = "gateway" THEN "sending beat" ELSE gateway
    BY <1>1, <1>12, <2>1 DEF Complete, ReturnsTo, WithState
  <2>3. Owns(call) /\ HasRequired(own.type, own.request)
    BY <2>2 DEF Owns, IsBuilt, CanBuild
  <2>4. SlotBuilt(new)
    BY <1>2, <1>3, <2>1, <2>3, StateIsBuilt
  <2>5. writeIndex' \in Slots /\ readIndex' \in Slots
    BY <1>3, <2>2 DEF RingInv
  <2>6. /\ RingInv'
        /\ \A s \in Slots : s # slot => outQueue'[s] = outQueue[s]
    BY <1>2, <1>3, <2>2, <2>4, <2>5, RingChanges
  <2> QED BY <1>1, <1>4, <1>6, <2>2, <2>3, <2>6, OutIsBuilt, CallSteps
<1>13. CASE Disconnect(c)
  <2>1. PICK other, new : other = [call EXCEPT !.at = "close"] /\ new = WithState(own, "abandoned")
    OBVIOUS
  <2>2. /\ caller' = [caller EXCEPT ![c] = other] /\ call.at = "build"
        /\ outQueue' = [outQueue EXCEPT ![slot] = new]
        /\ UNCHANGED <<writeIndex, readIndex, gateway>>
    BY <1>1, <1>13, <2>1 DEF Disconnect, WithState
  <2>3. Owns(call)
    BY <2>2 DEF Owns
  <2>4. SlotBuilt(new)
    BY <1>2, <1>3, <2>1, <2>3, StateIsBuilt
  <2>5. CallBuilt(other) /\ other.at = "close" /\ ~Owns(other)
    BY <1>2, <2>1, CallGoes DEF Owns
  <2>6. writeIndex' \in Slots /\ readIndex' \in Slots
    BY <1>3, <2>2 DEF RingInv
  <2>7. /\ RingInv'
        /\ \A s \in Slots : s # slot => outQueue'[s] = outQueue[s]
    BY <1>2, <1>3, <2>2, <2>4, <2>6, RingChanges
  <2> QED BY <1>1, <1>4, <1>5, <1>6, <2>2, <2>3, <2>5, <2>7, CallSteps
<1>14. CASE Close(c)
  <2>1. /\ caller' = [caller EXCEPT ![c] = Out]
        /\ UNCHANGED <<outQueue, writeIndex, readIndex>>
        /\ gateway' = IF c = "gateway" THEN "top" ELSE gateway
    BY <1>14 DEF Close, ReturnsTo
  <2>2. RingInv'
    BY <1>3, <2>1 DEF RingInv
  <2> QED BY <1>4, <1>6, <2>1, <2>2, OutIsBuilt, CallSteps
<1> QED BY <1>8, <1>9, <1>10, <1>11, <1>12, <1>13, <1>14 DEF AddMessage

(* The slot at readIndex_ is numbered.                                     *)
LEMMA TakeMessageOutInv == ASSUME WidthsAreNat, OutInv, TakeMessage PROVE OutInv'
<1>1. PICK at, slot : at = readIndex /\ slot = outQueue[readIndex]
  OBVIOUS
<1>2. PICK new : new = WithState(slot, "reading")
  OBVIOUS
<1>3. /\ gateway' = gateway /\ caller' = caller /\ wire' = wire
      /\ gateway \notin {"opening", "queueing"} /\ current = NoMessage
      /\ slot.state = "valid" /\ msgSeqNum' = msgSeqNum + 1
      /\ outQueue' = [outQueue EXCEPT ![at] = new]
      /\ readIndex' = NextIndex(at) /\ writeIndex' = writeIndex
  BY <1>1, <1>2 DEF WithState, TakeMessage, HeadIsValid, InSendMessages
<1>4. PICK fields : fields = finalizeOutMessage(slot.fields, msgSeqNum')
  OBVIOUS
<1>5. PICK message : message = [type |-> slot.type, request |-> slot.request,
                                fields |-> fields]
  OBVIOUS
<1>6. current' = [slot |-> at, fields |-> fields, sent |-> 0] /\ sent' = Append(sent, message)
  BY <1>1, <1>4, <1>5 DEF TakeMessage
<1>7. at \in Slots /\ SlotBuilt(slot) /\ RingInv /\ writeIndex \in Slots
  BY <1>1 DEF OutInv, RingInv
<1>8. SlotBuilt(new) /\ new.state = "reading"
  BY <1>2, <1>3, <1>7, StateIsBuilt DEF SlotBuilt
<1>9. /\ RingInv' /\ outQueue'[at] = new
      /\ \A s \in Slots : s # at => outQueue'[s] = outQueue[s]
  BY <1>3, <1>7, <1>8, SlotsAre, RingChanges
<1>10. CallerInv'
  <2>1. ASSUME NEW c \in Callers, Owns(caller[c])
        PROVE  outQueue'[caller[c].slot].state = "writing"
    <3>1. caller[c].slot \in Slots /\ outQueue[caller[c].slot].state = "writing"
      BY <2>1 DEF OutInv, CallerInv, CallBuilt
    <3>2. caller[c].slot # at
      BY <1>1, <1>3, <3>1
    <3> QED BY <1>9, <3>1, <3>2
  <2> QED BY <1>3, <2>1 DEF OutInv, CallerInv
<1>11. /\ IsSeq(sent') /\ Len(sent) \in Nat /\ Len(sent') = Len(sent) + 1
       /\ \A n \in 1 .. Len(sent) : sent'[n] = sent[n]
       /\ sent'[Len(sent) + 1] = message
       /\ msgSeqNum = Len(sent) /\ msgSeqNum' = Len(sent')
  <2>1. IsSeq(sent) /\ msgSeqNum = Len(sent)
    BY DEF OutInv, SentInv
  <2> QED BY <1>3, <1>6, <2>1, SeqGains
<1>12. MessageBuilt(message, msgSeqNum')
  BY <1>3, <1>4, <1>5, <1>7 DEF MessageBuilt, SlotBuilt
<1>13. SentInv'
  <2>1. \A n \in 1 .. Len(sent') : n = msgSeqNum' \/ n \in 1 .. Len(sent)
    BY <1>11
  <2>2. \A n \in 1 .. Len(sent') : MessageBuilt(sent'[n], n)
    BY <1>11, <1>12, <2>1 DEF OutInv, SentInv
  <2> QED BY <1>11, <2>2 DEF SentInv
<1>14. fields # << >>
  <2>1. slot.type \in DOMAIN Layout /\ slot.fields = FieldsOf(slot.type, slot.request)
    BY <1>3, <1>7, AskedTypes DEF SlotBuilt
  <2>2. msgSeqNum' \in Nat
    BY <1>11
  <2>3. fields = finalizeOutMessage(FieldsOf(slot.type, slot.request), msgSeqNum')
    BY <1>4, <2>1
  <2>4. Len(fields) >= 2
    BY <2>1, <2>2, <2>3, Finalized
  <2> QED BY <2>4
<1>15. current' # NoMessage /\ current'.fields = fields /\ current'.sent = 0
       /\ current'.slot = at
  BY <1>6, <1>14 DEF NoMessage
<1>16. CurrentInv'
  <2>1. msgSeqNum' # 0 /\ sent'[msgSeqNum'].fields = fields
    BY <1>5, <1>11
  <2> QED BY <1>6, <1>7, <1>8, <1>9, <1>15, <2>1 DEF CurrentInv
<1>17. WireInv'
  <2>1. Upcoming' = Upcoming
    BY <1>3, <1>15, <1>11 DEF Upcoming
  <2>2. \A j \in 1 .. Len(wire) : wire[j][1] \in 1 .. Len(sent)
    BY DEF OutInv, WireInv
  <2>3. \A byte : byte[1] \in 1 .. Len(sent) => NextByte(byte)' = NextByte(byte)
    BY <1>11 DEF NextByte
  <2>4. IsSeq(wire) /\ WireIsWhole
    BY DEF OutInv, WireInv
  <2>5. Len(wire) \in Nat /\ (wire # << >> => Len(wire) \in 1 .. Len(wire))
    BY <2>4 DEF IsSeq
  <2>6. \A j \in 1 .. Len(wire) : NextByte(wire[j])' = NextByte(wire[j])
    BY <1>3, <2>2, <2>3
  <2>7. WireIsWhole'
    <3>1. wire # << >> => wire[1] = <<1, 1>>
      BY <2>4 DEF WireIsWhole
    <3>2. ASSUME NEW j \in 1 .. Len(wire) - 1 PROVE wire[j + 1] = NextByte(wire[j])'
      <4>1. wire[j + 1] = NextByte(wire[j])
        BY <2>4 DEF WireIsWhole
      <4>2. j \in 1 .. Len(wire)
        BY <2>5
      <4> QED BY <1>3, <2>6, <4>1, <4>2
    <3> QED BY <1>3, <3>1, <3>2 DEF WireIsWhole
  <2>8. \A j \in 1 .. Len(wire') : wire'[j][1] \in 1 .. Len(sent')
    BY <1>3, <1>11, <2>2
  <2>9. IF wire' = << >> THEN Upcoming' = <<1, 1>>
        ELSE NextByte(wire[Len(wire)])' = Upcoming'
    BY <1>3, <2>1, <2>5, <2>6 DEF OutInv, WireInv
  <2> QED BY <1>3, <2>4, <2>7, <2>8, <2>9 DEF WireInv
<1> QED BY <1>3, <1>9, <1>10, <1>13, <1>16, <1>17 DEF OutInv

(* Some bytes of the message are sent.                                     *)
LEMMA SendSomeOutInv ==
  ASSUME WidthsAreNat, OutInv, NEW count \in 1 .. BufferSize, SendSome(count)
  PROVE  OutInv'
<1>1. /\ gateway' = gateway /\ caller' = caller /\ sent' = sent /\ msgSeqNum' = msgSeqNum
      /\ writeIndex' = writeIndex /\ readIndex' = readIndex
      /\ gateway # "opening" /\ current # NoMessage
  BY DEF SendSome, InSendMessages
<1>2. PICK size : size = SizeOf(current.fields)
  OBVIOUS
<1>3. PICK total : total = current.sent + count
  OBVIOUS
<1>4. /\ total <= size
      /\ wire' = wire \o [i \in 1 .. count |-> <<msgSeqNum, current.sent + i>>]
      /\ IF total = size
         THEN current' = NoMessage /\ outQueue' = [outQueue EXCEPT ![current.slot] = FreeSlot]
         ELSE current' = [current EXCEPT !.sent = total] /\ outQueue' = outQueue
  BY <1>2, <1>3 DEF SendSome
<1>5. /\ current = [slot |-> current.slot, fields |-> current.fields, sent |-> current.sent]
      /\ msgSeqNum # 0
      /\ current.fields = sent[msgSeqNum].fields
      /\ current.sent \in Nat
      /\ current.slot \in Slots /\ outQueue[current.slot].state = "reading"
  BY <1>1 DEF OutInv, CurrentInv
<1>6. IsSeq(sent) /\ msgSeqNum = Len(sent) /\ Len(sent) \in Nat
  BY DEF OutInv, SentInv, IsSeq
<1>7. count \in Nat \ {0}
  BY BuilderAssumption
<1>8. size \in Nat /\ total \in Nat \ {0}
  <2>1. msgSeqNum \in 1 .. Len(sent)
    BY <1>5, <1>6
  <2>2. MessageBuilt(sent[msgSeqNum], msgSeqNum)
    BY <2>1 DEF OutInv, SentInv
  <2>3. sent[msgSeqNum].type \in DOMAIN Layout /\ msgSeqNum \in Nat
    BY <1>6, <2>2, AskedTypes DEF MessageBuilt
  <2>4. PICK s : s = current.fields
    OBVIOUS
  <2>5. s = finalizeOutMessage(FieldsOf(sent[msgSeqNum].type, sent[msgSeqNum].request), msgSeqNum)
    BY <1>5, <2>2, <2>4 DEF MessageBuilt
  <2>6. \E Any : s \in Seq(Any)
    BY <2>3, <2>5, Finalized
  <2>7. Len(current.fields) \in Nat
    BY <2>4, <2>6
  <2>8. size \in Nat
    BY <1>2, <2>7, SizeIsNat
  <2> QED BY <1>3, <1>5, <1>7, <2>8
<1>9. /\ RingInv'
      /\ \A i \in Slots : i # current.slot => outQueue'[i] = outQueue[i]
      /\ total # size => outQueue' = outQueue
  <2>1. RingInv /\ writeIndex' \in Slots /\ readIndex' \in Slots
    BY <1>1 DEF OutInv, RingInv
  <2>2. CASE total = size
    <3>1. PICK at : at = current.slot
      OBVIOUS
    <3>2. at \in Slots /\ outQueue' = [outQueue EXCEPT ![at] = FreeSlot]
      BY <1>4, <1>5, <2>2, <3>1
    <3> QED BY <2>1, <2>2, <3>1, <3>2, FreeIsBuilt, RingChanges
  <2>3. CASE total # size
    BY <1>1, <1>4, <2>1, <2>3 DEF RingInv
  <2> QED BY <2>2, <2>3
<1>10. CallerInv'
  <2>1. ASSUME NEW c \in Callers, Owns(caller[c])
        PROVE  outQueue'[caller[c].slot].state = "writing"
    <3>1. caller[c].slot \in Slots /\ outQueue[caller[c].slot].state = "writing"
      BY <2>1 DEF OutInv, CallerInv, CallBuilt
    <3>2. caller[c].slot # current.slot
      BY <1>5, <3>1
    <3> QED BY <1>9, <3>1, <3>2
  <2> QED BY <1>1, <2>1 DEF OutInv, CallerInv
<1>11. SentInv'
  BY <1>1 DEF OutInv, SentInv
<1>12. total # size => /\ current'.fields = current.fields /\ current'.sent = total
                       /\ current'.slot = current.slot
                       /\ current' = [slot |-> current.slot, fields |-> current.fields,
                                      sent |-> total]
  <2>1. \A a, b, c : [[slot |-> a, fields |-> b, sent |-> c] EXCEPT !.sent = total]
                     = [slot |-> a, fields |-> b, sent |-> total]
    OBVIOUS
  <2>2. [current EXCEPT !.sent = total]
          = [slot |-> current.slot, fields |-> current.fields, sent |-> total]
    BY <1>5, <2>1
  <2> QED BY <1>4, <2>2
<1>13. CurrentInv'
  BY <1>1, <1>2, <1>4, <1>5, <1>8, <1>9, <1>12 DEF CurrentInv
<1>14. PICK n : n = msgSeqNum
  OBVIOUS
<1>15. n \in 1 .. Len(sent) /\ n \in Nat
  BY <1>5, <1>6, <1>14
<1>16. \A b \in Nat : NextByte(<<n, b>>) = IF b = size THEN <<n + 1, 1>> ELSE <<n, b + 1>>
  BY <1>2, <1>5, <1>14 DEF NextByte
<1>17. WireInv'
  <2>1. PICK Any : wire \in Seq(Any)
    BY DEF OutInv, WireInv, IsSeq
  <2>2. PICK more : more = [i \in 1 .. count |-> <<n, current.sent + i>>]
    OBVIOUS
  <2>3. more \in Seq(Nat \X Nat) /\ Len(more) = count
    BY <1>5, <1>7, <1>15, <2>2
  <2>4. wire \in Seq(Any \cup (Nat \X Nat)) /\ more \in Seq(Any \cup (Nat \X Nat))
    BY <2>1, <2>3
  <2>5. wire' = wire \o more
    BY <1>4, <1>14, <2>2
  <2>6. /\ wire' \in Seq(Any \cup (Nat \X Nat))
        /\ Len(wire') = Len(wire) + count /\ Len(wire) \in Nat
        /\ \A j \in 1 .. Len(wire) : wire'[j] = wire[j]
        /\ \A j \in 1 .. count : wire'[Len(wire) + j] = more[j]
    BY <2>3, <2>4, <2>5
  <2>7. \A j \in 1 .. count : wire'[Len(wire) + j] = <<n, current.sent + j>>
    BY <2>2, <2>6
  <2>8. \A byte : NextByte(byte)' = NextByte(byte)
    BY <1>1 DEF NextByte
  <2>9. Upcoming = <<n, current.sent + 1>>
    BY <1>1, <1>14 DEF Upcoming
  <2>10. \A j \in 1 .. Len(wire') :
           j \in 1 .. Len(wire) \/ (j - Len(wire) \in 1 .. count /\ j = Len(wire) + (j - Len(wire)))
    BY <1>7, <2>6
  <2>11. \A j \in 1 .. Len(wire') : wire'[j][1] \in 1 .. Len(sent')
    <3>1. ASSUME NEW j \in 1 .. Len(wire) PROVE wire'[j][1] \in 1 .. Len(sent')
      BY <1>1, <2>6 DEF OutInv, WireInv
    <3>2. ASSUME NEW j \in 1 .. count PROVE wire'[Len(wire) + j][1] \in 1 .. Len(sent')
      BY <1>1, <1>15, <2>7
    <3> QED BY <2>10, <3>1, <3>2
  <2>12. wire'[Len(wire')] = <<n, total>>
    <3>1. count \in 1 .. count
      BY <1>7
    <3> QED BY <1>3, <2>6, <2>7, <3>1
  <2>13. NextByte(<<n, total>>)' = Upcoming'
    <3>1. NextByte(<<n, total>>)' = IF total = size THEN <<n + 1, 1>> ELSE <<n, total + 1>>
      BY <1>8, <1>16, <2>8
    <3>2. CASE total = size
      <4>1. Upcoming' = <<n + 1, 1>>
        BY <1>1, <1>4, <1>14, <3>2 DEF Upcoming
      <4> QED BY <3>1, <3>2, <4>1
    <3>3. CASE total # size
      <4>1. current' # NoMessage
        BY <1>8, <1>12, <3>3 DEF NoMessage
      <4>2. Upcoming' = <<n, total + 1>>
        BY <1>1, <1>12, <1>14, <3>3, <4>1 DEF Upcoming
      <4> QED BY <3>1, <3>3, <4>2
    <3> QED BY <3>2, <3>3
  <2>14. wire'[1] = <<1, 1>>
    <3>1. CASE wire = << >>
      <4>1. Len(wire) = 0 /\ 1 \in 1 .. count
        BY <1>7, <3>1
      <4>2. wire'[Len(wire) + 1] = <<n, current.sent + 1>>
        BY <2>7, <4>1
      <4>3. Upcoming = <<1, 1>>
        BY <3>1 DEF OutInv, WireInv
      <4> QED BY <2>9, <4>1, <4>2, <4>3
    <3>2. CASE wire # << >>
      <4>1. 1 \in 1 .. Len(wire)
        BY <2>1, <3>2
      <4> QED BY <2>6, <3>2, <4>1 DEF OutInv, WireInv, WireIsWhole
    <3> QED BY <3>1, <3>2
  <2>15. ASSUME NEW j \in 1 .. Len(wire') - 1 PROVE wire'[j + 1] = NextByte(wire'[j])
    <3>1. CASE j \in 1 .. Len(wire) - 1
      <4>1. j \in 1 .. Len(wire) /\ j + 1 \in 1 .. Len(wire)
        BY <2>6, <3>1
      <4> QED BY <2>6, <3>1, <4>1 DEF OutInv, WireInv, WireIsWhole
    <3>2. CASE j = Len(wire)
      <4>1. j \in 1 .. Len(wire) /\ 1 \in 1 .. count /\ wire # << >>
        BY <1>7, <2>6, <3>2
      <4>2. wire'[j + 1] = Upcoming
        BY <2>7, <2>9, <3>2, <4>1
      <4>3. NextByte(wire[Len(wire)]) = Upcoming
        BY <4>1 DEF OutInv, WireInv
      <4> QED BY <2>6, <3>2, <4>1, <4>2, <4>3
    <3>3. CASE j > Len(wire)
      <4>0. j \in Int /\ Len(wire) \in Int /\ j > Len(wire)
        BY <2>6, <3>3
      <4>1. PICK k \in Nat : k = j - Len(wire)
        BY <4>0
      <4>2. k \in 1 .. count /\ k + 1 \in 1 .. count /\ j = Len(wire) + k
            /\ j + 1 = Len(wire) + (k + 1)
        BY <1>7, <2>6, <3>3, <4>1
      <4>3. wire'[j] = <<n, current.sent + k>> /\ wire'[j + 1] = <<n, current.sent + (k + 1)>>
        BY <2>7, <4>2
      <4>4. PICK c \in Nat : c = current.sent /\ c + count <= size
        BY <1>3, <1>4, <1>5
      <4>5. current.sent + k \in Nat /\ current.sent + k # size
            /\ current.sent + (k + 1) = (current.sent + k) + 1
        <5>1. k \in Int /\ count \in Int /\ size \in Int /\ c \in Int /\ k + 1 <= count
          BY <1>7, <1>8, <4>2
        <5>2. c + k \in Nat /\ c + k # size /\ c + (k + 1) = (c + k) + 1
          BY <4>4, <5>1
        <5> QED BY <4>4, <5>2
      <4> QED BY <1>16, <4>3, <4>5
    <3> QED BY <2>6, <3>1, <3>2, <3>3
  <2>16. WireIsWhole'
    BY <2>8, <2>14, <2>15 DEF WireIsWhole
  <2>17. wire' # << >> /\ IsSeq(wire')
    BY <1>7, <2>6 DEF IsSeq
  <2> QED BY <2>11, <2>12, <2>13, <2>16, <2>17 DEF WireInv
<1> QED BY <1>1, <1>9, <1>10, <1>11, <1>13, <1>17 DEF OutInv

(* The logon is the first message.                                         *)
LEMMA OpenOutInv ==
  ASSUME OutInv, NEW logon \in LogonRequests,
         OpenConnected(logon) \/ OpenInProgress(logon) \/ OpenUnbuilt(logon)
  PROVE  OutInv'
<1>1. PICK state \in {"valid", "abandoned"} : QueueLogon(state, logon)
  BY DEF OpenConnected, OpenInProgress, OpenUnbuilt
<1>2. PICK slot : slot = Slot(state, "LOGON", logon)
  OBVIOUS
<1>3. outQueue' = [outQueue EXCEPT ![writeIndex] = slot]
  BY <1>1, <1>2 DEF QueueLogon
<1>4. /\ writeIndex' = NextIndex(writeIndex) /\ readIndex' = readIndex /\ caller' = caller
      /\ gateway = "opening" /\ gateway' \notin {"opening", "queueing"} /\ UNCHANGED outVars
  BY DEF OpenConnected, OpenInProgress, OpenUnbuilt, QueueLogon, GatewayGoes
<1>5. UNCHANGED <<current, msgSeqNum, sent, wire>> /\ current = NoMessage
      /\ \A c \in Callers : caller[c] = Out
  BY <1>4 DEF outVars, OutInv
<1>6. HasRequired("LOGON", logon) /\ Asked("LOGON", logon)
  BY DEF HasRequired, Required, Asked
<1>7. SlotBuilt(slot)
  BY <1>2, <1>6, SlotIsBuilt
<1>8. RingInv /\ writeIndex \in Slots /\ readIndex \in Slots
  BY DEF OutInv, RingInv
<1>9. RingInv'
  BY <1>3, <1>4, <1>7, <1>8, SlotsAre, RingChanges
<1>10. CallerInv'
  BY <1>4, <1>5, OutIsBuilt DEF OutInv, CallerInv
<1>11. SentInv' /\ CurrentInv' /\ WireInv'
  BY <1>5 DEF OutInv, SentInv, CurrentInv, WireInv, Upcoming, WireIsWhole, NextByte
<1> QED BY <1>4, <1>9, <1>10, <1>11 DEF OutInv

LEMMA NextOutInv == ASSUME WidthsAreNat, OutInv, [Next]_vars PROVE OutInv'
<1>1. ASSUME NEW logon \in LogonRequests,
             OpenConnected(logon) \/ OpenInProgress(logon) \/ OpenUnbuilt(logon)
      PROVE  OutInv'
  BY <1>1, OpenOutInv
<1>2. CASE OpenFails \/ BeginRound \/ SendNothing \/ SendFails
  <2>1. CASE OpenFails \/ BeginRound
    BY <2>1, OutStutters DEF OpenFails, BeginRound, GatewayGoes, outgoing
  <2>2. CASE SendNothing
    <3>1. UNCHANGED outgoing /\ gateway \in {"sending", "sending beat"}
          /\ gateway' \in {"receiving", "top"}
      BY <2>2 DEF SendNothing, InSendMessages, GatewayGoes, AfterSending, outgoing
    <3> QED BY <3>1, OutStutters
  <2>3. CASE SendFails
    BY <2>3, OutStutters DEF SendFails, outgoing
  <2> QED BY <1>2, <2>1, <2>2, <2>3
<1>3. CASE TakeMessage
  BY <1>3, TakeMessageOutInv
<1>4. ASSUME NEW count \in 1 .. BufferSize, SendSome(count) PROVE OutInv'
  BY <1>4, SendSomeOutInv
<1>5. CASE Read
  <2>1. ASSUME NEW count \in 1 .. ReadSize, Receive(count) PROVE OutInv'
    BY <2>1, OutStutters DEF Receive, AppendToRingBuffer, GatewayGoes, ReadEnds, outgoing
  <2>2. CASE ReceiveFails \/ ReceiveNothing
    BY <2>2, OutStutters DEF ReceiveFails, ReceiveNothing, ReadEnds, outgoing
  <2> QED BY <1>5, <2>1, <2>2 DEF Read
<1>6. CASE HeartBeatNotDue \/ HeartBeatBecomesDue
  BY <1>6, OutStutters DEF HeartBeatNotDue, HeartBeatBecomesDue, GatewayGoes, outgoing
<1>7. CASE SendHeartBeat
  <2>1. PICK request : request = [TestReqID |-> testId]
    OBVIOUS
  <2>2. /\ Ask("gateway", "HEART_BEAT", request) /\ UNCHANGED outVars
        /\ gateway # "opening" /\ gateway' = "queueing"
    BY <1>7, <2>1 DEF SendHeartBeat, GatewayGoes
  <2>3. Asked("HEART_BEAT", request) /\ "gateway" \in Callers
    BY <2>1 DEF Asked, Callers
  <2> QED BY <2>2, <2>3, AskOutInv
<1>8. CASE Parse
  BY <1>8, OutStutters DEF Parse, ParseIncomplete, ParseFails, ParseExpected, ParseAborts,
       ParseOld, ParseAhead, HeaderRead, Skip, GatewayGoes, ReadEnds, outgoing
<1>9. ASSUME NEW request \in Requests, SendRequest(request) PROVE OutInv'
  <2>1. /\ Ask("engine", request.type, request.request) /\ UNCHANGED outVars
        /\ gateway # "opening" /\ gateway' = gateway
    BY <1>9 DEF SendRequest
  <2>2. Asked(request.type, request.request) /\ "engine" \in Callers
    BY DEF Asked, Callers
  <2> QED BY <2>1, <2>2, AskOutInv
<1>10. ASSUME NEW c \in Callers, AddMessage(c) PROVE OutInv'
  BY <1>10, AddMessageOutInv
<1>11. CASE UNCHANGED vars
  BY <1>11, OutStutters DEF vars, outgoing
<1>12. "gateway" \in Callers /\ "engine" \in Callers
  BY DEF Callers
<1> QED BY <1>1, <1>2, <1>3, <1>4, <1>5, <1>6, <1>7, <1>8, <1>9, <1>10, <1>11, <1>12
        DEF Next, Open, Gateway, Send, KeepAlive, Engine, EngineCall

(* What the broker gets is the messages 1, 2, 3, ... byte for byte, in     *)
(* however many pieces they are sent and whatever is asked for while they  *)
(* are (sendMessages).                                                     *)
THEOREM WholeMessages == ASSUME WidthsAreNat PROVE Spec => []WireIsWhole
<1>1. Init => OutInv
  BY InitOutInv
<1>2. OutInv /\ [Next]_vars => OutInv'
  BY NextOutInv
<1>3. OutInv => WireIsWhole
  BY DEF OutInv, WireInv
<1> QED BY <1>1, <1>2, <1>3, PTL DEF Spec

LEMMA MessageSaysAsAsked ==
  ASSUME WidthsAreNat, NEW message, NEW n \in Nat, MessageBuilt(message, n)
  PROVE  SaysAsAsked(message, n)
<1>1. PICK type, request, s : type = message.type /\ request = message.request
                              /\ s = message.fields
  OBVIOUS
<1>2. PICK tags : tags = {s[k].tag : k \in 1 .. Len(s)}
  OBVIOUS
<1>3. /\ Asked(type, request) /\ HasRequired(type, request)
      /\ s = finalizeOutMessage(FieldsOf(type, request), n)
  BY <1>1 DEF MessageBuilt
<1>4. /\ type \in DOMAIN Layout
      /\ {"MsgType", "MsgSeqNum", "CheckSum"} \cap DOMAIN request = {}
  BY <1>3, AskedTypes
<1>5. /\ s[1] = [tag |-> "MsgType", value |-> type, ok |-> TRUE]
      /\ s[2] = [tag |-> "MsgSeqNum", value |-> IF n <= LargestSeqNum THEN n ELSE 0,
                 ok |-> TRUE]
      /\ \A k \in 3 .. Len(s) : FieldOfSent(type, request, s[k])
      /\ HasFirst(type, request, Len(Layout[type]), s)
      /\ n <= LargestSeqNum /\ HasRoom(type, request) => s[Len(s)] = CheckSumField
  BY <1>3, <1>4, Finalized
<1>6. \E Any : s \in Seq(Any)
  BY <1>3, <1>4, Finalized
<1>7. Required[type] \subseteq tags \cup {"OrderType"}
  <2>1. ASSUME NEW a \in Required[type], a # "OrderType" PROVE a \in tags
    <3>1. PICK i \in 1 .. Len(Layout[type]) : Layout[type][i] = a
      BY <1>4, <2>1, LayoutTypes
    <3>2. a \notin {"Username", "Password", "TestReqID", "OrderID", "StopPx"}
      <4>1. type \in {"LOGON", "HEART_BEAT", "MARKET_DATA_REQUEST", "NEW_ORDER_SINGLE",
                      "ORDER_REPLACE", "ORDER_CANCEL"}
        BY <1>4 DEF Layout
      <4> QED BY <4>1 DEF Required
    <3>3. Present(type, request, a)
      BY <3>2 DEF Present
    <3>4. HasTag(s, a)
      BY <1>5, <3>1, <3>3 DEF HasFirst
    <3> QED BY <1>2, <3>4 DEF HasTag
  <2> QED BY <2>1
<1>8. n <= LargestSeqNum /\ HasRoom(type, request) => s[Len(s)].tag = "CheckSum" /\ s[Len(s)].ok
  BY <1>5 DEF CheckSumField
<1>9. ASSUME CanBeWritten(type, request), NEW k \in 1 .. Len(s), s[k].tag \in DOMAIN request
      PROVE  s[k].ok /\ s[k].value = request[s[k].tag]
  <2>1. PICK field : field = s[k]
    OBVIOUS
  <2>2. k \in {1, 2} \/ k \in 3 .. Len(s)
    BY <1>6
  <2>3. k \notin {1, 2}
    BY <1>4, <1>5, <1>9
  <2>4. field \notin {CheckSumField, CheckSumCut}
    BY <1>4, <1>9, <2>1 DEF CheckSumField, CheckSumCut
  <2>5. BodyField(type, request, field)
    BY <1>5, <2>1, <2>2, <2>3, <2>4 DEF FieldOfSent
  <2> QED BY <1>3, <1>9, <2>1, <2>5, BodySaysAsAsked
<1>10. n <= LargestSeqNum => s[2].value = n
  BY <1>5
<1> QED BY <1>1, <1>2, <1>5, <1>7, <1>8, <1>9, <1>10 DEF SaysAsAsked

(* A message that is sent says what was asked, whatever the two threads    *)
(* ask for and however they meet in the ring: with its number and its      *)
(* checksum when there is room for them, with all that is required and, if *)
(* the builder can write the request, with its values in the right fields  *)
(* (addDataToOutMsg, finalizeOutMessage).                                  *)
THEOREM SaysWhatWasAsked == ASSUME WidthsAreNat PROVE Spec => []SentAsAsked
<1>1. Init => OutInv
  BY InitOutInv
<1>2. OutInv /\ [Next]_vars => OutInv'
  BY NextOutInv
<1>3. ASSUME OutInv PROVE SentAsAsked
  <2>1. \A n \in 1 .. Len(sent) : n \in Nat /\ MessageBuilt(sent[n], n)
    BY <1>3 DEF OutInv, SentInv
  <2> QED BY <2>1, MessageSaysAsAsked DEF SentAsAsked
<1> QED BY <1>1, <1>2, <1>3, PTL DEF Spec

-----------------------------------------------------------------------------
(* What the parser finds in a message.                                     *)
LEMMA GreatestOf ==
  ASSUME NEW n \in Nat, NEW T, T \subseteq 0 .. n, T # {}
  PROVE  \E i \in T : \A j \in T : j <= i
<1>1. PICK S : S = {n - i : i \in T}
  OBVIOUS
<1>2. S \subseteq Nat /\ S # {}
  <2>1. ASSUME NEW i \in T PROVE n - i \in Nat
    <3>1. i \in 0 .. n
      OBVIOUS
    <3> QED BY <3>1
  <2> QED BY <1>1, <2>1
<1>3. PICK k \in S : \A m \in S : k <= m
  BY <1>2, LeastOf
<1>4. PICK i \in T : k = n - i
  BY <1>1
<1>5. ASSUME NEW j \in T PROVE j <= i
  <2>1. n - j \in S /\ i \in 0 .. n /\ j \in 0 .. n
    BY <1>1
  <2>2. n - i <= n - j
    BY <1>3, <1>4, <2>1
  <2> QED BY <2>1, <2>2
<1> QED BY <1>5

LEMMA EarliestIs ==
  ASSUME NEW T, T \subseteq Nat, T # {}
  PROVE  EarliestOf(T) \in T /\ \A i \in T : EarliestOf(T) <= i
<1>1. \E n \in T : \A m \in T : n <= m
  BY LeastOf
<1> QED BY <1>1 DEF EarliestOf

LEMMA LatestIs ==
  ASSUME NEW n \in Nat, NEW T, T \subseteq 0 .. n, T # {}
  PROVE  LatestOf(T) \in T /\ \A i \in T : i <= LatestOf(T)
<1>1. \E i \in T : \A j \in T : j <= i
  BY GreatestOf
<1> QED BY <1>1 DEF LatestOf

(* A value that is read is that of a field with one of the tags.           *)
LEMMA LastValueIs ==
  ASSUME NEW fields, Len(fields) \in Nat, NEW tags, NEW before
  PROVE  LET v == LastValue(fields, tags, before)
         IN \/ v = before /\ \A i \in 1 .. Len(fields) : fields[i].tag \notin tags
            \/ \E i \in 1 .. Len(fields) :
                 /\ fields[i].tag \in tags
                 /\ v = toCommonType(fields[i].tag, fields[i].value)
                 /\ \A j \in 1 .. Len(fields) : fields[j].tag \in tags => j <= i
<1>1. PICK at : at = {i \in 1 .. Len(fields) : fields[i].tag \in tags}
  OBVIOUS
<1>2. LastValue(fields, tags, before) =
        IF at = {} THEN before
        ELSE toCommonType(fields[LatestOf(at)].tag, fields[LatestOf(at)].value)
  BY <1>1 DEF LastValue
<1>3. CASE at = {}
  BY <1>1, <1>2, <1>3
<1>4. CASE at # {}
  <2>1. at \subseteq 0 .. Len(fields)
    BY <1>1
  <2>2. LatestOf(at) \in at /\ \A i \in at : i <= LatestOf(at)
    BY <1>4, <2>1, LatestIs
  <2>3. PICK i \in 1 .. Len(fields) : i = LatestOf(at) /\ fields[i].tag \in tags
    BY <1>1, <2>2
  <2> QED BY <1>1, <1>2, <1>4, <2>2, <2>3
<1> QED BY <1>3, <1>4

(* A message has a header and ends with a checksum.                        *)
IsMessage(fields) ==
  /\ \E Any : fields \in Seq(Any)
  /\ Len(fields) \in Nat \ {0}
  /\ fields[Len(fields)].tag = "CheckSum"

LEMMA MessagesAre ==
  ASSUME NEW m \in Messages
  PROVE  /\ IsMessage(m.fields)
         /\ m.size \in Nat \ {0} /\ m.lengthEnds \in Nat
         /\ \A i \in 1 .. Len(m.fields) :
              /\ m.fields[i].ok \in BOOLEAN
              /\ m.fields[i].tag = "MsgSeqNum" => m.fields[i].value \in Nat
<1>1. /\ m.size \in Nat \ {0} /\ m.lengthEnds \in Nat
      /\ m.fields \in Seq(Fields) \ {<< >>}
      /\ m.fields[Len(m.fields)].tag = "CheckSum"
  BY ScriptsAssumption
<1>2. PICK f : f = m.fields
  OBVIOUS
<1>3. f \in Seq(Fields) /\ f # << >>
  BY <1>1, <1>2
<1>4. Len(f) \in Nat \ {0} /\ \A i \in 1 .. Len(f) : f[i] \in Fields
  BY <1>3
<1> QED BY <1>1, <1>2, <1>3, <1>4, ScriptsAssumption DEF IsMessage

LEMMA HeaderLengthIs ==
  ASSUME NEW f, IsMessage(f)
  PROVE  HeaderLength(f) \in 0 .. Len(f) - 1
<1>1. PICK T : T = {i \in 1 .. Len(f) : f[i].tag \notin HeaderTags \cup SkippedHeaderTags}
  OBVIOUS
<1>2. Len(f) \in T
  BY <1>1 DEF IsMessage, HeaderTags, SkippedHeaderTags
<1>3. T \subseteq Nat /\ T # {}
  BY <1>1, <1>2
<1>4. EarliestOf(T) \in T
  BY <1>3, EarliestIs
<1>5. HeaderLength(f) = EarliestOf(T) - 1
  BY <1>1 DEF HeaderLength
<1> QED BY <1>1, <1>4, <1>5 DEF IsMessage

(* Its beginning and its end are parts of a sequence.                      *)
LEMMA PartIs ==
  ASSUME NEW s, IsSeq(s), NEW a \in 1 .. Len(s) + 1, NEW b \in a - 1 .. Len(s)
  PROVE  /\ IsSeq(SubSeq(s, a, b))
         /\ Len(SubSeq(s, a, b)) = b - a + 1
         /\ \A i \in 1 .. b - a + 1 : SubSeq(s, a, b)[i] = s[a + i - 1]
<1>1. PICK Any : s \in Seq(Any)
  BY DEF IsSeq
<1>2. Len(s) \in Nat /\ a \in Int /\ b \in Int /\ a <= b + 1
  BY <1>1
<1>3. \A i \in a .. b : s[i] \in Any
  BY <1>1, <1>2
<1>4. PICK d \in Nat : d = b - a + 1
  BY <1>2
<1>5. PICK p : p = SubSeq(s, a, b)
  OBVIOUS
<1>6. p = [i \in 1 .. d |-> s[a + i - 1]]
  BY <1>1, <1>2, <1>4, <1>5
<1>7. \A i \in 1 .. d : a + i - 1 \in a .. b
  BY <1>2, <1>4
<1>8. p \in [1 .. d -> Any]
  BY <1>3, <1>6, <1>7
<1>9. p \in Seq(Any) /\ Len(p) = d
  BY <1>8
<1> QED BY <1>4, <1>5, <1>6, <1>9 DEF IsSeq

(* Which fields belong to an entry is a recursion over the fields.         *)
LEMMA InEntryIs ==
  ASSUME NEW type, NEW body, Len(body) \in Nat, NEW i \in 0 .. Len(body)
  PROVE  InEntry(type, body)[i] <=>
           /\ i > 0
           /\ \/ body[i].tag = EntryBegins(type)
              \/ InEntry(type, body)[i - 1] /\ body[i].tag \in EntryTags(type)
<1> DEFINE next(t, k) == \/ body[k].tag = EntryBegins(type)
                         \/ t /\ body[k].tag \in EntryTags(type)
           Follows(in) == in = [k \in 0 .. Len(body) |->
                                  /\ k > 0
                                  /\ \/ body[k].tag = EntryBegins(type)
                                     \/ in[k - 1] /\ body[k].tag \in EntryTags(type)]
<1>1. PICK n \in Nat : n = Len(body)
  OBVIOUS
<1>2. PICK step : step = [p \in BOOLEAN \X (1 .. n) |-> next(p[1], p[2])]
  OBVIOUS
<1>3. PICK T : T = [k \in 0 .. n |-> BOOLEAN]
  OBVIOUS
<1>4. ASSUME NEW t \in BOOLEAN, NEW k \in 1 .. n
      PROVE step[<<t, k>>] = next(t, k) /\ step[<<t, k>>] \in BOOLEAN
  <2>1. <<t, k>> \in BOOLEAN \X (1 .. n) /\ <<t, k>>[1] = t /\ <<t, k>>[2] = k
    OBVIOUS
  <2>2. next(t, k) \in BOOLEAN
    OBVIOUS
  <2>3. step[<<t, k>>] = next(t, k)
    <3> HIDE DEF next
    <3> QED BY <1>2, <2>1
  <2> QED BY <2>2, <2>3
<1>5. FALSE \in T[0] /\ \A k \in 1 .. n : \A t \in T[k - 1] : step[<<t, k>>] \in T[k]
  <2>1. \A k \in 0 .. n : T[k] = BOOLEAN
    BY <1>3
  <2>2. \A k \in 1 .. n : k \in 0 .. n /\ k - 1 \in 0 .. n
    OBVIOUS
  <2>3. 0 \in 0 .. n
    OBVIOUS
  <2> HIDE DEF next
  <2> QED BY <1>4, <2>1, <2>2, <2>3
<1>6. PICK g : Recursion(n, FALSE, step, g) /\ \A k \in 0 .. n : g[k] \in T[k]
  BY <1>5, RecursionWorks
<1>7. ASSUME NEW k \in 0 .. n PROVE g[k] = (k > 0 /\ next(g[k - 1], k))
  <2>1. CASE k = 0
    <3>1. g[k] = FALSE
      BY <1>6, <2>1 DEF Recursion
    <3>2. ~(k > 0)
      BY <2>1
    <3> HIDE DEF next
    <3> QED BY <3>1, <3>2
  <2>2. CASE k # 0
    <3>1. k \in 1 .. n /\ k - 1 \in 0 .. n /\ k > 0
      BY <2>2
    <3>2. g[k] = step[<<g[k - 1], k>>] /\ g[k - 1] \in BOOLEAN
      BY <1>3, <1>6, <2>2, <3>1 DEF Recursion
    <3> HIDE DEF next
    <3> QED BY <1>4, <3>1, <3>2
  <2> QED BY <2>1, <2>2
<1>8. Follows(g)
  <2>1. g = [k \in 0 .. n |-> g[k]]
    BY <1>6 DEF Recursion
  <2>2. g = [k \in 0 .. n |-> k > 0 /\ next(g[k - 1], k)]
    BY <1>7, <2>1
  <2> QED BY <1>1, <2>2
<1>9. PICK f : f = CHOOSE in : Follows(in)
  OBVIOUS
<1>10. Follows(f)
  <2> HIDE DEF Follows
  <2> QED BY <1>8, <1>9
<1>11. InEntry(type, body) = f
  BY <1>9 DEF InEntry
<1> QED BY <1>10, <1>11

(* What is read of a body is its beginning, up to the checksum at most.    *)
LEMMA ConsumedIs ==
  ASSUME NEW type \in BodyTypes, NEW body, IsMessage(body)
  PROVE  \E n \in 0 .. Len(body) - 1 :
           /\ Consumed(type, body) = SubSeq(body, 1, n)
           /\ \A i \in 1 .. n : body[i].tag \in BodyTags[type] \/ InEntry(type, body)[i]
<1>1. PICK last \in Nat : last = Len(body) /\ last # 0
  BY DEF IsMessage
<1>2. body[last].tag = "CheckSum"
  BY <1>1 DEF IsMessage
<1>3. /\ "CheckSum" \notin BodyTags[type] /\ "CheckSum" # EntryBegins(type)
      /\ "CheckSum" \notin EntryTags(type)
  <2>1. type \in {"LOGON", "HEART_BEAT", "MARKET_DATA", "SNAPSHOT", "EXECUTION_REPORT",
                  "ORDER_CANCEL_REJECT"}
    BY DEF BodyTypes, BodyTags
  <2>2. "CheckSum" \notin BodyTags[type]
    BY <2>1 DEF BodyTags, LogonTags, HeartBeatTags, MarketDataTags, SnapshotTags,
                ExecutionReportTags, OrderCancelRejectTags
  <2>3. "CheckSum" # EntryBegins(type)
    BY DEF EntryBegins
  <2>4. "CheckSum" \notin EntryTags(type)
    BY DEF EntryTags, UpdateTags, SnapshotEntryTags, SkippedEntryTags
  <2> QED BY <2>2, <2>3, <2>4
<1>4. PICK in : in = InEntry(type, body)
  OBVIOUS
<1>5. ~in[last]
  <2>1. last \in 0 .. Len(body)
    BY <1>1
  <2> QED BY <1>1, <1>2, <1>3, <1>4, <2>1, InEntryIs
<1>6. PICK unread : unread = {i \in 1 .. Len(body) : body[i].tag \notin BodyTags[type] /\ ~in[i]}
  OBVIOUS
<1>7. last \in unread /\ unread \subseteq Nat
  BY <1>1, <1>2, <1>3, <1>5, <1>6
<1>8. EarliestOf(unread) \in unread /\ \A i \in unread : EarliestOf(unread) <= i
  BY <1>7, EarliestIs
<1>9. Consumed(type, body) = SubSeq(body, 1, EarliestOf(unread) - 1)
  BY <1>4, <1>6 DEF Consumed
<1>10. PICK e \in 1 .. last : e = EarliestOf(unread)
  BY <1>1, <1>6, <1>8
<1>11. e - 1 \in 0 .. Len(body) - 1 /\ \A i \in 1 .. e - 1 : i \in 1 .. Len(body) /\ ~(e <= i)
  BY <1>1, <1>10
<1>12. \A i \in 1 .. e - 1 : body[i].tag \in BodyTags[type] \/ in[i]
  BY <1>6, <1>8, <1>10, <1>11
<1> QED BY <1>4, <1>9, <1>10, <1>11, <1>12

LEMMA BodyIs ==
  ASSUME NEW f, IsMessage(f)
  PROVE  /\ IsMessage(Body(f))
         /\ Len(Body(f)) = Len(f) - HeaderLength(f)
         /\ \A i \in 1 .. Len(Body(f)) :
              HeaderLength(f) + i \in 1 .. Len(f) /\ Body(f)[i] = f[HeaderLength(f) + i]
<1>1. PICK h \in 0 .. Len(f) - 1 : h = HeaderLength(f)
  BY HeaderLengthIs
<1>2. IsSeq(f) /\ Len(f) \in Nat \ {0}
  BY DEF IsMessage, IsSeq
<1>3. h + 1 \in 1 .. Len(f) + 1 /\ Len(f) \in (h + 1) - 1 .. Len(f)
      /\ Len(f) - (h + 1) + 1 = Len(f) - h
  BY <1>1, <1>2
<1>4. PICK b : b = SubSeq(f, h + 1, Len(f))
  OBVIOUS
<1>5. /\ IsSeq(b) /\ Len(b) = Len(f) - h
      /\ \A i \in 1 .. Len(f) - h : b[i] = f[(h + 1) + i - 1]
  BY <1>2, <1>3, <1>4, PartIs
<1>6. \A i \in 1 .. Len(b) : h + i \in 1 .. Len(f) /\ (h + 1) + i - 1 = h + i
  BY <1>1, <1>2, <1>5
<1>7. b[Len(b)].tag = "CheckSum" /\ Len(b) \in Nat \ {0}
  <2>1. PICK d \in Nat \ {0} : d = Len(f) - h
    BY <1>1, <1>2
  <2>2. d \in 1 .. Len(f) - h /\ (h + 1) + d - 1 = Len(f)
    BY <1>1, <1>2, <2>1
  <2>3. Len(b) = d /\ b[d] = f[Len(f)]
    BY <1>5, <2>1, <2>2
  <2> QED BY <2>1, <2>3 DEF IsMessage
<1>8. Body(f) = b
  BY <1>1, <1>4 DEF Body
<1> QED BY <1>1, <1>5, <1>6, <1>7, <1>8 DEF IsMessage, IsSeq

(* A body that cannot be read has a field that cannot be.                  *)
LEMMA UnreadableBody ==
  ASSUME NEW m \in Messages, NEW type \in BodyTypes,
         BodyStatus(type, Body(m.fields)) # "SUCCESS"
  PROVE  \E i \in 1 .. Len(m.fields) : ~m.fields[i].ok
<1>1. PICK f : f = m.fields /\ IsMessage(f)
  BY MessagesAre
<1>2. PICK body : body = Body(f)
  OBVIOUS
<1>3. IsMessage(body) /\ \A i \in 1 .. Len(body) : \E k \in 1 .. Len(f) : body[i] = f[k]
  BY <1>1, <1>2, BodyIs
<1>4. ~Readable(Consumed(type, body))
  BY <1>1, <1>2 DEF BodyStatus
<1>5. PICK n \in 0 .. Len(body) - 1 : Consumed(type, body) = SubSeq(body, 1, n)
  BY <1>3, ConsumedIs
<1>6. IsSeq(body) /\ Len(body) \in Nat /\ 1 \in 1 .. Len(body) + 1 /\ n \in 1 - 1 .. Len(body)
      /\ n - 1 + 1 = n
  BY <1>3 DEF IsMessage, IsSeq
<1>7. PICK read : read = SubSeq(body, 1, n)
  OBVIOUS
<1>8. Len(read) = n /\ \A i \in 1 .. n : read[i] = body[1 + i - 1]
  BY <1>6, <1>7, PartIs
<1>9. PICK i \in 1 .. n : ~read[i].ok
  BY <1>4, <1>5, <1>7, <1>8 DEF Readable
<1>10. i \in 1 .. Len(body) /\ 1 + i - 1 = i
  BY <1>6
<1> QED BY <1>1, <1>3, <1>8, <1>9, <1>10

LEMMA HeaderIs ==
  ASSUME NEW m \in Messages
  PROVE  /\ Header[m].seqNum \in Nat
         /\ Header[m].type = HeaderBodyType(m.fields, Unset)
<1>1. PICK f : f = m.fields /\ IsMessage(f)
  BY MessagesAre
<1>2. PICK h \in 0 .. Len(f) - 1 : h = HeaderLength(f)
  BY <1>1, HeaderLengthIs
<1>3. IsSeq(f) /\ Len(f) \in Nat /\ 1 \in 1 .. Len(f) + 1 /\ h \in 1 - 1 .. Len(f)
      /\ h - 1 + 1 = h
  BY <1>1 DEF IsMessage, IsSeq
<1>4. PICK s : s = SubSeq(f, 1, h)
  OBVIOUS
<1>5. Len(s) = h /\ \A i \in 1 .. h : s[i] = f[1 + i - 1]
  BY <1>3, <1>4, PartIs
<1>6. \A i \in 1 .. h : i \in 1 .. Len(f) /\ 1 + i - 1 = i
  BY <1>3
<1>7. PICK v : v = LastValue(s, {"MsgSeqNum"}, 0)
  OBVIOUS
<1>8. \/ v = 0
      \/ \E i \in 1 .. Len(s) :
           s[i].tag \in {"MsgSeqNum"} /\ v = toCommonType(s[i].tag, s[i].value)
  <2>1. Len(s) \in Nat
    BY <1>5
  <2> QED BY <1>7, <2>1, LastValueIs
<1>9. ASSUME NEW i \in 1 .. Len(s), s[i].tag = "MsgSeqNum"
      PROVE toCommonType(s[i].tag, s[i].value) \in Nat
  <2>1. s[i] = f[i] /\ i \in 1 .. Len(f)
    BY <1>5, <1>6
  <2>2. s[i].value \in Nat
    BY <1>1, <1>9, <2>1, MessagesAre
  <2>3. "MsgSeqNum" \notin DOMAIN CodesOf
    BY DEF CodesOf
  <2> QED BY <1>9, <2>2, <2>3 DEF toCommonType
<1>10. v \in Nat
  BY <1>8, <1>9
<1>11. v = HeaderSeqNum(m.fields)
  BY <1>1, <1>2, <1>4, <1>7 DEF HeaderSeqNum
<1> QED BY <1>10, <1>11 DEF Header

-----------------------------------------------------------------------------
(* Where the messages lie in the stream.                                   *)
LEMMA EndOfIs ==
  ASSUME script \in Scripts
  PROVE  /\ Len(script) \in Nat
         /\ \A i \in 1 .. Len(script) : script[i] \in Messages
         /\ \A i \in 0 .. Len(script) : EndOf[i] \in Nat
         /\ EndOf[0] = 0
         /\ \A i \in 1 .. Len(script) : EndOf[i] = EndOf[i - 1] + script[i].size
<1> DEFINE Ends(e) == e = [i \in 0 .. Len(script) |->
                             IF i = 0 THEN 0 ELSE e[i - 1] + script[i].size]
<1>1. script \in Seq(Messages)
  BY ScriptsAssumption
<1>2. PICK n \in Nat : n = Len(script)
  BY <1>1
<1>3. ASSUME NEW i \in 1 .. n PROVE script[i] \in Messages /\ script[i].size \in Nat
  <2>1. script[i] \in Messages
    BY <1>1, <1>2
  <2> QED BY <2>1, MessagesAre
<1>4. PICK step : step = [p \in Nat \X (1 .. n) |-> p[1] + script[p[2]].size]
  OBVIOUS
<1>5. PICK T : T = [i \in 0 .. n |-> Nat]
  OBVIOUS
<1>6. ASSUME NEW t \in Nat, NEW i \in 1 .. n
      PROVE step[<<t, i>>] = t + script[i].size /\ step[<<t, i>>] \in Nat
  BY <1>3, <1>4
<1>7. 0 \in T[0] /\ \A i \in 1 .. n : \A t \in T[i - 1] : step[<<t, i>>] \in T[i]
  BY <1>5, <1>6
<1>8. PICK g : Recursion(n, 0, step, g) /\ \A i \in 0 .. n : g[i] \in T[i]
  BY <1>7, RecursionWorks
<1>9. Ends(g)
  <2>1. ASSUME NEW i \in 0 .. n PROVE g[i] = IF i = 0 THEN 0 ELSE g[i - 1] + script[i].size
    <3>1. CASE i = 0
      BY <1>8, <3>1 DEF Recursion
    <3>2. CASE i # 0
      <4>1. i \in 1 .. n /\ i - 1 \in 0 .. n
        BY <3>2
      <4>2. g[i] = step[<<g[i - 1], i>>] /\ g[i - 1] \in Nat
        BY <1>5, <1>8, <3>2, <4>1 DEF Recursion
      <4> QED BY <1>6, <3>2, <4>1, <4>2
    <3> QED BY <3>1, <3>2
  <2>2. g = [i \in 0 .. n |-> g[i]]
    BY <1>8 DEF Recursion
  <2> QED BY <1>2, <2>1, <2>2
<1>10. PICK f : f = CHOOSE e : Ends(e)
  OBVIOUS
<1>11. Ends(f)
  <2> HIDE DEF Ends
  <2> QED BY <1>9, <1>10
<1>12. EndOf = f
  BY <1>10 DEF EndOf
<1>13. f[0] = 0 /\ \A i \in 1 .. n : f[i] = f[i - 1] + script[i].size
  <2>1. f[0] = 0
    BY <1>2, <1>11
  <2>2. ASSUME NEW i \in 1 .. n PROVE f[i] = f[i - 1] + script[i].size
    <3>1. i \in 0 .. Len(script) /\ i # 0
      BY <1>2
    <3> QED BY <1>11, <3>1
  <2> QED BY <2>1, <2>2
<1>14. \A i \in 0 .. n : f[i] \in Nat
  <2>1. PICK S : S = {i \in 0 .. n : f[i] \in Nat}
    OBVIOUS
  <2>2. 0 \in S
    BY <1>13, <2>1
  <2>3. ASSUME NEW i \in 0 .. n - 1, i \in S PROVE i + 1 \in S
    <3>1. i + 1 \in 1 .. n /\ (i + 1) - 1 = i
      OBVIOUS
    <3>2. f[i + 1] = f[i] + script[i + 1].size
      BY <1>13, <3>1
    <3> QED BY <1>3, <2>1, <2>3, <3>1, <3>2
  <2>4. 0 .. n \subseteq S
    BY <2>2, <2>3, UpTo
  <2> QED BY <2>1, <2>4
<1> QED BY <1>2, <1>3, <1>12, <1>13, <1>14

LEMMA EndsGrow ==
  ASSUME script \in Scripts, NEW i \in 0 .. Len(script), NEW j \in 0 .. Len(script), i < j
  PROVE  EndOf[i] < EndOf[j]
<1>1. PICK n \in Nat : n = Len(script)
  BY EndOfIs
<1>2. PICK e : e = EndOf
  OBVIOUS
<1>3. /\ \A k \in 0 .. n : e[k] \in Nat
      /\ \A k \in 1 .. n : e[k - 1] < e[k]
  <2>1. ASSUME NEW k \in 1 .. n PROVE e[k - 1] < e[k]
    <3>1. script[k].size \in Nat \ {0}
      BY <1>1, EndOfIs, MessagesAre
    <3>2. e[k] = e[k - 1] + script[k].size /\ e[k - 1] \in Nat
      BY <1>1, <1>2, EndOfIs
    <3> QED BY <3>1, <3>2
  <2> QED BY <1>1, <1>2, <2>1, EndOfIs
<1>4. PICK S : S = {k \in 0 .. n : k > i => e[i] < e[k]}
  OBVIOUS
<1>5. i \in 0 .. n /\ j \in 0 .. n
  BY <1>1
<1>6. 0 \in S
  BY <1>4, <1>5
<1>7. ASSUME NEW k \in 0 .. n - 1, k \in S PROVE k + 1 \in S
  <2>1. k + 1 \in 1 .. n /\ (k + 1) - 1 = k /\ k \in 0 .. n
    OBVIOUS
  <2>2. e[k] < e[k + 1] /\ e[k] \in Nat /\ e[k + 1] \in Nat /\ e[i] \in Nat
    BY <1>3, <1>5, <2>1
  <2>3. ASSUME k + 1 > i PROVE e[i] < e[k + 1]
    <3>1. CASE k = i
      BY <2>2, <3>1
    <3>2. CASE k > i
      <4>1. e[i] < e[k]
        BY <1>4, <1>7, <3>2
      <4> QED BY <2>2, <4>1
    <3> QED BY <1>5, <2>1, <2>3, <3>1, <3>2
  <2> QED BY <1>4, <2>1, <2>3
<1>8. 0 .. n \subseteq S
  BY <1>6, <1>7, UpTo
<1> QED BY <1>2, <1>4, <1>5, <1>8

(* Positions of the buffer: a number of whole turns.                       *)
LEMMA Turns ==
  ASSUME NEW u \in Nat \ {0}, NEW r \in Nat \ {0}
  PROVE  /\ r * ((u - 1) \div r) \in Nat
         /\ r * ((u - 1) \div r) < u
         /\ r * ((u - 1) \div r) = 0 \/ r * ((u - 1) \div r) >= r
         /\ u <= r <=> r * ((u - 1) \div r) = 0
<1>1. PICK x \in Nat : x = u - 1
  OBVIOUS
<1>2. PICK q \in Int : q = x \div r
  OBVIOUS
<1>3. r * q <= x /\ x < r * (q + 1)
  BY <1>2
<1>4. q \in Nat
  <2>1. ASSUME q < 0 PROVE FALSE
    <3>1. q + 1 <= 0
      BY <2>1
    <3>2. r * (q + 1) <= 0
      BY <3>1
    <3> QED BY <1>3, <3>2
  <2> QED BY <2>1
<1>5. r * q \in Nat /\ (q = 0 \/ r * q >= r)
  BY <1>4
<1>6. x < r => q = 0
  BY <1>3, <1>5
<1>7. q = 0 => r * q = 0 /\ r * (q + 1) = r
  OBVIOUS
<1>8. r * q = 0 => q = 0
  BY <1>5
<1> QED BY <1>1, <1>2, <1>3, <1>5, <1>6, <1>7, <1>8

-----------------------------------------------------------------------------
(* Where the session is in the stream, as an invariant: at the end of the  *)
(* message it looked at last, unless more bytes came than the buffer holds.*)
Unreadable(m) ==
  Header[m].type \notin BodyTypes \/ \E n \in 1 .. Len(m.fields) : ~m.fields[n].ok

(* No message that was looked at has a number to come, and one that has    *)
(* the next number could not be read.                                      *)
LookedAt(k) ==
  \A i \in 1 .. k :
    /\ Header[script[i]].seqNum <= expected
    /\ Header[script[i]].seqNum = expected => Unreadable(script[i])

Aligned == \E k \in 0 .. Len(script) : parseStart = EndOf[k] /\ LookedAt(k)

Overrun == IF gateway = "parsing" THEN Unread > RingSize ELSE Unread >= RingSize

StreamInv ==
  /\ script \in Scripts
  /\ parseStart \in Nat /\ start \in Nat /\ end \in Nat
  /\ parseStart <= end /\ parseStart <= start /\ end <= Total
  /\ expected \in Nat \ {0}
  /\ Aligned \/ Overrun

LEMMA InitStreamInv == Init => StreamInv
<1> SUFFICES ASSUME Init PROVE StreamInv
  OBVIOUS
<1>1. script \in Scripts /\ parseStart = 0 /\ start = 0 /\ end = 0 /\ expected = 1
  BY DEF Init
<1>2. Len(script) \in Nat /\ EndOf[0] = 0 /\ Total \in Nat
  BY <1>1, EndOfIs DEF Total
<1>3. 0 \in 0 .. Len(script) /\ LookedAt(0)
  BY <1>2 DEF LookedAt
<1>4. Aligned
  BY <1>1, <1>2, <1>3 DEF Aligned
<1> QED BY <1>1, <1>2, <1>4 DEF StreamInv

LEMMA StreamStutters ==
  ASSUME StreamInv, UNCHANGED <<script, start, parseStart, end, expected>>,
         gateway' = "parsing" => gateway = "parsing"
  PROVE  StreamInv'
<1>1. EndOf' = EndOf /\ Total' = Total
  BY DEF EndOf, Total
<1>2. Aligned => Aligned'
  BY <1>1 DEF Aligned, LookedAt
<1>3. Overrun => Overrun'
  <2>1. Unread' = Unread /\ Unread \in Int /\ RingSize \in Int
    BY SessionAssumption DEF Unread, StreamInv
  <2> QED BY <2>1 DEF Overrun
<1> QED BY <1>1, <1>2, <1>3 DEF StreamInv

(* What the parser is shown lies where the message it looks for does, or   *)
(* at least a turn of the buffer later.                                    *)
LEMMA ShownIs ==
  ASSUME StreamInv, parseStart # end
  PROVE  /\ Shown \in Nat /\ parseStart <= Shown /\ Shown < end
         /\ Shown = parseStart \/ parseStart + RingSize <= Shown
         /\ Unread <= RingSize <=> Shown = parseStart
<1>1. PICK p, e \in Nat : p = parseStart /\ e = end /\ p < e
  BY DEF StreamInv
<1>2. PICK r \in Nat \ {0} : r = RingSize
  BY SessionAssumption
<1>3. PICK u \in Nat \ {0} : u = e - p
  BY <1>1
<1>4. PICK d : d = r * ((u - 1) \div r)
  OBVIOUS
<1>5. d \in Nat /\ d < u /\ (d = 0 \/ d >= r) /\ (u <= r <=> d = 0)
  BY <1>4, Turns
<1>6. Shown = p + d
  <2>1. e - 1 - p = u - 1
    BY <1>3
  <2>2. end - 1 - parseStart = u - 1
    BY <1>1, <2>1
  <2> QED BY <1>1, <1>2, <1>4, <2>2 DEF Shown
<1>7. Unread = u
  BY <1>1, <1>3 DEF Unread
<1> QED BY <1>1, <1>2, <1>3, <1>5, <1>6, <1>7

(* A message that begins where the session is, is found.                   *)
LEMMA FoundIs ==
  ASSUME StreamInv, Found # {}
  PROVE  /\ FoundIndex \in 1 .. Len(script)
         /\ EndOf[FoundIndex - 1] = Shown
         /\ EndOf[FoundIndex] = Shown + script[FoundIndex].size
         /\ script[FoundIndex] \in Messages
         /\ script[FoundIndex].size \in Nat \ {0}
<1>1. FoundIndex \in Found
  BY DEF FoundIndex
<1>2. FoundIndex \in 1 .. Len(script) /\ EndOf[FoundIndex - 1] = Shown
  BY <1>1 DEF Found, StartsAt
<1>3. script[FoundIndex] \in Messages /\ EndOf[FoundIndex] = Shown + script[FoundIndex].size
  BY <1>2, EndOfIs DEF StreamInv
<1> QED BY <1>2, <1>3, MessagesAre

LEMMA HeaderReadIs ==
  ASSUME StreamInv, gateway = "parsing", HeaderStatus = "SUCCESS"
  PROVE  /\ parseStart # end
         /\ Found # {}
         /\ Shown + script[FoundIndex].size <= end
<1>1. ~(end - parseStart < HeaderMinimum) /\ Found # {}
  BY DEF HeaderStatus
<1>2. parseStart # end
  <2>1. ASSUME parseStart = end PROVE FALSE
    <3>1. end - parseStart = 0 /\ HeaderMinimum \in Nat \ {0}
      BY <2>1, SessionAssumption DEF StreamInv
    <3> QED BY <1>1, <3>1
  <2> QED BY <2>1
<1>3. PICK missing : missing = Shown + script[FoundIndex].size - end
  OBVIOUS
<1>4. missing <= 0
  BY <1>1, <1>3 DEF HeaderStatus, FoundIndex
<1>5. Shown \in Nat /\ end \in Nat /\ script[FoundIndex].size \in Nat
  BY <1>1, <1>2, ShownIs, FoundIs DEF StreamInv
<1> QED BY <1>1, <1>2, <1>3, <1>4, <1>5

(* The number and the type of what was found.                              *)
LEMMA NumberFound ==
  ASSUME StreamInv, Found # {}
  PROVE  SeqNum \in Nat /\ SeqNum = Header[script[FoundIndex]].seqNum
BY FoundIs, HeaderIs DEF SeqNum

(* When a message was looked at, the session is behind it.                 *)
LEMMA SkipStreamInv ==
  ASSUME StreamInv, gateway = "parsing", HeaderStatus = "SUCCESS",
         UNCHANGED <<script, end>>, Skip, expected' \in Nat \ {0},
         \A k \in Nat : LookedAt(k) /\ k + 1 = FoundIndex => LookedAt(k + 1)'
  PROVE  StreamInv'
<1>1. parseStart # end /\ Found # {} /\ Shown + script[FoundIndex].size <= end
  BY HeaderReadIs
<1>2. PICK i : i = FoundIndex
  OBVIOUS
<1>3. /\ i \in 1 .. Len(script) /\ EndOf[i - 1] = Shown
      /\ EndOf[i] = Shown + script[i].size /\ script[i].size \in Nat \ {0}
  BY <1>1, <1>2, FoundIs
<1>4. /\ Shown \in Nat /\ parseStart <= Shown /\ Shown < end
      /\ Shown = parseStart \/ parseStart + RingSize <= Shown
      /\ Unread <= RingSize <=> Shown = parseStart
  BY <1>1, ShownIs
<1>5. /\ start' = start + script[i].size /\ parseStart' = parseStart + script[i].size
      /\ gateway' = "receiving" /\ EndOf' = EndOf /\ Total' = Total
  BY <1>2 DEF Skip, GatewayGoes, EndOf, Total
<1>6. parseStart \in Nat /\ start \in Nat /\ end \in Nat /\ parseStart <= start
      /\ RingSize \in Nat /\ Len(script) \in Nat
  BY SessionAssumption, EndOfIs DEF StreamInv
<1>7. parseStart' \in Nat /\ start' \in Nat /\ parseStart' <= start' /\ parseStart' <= end
  <2>1. PICK size \in Nat \ {0} : size = script[i].size
    BY <1>3
  <2>2. Shown + size <= end
    BY <1>1, <1>2, <2>1
  <2>3. PICK p, q, e, w \in Nat : p = parseStart /\ q = start /\ e = end /\ w = Shown
    BY <1>4, <1>6
  <2>4. p <= q /\ p <= w /\ w + size <= e
    BY <1>4, <1>6, <2>2, <2>3
  <2>5. parseStart' = p + size /\ start' = q + size
    BY <1>5, <2>1, <2>3
  <2> QED BY <2>3, <2>4, <2>5
<1>8. Aligned' \/ Overrun'
  <2>1. CASE parseStart + RingSize <= Shown
    <3>1. end - parseStart' >= RingSize
      <4>1. PICK p, e, w, size \in Nat :
              p = parseStart /\ e = end /\ w = Shown /\ size = script[i].size
        BY <1>3, <1>4, <1>6
      <4>2. parseStart' = p + size /\ p + RingSize <= w /\ w + size <= e
        BY <1>1, <1>2, <1>5, <2>1, <4>1
      <4>3. RingSize \in Nat
        BY <1>6
      <4>4. end - parseStart' = e - (p + size)
        BY <4>1, <4>2
      <4>5. e - (p + size) >= RingSize
        BY <4>1, <4>2, <4>3
      <4> QED BY <4>4, <4>5
    <3>2. Unread' >= RingSize
      BY <3>1 DEF Unread
    <3> QED BY <1>5, <3>2 DEF Overrun
  <2>2. CASE Shown = parseStart /\ Unread <= RingSize
    <3>1. Aligned
      <4>1. ~(Unread > RingSize)
        BY <1>6, <2>2 DEF Unread
      <4> QED BY <4>1 DEF StreamInv, Overrun
    <3>2. PICK k \in 0 .. Len(script) : parseStart = EndOf[k] /\ LookedAt(k)
      BY <3>1 DEF Aligned
    <3>3. k = i - 1
      <4>1. i - 1 \in 0 .. Len(script) /\ EndOf[k] = EndOf[i - 1]
        BY <1>3, <1>6, <2>2, <3>2
      <4>2. EndOf[k] \in Nat
        BY EndOfIs DEF StreamInv
      <4>3. ~(k < i - 1) /\ ~(i - 1 < k)
        BY <4>1, <4>2, EndsGrow DEF StreamInv
      <4> QED BY <4>1, <4>3
    <3>4. k \in Nat /\ k + 1 = i /\ i \in 0 .. Len(script)
      BY <1>3, <1>6, <3>3
    <3>5. LookedAt(k + 1)'
      BY <1>2, <3>2, <3>4
    <3>6. parseStart' = EndOf'[i]
      BY <1>3, <1>5, <2>2
    <3> QED BY <3>4, <3>5, <3>6 DEF Aligned
  <2> QED BY <1>4, <2>1, <2>2
<1> QED BY <1>5, <1>6, <1>7, <1>8 DEF StreamInv

(* More bytes come.                                                        *)
LEMMA ReceiveStreamInv ==
  ASSUME StreamInv, NEW count \in 1 .. ReadSize, Receive(count)
  PROVE  StreamInv'
<1>1. /\ gateway = "receiving" /\ UNCHANGED <<script, parseStart, expected>>
      /\ end' = end + count /\ end + count <= Total
      /\ gateway' \in {"parsing", "beating"}
  BY DEF Receive, AppendToRingBuffer, GatewayGoes, ReadEnds
<1>2. PICK remain : remain = RingSize - (end % RingSize)
  OBVIOUS
<1>3. start' = start \/ (~(remain >= count) /\ start' = start + (count - remain))
  BY <1>2 DEF Receive, AppendToRingBuffer
<1>4. RingSize \in Nat \ {0} /\ count \in Nat \ {0} /\ end \in Nat /\ start \in Nat
      /\ parseStart \in Nat /\ parseStart <= start /\ parseStart <= end
  BY SessionAssumption DEF StreamInv
<1>5. remain \in Int
  BY <1>2, <1>4
<1>6. start' \in Nat /\ parseStart <= start'
  BY <1>3, <1>4, <1>5
<1>7. EndOf' = EndOf /\ Total' = Total
  BY <1>1 DEF EndOf, Total
<1>8. Aligned => Aligned'
  BY <1>1, <1>7 DEF Aligned, LookedAt
<1>9. Overrun => Overrun'
  BY <1>1, <1>4 DEF Overrun, Unread
<1> QED BY <1>1, <1>4, <1>6, <1>7, <1>8, <1>9 DEF StreamInv

(* A message with an old number is skipped.                                *)
LEMMA ParseOldStreamInv == ASSUME StreamInv, ParseOld PROVE StreamInv'
<1>1. /\ gateway = "parsing" /\ HeaderStatus = "SUCCESS" /\ SeqNum < expected
      /\ UNCHANGED <<script, end, expected>> /\ Skip
  BY DEF ParseOld, HeaderRead
<1>2. Found # {}
  BY <1>1, HeaderReadIs
<1>3. Header[script[FoundIndex]].seqNum < expected /\ Header[script[FoundIndex]].seqNum \in Nat
      /\ expected \in Nat \ {0}
  BY <1>1, <1>2, NumberFound DEF StreamInv
<1>4. ASSUME NEW k \in Nat, LookedAt(k), k + 1 = FoundIndex PROVE LookedAt(k + 1)'
  <2>1. \A i \in 1 .. k + 1 : i \in 1 .. k \/ i = FoundIndex
    BY <1>4
  <2> QED BY <1>1, <1>3, <1>4, <2>1 DEF LookedAt
<1> QED BY <1>1, <1>3, <1>4, SkipStreamInv

(* A message with the expected number is handled, or cannot be read.       *)
LEMMA ParseExpectedStreamInv == ASSUME StreamInv, ParseExpected PROVE StreamInv'
<1>1. /\ gateway = "parsing" /\ HeaderStatus = "SUCCESS" /\ SeqNum = expected
      /\ UNCHANGED <<script, end>> /\ Skip /\ HandleBody
  BY DEF ParseExpected, HeaderRead
<1>2. Found # {}
  BY <1>1, HeaderReadIs
<1>3. PICK m \in Messages : m = script[FoundIndex]
  BY <1>2, FoundIs
<1>4. Header[m].seqNum = expected /\ expected \in Nat \ {0}
  BY <1>1, <1>2, <1>3, NumberFound DEF StreamInv
<1>5. expected' = expected + 1 \/ (expected' = expected /\ Unreadable(m))
  <2>1. CASE TypeFound \notin BodyTypes
    <3>1. Header[m].type \notin BodyTypes
      BY <1>3, <2>1, SessionAssumption DEF TypeFound
    <3> QED BY <1>1, <2>1, <3>1 DEF HandleBody, Unreadable
  <2>2. CASE TypeFound \in BodyTypes
    <3>1. PICK read : read = BodyAs[TypeFound][m]
      OBVIOUS
    <3>2. read.status = BodyStatus(TypeFound, Body(m.fields))
      BY <2>2, <3>1 DEF BodyAs
    <3>3. IF read.status = "SUCCESS" THEN expected' = expected + 1 ELSE expected' = expected
      BY <1>1, <1>3, <2>2, <3>1 DEF HandleBody
    <3>4. read.status # "SUCCESS" => Unreadable(m)
      BY <2>2, <3>2, UnreadableBody DEF Unreadable
    <3> QED BY <3>3, <3>4
  <2> QED BY <2>1, <2>2
<1>6. ASSUME NEW k \in Nat, LookedAt(k), k + 1 = FoundIndex PROVE LookedAt(k + 1)'
  <2>1. \A i \in 1 .. k + 1 : i \in 1 .. k \/ i = FoundIndex
    BY <1>6
  <2>2. \A i \in 1 .. k + 1 : Header[script[i]].seqNum <= expected
    BY <1>3, <1>4, <1>6, <2>1 DEF LookedAt
  <2>3. CASE expected' = expected /\ Unreadable(m)
    BY <1>1, <1>3, <1>6, <2>1, <2>2, <2>3 DEF LookedAt
  <2>4. CASE expected' = expected + 1
    <3>1. FoundIndex \in 1 .. Len(script) /\ Len(script) \in Nat
      BY <1>2, FoundIs, EndOfIs DEF StreamInv
    <3>2. \A i \in 1 .. k + 1 : i \in 1 .. Len(script)
      BY <1>6, <3>1
    <3>3. \A i \in 1 .. k + 1 : Header[script[i]].seqNum \in Nat
      BY <3>2, EndOfIs, HeaderIs DEF StreamInv
    <3>4. \A i \in 1 .. k + 1 : /\ Header[script[i]].seqNum <= expected + 1
                                /\ Header[script[i]].seqNum # expected + 1
      BY <1>4, <2>2, <3>3
    <3> QED BY <1>1, <2>4, <3>4 DEF LookedAt
  <2> QED BY <1>5, <2>3, <2>4
<1>7. expected' \in Nat \ {0}
  BY <1>4, <1>5
<1> QED BY <1>1, <1>6, <1>7, SkipStreamInv

(* A message that ends the program is not left.                            *)
LEMMA ParseAbortsStreamInv == ASSUME StreamInv, ParseAborts PROVE StreamInv'
BY StreamStutters DEF ParseAborts, GatewayGoes

(* What the opening and the calls of addMessageToSend leave alone.         *)
LEMMA OpenLeaves ==
  ASSUME Open
  PROVE  /\ UNCHANGED <<script, inVars, outVars, beatDue, caller, readIndex, overtaken>>
         /\ gateway = "opening" /\ gateway' \in {"top", "not started"}
<1>1. ASSUME NEW logon \in LogonRequests,
             OpenConnected(logon) \/ OpenInProgress(logon) \/ OpenUnbuilt(logon)
      PROVE  /\ UNCHANGED <<script, inVars, outVars, beatDue, caller, readIndex, overtaken>>
             /\ gateway = "opening" /\ gateway' \in {"top", "not started"}
  BY <1>1 DEF OpenConnected, OpenInProgress, OpenUnbuilt, QueueLogon, GatewayGoes
<1>2. CASE OpenFails
  BY <1>2 DEF OpenFails, queueVars, GatewayGoes
<1> QED BY <1>1, <1>2 DEF Open

LEMMA CallLeaves ==
  ASSUME NEW c, AddMessage(c)
  PROVE  /\ UNCHANGED <<script, inVars, outVars, beatDue, readIndex>>
         /\ gateway' = gateway \/ (c = "gateway" /\ gateway' \in {"top", "sending beat"})
<1>1. CASE LookAgain(c) \/ Claim(c) \/ Advance(c)
  BY <1>1 DEF LookAgain, Claim, Advance
<1>2. CASE Refused(c) \/ Complete(c)
  BY <1>2 DEF Refused, Complete, ReturnsTo
<1>3. CASE Disconnect(c) \/ Close(c)
  BY <1>3 DEF Disconnect, Close, ReturnsTo
<1> QED BY <1>1, <1>2, <1>3 DEF AddMessage

(* The steps of Next, by what they have to do with the stream.             *)
LEMMA StepsAre ==
  ASSUME [Next]_vars
  PROVE  \/ Open \/ BeginRound \/ Send \/ Read \/ Parse
         \/ HeartBeatNotDue \/ SendHeartBeat \/ HeartBeatBecomesDue
         \/ \E c \in Callers : AddMessage(c)
         \/ \E request \in Requests : SendRequest(request)
         \/ UNCHANGED vars
<1>1. "gateway" \in Callers /\ "engine" \in Callers
  BY DEF Callers
<1> QED BY <1>1 DEF Next, Gateway, KeepAlive, Engine, EngineCall

LEMMA NextStreamInv == ASSUME StreamInv, [Next]_vars PROVE StreamInv'
<1>1. CASE ParseExpected
  BY <1>1, ParseExpectedStreamInv
<1>2. CASE ParseOld
  BY <1>2, ParseOldStreamInv
<1>3. ASSUME NEW count \in 1 .. ReadSize, Receive(count) PROVE StreamInv'
  BY <1>3, ReceiveStreamInv
<1>4. CASE Open
  BY <1>4, OpenLeaves, StreamStutters DEF inVars
<1>5. CASE BeginRound \/ Send
  BY <1>5, StreamStutters DEF BeginRound, Send, SendNothing, TakeMessage, SendSome, SendFails,
       GatewayGoes, AfterSending, inVars
<1>6. CASE ReceiveFails \/ ReceiveNothing
  BY <1>6, StreamStutters DEF ReceiveFails, ReceiveNothing, ReadEnds, inVars
<1>7. CASE HeartBeatNotDue \/ SendHeartBeat \/ HeartBeatBecomesDue
  BY <1>7, StreamStutters DEF HeartBeatNotDue, SendHeartBeat, HeartBeatBecomesDue, GatewayGoes,
       inVars
<1>8. CASE ParseIncomplete \/ ParseFails \/ ParseAhead
  BY <1>8, StreamStutters DEF ParseIncomplete, ParseFails, ParseAhead, GatewayGoes, ReadEnds,
       inVars
<1>9. CASE ParseAborts
  BY <1>9, ParseAbortsStreamInv
<1>10. ASSUME NEW c \in Callers, AddMessage(c) PROVE StreamInv'
  BY <1>10, CallLeaves, StreamStutters DEF inVars
<1>11. ASSUME NEW request \in Requests, SendRequest(request) PROVE StreamInv'
  BY <1>11, StreamStutters DEF SendRequest, inVars
<1>12. CASE UNCHANGED vars
  BY <1>12, StreamStutters DEF vars, inVars
<1> QED BY <1>1, <1>2, <1>3, <1>4, <1>5, <1>6, <1>7, <1>8, <1>9, <1>10, <1>11, <1>12, StepsAre
        DEF Read, Parse

-----------------------------------------------------------------------------
(* Why a session was closed.                                               *)
ParseReason ==
  \/ Unread > RingSize
  \/ \E i \in 1 .. Len(script) :
       /\ EndOf[i - 1] = parseStart
       /\ \/ EndOf[i] = end + 1
          \/ Unread \in HeaderMinimum .. script[i].lengthEnds - 1
          \/ ~Header[script[i]].readable

AppendReason == end > RingSize /\ (Unread > RingSize \/ start > parseStart)

GapReason == Unread > RingSize \/ LeftOut \/ SkippedOne

Abandoned == \E s \in Slots : outQueue[s].state = "abandoned"

Reason(call) ==
  /\ call = "parse" => ParseReason
  /\ call = "append" => AppendReason
  /\ call = "gap" => GapReason
  /\ call = "build" => Abandoned

LEMMA ParseFailsReason == ASSUME StreamInv, ParseFails PROVE ParseReason'
<1>1. /\ gateway = "parsing" /\ HeaderStatus \notin {"SUCCESS", "MESSAGE_NOT_COMPLETE"}
      /\ UNCHANGED <<script, start, parseStart, end, expected>>
  BY DEF ParseFails, inVars
<1>2. ~(end - parseStart < HeaderMinimum)
  BY <1>1 DEF HeaderStatus
<1>3. parseStart # end
  <2>1. ASSUME parseStart = end PROVE FALSE
    <3>1. end - parseStart = 0 /\ HeaderMinimum \in Nat \ {0}
      BY <2>1, SessionAssumption DEF StreamInv
    <3> QED BY <1>2, <3>1
  <2> QED BY <2>1
<1>4. Shown \in Nat /\ Shown < end /\ (Unread <= RingSize <=> Shown = parseStart)
  BY <1>3, ShownIs
<1>5. Unread \in Int /\ RingSize \in Int /\ end \in Nat /\ parseStart \in Nat
  BY SessionAssumption DEF Unread, StreamInv
<1>6. ASSUME ~(Unread > RingSize) PROVE ParseReason
  <2>1. Shown = parseStart /\ Aligned
    BY <1>1, <1>4, <1>5, <1>6 DEF StreamInv, Overrun
  <2>2. PICK k \in 0 .. Len(script) : parseStart = EndOf[k]
    BY <2>1 DEF Aligned
  <2>3. k # Len(script)
    <3>1. ASSUME k = Len(script) PROVE FALSE
      <4>1. Total = parseStart /\ end <= Total
        BY <2>2, <3>1 DEF Total, StreamInv
      <4> QED BY <1>4, <1>5, <2>1, <4>1
    <3> QED BY <3>1
  <2>4. Len(script) \in Nat
    BY EndOfIs DEF StreamInv
  <2>5. k + 1 \in Found
    <3>1. k + 1 \in 1 .. Len(script) /\ (k + 1) - 1 = k
      BY <2>3, <2>4
    <3> QED BY <2>1, <2>2, <3>1 DEF Found, StartsAt
  <2>6. PICK i : i = FoundIndex
    OBVIOUS
  <2>7. /\ i \in 1 .. Len(script) /\ EndOf[i - 1] = parseStart
        /\ EndOf[i] = Shown + script[i].size
        /\ script[i].size \in Nat /\ script[i].lengthEnds \in Nat
    BY <2>1, <2>5, <2>6, FoundIs, MessagesAre
  <2>8. PICK missing : missing = Shown + script[i].size - end
    OBVIOUS
  <2>9. \/ missing <= 0 /\ ~Header[script[i]].readable
        \/ missing = 1
        \/ end - parseStart < script[i].lengthEnds
    <3>1. Found # {} /\ i = CHOOSE j \in Found : TRUE
      BY <2>5, <2>6 DEF FoundIndex
    <3>2. ~Overwritten
      BY <2>1 DEF Overwritten
    <3>3. HeaderStatus =
            IF missing <= 0
            THEN IF Header[script[i]].readable THEN "SUCCESS" ELSE "TAG_VALUE_READ_ERROR"
            ELSE IF missing = 1 \/ end - parseStart < script[i].lengthEnds
                 THEN "TAG_VALUE_READ_ERROR"
            ELSE "MESSAGE_NOT_COMPLETE"
      BY <1>2, <2>8, <3>1, <3>2 DEF HeaderStatus
    <3> QED BY <1>1, <3>3
  <2>10. missing = 1 => EndOf[i] = end + 1
    BY <1>4, <1>5, <2>7, <2>8
  <2>11. end - parseStart < script[i].lengthEnds
           => Unread \in HeaderMinimum .. script[i].lengthEnds - 1
    BY <1>2, <1>5, <2>7, SessionAssumption DEF Unread
  <2> QED BY <2>7, <2>9, <2>10, <2>11 DEF ParseReason
<1>7. ParseReason
  BY <1>6 DEF ParseReason
<1>8. EndOf' = EndOf /\ Unread' = Unread
  BY <1>1 DEF EndOf, Unread
<1> QED BY <1>1, <1>7, <1>8 DEF ParseReason

LEMMA ReceiveReason ==
  ASSUME StreamInv, NEW count \in 1 .. ReadSize, Receive(count), closes' # closes
  PROVE  AppendReason'
<1>1. PICK e, p, s \in Nat : e = end /\ p = parseStart /\ s = start /\ p <= e /\ p <= s
  BY DEF StreamInv
<1>2. PICK r \in Nat \ {0} : r = RingSize
  BY SessionAssumption
<1>3. PICK remain : remain = r - (e % r)
  OBVIOUS
<1>4. /\ end' = e + count /\ start' = s /\ parseStart' = p
      /\ ~(remain >= count) /\ (e + count) - s \notin 0 .. r
  BY <1>1, <1>2, <1>3 DEF Receive, AppendToRingBuffer, statusVars
<1>5. count \in Nat \ {0}
  BY SessionAssumption
<1>6. e % r \in 0 .. r - 1 /\ e % r <= e
  OBVIOUS
<1>7. end' > RingSize
  BY <1>2, <1>3, <1>4, <1>5, <1>6
<1>8. CASE s > p
  BY <1>4, <1>7, <1>8 DEF AppendReason
<1>9. CASE s = p
  <2>1. (e + count) - p > r
    BY <1>1, <1>4, <1>5, <1>9
  <2>2. Unread' > RingSize
    BY <1>2, <1>4, <2>1 DEF Unread
  <2> QED BY <1>7, <2>2 DEF AppendReason
<1> QED BY <1>1, <1>8, <1>9

LEMMA ParseAheadReason == ASSUME StreamInv, ParseAhead PROVE GapReason'
<1>1. gateway = "parsing" /\ UNCHANGED <<script, start, parseStart, end, expected>>
  BY DEF ParseAhead, HeaderRead
<1>2. ASSUME ~(Unread > RingSize) PROVE LeftOut \/ SkippedOne
  <2>1. Aligned
    BY <1>1, <1>2 DEF StreamInv, Overrun
  <2>2. PICK k \in 0 .. Len(script) : parseStart = EndOf[k] /\ LookedAt(k)
    BY <2>1 DEF Aligned
  <2>3. ASSUME NEW i \in 1 .. Len(script), EndOf[i] <= parseStart PROVE i \in 1 .. k
    <3>1. i \in 0 .. Len(script) /\ EndOf[i] \in Nat /\ EndOf[k] \in Nat /\ Len(script) \in Nat
      BY EndOfIs DEF StreamInv
    <3>2. ~(k < i)
      BY <2>2, <2>3, <3>1, EndsGrow DEF StreamInv
    <3> QED BY <3>1, <3>2
  <2>4. ASSUME ~LeftOut PROVE SkippedOne
    <3>1. PICK i \in 1 .. Len(script) :
            EndOf[i] <= parseStart /\ Header[script[i]].seqNum = expected
      BY <2>4 DEF LeftOut
    <3>2. Unreadable(script[i])
      BY <2>2, <2>3, <3>1 DEF LookedAt
    <3> QED BY <3>1, <3>2 DEF SkippedOne, Unreadable
  <2> QED BY <2>4
<1>3. GapReason
  BY <1>2 DEF GapReason
<1>4. EndOf' = EndOf /\ Unread' = Unread
  BY <1>1 DEF EndOf, Unread
<1> QED BY <1>1, <1>3, <1>4 DEF GapReason, LeftOut, SkippedOne

-----------------------------------------------------------------------------
(* The session stays closed, and so do the reasons that lie in the stream: *)
(* nothing is received or parsed any more.                                 *)
place == <<script, start, parseStart, end, expected>>

InStream == {"parse", "append", "gap"}

Resting == {"beating", "queueing", "sending beat", "top"}

Halted == session = "DISCONNECTED" /\ gateway \in Resting

Calls == {closes[c].call : c \in 1 .. Len(closes)}

ReasonInv ==
  /\ IsSeq(closes)
  /\ \A call \in Calls : Reason(call) /\ (call \in InStream => Halted)
  /\ \A c \in Callers : caller[c].at = "close" => Abandoned
  /\ gateway = "opening" => closes = << >>

LEMMA HaltedStays == ASSUME Halted, [Next]_vars PROVE Halted' /\ UNCHANGED place
<1>1. /\ session = "DISCONNECTED" /\ ~isSessionReady /\ gateway \in Resting
      /\ gateway \notin {"opening", "sending", "receiving", "parsing"}
  BY DEF Halted, isSessionReady, Resting
<1>2. CASE Open \/ BeginRound \/ Read \/ Parse
  <2>1. ~Open
    BY <1>1, OpenLeaves
  <2> QED BY <1>1, <1>2, <2>1 DEF BeginRound, Read, Receive, ReceiveFails, ReceiveNothing, Parse,
          ParseIncomplete, ParseFails, ParseExpected, ParseAborts, ParseOld, ParseAhead,
          HeaderRead
<1>3. CASE Send
  BY <1>1, <1>3 DEF Send, SendNothing, TakeMessage, SendSome, SendFails, AfterSending,
       GatewayGoes, Halted, Resting, place, statusVars, inVars
<1>4. CASE HeartBeatNotDue \/ SendHeartBeat \/ HeartBeatBecomesDue
  BY <1>1, <1>4 DEF HeartBeatNotDue, SendHeartBeat, HeartBeatBecomesDue, GatewayGoes, Halted,
       Resting, place, statusVars, inVars
<1>5. ASSUME NEW c \in Callers, AddMessage(c) PROVE Halted' /\ UNCHANGED place
  <2>1. session' \in {session, "DISCONNECTED"}
    BY <1>5 DEF AddMessage, LookAgain, Refused, Claim, Advance, Complete, Disconnect, Close,
         statusVars
  <2>2. UNCHANGED <<script, inVars>> /\ gateway' \in {gateway, "top", "sending beat"}
    BY <1>5, CallLeaves
  <2> QED BY <1>1, <2>1, <2>2 DEF Halted, Resting, place, inVars
<1>6. ASSUME NEW request \in Requests, SendRequest(request) PROVE Halted' /\ UNCHANGED place
  BY <1>1, <1>6 DEF SendRequest, Halted, place, statusVars, inVars
<1>7. CASE UNCHANGED vars
  BY <1>1, <1>7 DEF vars, Halted, place, statusVars, inVars
<1> QED BY <1>2, <1>3, <1>4, <1>5, <1>6, <1>7, StepsAre

(* A slot that was given up is never used again.                           *)
LEMMA AbandonedKept ==
  ASSUME OutInv, Abandoned, NEW i, outQueue[i].state # "abandoned", NEW slot,
         outQueue' = [outQueue EXCEPT ![i] = slot]
  PROVE  Abandoned'
<1>1. PICK s \in Slots : outQueue[s].state = "abandoned"
  BY DEF Abandoned
<1>2. outQueue = [k \in Slots |-> outQueue[k]]
  BY DEF OutInv, RingInv
<1>3. outQueue' = [k \in Slots |-> IF k = i THEN slot ELSE outQueue[k]]
  BY <1>2
<1>4. outQueue'[s] = outQueue[s]
  BY <1>1, <1>3
<1> QED BY <1>1, <1>4 DEF Abandoned

(* A message that cannot be built abandons its slot.                       *)
LEMMA DisconnectAbandons ==
  ASSUME OutInv, NEW c \in Callers, Disconnect(c) PROVE Abandoned'
<1>1. PICK i, new : i = caller[c].slot /\ new = WithState(outQueue[i], "abandoned")
  OBVIOUS
<1>2. i \in Slots /\ SlotBuilt(outQueue[i])
  BY <1>1 DEF OutInv, CallerInv, CallBuilt, RingInv
<1>3. new.state = "abandoned"
  BY <1>1, <1>2, StateChanges
<1>4. outQueue' = [outQueue EXCEPT ![i] = new]
  BY <1>1 DEF Disconnect, WithState
<1>5. outQueue = [k \in Slots |-> outQueue[k]]
  BY DEF OutInv, RingInv
<1>6. outQueue'[i] = new
  BY <1>2, <1>4, <1>5
<1> QED BY <1>2, <1>3, <1>6 DEF Abandoned

LEMMA AbandonedStays ==
  ASSUME OutInv, Abandoned, [Next]_vars, gateway # "opening"
  PROVE  Abandoned'
<1>1. CASE UNCHANGED outQueue
  BY <1>1 DEF Abandoned
<1>2. CASE TakeMessage
  <2>1. PICK i, slot : i = readIndex /\ slot = WithState(outQueue[i], "reading")
    OBVIOUS
  <2>2. outQueue' = [outQueue EXCEPT ![i] = slot] /\ outQueue[i].state = "valid"
    BY <1>2, <2>1 DEF TakeMessage, HeadIsValid, WithState
  <2> QED BY <2>2, AbandonedKept
<1>3. ASSUME NEW count \in 1 .. BufferSize, SendSome(count) PROVE Abandoned'
  <2>1. PICK i : i = current.slot
    OBVIOUS
  <2>2. outQueue[i].state = "reading"
    BY <1>3, <2>1 DEF SendSome, OutInv, CurrentInv
  <2>3. outQueue' = outQueue \/ outQueue' = [outQueue EXCEPT ![i] = FreeSlot]
    BY <1>3, <2>1 DEF SendSome
  <2> QED BY <1>1, <2>2, <2>3, AbandonedKept
<1>4. ASSUME NEW c \in Callers, AddMessage(c) PROVE Abandoned'
  <2>1. PICK i : i = caller[c].slot
    OBVIOUS
  <2>2. Owns(caller[c]) => outQueue[i].state = "writing"
    BY <2>1 DEF OutInv, CallerInv
  <2>3. CASE LookAgain(c) \/ Refused(c) \/ Advance(c) \/ Close(c)
    BY <1>1, <2>3 DEF LookAgain, Refused, Advance, Close
  <2>4. CASE Claim(c)
    <3>1. PICK slot : slot = Slot("writing", caller[c].type, caller[c].request)
      OBVIOUS
    <3>2. outQueue' = [outQueue EXCEPT ![i] = slot] /\ outQueue[i].state = "free"
      BY <2>1, <2>4, <3>1 DEF Claim, StateAt
    <3> QED BY <3>2, AbandonedKept
  <2>5. CASE Complete(c)
    <3>1. PICK slot : slot = WithState(outQueue[i], "valid")
      OBVIOUS
    <3>2. outQueue' = [outQueue EXCEPT ![i] = slot] /\ caller[c].at = "build"
      BY <2>1, <2>5, <3>1 DEF Complete, WithState
    <3> QED BY <2>2, <3>2, AbandonedKept DEF Owns
  <2>6. CASE Disconnect(c)
    BY <2>6, DisconnectAbandons
  <2> QED BY <1>4, <2>3, <2>4, <2>5, <2>6 DEF AddMessage
<1>5. CASE Read \/ Parse
  BY <1>1, <1>5 DEF Read, Receive, ReceiveFails, ReceiveNothing, Parse, ParseIncomplete,
       ParseFails, ParseExpected, ParseAborts, ParseOld, ParseAhead, queueVars
<1>6. CASE \/ BeginRound \/ SendNothing \/ SendFails
           \/ HeartBeatNotDue \/ SendHeartBeat \/ HeartBeatBecomesDue
  BY <1>1, <1>6 DEF BeginRound, SendNothing, SendFails, HeartBeatNotDue, SendHeartBeat, Ask,
       HeartBeatBecomesDue, queueVars
<1>7. ASSUME NEW request \in Requests, SendRequest(request) PROVE Abandoned'
  BY <1>1, <1>7 DEF SendRequest, Ask
<1>8. ~Open
  BY OpenLeaves
<1>9. CASE UNCHANGED vars
  BY <1>1, <1>9 DEF vars, queueVars
<1> QED BY <1>2, <1>3, <1>4, <1>5, <1>6, <1>7, <1>8, <1>9, StepsAre DEF Send

(* A reason stays one.                                                     *)
LEMMA ReasonStays ==
  ASSUME NEW CONSTANT call, Reason(call), call \in InStream => UNCHANGED place,
         Abandoned => Abandoned'
  PROVE  Reason(call)'
<1>1. ASSUME call \in InStream
      PROVE /\ EndOf' = EndOf /\ Unread' = Unread
            /\ UNCHANGED <<script, start, parseStart, end, expected>>
  BY <1>1 DEF place, EndOf, Unread
<1>2. call = "parse" => ParseReason'
  BY <1>1 DEF Reason, ParseReason, InStream
<1>3. call = "append" => AppendReason'
  BY <1>1 DEF Reason, AppendReason, InStream
<1>4. call = "gap" => GapReason'
  BY <1>1 DEF Reason, GapReason, LeftOut, SkippedOne, InStream
<1>5. call = "build" => Abandoned'
  BY DEF Reason
<1> QED BY <1>2, <1>3, <1>4, <1>5 DEF Reason

(* At most one more close, and it has a reason.                            *)
LEMMA ReasonsGrow ==
  ASSUME OutInv, ReasonInv, [Next]_vars, gateway # "opening", gateway' # "opening",
         \/ closes' = closes
         \/ \E reason, call :
              /\ closes' = Append(closes, [reason |-> reason, call |-> call])
              /\ Reason(call)'
              /\ call \in InStream => Halted',
         \A c \in Callers : caller'[c].at = "close" => caller[c].at = "close" \/ Abandoned'
  PROVE  ReasonInv'
<1>1. Abandoned => Abandoned'
  BY AbandonedStays
<1>2. ASSUME NEW CONSTANT call, call \in Calls
      PROVE Reason(call)' /\ (call \in InStream => Halted')
  <2>1. Reason(call) /\ (call \in InStream => Halted)
    BY <1>2 DEF ReasonInv
  <2>2. call \in InStream => Halted' /\ UNCHANGED place
    BY <2>1, HaltedStays
  <2> QED BY <1>1, <2>1, <2>2, ReasonStays
<1>3. IsSeq(closes)
  BY DEF ReasonInv
<1>4. \A c \in Callers : caller'[c].at = "close" => Abandoned'
  BY <1>1 DEF ReasonInv
<1>5. CASE closes' = closes
  <2>1. Calls' = Calls
    BY <1>5 DEF Calls
  <2>2. \A call \in Calls' : Reason(call)' /\ (call \in InStream => Halted')
    BY <1>2, <2>1
  <2>3. IsSeq(closes')
    BY <1>3, <1>5
  <2> QED BY <1>4, <2>2, <2>3 DEF ReasonInv
<1>6. ASSUME NEW CONSTANT reason, NEW CONSTANT call,
             closes' = Append(closes, [reason |-> reason, call |-> call]),
             Reason(call)', call \in InStream => Halted'
      PROVE ReasonInv'
  <2>1. PICK close : close = [reason |-> reason, call |-> call]
    OBVIOUS
  <2>2. /\ IsSeq(closes') /\ Len(closes) \in Nat /\ Len(closes') = Len(closes) + 1
        /\ \A i \in 1 .. Len(closes) : closes'[i] = closes[i]
        /\ closes'[Len(closes) + 1] = close
    BY <1>3, <1>6, <2>1, SeqGains
  <2>3. \A c \in 1 .. Len(closes') : c \in 1 .. Len(closes) \/ c = Len(closes) + 1
    BY <2>2
  <2>4. \A other \in Calls' : other \in Calls \/ other = call
    BY <2>1, <2>2, <2>3 DEF Calls
  <2>5. \A other \in Calls' : Reason(other)' /\ (other \in InStream => Halted')
    BY <1>2, <1>6, <2>4
  <2> QED BY <1>4, <2>2, <2>5 DEF ReasonInv
<1> QED BY <1>5, <1>6

LEMMA ReasonsAre == ReasonInv => ClosedForAReason
<1> SUFFICES ASSUME ReasonInv, NEW c \in 1 .. Len(closes) PROVE Reason(closes[c].call)
  BY DEF ClosedForAReason, Reason, ParseReason, AppendReason, GapReason, Abandoned
<1>1. closes[c].call \in Calls
  BY DEF Calls
<1> QED BY <1>1 DEF ReasonInv

LEMMA InitReasonInv == Init => ReasonInv
<1> SUFFICES ASSUME Init PROVE ReasonInv
  OBVIOUS
<1>1. closes = << >> /\ \A c \in Callers : caller[c] = Out
  BY DEF Init
<1>2. closes \in Seq({}) /\ Calls = {}
  BY <1>1 DEF Calls
<1> QED BY <1>1, <1>2, OutIsBuilt DEF ReasonInv, IsSeq

(* A logon that cannot be built.                                           *)
LEMMA OpenReasons == ASSUME OutInv, ReasonInv, Open PROVE ReasonInv'
<1>1. /\ gateway = "opening" /\ gateway' # "opening" /\ caller' = caller
      /\ closes = << >> /\ IsSeq(closes) /\ \A c \in Callers : caller[c] = Out
  BY OpenLeaves DEF ReasonInv, OutInv
<1>2. \A c \in Callers : caller'[c].at # "close"
  BY <1>1, OutIsBuilt
<1>3. CASE closes' = closes
  <2>1. Calls' = {} /\ IsSeq(closes')
    BY <1>1, <1>3 DEF Calls
  <2> QED BY <1>1, <1>2, <2>1 DEF ReasonInv
<1>4. ASSUME NEW logon \in LogonRequests, OpenUnbuilt(logon) PROVE ReasonInv'
  <2>1. PICK close, slot : /\ close = [reason |-> "FAILED_TO_ADD_OUT_QUEUE", call |-> "build"]
                           /\ slot = Slot("abandoned", "LOGON", logon)
    OBVIOUS
  <2>2. closes' = Append(closes, close) /\ outQueue' = [outQueue EXCEPT ![writeIndex] = slot]
    BY <1>4, <2>1 DEF OpenUnbuilt, QueueLogon, closeImidietely
  <2>3. slot.state = "abandoned" /\ close.call = "build"
    BY <2>1 DEF Slot
  <2>4. writeIndex \in Slots /\ outQueue = [s \in Slots |-> outQueue[s]]
    BY DEF OutInv, RingInv
  <2>5. outQueue'[writeIndex] = slot
    BY <2>2, <2>4
  <2>6. Abandoned'
    BY <2>3, <2>4, <2>5 DEF Abandoned
  <2>7. /\ IsSeq(closes') /\ Len(closes) = 0 /\ Len(closes') = Len(closes) + 1
        /\ closes'[Len(closes) + 1] = close
    BY <1>1, <2>2, SeqGains
  <2>8. \A c \in 1 .. Len(closes') : c = Len(closes) + 1
    BY <2>7
  <2>9. \A call \in Calls' : call = "build"
    BY <2>3, <2>7, <2>8 DEF Calls
  <2>10. \A call \in Calls' : Reason(call)' /\ call \notin InStream
    BY <2>6, <2>9 DEF Reason, InStream
  <2> QED BY <1>1, <1>2, <2>7, <2>10 DEF ReasonInv
<1>5. CASE OpenFails \/ \E logon \in LogonRequests : OpenConnected(logon) \/ OpenInProgress(logon)
  BY <1>3, <1>5 DEF OpenFails, OpenConnected, OpenInProgress, statusVars
<1> QED BY <1>4, <1>5 DEF Open

(* A call only closes the session when it abandoned its slot.              *)
LEMMA ClosingCalls ==
  ASSUME OutInv, NEW c \in Callers, AddMessage(c), ~Disconnect(c),
         NEW d \in Callers, caller'[d].at = "close"
  PROVE  caller[d].at = "close"
<1>1. caller = [e \in Callers |-> caller[e]] /\ CallBuilt(caller[c])
  BY DEF OutInv, CallerInv
<1>2. ASSUME NEW call, caller' = [caller EXCEPT ![c] = call], call.at # "close"
      PROVE  caller[d].at = "close"
  <2>1. caller' = [e \in Callers |-> IF e = c THEN call ELSE caller[e]]
    BY <1>1, <1>2
  <2>2. caller'[d] = IF d = c THEN call ELSE caller[d]
    BY <2>1
  <2> QED BY <1>2, <2>2
<1>3. CASE LookAgain(c)
  <2>1. PICK call : call = [caller[c] EXCEPT !.slot = writeIndex]
    OBVIOUS
  <2>2. caller' = [caller EXCEPT ![c] = call] /\ caller[c].at = "claim"
    BY <1>3, <2>1 DEF LookAgain
  <2>3. caller[c] = [at |-> caller[c].at, slot |-> caller[c].slot, type |-> caller[c].type,
                     request |-> caller[c].request]
    BY <1>1 DEF CallBuilt
  <2>4. call.at = "claim"
    BY <2>1, <2>2, <2>3
  <2> QED BY <1>2, <2>2, <2>4
<1>4. CASE Refused(c) \/ Complete(c) \/ Close(c)
  <2>1. caller' = [caller EXCEPT ![c] = Out]
    BY <1>4 DEF Refused, Complete, Close
  <2> QED BY <1>2, <2>1, OutIsBuilt
<1>5. CASE Claim(c)
  <2>1. PICK call : call = [caller[c] EXCEPT !.at = "advance"]
    OBVIOUS
  <2>2. caller' = [caller EXCEPT ![c] = call]
    BY <1>5, <2>1 DEF Claim
  <2> QED BY <1>1, <1>2, <2>1, <2>2, CallGoes
<1>6. CASE Advance(c)
  <2>1. PICK call : call = [caller[c] EXCEPT !.at = "build"]
    OBVIOUS
  <2>2. caller' = [caller EXCEPT ![c] = call]
    BY <1>6, <2>1 DEF Advance
  <2> QED BY <1>1, <1>2, <2>1, <2>2, CallGoes
<1> QED BY <1>3, <1>4, <1>5, <1>6 DEF AddMessage

LEMMA CallReasons ==
  ASSUME OutInv, ReasonInv, [Next]_vars, NEW c \in Callers, AddMessage(c)
  PROVE  ReasonInv'
<1>1. gateway # "opening" /\ gateway' # "opening"
  <2>1. caller[c].at # "out"
    BY DEF AddMessage, LookAgain, Refused, Claim, Advance, Complete, Disconnect, Close
  <2>2. gateway # "opening"
    BY <2>1, OutIsBuilt DEF OutInv
  <2> QED BY <2>2, CallLeaves
<1>2. CASE Disconnect(c)
  <2>1. closes' = closes
    BY <1>2 DEF Disconnect
  <2> QED BY <1>1, <1>2, <2>1, DisconnectAbandons, ReasonsGrow
<1>3. CASE ~Disconnect(c) /\ ~Close(c)
  <2>1. closes' = closes
    BY <1>3 DEF AddMessage, LookAgain, Refused, Claim, Advance, Complete, statusVars
  <2> QED BY <1>1, <1>3, <2>1, ClosingCalls, ReasonsGrow
<1>4. CASE ~Disconnect(c) /\ Close(c)
  <2>1. /\ caller[c].at = "close" /\ UNCHANGED outQueue
        /\ closes' = Append(closes, [reason |-> "FAILED_TO_ADD_OUT_QUEUE", call |-> "build"])
    BY <1>4 DEF Close
  <2>2. Abandoned'
    BY <2>1 DEF ReasonInv, Abandoned
  <2>3. Reason("build")' /\ "build" \notin InStream
    BY <2>2 DEF Reason, InStream
  <2> QED BY <1>1, <1>4, <2>1, <2>3, ClosingCalls, ReasonsGrow
<1> QED BY <1>2, <1>3, <1>4

(* The closes that lie in the stream.                                      *)
LEMMA StreamReasons ==
  ASSUME OutInv, StreamInv, ReasonInv, [Next]_vars,
         ParseFails \/ ParseAhead \/ \E count \in 1 .. ReadSize : Receive(count)
  PROVE  ReasonInv'
<1>1. gateway # "opening" /\ gateway' # "opening" /\ caller' = caller
  BY DEF ParseFails, ParseAhead, HeaderRead, Receive, AppendToRingBuffer, ReadEnds, GatewayGoes,
         queueVars
<1>2. CASE ParseFails
  <2>1. Reason("parse")' /\ Halted'
    BY <1>2, ParseFailsReason DEF Reason, Halted, Resting, ParseFails, closeImidietely, ReadEnds
  <2> QED BY <1>1, <1>2, <2>1, ReasonsGrow DEF ParseFails, closeImidietely
<1>3. CASE ParseAhead
  <2>1. Reason("gap")' /\ Halted'
    BY <1>3, ParseAheadReason DEF Reason, Halted, Resting, ParseAhead, closeImidietely, ReadEnds
  <2> QED BY <1>1, <1>3, <2>1, ReasonsGrow DEF ParseAhead, closeImidietely
<1>4. ASSUME NEW count \in 1 .. ReadSize, Receive(count) PROVE ReasonInv'
  <2>1. CASE closes' = closes
    BY <1>1, <2>1, ReasonsGrow
  <2>2. CASE closes' # closes
    <3>1. closeImidietely("RING_BUFFER_OVERFLOW", "append") /\ gateway' = "beating"
      BY <1>4, <2>2 DEF Receive, AppendToRingBuffer, statusVars, ReadEnds
    <3>2. Reason("append")' /\ Halted'
      BY <1>4, <2>2, <3>1, ReceiveReason DEF Reason, Halted, Resting, closeImidietely
    <3> QED BY <1>1, <3>1, <3>2, ReasonsGrow DEF closeImidietely
  <2> QED BY <2>1, <2>2
<1> QED BY <1>2, <1>3, <1>4

LEMMA NextReasonInv == ASSUME OutInv, StreamInv, ReasonInv, [Next]_vars PROVE ReasonInv'
<1>1. CASE Open
  BY <1>1, OpenReasons
<1>2. CASE SendFails \/ ReceiveFails
  <2>1. /\ gateway # "opening" /\ gateway' # "opening" /\ caller' = caller
        /\ \E reason : \E call \in {"send", "receive"} :
             closes' = Append(closes, [reason |-> reason, call |-> call])
    BY <1>2 DEF SendFails, ReceiveFails, InSendMessages, ReadEnds, closeImidietely, queueVars
  <2>2. \A call \in {"send", "receive"} : Reason(call)' /\ call \notin InStream
    BY DEF Reason, InStream
  <2> QED BY <2>1, <2>2, ReasonsGrow
<1>3. ASSUME NEW c \in Callers, AddMessage(c) PROVE ReasonInv'
  BY <1>3, CallReasons
<1>4. CASE ParseFails \/ ParseAhead \/ \E count \in 1 .. ReadSize : Receive(count)
  BY <1>4, StreamReasons
<1>5. ASSUME closes' = closes, gateway # "opening", gateway' # "opening",
             \A c \in Callers : caller'[c].at = "close" => caller[c].at = "close"
      PROVE ReasonInv'
  BY <1>5, ReasonsGrow
<1>6. CASE BeginRound \/ SendNothing \/ TakeMessage
           \/ \E count \in 1 .. BufferSize : SendSome(count)
  BY <1>5, <1>6 DEF BeginRound, SendNothing, TakeMessage, SendSome, InSendMessages, AfterSending,
       GatewayGoes, statusVars, queueVars
<1>7. CASE ReceiveNothing \/ ParseIncomplete \/ ParseOld \/ ParseAborts
  BY <1>5, <1>7 DEF ReceiveNothing, ParseIncomplete, ParseOld, ParseAborts, HeaderRead, Skip,
       ReadEnds, GatewayGoes, statusVars, queueVars
<1>8. CASE ParseExpected
  BY <1>5, <1>8 DEF ParseExpected, HeaderRead, Skip, GatewayGoes, queueVars
<1>9. CASE HeartBeatNotDue
  BY <1>5, <1>9 DEF HeartBeatNotDue, GatewayGoes, statusVars, queueVars
<1>10. ASSUME NEW c \in Callers, NEW type, NEW request, Ask(c, type, request), closes' = closes,
              gateway # "opening", gateway' # "opening"
       PROVE ReasonInv'
  <2>1. PICK call : call = [at |-> "claim", slot |-> writeIndex, type |-> type,
                            request |-> request]
    OBVIOUS
  <2>2. caller' = [caller EXCEPT ![c] = call] /\ call.at # "close"
    BY <1>10, <2>1 DEF Ask
  <2>3. caller = [d \in Callers |-> caller[d]]
    BY DEF OutInv, CallerInv
  <2>4. \A d \in Callers : caller'[d].at = "close" => caller[d].at = "close"
    BY <2>2, <2>3
  <2> QED BY <1>5, <1>10, <2>4
<1>11. CASE SendHeartBeat
  <2>1. "gateway" \in Callers
    BY DEF Callers
  <2> QED BY <1>10, <1>11, <2>1 DEF SendHeartBeat, GatewayGoes, statusVars
<1>12. ASSUME NEW request \in Requests, SendRequest(request) PROVE ReasonInv'
  <2>1. "engine" \in Callers
    BY DEF Callers
  <2> QED BY <1>10, <1>12, <2>1 DEF SendRequest, statusVars
<1>13. CASE UNCHANGED vars \/ HeartBeatBecomesDue
  <2>1. UNCHANGED <<script, place, closes, caller, outQueue, gateway, session>>
    BY <1>13 DEF vars, HeartBeatBecomesDue, statusVars, queueVars, inVars, place
  <2>2. Abandoned' = Abandoned /\ Halted' = Halted /\ Calls' = Calls
    BY <2>1 DEF Abandoned, Halted, Calls
  <2>3. \A call \in Calls : Reason(call)'
    BY <2>1, <2>2, ReasonStays DEF ReasonInv
  <2> QED BY <2>1, <2>2, <2>3 DEF ReasonInv
<1> QED BY <1>1, <1>2, <1>3, <1>4, <1>6, <1>7, <1>8, <1>9, <1>11, <1>12, <1>13, StepsAre
        DEF Send, Read, Parse

(* The program closes a session on its own only for a reason that lies in  *)
(* the stream, or in a message that it could not build (readMessages,      *)
(* appendToRingBuffer, addMessageToSend).                                  *)
THEOREM ClosedWithReason == ASSUME WidthsAreNat PROVE Spec => []ClosedForAReason
<1>1. Init => OutInv /\ StreamInv /\ ReasonInv
  BY InitOutInv, InitStreamInv, InitReasonInv
<1>2. OutInv /\ StreamInv /\ ReasonInv /\ [Next]_vars => (OutInv /\ StreamInv /\ ReasonInv)'
  BY NextOutInv, NextStreamInv, NextReasonInv
<1>3. ReasonInv => ClosedForAReason
  BY ReasonsAre
<1> QED BY <1>1, <1>2, <1>3, PTL DEF Spec

-----------------------------------------------------------------------------
(* The types.                                                              *)
StatusTypes ==
  /\ socket \in {"NOTCONNECTED", "CONNECTING", "CONNECTED"}
  /\ session \in {"DISCONNECTED", "CONNECTED", "LOGGEDIN"}
  /\ gateway \in Locations

Marked ==
  /\ latest \in Nat
  /\ receiving \subseteq 0 .. GapSize - 1

TypesInv == StatusTypes /\ Marked

LEMMA StatusSteps == ASSUME StatusTypes, [Next]_vars PROVE StatusTypes'
<1>1. CASE Open
  BY <1>1 DEF Open, OpenConnected, OpenInProgress, OpenUnbuilt, OpenFails, closeImidietely,
       GatewayGoes, statusVars, StatusTypes, Locations
<1>2. CASE BeginRound \/ Send
  BY <1>2 DEF BeginRound, Send, SendNothing, TakeMessage, SendSome, SendFails, closeImidietely,
       GatewayGoes, AfterSending, statusVars, StatusTypes, Locations
<1>3. CASE Read
  BY <1>3 DEF Read, Receive, ReceiveFails, ReceiveNothing, AppendToRingBuffer, closeImidietely,
       GatewayGoes, ReadEnds, statusVars, StatusTypes, Locations
<1>4. CASE HeartBeatNotDue \/ SendHeartBeat \/ HeartBeatBecomesDue
  BY <1>4 DEF HeartBeatNotDue, SendHeartBeat, HeartBeatBecomesDue, GatewayGoes, statusVars,
       StatusTypes, Locations
<1>5. CASE ParseIncomplete \/ ParseFails \/ ParseOld \/ ParseAhead \/ ParseAborts
  BY <1>5 DEF ParseIncomplete, ParseFails, ParseOld, ParseAhead, ParseAborts, Skip, ReadEnds,
       GatewayGoes, closeImidietely, statusVars, StatusTypes, Locations
<1>6. CASE ParseExpected
  <2>1. /\ socket' = socket /\ (session' = session \/ session' = "LOGGEDIN")
        /\ gateway' = "receiving"
    BY <1>6 DEF ParseExpected, HandleBody, Handle, Skip, GatewayGoes
  <2> QED BY <2>1 DEF StatusTypes, Locations
<1>7. ASSUME NEW c \in Callers, AddMessage(c) PROVE StatusTypes'
  <2>1. socket' \in {socket, "NOTCONNECTED"} /\ session' \in {session, "DISCONNECTED"}
    BY <1>7 DEF AddMessage, LookAgain, Refused, Claim, Advance, Complete, Disconnect, Close,
         statusVars
  <2> QED BY <1>7, <2>1, CallLeaves DEF StatusTypes, Locations
<1>8. ASSUME NEW request \in Requests, SendRequest(request) PROVE StatusTypes'
  BY <1>8 DEF SendRequest, statusVars, StatusTypes
<1>9. CASE UNCHANGED vars
  BY <1>9 DEF vars, statusVars, StatusTypes
<1> QED BY <1>1, <1>2, <1>3, <1>4, <1>5, <1>6, <1>7, <1>8, <1>9, StepsAre DEF Parse

(* A number that was read is latest; what is marked is an entry.           *)
LEMMA MarkedSteps == ASSUME StreamInv, Marked, [Next]_vars PROVE Marked'
<1>1. CASE UNCHANGED <<latest, receiving>>
  BY <1>1 DEF Marked
<1>2. CASE HeaderRead /\ UNCHANGED receiving
  <2>1. Found # {}
    BY <1>2, HeaderReadIs DEF HeaderRead
  <2>2. SeqNum \in Nat
    BY <2>1, NumberFound
  <2>3. latest' \in Nat
    BY <1>2, <2>2 DEF HeaderRead, Marked
  <2> QED BY <1>2, <2>3 DEF Marked
<1>3. CASE ReceiveNothing
  <2>1. latest' = latest /\ expected \in Nat /\ latest \in Nat
    BY <1>3 DEF ReceiveNothing, StreamInv, Marked
  <2>2. \A i \in expected .. latest : i % GapSize \in 0 .. GapSize - 1
    BY <2>1, SessionAssumption
  <2>3. \E marks : /\ marks \subseteq expected .. latest
                   /\ receiving' = receiving \cup {i % GapSize : i \in marks}
    BY <1>3 DEF ReceiveNothing
  <2> QED BY <2>1, <2>2, <2>3 DEF Marked
<1>4. CASE Open
  BY <1>1, <1>4, OpenLeaves DEF inVars
<1>5. CASE BeginRound \/ Send
  BY <1>1, <1>5 DEF BeginRound, Send, SendNothing, TakeMessage, SendSome, SendFails, inVars
<1>6. CASE ReceiveFails \/ \E count \in 1 .. ReadSize : Receive(count)
  BY <1>1, <1>6 DEF Receive, ReceiveFails, inVars
<1>7. CASE HeartBeatNotDue \/ SendHeartBeat \/ HeartBeatBecomesDue
  BY <1>1, <1>7 DEF HeartBeatNotDue, SendHeartBeat, HeartBeatBecomesDue, inVars
<1>8. CASE Parse
  <2>1. CASE ParseIncomplete \/ ParseFails
    BY <1>1, <2>1 DEF ParseIncomplete, ParseFails, inVars
  <2>2. CASE ParseExpected \/ ParseAborts \/ ParseOld \/ ParseAhead
    BY <1>2, <2>2 DEF ParseExpected, ParseAborts, ParseOld, ParseAhead
  <2> QED BY <1>8, <2>1, <2>2 DEF Parse
<1>9. ASSUME NEW c \in Callers, AddMessage(c) PROVE Marked'
  BY <1>1, <1>9, CallLeaves DEF inVars
<1>10. ASSUME NEW request \in Requests, SendRequest(request) PROVE Marked'
  BY <1>1, <1>10 DEF SendRequest, inVars
<1>11. CASE UNCHANGED vars
  BY <1>1, <1>11 DEF vars, inVars
<1> QED BY <1>3, <1>4, <1>5, <1>6, <1>7, <1>8, <1>9, <1>10, <1>11, StepsAre DEF Read

(* No more was sent of a message than it has bytes.                        *)
LEMMA SentIsWithin ==
  ASSUME WidthsAreNat, OutInv
  PROVE  current.sent \in 0 .. SizeOf(current.fields)
<1>1. CASE current = NoMessage
  <2>1. current.fields = << >> /\ current.sent = 0 /\ Len(<< >>) = 0
    BY <1>1 DEF NoMessage
  <2>2. SizeOf(<< >>) \in Nat
    BY <2>1, SizeIsNat
  <2> QED BY <2>1, <2>2
<1>2. CASE current # NoMessage
  <2>1. /\ msgSeqNum # 0 /\ current.fields = sent[msgSeqNum].fields
        /\ current.sent \in Nat /\ (current.sent = 0 \/ current.sent < SizeOf(current.fields))
    BY <1>2 DEF OutInv, CurrentInv
  <2>2. msgSeqNum \in 1 .. Len(sent) /\ msgSeqNum \in Nat
    <3>1. IsSeq(sent) /\ msgSeqNum = Len(sent)
      BY DEF OutInv, SentInv
    <3>2. Len(sent) \in Nat
      BY <3>1 DEF IsSeq
    <3> QED BY <2>1, <3>1, <3>2
  <2>3. PICK message : message = sent[msgSeqNum]
    OBVIOUS
  <2>4. MessageBuilt(message, msgSeqNum)
    BY <2>2, <2>3 DEF OutInv, SentInv
  <2>5. message.type \in DOMAIN Layout
    BY <2>4, AskedTypes DEF MessageBuilt
  <2>6. Len(message.fields) \in Nat
    <3>1. PICK type, request, n, m : /\ type = message.type /\ request = message.request
                                     /\ n = msgSeqNum /\ m = message.fields
      OBVIOUS
    <3>2. m = finalizeOutMessage(FieldsOf(type, request), n)
      BY <2>4, <3>1 DEF MessageBuilt
    <3>3. type \in DOMAIN Layout /\ n \in Nat
      BY <2>2, <2>5, <3>1
    <3>4. \E Any : m \in Seq(Any)
      BY <3>2, <3>3, Finalized
    <3> QED BY <3>1, <3>4
  <2>7. SizeOf(current.fields) \in Nat
    BY <2>1, <2>3, <2>6, SizeIsNat
  <2> QED BY <2>1, <2>7
<1> QED BY <1>1, <1>2

(* The positions lie in the stream, the entries in gapMsgQueue_, and no    *)
(* more of a message is sent than it has bytes (Session, Connection).      *)
THEOREM SessionTypes == ASSUME WidthsAreNat PROVE Spec => []TypeOK
<1>1. Init => OutInv /\ StreamInv /\ TypesInv
  <2>1. Init => TypesInv
    BY DEF Init, TypesInv, StatusTypes, Marked, Locations
  <2> QED BY <2>1, InitOutInv, InitStreamInv
<1>2. OutInv /\ StreamInv /\ TypesInv /\ [Next]_vars => (OutInv /\ StreamInv /\ TypesInv)'
  BY NextOutInv, NextStreamInv, StatusSteps, MarkedSteps DEF TypesInv
<1>3. OutInv /\ StreamInv /\ TypesInv => TypeOK
  <2> SUFFICES ASSUME OutInv, StreamInv, TypesInv PROVE TypeOK
    OBVIOUS
  <2>1. current.sent \in 0 .. SizeOf(current.fields)
    BY SentIsWithin
  <2>2. parseStart \in 0 .. end /\ end \in 0 .. Total /\ start \in Nat
    <3>1. Total \in Int
      BY EndOfIs DEF Total, StreamInv
    <3> QED BY <3>1 DEF StreamInv
  <2>3. /\ writeIndex \in Slots /\ readIndex \in Slots
        /\ \A s \in Slots :
             outQueue[s].state \in {"free", "writing", "abandoned", "valid", "reading"}
    BY DEF OutInv, RingInv, SlotBuilt
  <2>4. /\ \A c \in Callers :
             /\ caller[c].at \in {"out", "claim", "advance", "build", "close"}
             /\ caller[c].slot \in Slots
        /\ caller["gateway"].at # "out" <=> gateway = "queueing"
    BY DEF OutInv, CallerInv, CallBuilt
  <2> QED BY <2>1, <2>2, <2>3, <2>4 DEF TypeOK, OutInv, SentInv, StreamInv, TypesInv, StatusTypes,
            Marked
<1> QED BY <1>1, <1>2, <1>3, PTL DEF Spec

-----------------------------------------------------------------------------
(* What is told of a message.  The places of a set are counted one by one. *)
LEMMA NthIs ==
  ASSUME NEW n \in Nat, NEW T, T \subseteq 1 .. n, NEW k \in 1 .. Cardinality(T)
  PROVE  NthOf(T, k) \in T
<1>1. IsFiniteSet(1 .. n)
  BY FS_Interval
<1>2. \A j \in T : j \in 1 .. n /\ j \in Int
  OBVIOUS
<1>3. PICK A : A = [i \in 0 .. n |-> {j \in T : j <= i}]
  OBVIOUS
<1>4. PICK c : c = [i \in 0 .. n |-> Cardinality(A[i])]
  OBVIOUS
<1>5. IsFiniteSet(T) /\ \A i \in 0 .. n : IsFiniteSet(A[i]) /\ c[i] \in Nat
  <2>1. IsFiniteSet(T)
    BY <1>1, FS_Subset
  <2>2. ASSUME NEW i \in 0 .. n PROVE IsFiniteSet(A[i]) /\ c[i] = Cardinality(A[i])
    <3>1. A[i] \subseteq T
      BY <1>3
    <3> QED BY <1>4, <2>1, <3>1, FS_Subset
  <2> QED BY <2>1, <2>2, FS_CardinalityType
<1>6. c[0] = 0 /\ c[n] = Cardinality(T)
  <2>1. A[0] = {} /\ A[n] = T
    <3>1. 0 \in 0 .. n /\ n \in 0 .. n
      OBVIOUS
    <3>2. A[0] = {j \in T : j <= 0} /\ A[n] = {j \in T : j <= n}
      BY <1>3, <3>1
    <3>3. \A j \in T : ~(j <= 0) /\ j <= n
      BY <1>2
    <3>4. A[0] = {}
      BY <3>2, <3>3
    <3>5. A[n] = T
      BY <3>2, <3>3, Zenon
    <3> QED BY <3>4, <3>5
  <2>2. 0 \in 0 .. n /\ n \in 0 .. n
    OBVIOUS
  <2> QED BY <1>4, <2>1, <2>2, FS_EmptySet
<1>7. ASSUME NEW i \in 1 .. n
      PROVE c[i] = c[i - 1] \/ (i \in T /\ c[i] = c[i - 1] + 1)
  <2>1. i \in 0 .. n /\ i - 1 \in 0 .. n
    OBVIOUS
  <2>2. A[i] = {j \in T : j <= i} /\ A[i - 1] = {j \in T : j <= i - 1}
    BY <1>3, <2>1
  <2>3. \A j \in T : j <= i <=> j <= i - 1 \/ j = i
    BY <1>2
  <2>4. i \notin A[i - 1]
    BY <2>2
  <2>5. CASE i \in T
    <3>1. A[i] = A[i - 1] \cup {i}
      BY <2>2, <2>3, <2>5
    <3> QED BY <1>4, <1>5, <2>1, <2>4, <2>5, <3>1, FS_AddElement
  <2>6. CASE i \notin T
    <3>1. A[i] = A[i - 1]
      BY <2>2, <2>3, <2>6
    <3> QED BY <1>4, <2>1, <3>1
  <2> QED BY <2>5, <2>6
<1>8. k \in Nat \ {0} /\ k <= c[n] /\ n \in 0 .. n
  BY <1>5, <1>6, FS_CardinalityType
<1>9. PICK S : S = {i \in 0 .. n : k <= c[i]}
  OBVIOUS
<1>10. PICK i \in S : \A j \in S : i <= j
  BY <1>8, <1>9, LeastOf
<1>11. i \in 0 .. n /\ k <= c[i] /\ i # 0
  BY <1>6, <1>8, <1>9, <1>10
<1>12. i \in 1 .. n /\ i - 1 \in 0 .. n /\ ~(i <= i - 1)
  BY <1>11
<1>13. ~(k <= c[i - 1]) /\ c[i - 1] \in Nat /\ c[i] \in Nat
  BY <1>5, <1>9, <1>10, <1>12
<1>14. i \in T /\ c[i] = k
  BY <1>7, <1>8, <1>11, <1>12, <1>13
<1>15. i \in T /\ Cardinality({j \in T : j <= i}) = k
  <2>1. A[i] = {j \in T : j <= i} /\ c[i] = Cardinality(A[i])
    BY <1>3, <1>4, <1>11
  <2> QED BY <1>14, <2>1
<1> QED BY <1>15 DEF NthOf

(* Only updates and snapshots have entries, whose first field has a value. *)
LEMMA EntriesBegin ==
  ASSUME NEW type \in BodyTypes, EntryBegins(type) # "none"
  PROVE  /\ type \in {"MARKET_DATA", "SNAPSHOT"}
         /\ \A t \in EntryTags(type) \cup {EntryBegins(type)} :
              /\ EntryMember(t) = "RptSeq" <=> t = "RptSeq"
              /\ EntryMember(t) = EntryBegins(type) <=> t = EntryBegins(type)
         /\ EntryBegins(type) \in EntryMembers /\ EntryBegins(type) # "Symbol"
         /\ \A value : toCommonType(EntryBegins(type), value) # Unset
<1>1. type \in {"MARKET_DATA", "SNAPSHOT"}
  BY DEF EntryBegins
<1>2. EntryBegins(type) = IF type = "MARKET_DATA" THEN "UpdateAction" ELSE "EntryType"
  BY <1>1 DEF EntryBegins
<1>3. \A t : /\ EntryMember(t) = "RptSeq" <=> t = "RptSeq"
             /\ EntryMember(t) = "UpdateAction" <=> t = "UpdateAction"
             /\ EntryMember(t) = "EntryType" <=> t = "EntryType"
  BY DEF EntryMember
<1>4. ASSUME NEW value, NEW t \in {"UpdateAction", "EntryType"}
      PROVE toCommonType(t, value) # Unset
  <2>1. t \in DOMAIN CodesOf /\ t \in WithDefault /\ t # "ExecType"
    BY DEF CodesOf, WithDefault
  <2>2. toCommonType(t, value) \in CodesOf[t] \cup {"UNKNOWN"}
    BY <2>1 DEF toCommonType
  <2>3. CodesOf[t] \subseteq UNION {CodesOf[tag] : tag \in DOMAIN CodesOf}
    BY <2>1
  <2> QED BY <2>2, <2>3, UnsetAssumption
<1> QED BY <1>1, <1>2, <1>3, <1>4 DEF EntryMembers

LEMMA EntryIs ==
  ASSUME NEW type \in BodyTypes, NEW read, IsSeq(read), NEW in,
         NEW first \in Beginnings(type, read), EntryBegins(type) # "none"
  PROVE  LET e == Entry(type, read, in, first)
         IN /\ \/ e["RptSeq"] = Unset
               \/ \E i \in 1 .. Len(read) :
                    /\ read[i].tag = "RptSeq"
                    /\ e["RptSeq"] = toCommonType("RptSeq", read[i].value)
            /\ e[EntryBegins(type)] # Unset
<1>1. PICK n \in Nat : n = Len(read)
  BY DEF IsSeq
<1>2. first \in 1 .. n /\ read[first].tag = EntryBegins(type)
  BY <1>1 DEF Beginnings
<1>3. PICK ends : ends = {e \in first .. Len(read) :
                            \/ e = Len(read)
                            \/ ~in[e + 1]
                            \/ read[e + 1].tag = EntryBegins(type)}
  OBVIOUS
<1>4. ends \subseteq Nat /\ n \in ends
  BY <1>1, <1>2, <1>3
<1>5. PICK last \in first .. n : last = EarliestOf(ends)
  BY <1>1, <1>3, <1>4, EarliestIs
<1>6. PICK part : part = SubSeq(read, first, last)
  OBVIOUS
<1>7. /\ Len(part) = last - first + 1
      /\ \A i \in 1 .. last - first + 1 : part[i] = read[first + i - 1]
  <2>1. first \in 1 .. Len(read) + 1 /\ last \in first - 1 .. Len(read)
    BY <1>1, <1>2, <1>5
  <2> QED BY <1>6, <2>1, PartIs
<1>8. PICK symbol : symbol = IF type = "SNAPSHOT"
                             THEN LastValue(SubSeq(read, 1, first), {"Symbol"}, Unset)
                             ELSE Unset
  OBVIOUS
<1>9. PICK tags : tags = [m \in EntryMembers |->
                            {t \in EntryTags(type) \cup {EntryBegins(type)} : EntryMember(t) = m}]
  OBVIOUS
<1>10. Entry(type, read, in, first) =
         [m \in EntryMembers |->
            LastValue(part, tags[m], IF m = "Symbol" THEN symbol ELSE Unset)]
  BY <1>3, <1>5, <1>6, <1>8, <1>9 DEF Entry, EntryEnd
<1>11. "RptSeq" \in EntryMembers /\ "RptSeq" # "Symbol"
  BY DEF EntryMembers
<1>12. tags["RptSeq"] \subseteq {"RptSeq"} /\ tags[EntryBegins(type)] = {EntryBegins(type)}
  BY <1>9, <1>11, EntriesBegin
<1>13. Len(part) \in Nat /\ \A i \in 1 .. Len(part) : first + i - 1 \in 1 .. n
  BY <1>2, <1>5, <1>7
<1>14. PICK v, w : /\ v = LastValue(part, tags["RptSeq"], Unset)
                   /\ w = LastValue(part, tags[EntryBegins(type)], Unset)
  OBVIOUS
<1>15. \/ v = Unset
       \/ \E i \in 1 .. Len(read) :
            read[i].tag = "RptSeq" /\ v = toCommonType("RptSeq", read[i].value)
  <2>1. \/ v = Unset
        \/ \E i \in 1 .. Len(part) :
             part[i].tag \in tags["RptSeq"] /\ v = toCommonType(part[i].tag, part[i].value)
    <3>1. PICK r : r = tags["RptSeq"]
      OBVIOUS
    <3>2. v = LastValue(part, r, Unset) /\ Len(part) \in Nat
      BY <1>13, <1>14, <3>1
    <3> QED BY <3>1, <3>2, LastValueIs
  <2>2. ASSUME NEW i \in 1 .. Len(part), part[i].tag \in tags["RptSeq"],
               v = toCommonType(part[i].tag, part[i].value)
        PROVE  \E j \in 1 .. Len(read) :
                 read[j].tag = "RptSeq" /\ v = toCommonType("RptSeq", read[j].value)
    <3>1. part[i].tag = "RptSeq"
      BY <1>12, <2>2
    <3>2. first + i - 1 \in 1 .. Len(read) /\ part[i] = read[first + i - 1]
      BY <1>1, <1>7, <1>13
    <3> QED BY <2>2, <3>1, <3>2
  <2> QED BY <2>1, <2>2
<1>16. w # Unset
  <2>1. 1 \in 1 .. Len(part) /\ first + 1 - 1 = first
    BY <1>2, <1>5, <1>7
  <2>2. part[1].tag \in tags[EntryBegins(type)]
    BY <1>2, <1>7, <1>12, <2>1
  <2>3. \E i \in 1 .. Len(part) :
          part[i].tag \in tags[EntryBegins(type)] /\ w = toCommonType(part[i].tag, part[i].value)
    BY <1>13, <1>14, <2>1, <2>2, LastValueIs
  <2> QED BY <1>12, <2>3, EntriesBegin
<1> QED BY <1>10, <1>11, <1>14, <1>15, <1>16, EntriesBegin

(* The fields before the body are those of a header.                       *)
LEMMA HeaderTagsAre ==
  ASSUME NEW f, IsMessage(f)
  PROVE  \A i \in 1 .. HeaderLength(f) : f[i].tag \in HeaderTags \cup SkippedHeaderTags
<1>1. PICK T : T = {i \in 1 .. Len(f) : f[i].tag \notin HeaderTags \cup SkippedHeaderTags}
  OBVIOUS
<1>2. Len(f) \in T
  BY <1>1 DEF IsMessage, HeaderTags, SkippedHeaderTags
<1>3. T \subseteq Nat /\ T # {}
  BY <1>1, <1>2
<1>4. EarliestOf(T) \in T /\ \A i \in T : EarliestOf(T) <= i
  BY <1>3, EarliestIs
<1>5. HeaderLength(f) = EarliestOf(T) - 1
  BY <1>1 DEF HeaderLength
<1>6. PICK e \in 1 .. Len(f) : e = EarliestOf(T)
  BY <1>1, <1>4
<1>7. \A i \in 1 .. e - 1 : i \in 1 .. Len(f) /\ ~(e <= i)
  BY <1>6 DEF IsMessage
<1>8. \A i \in 1 .. e - 1 : i \notin T
  BY <1>4, <1>6, <1>7
<1> QED BY <1>1, <1>5, <1>6, <1>7, <1>8

(* What is read of a message: the fields after its header, all but the     *)
(* checksum when every tag is known.                                       *)
LEMMA ReadIs ==
  ASSUME NEW m \in Messages, NEW type \in BodyTypes
  PROVE  LET read == Consumed(type, Body(m.fields))
             h == HeaderLength(m.fields)
             in == InEntry(type, Body(m.fields))
         IN /\ IsSeq(read) /\ Len(read) \in Nat
            /\ h \in Nat /\ Len(m.fields) \in Nat /\ h + Len(read) < Len(m.fields)
            /\ \A i \in 1 .. Len(read) : read[i] = m.fields[h + i]
            /\ \A i \in 1 .. Len(read) :
                 in[i] => read[i].tag = EntryBegins(type) \/ read[i].tag \in EntryTags(type)
            /\ m \in AllKnown[type] <=> h + Len(read) + 1 = Len(m.fields)
<1>1. PICK f : f = m.fields /\ IsMessage(f)
  BY MessagesAre
<1>2. PICK body : body = Body(f)
  OBVIOUS
<1>3. PICK h \in 0 .. Len(f) - 1 : h = HeaderLength(f)
  BY <1>1, HeaderLengthIs
<1>4. /\ IsMessage(body) /\ Len(body) = Len(f) - h
      /\ \A i \in 1 .. Len(body) : body[i] = f[h + i]
  BY <1>1, <1>2, <1>3, BodyIs
<1>5. PICK n \in 0 .. Len(body) - 1 : Consumed(type, body) = SubSeq(body, 1, n)
  BY <1>4, ConsumedIs
<1>6. PICK read : read = Consumed(type, body)
  OBVIOUS
<1>7. Len(f) \in Nat \ {0} /\ Len(body) \in Nat \ {0} /\ IsSeq(body)
  BY <1>1, <1>4 DEF IsMessage, IsSeq
<1>8. /\ IsSeq(read) /\ Len(read) = n
      /\ \A i \in 1 .. n : read[i] = body[i]
  <2>1. 1 \in 1 .. Len(body) + 1 /\ n \in 1 - 1 .. Len(body) /\ n - 1 + 1 = n
    BY <1>7
  <2>2. /\ IsSeq(read) /\ Len(read) = n
        /\ \A i \in 1 .. n : read[i] = body[1 + i - 1]
    BY <1>5, <1>6, <1>7, <2>1, PartIs
  <2>3. \A i \in 1 .. n : 1 + i - 1 = i
    OBVIOUS
  <2> QED BY <2>2, <2>3
<1>9. \A i \in 1 .. n : i \in 1 .. Len(body) /\ i \in 0 .. Len(body)
  BY <1>7
<1>10. ASSUME NEW i \in 1 .. n, InEntry(type, body)[i]
       PROVE  read[i].tag = EntryBegins(type) \/ read[i].tag \in EntryTags(type)
  BY <1>7, <1>8, <1>9, <1>10, InEntryIs
<1>11. m \in AllKnown[type] <=> n + 1 = Len(f) - h
  <2>1. m \in AllKnown[type] <=> Len(Consumed(type, Body(m.fields))) + 1 = Len(Body(m.fields))
    BY DEF AllKnown
  <2> QED BY <1>1, <1>2, <1>4, <1>6, <1>8, <2>1
<1>12. h + n < Len(f) /\ (n + 1 = Len(f) - h <=> h + n + 1 = Len(f))
  BY <1>3, <1>4, <1>5, <1>7
<1>13. \A i \in 1 .. n : read[i] = f[h + i]
  BY <1>4, <1>8, <1>9
<1> QED BY <1>1, <1>2, <1>3, <1>6, <1>7, <1>8, <1>10, <1>11, <1>12, <1>13

(* No tag of a header belongs to a body, and neither does the checksum's.  *)
LEMMA TagsApart ==
  ASSUME NEW type \in BodyTypes,
         NEW tag \in HeaderTags \cup SkippedHeaderTags \cup {"CheckSum"}
  PROVE  tag \notin BodyTags[type] /\ tag # EntryBegins(type)
<1>1. type \in {"LOGON", "HEART_BEAT", "MARKET_DATA", "SNAPSHOT", "EXECUTION_REPORT",
                "ORDER_CANCEL_REJECT"}
  BY DEF BodyTypes, BodyTags
<1>2. tag \notin BodyTags[type]
  BY <1>1 DEF BodyTags, LogonTags, HeartBeatTags, MarketDataTags, SnapshotTags,
              ExecutionReportTags, OrderCancelRejectTags, HeaderTags, SkippedHeaderTags
<1>3. tag # EntryBegins(type)
  BY DEF EntryBegins, HeaderTags, SkippedHeaderTags
<1> QED BY <1>2, <1>3

(* A field with a tag of the body is read, when every tag is known.        *)
LEMMA FieldIsRead ==
  ASSUME NEW m \in Messages, NEW type \in BodyTypes, m \in AllKnown[type],
         NEW n \in 1 .. Len(m.fields),
         m.fields[n].tag \in BodyTags[type] \cup {EntryBegins(type)}
  PROVE  \E i \in 1 .. Len(Consumed(type, Body(m.fields))) : n = HeaderLength(m.fields) + i
<1>1. PICK f : f = m.fields /\ IsMessage(f)
  BY MessagesAre
<1>2. PICK h : h = HeaderLength(f)
  OBVIOUS
<1>3. PICK l : l = Len(Consumed(type, Body(f)))
  OBVIOUS
<1>4. h \in Nat /\ l \in Nat /\ Len(f) = h + l + 1
  BY <1>1, <1>2, <1>3, ReadIs
<1>5. n # Len(f)
  <2>1. f[Len(f)].tag = "CheckSum"
    BY <1>1 DEF IsMessage
  <2>2. f[n].tag # "CheckSum"
    BY <1>1, TagsApart
  <2> QED BY <2>1, <2>2
<1>6. n \notin 1 .. h
  <2>1. \A i \in 1 .. h : f[i].tag \in HeaderTags \cup SkippedHeaderTags
    BY <1>1, <1>2, HeaderTagsAre
  <2>2. f[n].tag \notin HeaderTags \cup SkippedHeaderTags
    BY <1>1, TagsApart
  <2> QED BY <2>1, <2>2
<1>7. n \in 1 .. Len(f)
  BY <1>1
<1>8. n - h \in 1 .. l /\ n = h + (n - h)
  BY <1>4, <1>5, <1>6, <1>7
<1> QED BY <1>1, <1>2, <1>3, <1>8

(* No field is called none, so only updates and snapshots have entries.    *)
LEMMA FieldNames ==
  ASSUME NEW m \in Messages, NEW n \in 1 .. Len(m.fields)
  PROVE  m.fields[n].tag # "none"
<1>1. PICK f : f = m.fields
  OBVIOUS
<1>2. f \in Seq(Fields)
  BY <1>1, ScriptsAssumption
<1>3. f[n] \in Fields
  BY <1>1, <1>2
<1> QED BY <1>1, <1>3, ScriptsAssumption

(* There is an entry for each field that begins one.                       *)
LEMMA EntriesAre ==
  ASSUME NEW m \in Messages, NEW type \in BodyTypes
  PROVE  LET entries == Entries(type, Body(m.fields))
             begins == Beginnings(type, m.fields)
         IN /\ Len(entries) <= Cardinality(begins)
            /\ m \in AllKnown[type] => Len(entries) = Cardinality(begins)
            /\ \A e \in 1 .. Len(entries) :
                 /\ \/ entries[e]["RptSeq"] = Unset
                    \/ \E n \in 1 .. Len(m.fields) :
                         /\ m.fields[n].tag = "RptSeq"
                         /\ entries[e]["RptSeq"] = toCommonType("RptSeq", m.fields[n].value)
                 /\ entries[e][EntryBegins(type)] # Unset
<1>1. PICK f : f = m.fields /\ IsMessage(f)
  BY MessagesAre
<1>2. PICK read : read = Consumed(type, Body(f))
  OBVIOUS
<1>3. PICK h \in Nat : h = HeaderLength(f)
  BY <1>1, ReadIs
<1>4. PICK l \in Nat : l = Len(read)
  BY <1>1, <1>2, ReadIs
<1>5. PICK last \in Nat : last = Len(f)
  BY <1>1, ReadIs
<1>6. /\ IsSeq(read) /\ h + l < last
      /\ \A i \in 1 .. l : read[i] = f[h + i]
  BY <1>1, <1>2, <1>3, <1>4, <1>5, ReadIs
<1>7. PICK here : here = Beginnings(type, read)
  OBVIOUS
<1>8. PICK begins : begins = Beginnings(type, f)
  OBVIOUS
<1>9. /\ here \subseteq 1 .. l /\ begins \subseteq 1 .. last
      /\ IsFiniteSet(here) /\ IsFiniteSet(begins)
  <2>1. here \subseteq 1 .. l /\ begins \subseteq 1 .. last
    BY <1>4, <1>5, <1>7, <1>8 DEF Beginnings
  <2>2. IsFiniteSet(1 .. l) /\ IsFiniteSet(1 .. last)
    BY FS_Interval
  <2> QED BY <2>1, <2>2, FS_Subset
<1>10. \A i \in 1 .. l : h + i \in 1 .. last
  BY <1>6
<1>11. PICK position : position = [i \in here |-> h + i]
  OBVIOUS
<1>12. position \in Injection(here, begins)
  <2>1. ASSUME NEW i \in here PROVE position[i] \in begins
    <3>1. i \in 1 .. l /\ read[i].tag = EntryBegins(type)
      BY <1>4, <1>7 DEF Beginnings
    <3>2. h + i \in 1 .. last /\ f[h + i].tag = EntryBegins(type)
      BY <1>6, <1>10, <3>1
    <3> QED BY <1>5, <1>8, <1>11, <3>2 DEF Beginnings
  <2>2. ASSUME NEW i \in here, NEW j \in here, position[i] = position[j] PROVE i = j
    <3>1. i \in Nat /\ j \in Nat /\ h + i = h + j
      BY <1>9, <1>11, <2>2
    <3> QED BY <3>1
  <2> QED BY <1>11, <2>1, <2>2 DEF Injection, IsInjective
<1>13. Cardinality(here) <= Cardinality(begins)
  BY <1>9, <1>12, FS_Injection
<1>14. ASSUME m \in AllKnown[type] PROVE Cardinality(here) = Cardinality(begins)
  <2>1. ASSUME NEW n \in begins PROVE \E i \in here : position[i] = n
    <3>1. n \in 1 .. last /\ f[n].tag = EntryBegins(type)
      BY <1>5, <1>8 DEF Beginnings
    <3>2. PICK i \in 1 .. l : n = h + i
      BY <1>1, <1>2, <1>3, <1>4, <1>5, <1>14, <3>1, FieldIsRead
    <3>3. i \in here
      BY <1>4, <1>6, <1>7, <3>1, <3>2 DEF Beginnings
    <3> QED BY <1>11, <3>2, <3>3
  <2>2. position \in Surjection(here, begins)
    <3>1. position \in [here -> begins]
      BY <1>12 DEF Injection
    <3> QED BY <2>1, <3>1 DEF Surjection
  <2> QED BY <1>9, <1>12, <2>2, FS_Injection
<1>15. PICK c \in Nat : c = Cardinality(here)
  BY <1>9, FS_CardinalityType
<1>16. PICK in : in = InEntry(type, Body(f))
  OBVIOUS
<1>17. PICK entries : entries = Entries(type, Body(f))
  OBVIOUS
<1>18. entries = [k \in 1 .. c |-> Entry(type, read, in, NthOf(here, k))]
  BY <1>2, <1>7, <1>15, <1>16, <1>17 DEF Entries
<1>19. Len(entries) = c
  BY <1>18
<1>20. ASSUME NEW e \in 1 .. c
       PROVE  /\ \/ entries[e]["RptSeq"] = Unset
                 \/ \E n \in 1 .. last :
                      /\ f[n].tag = "RptSeq"
                      /\ entries[e]["RptSeq"] = toCommonType("RptSeq", f[n].value)
              /\ entries[e][EntryBegins(type)] # Unset
  <2>1. PICK first \in here : first = NthOf(here, e)
    BY <1>9, <1>15, NthIs
  <2>2. first \in 1 .. l /\ read[first].tag = EntryBegins(type)
    BY <1>4, <1>7 DEF Beginnings
  <2>3. EntryBegins(type) # "none"
    BY <1>1, <1>5, <1>6, <1>10, <2>2, FieldNames
  <2>4. PICK entry : entry = Entry(type, read, in, first)
    OBVIOUS
  <2>5. entries[e] = entry
    BY <1>18, <2>1, <2>4
  <2>6. /\ \/ entry["RptSeq"] = Unset
           \/ \E i \in 1 .. Len(read) :
                /\ read[i].tag = "RptSeq"
                /\ entry["RptSeq"] = toCommonType("RptSeq", read[i].value)
        /\ entry[EntryBegins(type)] # Unset
    BY <1>6, <1>7, <2>3, <2>4, EntryIs
  <2>7. ASSUME NEW i \in 1 .. Len(read), read[i].tag = "RptSeq",
               entry["RptSeq"] = toCommonType("RptSeq", read[i].value)
        PROVE  \E n \in 1 .. last : /\ f[n].tag = "RptSeq"
                                    /\ entry["RptSeq"] = toCommonType("RptSeq", f[n].value)
    <3>1. h + i \in 1 .. last /\ read[i] = f[h + i]
      BY <1>4, <1>6, <1>10
    <3> QED BY <2>7, <3>1
  <2> QED BY <2>5, <2>6, <2>7
<1> QED BY <1>1, <1>5, <1>8, <1>13, <1>14, <1>15, <1>17, <1>19, <1>20

(* What reset() and the setters make of an object.                         *)
LEMMA NotInEntries ==
  ASSUME NEW type \in BodyTypes, NEW tag \in Members(type) \ {"Symbol"}
  PROVE  tag \in BodyTags[type] /\ tag # EntryBegins(type) /\ tag \notin EntryTags(type)
<1>1. tag \in BodyTags[type] /\ tag # EntryBegins(type)
  BY DEF Members
<1>2. tag \notin EntryTags(type)
  <2>1. CASE type = "MARKET_DATA"
    <3>1. tag \in {"ReqID", "NoEntries", "UpdateAction"}
      BY <1>1, <2>1 DEF BodyTags, MarketDataTags
    <3> QED BY <2>1, <3>1 DEF EntryTags, UpdateTags, SkippedEntryTags
  <2>2. CASE type = "SNAPSHOT"
    <3>1. tag \in {"ReqID", "NoEntries", "EntryType"}
      BY <1>1, <2>2 DEF BodyTags, SnapshotTags
    <3> QED BY <2>2, <3>1 DEF EntryTags, SnapshotEntryTags
  <2>3. CASE type \notin {"MARKET_DATA", "SNAPSHOT"}
    BY <2>3 DEF EntryTags
  <2> QED BY <2>1, <2>2, <2>3
<1> QED BY <1>1, <1>2

HasField(m, tag) == \E n \in 1 .. Len(m.fields) : m.fields[n].tag = tag

SaidBy(m, tag, o) ==
  \E n \in 1 .. Len(m.fields) : m.fields[n].tag = tag /\ o = toCommonType(tag, m.fields[n].value)

LEMMA ObjectIs ==
  ASSUME NEW m \in Messages, NEW type \in BodyTypes, NEW before, NEW tag \in Members(type),
         NEW o, o = ObjectRead(type, Stored(type, Body(m.fields)), before)[tag]
  PROVE  /\ SaidBy(m, tag, o) \/ o = IF tag \in KeptByReset(type) THEN before[tag] ELSE Unset
         /\ (/\ BodyStatus(type, Body(m.fields)) = "SUCCESS"
             /\ m \in AllKnown[type]
             /\ tag # "Symbol"
             /\ HasField(m, tag)) => SaidBy(m, tag, o)
<1>1. PICK f : f = m.fields
  OBVIOUS
<1>2. PICK read : read = Consumed(type, Body(f))
  OBVIOUS
<1>3. PICK h \in Nat : h = HeaderLength(f)
  BY <1>1, ReadIs
<1>4. PICK l \in Nat : l = Len(read)
  BY <1>1, <1>2, ReadIs
<1>5. PICK last \in Nat : last = Len(f)
  BY <1>1, ReadIs
<1>6. PICK in : in = InEntry(type, Body(f))
  OBVIOUS
<1>7. /\ h + l < last
      /\ \A i \in 1 .. l : read[i] = f[h + i]
      /\ \A i \in 1 .. l : in[i] => read[i].tag = EntryBegins(type) \/ read[i].tag \in EntryTags(type)
  BY <1>1, <1>2, <1>3, <1>4, <1>5, <1>6, ReadIs
<1>8. \A i \in 1 .. l : h + i \in 1 .. last
  BY <1>7
<1>9. PICK bad : bad = {i \in 1 .. l : ~Readable(<<read[i]>>)}
  OBVIOUS
<1>10. PICK kept : kept = {i \in 1 .. l : ~in[i] /\ \A b \in bad : i < b}
  OBVIOUS
<1>11. PICK stored : stored = [i \in kept |-> read[i]]
  OBVIOUS
<1>12. Stored(type, Body(f)) = stored
  BY <1>2, <1>4, <1>6, <1>9, <1>10, <1>11 DEF Stored
<1>13. PICK at : at = {i \in kept : stored[i].tag = tag}
  OBVIOUS
<1>14. o = ObjectRead(type, stored, before)[tag]
  BY <1>1, <1>12
<1>15. o = IF at # {} THEN toCommonType(tag, stored[LatestOf(at)].value)
           ELSE IF tag \in KeptByReset(type) THEN before[tag] ELSE Unset
  <2>1. DOMAIN stored = kept
    BY <1>11
  <2> QED BY <1>13, <1>14, <2>1 DEF ObjectRead
<1>16. ASSUME at # {}
       PROVE \E n \in 1 .. last : f[n].tag = tag /\ o = toCommonType(tag, f[n].value)
  <2>1. at \subseteq 0 .. l
    BY <1>10, <1>13
  <2>2. PICK i \in at : i = LatestOf(at)
    BY <1>16, <2>1, LatestIs
  <2>3. i \in 1 .. l /\ stored[i] = read[i] /\ stored[i].tag = tag
    BY <1>10, <1>11, <1>13
  <2>4. h + i \in 1 .. last /\ read[i] = f[h + i]
    BY <1>7, <1>8, <2>3
  <2> QED BY <1>15, <1>16, <2>2, <2>3, <2>4
<1>17. ASSUME BodyStatus(type, Body(f)) = "SUCCESS", m \in AllKnown[type], tag # "Symbol",
              NEW n \in 1 .. last, f[n].tag = tag
       PROVE  at # {}
  <2>1. tag \in BodyTags[type] /\ tag # EntryBegins(type) /\ tag \notin EntryTags(type)
    BY <1>17, NotInEntries
  <2>2. PICK i \in 1 .. l : n = h + i
    BY <1>1, <1>2, <1>3, <1>4, <1>5, <1>17, <2>1, FieldIsRead
  <2>3. read[i].tag = tag /\ ~in[i]
    BY <1>7, <1>17, <2>1, <2>2
  <2>4. bad = {}
    <3>1. Readable(read)
      BY <1>2, <1>17 DEF BodyStatus
    <3>2. ASSUME NEW j \in 1 .. l PROVE Readable(<<read[j]>>)
      BY <1>4, <3>1 DEF Readable
    <3> QED BY <1>9, <3>2
  <2>5. i \in kept
    BY <1>10, <2>3, <2>4
  <2> QED BY <1>11, <1>13, <2>3, <2>5
<1>18. ASSUME BodyStatus(type, Body(f)) = "SUCCESS", m \in AllKnown[type], tag # "Symbol",
              NEW n \in 1 .. last, f[n].tag = tag
       PROVE  \E k \in 1 .. last : f[k].tag = tag /\ o = toCommonType(tag, f[k].value)
  BY <1>16, <1>17, <1>18
<1> QED BY <1>1, <1>5, <1>15, <1>16, <1>18 DEF HasField, SaidBy

(* What a message says, by the places of its fields.                       *)
LEMMA SaysIs ==
  ASSUME NEW i \in 1 .. Len(script), NEW tag
  PROVE  /\ \A n \in 1 .. Len(script[i].fields) :
              script[i].fields[n].tag = tag
                => toCommonType(tag, script[i].fields[n].value) \in Says(i, tag)
         /\ Says(i, tag) # {} => \E n \in 1 .. Len(script[i].fields) : script[i].fields[n].tag = tag
BY DEF Says

-----------------------------------------------------------------------------
(* What was told of the messages, and what the parser's objects hold.      *)
Told(h, k) ==
  /\ h.index \in 1 .. Len(script)
  /\ h.type \in BodyTypes
  /\ DOMAIN h.object = Members(h.type)
  /\ \A m \in Members(h.type) \ {"Symbol"} :
       /\ h.object[m] \in Says(h.index, m) \cup {Unset} \cup
            (IF m \in KeptByReset(h.type) THEN SaidUpTo(k, m) ELSE {})
       /\ script[h.index] \in AllKnown[h.type] /\ Says(h.index, m) # {}
            => h.object[m] \in Says(h.index, m)
  /\ h.entries = Entries(h.type, Body(script[h.index].fields))

ObjectsSay ==
  /\ objects = [type \in BodyTypes |-> objects[type]]
  /\ \A type \in BodyTypes : \A m \in Members(type) :
       objects[type][m] \in SaidUpTo(expected, m) \cup {Unset}

ToldInv == ObjectsSay /\ \A k \in 1 .. Len(handled) : Told(handled[k], k)

LEMMA ToldIsStated ==
  ASSUME script \in Scripts, ToldInv
  PROVE  HandledAsStated
<1>1. ASSUME NEW k \in 1 .. Len(handled), NEW e \in 1 .. Len(handled[k].entries)
      PROVE handled[k].entries[e]["RptSeq"] \in Says(handled[k].index, "RptSeq") \cup {Unset}
  <2>1. PICK h : h = handled[k] /\ Told(h, k)
    BY DEF ToldInv
  <2>2. PICK m \in Messages : m = script[h.index]
    BY <2>1, EndOfIs DEF Told
  <2>3. PICK entry : entry = h.entries[e]
    OBVIOUS
  <2>4. \/ entry["RptSeq"] = Unset
        \/ \E n \in 1 .. Len(m.fields) :
             /\ m.fields[n].tag = "RptSeq"
             /\ entry["RptSeq"] = toCommonType("RptSeq", m.fields[n].value)
    BY <2>1, <2>2, <2>3, EntriesAre DEF Told
  <2>5. \A n \in 1 .. Len(m.fields) :
          m.fields[n].tag = "RptSeq"
            => toCommonType("RptSeq", m.fields[n].value) \in Says(h.index, "RptSeq")
    BY <2>1, <2>2, SaysIs DEF Told
  <2>6. entry["RptSeq"] \in Says(h.index, "RptSeq") \cup {Unset}
    BY <2>4, <2>5
  <2> QED BY <2>1, <2>3, <2>6
<1>2. ASSUME NEW k \in 1 .. Len(handled)
      PROVE LET h == handled[k]
                begins == Beginnings(h.type, script[h.index].fields)
            IN /\ Len(h.entries) <= Cardinality(begins)
               /\ script[h.index] \in AllKnown[h.type] => Len(h.entries) = Cardinality(begins)
               /\ \A e \in 1 .. Len(h.entries) : h.entries[e][EntryBegins(h.type)] # Unset
  <2>1. PICK h : h = handled[k] /\ Told(h, k)
    BY DEF ToldInv
  <2>2. PICK m \in Messages : m = script[h.index]
    BY <2>1, EndOfIs DEF Told
  <2>3. h.entries = Entries(h.type, Body(m.fields)) /\ h.type \in BodyTypes
    BY <2>1, <2>2 DEF Told
  <2>4. PICK type, entries, begins :
          /\ type = h.type /\ type \in BodyTypes /\ entries = h.entries
          /\ begins = Beginnings(type, m.fields) /\ entries = Entries(type, Body(m.fields))
    BY <2>3
  <2>5. /\ Len(entries) <= Cardinality(begins)
        /\ m \in AllKnown[type] => Len(entries) = Cardinality(begins)
        /\ \A e \in 1 .. Len(entries) : entries[e][EntryBegins(type)] # Unset
    BY <2>4, EntriesAre
  <2> QED BY <2>1, <2>2, <2>4, <2>5
<1> QED BY <1>1, <1>2 DEF ToldInv, Told, HandledAsStated

LEMMA InitToldInv == Init => ToldInv
<1> SUFFICES ASSUME Init PROVE ToldInv
  OBVIOUS
<1>1. handled = << >> /\ objects = [type \in BodyTypes |-> [m \in Members(type) |-> Unset]]
  BY DEF Init
<1> QED BY <1>1 DEF ToldInv, ObjectsSay

(* What was said up to a number stays said.                                *)
LEMMA SaidStays ==
  ASSUME script \in Scripts, script' = script, NEW i \in Nat, NEW j \in Nat, i <= j, NEW tag
  PROVE  SaidUpTo(i, tag) \subseteq SaidUpTo(j, tag)' /\ Says(i, tag)' = Says(i, tag)
<1>1. \A k \in 1 .. Len(script) : Header[script[k]].seqNum \in Nat
  BY EndOfIs, HeaderIs
<1>2. \A k : Says(k, tag)' = Says(k, tag)
  BY DEF Says
<1>3. \A k \in 1 .. Len(script) : Header[script[k]].seqNum <= i => Header[script[k]].seqNum <= j
  BY <1>1
<1> QED BY <1>2, <1>3 DEF SaidUpTo

LEMMA ToldStutters ==
  ASSUME StreamInv, ToldInv, UNCHANGED <<script, handled, objects, expected>>
  PROVE  ToldInv'
<1>1. \A i, tag : Says(i, tag)' = Says(i, tag) /\ SaidUpTo(i, tag)' = SaidUpTo(i, tag)
  BY DEF Says, SaidUpTo
<1>2. ObjectsSay'
  BY <1>1 DEF ToldInv, ObjectsSay
<1>3. \A h, k : Told(h, k) => Told(h, k)'
  BY <1>1 DEF Told
<1> QED BY <1>2, <1>3 DEF ToldInv

(* The message that is parsed: what the object and the handlers get of it. *)
LEMMA ParseExpectedToldInv ==
  ASSUME OrderInv, StreamInv, ToldInv, ParseExpected
  PROVE  ToldInv'
<1>1. Found # {}
  BY HeaderReadIs DEF ParseExpected, HeaderRead
<1>2. PICK i : i = FoundIndex
  OBVIOUS
<1>3. PICK m \in Messages : m = script[i]
  BY <1>1, <1>2, FoundIs
<1>4. i \in 1 .. Len(script) /\ Header[m].seqNum = expected /\ expected \in Nat \ {0}
  BY <1>1, <1>2, <1>3, FoundIs, NumberFound DEF ParseExpected, StreamInv
<1>5. PICK type : type = TypeFound
  OBVIOUS
<1>6. script' = script /\ script \in Scripts
  BY DEF ParseExpected, StreamInv
<1>7. CASE type \notin BodyTypes
  <2>1. UNCHANGED <<objects, handled, expected>>
    BY <1>5, <1>7 DEF ParseExpected, HandleBody
  <2> QED BY <1>6, <2>1, ToldStutters
<1>8. CASE type \in BodyTypes
  <2>1. PICK body : body = Body(m.fields)
    OBVIOUS
  <2>2. PICK read : read = BodyAs[type][m]
    OBVIOUS
  <2>3. /\ read.status = BodyStatus(type, body)
        /\ read.stored = Stored(type, body)
        /\ read.entries = Entries(type, body)
    BY <1>8, <2>1, <2>2 DEF BodyAs
  <2>4. PICK before : before = objects[type]
    OBVIOUS
  <2>5. PICK object : object = ObjectRead(type, Stored(type, body), before)
    OBVIOUS
  <2>6. /\ objects' = [objects EXCEPT ![type] = object]
        /\ IF read.status = "SUCCESS"
           THEN /\ handled' = Append(handled, [seqNum |-> SeqNum, index |-> i, type |-> type,
                                               object |-> object, entries |-> read.entries])
                /\ expected' = expected + 1
           ELSE UNCHANGED <<handled, expected>>
    BY <1>2, <1>3, <1>5, <1>8, <2>2, <2>3, <2>4, <2>5 DEF ParseExpected, HandleBody, Handle
  <2>7. PICK next \in Nat : next = expected' /\ expected <= next
    BY <1>4, <2>6
  <2>8. DOMAIN object = Members(type)
    BY <2>5 DEF ObjectRead
  <2>9. ASSUME NEW tag \in Members(type)
        PROVE  object[tag] \in Says(i, tag) \cup {Unset} \cup
                 (IF tag \in KeptByReset(type) THEN SaidUpTo(expected, tag) ELSE {})
    <3>1. PICK o : o = ObjectRead(type, Stored(type, Body(m.fields)), before)[tag]
      OBVIOUS
    <3>2. SaidBy(m, tag, o) \/ o = IF tag \in KeptByReset(type) THEN before[tag] ELSE Unset
      BY <1>8, <3>1, ObjectIs
    <3>3. before[tag] \in SaidUpTo(expected, tag) \cup {Unset}
      BY <1>8, <2>4 DEF ToldInv, ObjectsSay
    <3>4. SaidBy(m, tag, o) => o \in Says(i, tag)
      BY <1>3, <1>4, SaysIs DEF SaidBy
    <3>5. o = object[tag]
      BY <2>1, <2>5, <3>1
    <3> QED BY <3>2, <3>3, <3>4, <3>5
  <2>10. ASSUME NEW tag \in Members(type)
         PROVE  Says(i, tag) \subseteq SaidUpTo(expected, tag)
    BY <1>3, <1>4 DEF SaidUpTo
  <2>11. ASSUME NEW tag \in Members(type) \ {"Symbol"}, read.status = "SUCCESS",
                m \in AllKnown[type], Says(i, tag) # {}
         PROVE  object[tag] \in Says(i, tag)
    <3>1. PICK o : o = ObjectRead(type, Stored(type, Body(m.fields)), before)[tag]
      OBVIOUS
    <3>2. HasField(m, tag)
      BY <1>3, <1>4, <2>11, SaysIs DEF HasField
    <3>3. BodyStatus(type, Body(m.fields)) = "SUCCESS"
      BY <2>1, <2>3, <2>11
    <3>4. SaidBy(m, tag, o)
      <4>1. tag \in Members(type) /\ tag # "Symbol" /\ type \in BodyTypes
        BY <1>8
      <4> QED BY <2>11, <3>1, <3>2, <3>3, <4>1, ObjectIs
    <3>5. o = object[tag]
      BY <2>1, <2>5, <3>1
    <3>6. SaidBy(m, tag, o) => o \in Says(i, tag)
      BY <1>3, <1>4, SaysIs DEF SaidBy
    <3> QED BY <3>4, <3>5, <3>6
  <2>12. ObjectsSay'
    <3>1. objects' = [t \in BodyTypes |-> objects'[t]]
      BY <2>6 DEF ToldInv, ObjectsSay
    <3>2. ASSUME NEW t \in BodyTypes, NEW tag \in Members(t)
          PROVE  objects'[t][tag] \in SaidUpTo(next, tag)' \cup {Unset}
      <4>1. SaidUpTo(expected, tag) \subseteq SaidUpTo(next, tag)'
        BY <1>4, <1>6, <2>7, SaidStays
      <4>2. CASE t = type
        <5>1. objects'[t] = object
          BY <2>6, <4>2 DEF ToldInv, ObjectsSay
        <5>2. object[tag] \in SaidUpTo(expected, tag) \cup {Unset}
          BY <2>9, <2>10, <4>2
        <5> QED BY <4>1, <5>1, <5>2
      <4>3. CASE t # type
        <5>1. objects'[t] = objects[t]
          BY <2>6, <4>3 DEF ToldInv, ObjectsSay
        <5>2. objects[t][tag] \in SaidUpTo(expected, tag) \cup {Unset}
          BY DEF ToldInv, ObjectsSay
        <5> QED BY <4>1, <5>1, <5>2
      <4> QED BY <4>2, <4>3
    <3> QED BY <2>7, <3>1, <3>2 DEF ObjectsSay
  <2>13. \A j, tag : Says(j, tag)' = Says(j, tag) /\ SaidUpTo(j, tag)' = SaidUpTo(j, tag)
    BY <1>6 DEF Says, SaidUpTo
  <2>14. \A h, k : Told(h, k) => Told(h, k)'
    BY <1>6, <2>13 DEF Told
  <2>15. \A k \in 1 .. Len(handled') : Told(handled[k], k)'
    <3>1. CASE read.status # "SUCCESS"
      <4>1. handled' = handled
        BY <2>6, <3>1
      <4> QED BY <2>14, <4>1 DEF ToldInv
    <3>2. CASE read.status = "SUCCESS"
      <4>1. PICK h : h = [seqNum |-> SeqNum, index |-> i, type |-> type,
                          object |-> object, entries |-> read.entries]
        OBVIOUS
      <4>2. PICK Any : handled \in Seq(Any)
        BY DEF OrderInv, HandledIsSeq
      <4>3. handled' = Append(handled, h) /\ Len(handled) + 1 = expected
        BY <1>4, <2>6, <3>2, <4>1, <4>2 DEF OrderInv, HandledInOrder
      <4>4. /\ Len(handled') = Len(handled) + 1 /\ Len(handled) \in Nat
            /\ handled'[Len(handled) + 1] = h
            /\ \A k \in 1 .. Len(handled) : handled'[k] = handled[k]
        BY <4>2, <4>3, SeqGrows
      <4>5. Told(h, expected)
        <5>1. /\ h.index = i /\ h.type = type /\ h.object = object
              /\ h.entries = Entries(type, body)
          BY <2>3, <4>1
        <5> QED BY <1>3, <1>4, <1>8, <2>1, <2>8, <2>9, <2>11, <3>2, <5>1 DEF Told
      <4>6. ASSUME NEW k \in 1 .. Len(handled) + 1 PROVE Told(handled'[k], k)
        <5>1. CASE k = Len(handled) + 1
          BY <4>3, <4>4, <4>5, <5>1
        <5>2. CASE k # Len(handled) + 1
          <6>1. k \in 1 .. Len(handled)
            BY <4>4, <5>2
          <6> QED BY <4>4, <6>1 DEF ToldInv
        <5> QED BY <5>1, <5>2
      <4>7. PICK g : g = handled'
        OBVIOUS
      <4>8. \A k \in 1 .. Len(handled) + 1 : Told(g[k], k)'
        BY <2>14, <4>6, <4>7
      <4> QED BY <4>4, <4>7, <4>8
    <3> QED BY <3>1, <3>2
  <2> QED BY <2>12, <2>15 DEF ToldInv
<1> QED BY <1>7, <1>8

LEMMA NextToldInv == ASSUME OrderInv, StreamInv, ToldInv, [Next]_vars PROVE ToldInv'
<1>1. CASE UNCHANGED <<script, handled, objects, expected>>
  BY <1>1, ToldStutters
<1>2. CASE Open
  BY <1>1, <1>2, OpenLeaves DEF inVars
<1>3. CASE BeginRound \/ Send
  BY <1>1, <1>3 DEF BeginRound, Send, SendNothing, TakeMessage, SendSome, SendFails, inVars
<1>4. CASE Read
  BY <1>1, <1>4 DEF Read, Receive, ReceiveFails, ReceiveNothing, inVars
<1>5. CASE HeartBeatNotDue \/ SendHeartBeat \/ HeartBeatBecomesDue
  BY <1>1, <1>5 DEF HeartBeatNotDue, SendHeartBeat, HeartBeatBecomesDue, inVars
<1>6. CASE Parse
  <2>1. CASE ParseIncomplete \/ ParseFails
    BY <1>1, <2>1 DEF ParseIncomplete, ParseFails, inVars
  <2>2. CASE ParseAborts \/ ParseOld \/ ParseAhead
    BY <1>1, <2>2 DEF ParseAborts, ParseOld, ParseAhead
  <2>3. CASE ParseExpected
    BY <2>3, ParseExpectedToldInv
  <2> QED BY <1>6, <2>1, <2>2, <2>3 DEF Parse
<1>7. ASSUME NEW c \in Callers, AddMessage(c) PROVE ToldInv'
  BY <1>1, <1>7, CallLeaves DEF inVars
<1>8. ASSUME NEW request \in Requests, SendRequest(request) PROVE ToldInv'
  BY <1>1, <1>8 DEF SendRequest, inVars
<1>9. CASE UNCHANGED vars
  BY <1>1, <1>9 DEF vars, inVars
<1> QED BY <1>2, <1>3, <1>4, <1>5, <1>6, <1>7, <1>8, <1>9, StepsAre

(* The subscribers are told what a message says, whatever was parsed       *)
(* before it and wherever the buffer was overrun (parseBody, reset()).     *)
THEOREM TellsAsStated == Spec => []HandledAsStated
<1>1. Init => OrderInv /\ StreamInv /\ ToldInv
  BY InitOrderInv, InitStreamInv, InitToldInv
<1>2. OrderInv /\ StreamInv /\ ToldInv /\ [Next]_vars => (OrderInv /\ StreamInv /\ ToldInv)'
  BY NextOrderInv, NextStreamInv, NextToldInv
<1>3. OrderInv /\ StreamInv /\ ToldInv => HandledAsStated
  BY ToldIsStated DEF StreamInv
<1> QED BY <1>1, <1>2, <1>3, PTL DEF Spec

=============================================================================
