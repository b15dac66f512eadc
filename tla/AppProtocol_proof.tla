------------------------- MODULE AppProtocol_proof -------------------------
(***************************************************************************)
(* As long as no answer has timed out and nobody has suspended, the        *)
(* application loop implements PacketProtocol: for every size of the ring  *)
(* buffer and of the endpoint, every packet and every way to cut the bytes *)
(* into USB packets.                                                       *)
(***************************************************************************)
EXTENDS AppLoop_proof

(* Nothing comes back into the budget: who is undisturbed always was.      *)
Spent == left.lost <= Budget.lost /\ left.drop <= Budget.drop

(***************************************************************************)
(* Sequences                                                               *)
(***************************************************************************)
LEMMA FirstAndRest ==
  ASSUME NEW S, NEW x \in S, NEW r \in Seq(S)
  PROVE  /\ <<x>> \o r \in Seq(S) /\ <<x>> \o r # <<>>
         /\ Head(<<x>> \o r) = x /\ Tail(<<x>> \o r) = r
<1>1. <<x>> \in Seq(S) /\ Len(<<x>>) = 1 /\ <<x>>[1] = x
  OBVIOUS
<1>2. /\ <<x>> \o r \in Seq(S) /\ Len(<<x>> \o r) = 1 + Len(r)
      /\ \A i \in 1 .. 1 + Len(r) : (<<x>> \o r)[i] = IF i <= 1 THEN <<x>>[i] ELSE r[i - 1]
  BY <1>1, ConcatProperties
<1>3. <<x>> \o r # <<>> /\ Len(r) \in Nat
  BY <1>2, LenProperties
<1>4. Head(<<x>> \o r) = x
  BY <1>1, <1>2, <1>3
<1>5. Tail(<<x>> \o r) = r
  <2>1. /\ Tail(<<x>> \o r) \in Seq(S) /\ Len(Tail(<<x>> \o r)) = Len(r)
        /\ \A i \in 1 .. Len(r) : Tail(<<x>> \o r)[i] = (<<x>> \o r)[i + 1]
    BY <1>2, <1>3, HeadTailProperties
  <2>2. ASSUME NEW i \in 1 .. Len(r) PROVE Tail(<<x>> \o r)[i] = r[i]
    <3>1. i + 1 \in 1 .. 1 + Len(r) /\ ~(i + 1 <= 1) /\ (i + 1) - 1 = i
      BY <1>3
    <3> QED
      BY <1>2, <2>1, <3>1
  <2> QED
    BY <2>1, <2>2, SeqEqual
<1> QED
  BY <1>2, <1>3, <1>4, <1>5

LEMMA HeadAndTail ==
  ASSUME NEW S, NEW s \in Seq(S), s # <<>>
  PROVE  s = <<Head(s)>> \o Tail(s)
<1>1. /\ Head(s) \in S /\ Head(s) = s[1] /\ Tail(s) \in Seq(S) /\ Len(s) \in Nat \ {0}
      /\ Len(Tail(s)) = Len(s) - 1 /\ \A i \in 1 .. Len(s) - 1 : Tail(s)[i] = s[i + 1]
  BY EmptySeq, HeadTailProperties
<1> DEFINE t == <<Head(s)>>
<1>2. t \in Seq(S) /\ Len(t) = 1 /\ t[1] = s[1]
  BY <1>1
<1> HIDE DEF t
<1>3. /\ t \o Tail(s) \in Seq(S) /\ Len(t \o Tail(s)) = Len(s)
      /\ \A i \in 1 .. Len(s) : (t \o Tail(s))[i] = IF i <= 1 THEN t[i] ELSE Tail(s)[i - 1]
  <2>1. Len(t) + Len(Tail(s)) = Len(s) /\ Len(t) = 1
    BY <1>1, <1>2
  <2>2. /\ t \o Tail(s) \in Seq(S) /\ Len(t \o Tail(s)) = Len(t) + Len(Tail(s))
        /\ \A i \in 1 .. Len(t) + Len(Tail(s)) :
              (t \o Tail(s))[i] = IF i <= Len(t) THEN t[i] ELSE Tail(s)[i - Len(t)]
    BY <1>1, <1>2, ConcatProperties
  <2> QED
    BY <2>1, <2>2
<1>4. ASSUME NEW i \in 1 .. Len(s) PROVE s[i] = (t \o Tail(s))[i]
  <2>1. CASE i = 1
    BY <1>2, <1>3, <2>1
  <2>2. CASE i # 1
    <3>1. i - 1 \in 1 .. Len(s) - 1 /\ ~(i <= 1) /\ (i - 1) + 1 = i
      BY <1>1, <2>2
    <3> QED
      BY <1>1, <1>3, <3>1
  <2> QED
    BY <2>1, <2>2
<1>5. s = t \o Tail(s)
  BY <1>3, <1>4, SeqEqual
<1> QED
  BY <1>5 DEF t

(* Bytes that move from one part of a queue to the next. *)
LEMMA MoveIn ==
  ASSUME NEW S, NEW c \in Seq(S), NEW s \in Seq(S), s # <<>>
  PROVE  Append(c, Head(s)) \o Tail(s) = c \o s
<1>1. Head(s) \in S /\ Tail(s) \in Seq(S) /\ <<Head(s)>> \in Seq(S)
  BY HeadTailProperties
<1>2. Append(c, Head(s)) = c \o <<Head(s)>>
  BY <1>1, AppendIsConcat
<1>3. Append(c, Head(s)) \o Tail(s) = c \o (<<Head(s)>> \o Tail(s))
  BY <1>1, <1>2, ConcatAssociative
<1> QED
  BY <1>3, HeadAndTail

LEMMA MoveOut ==
  ASSUME NEW S, NEW c \in Seq(S), c # <<>>, NEW t \in Seq(S)
  PROVE  <<Head(c)>> \o (Tail(c) \o t) = c \o t
<1>1. Head(c) \in S /\ Tail(c) \in Seq(S) /\ <<Head(c)>> \in Seq(S)
  BY HeadTailProperties
<1>2. <<Head(c)>> \o (Tail(c) \o t) = (<<Head(c)>> \o Tail(c)) \o t
  BY <1>1, ConcatAssociative
<1> QED
  BY <1>2, HeadAndTail

LEMMA TwoAndRest ==
  ASSUME NEW S, NEW x \in S, NEW y \in S, NEW r \in Seq(S)
  PROVE  /\ <<x, y>> \o r = <<x>> \o (<<y>> \o r)
         /\ Len(<<x, y>> \o r) = Len(r) + 2 /\ Len(r) \in Nat
         /\ (<<x, y>> \o r)[1] = x /\ (<<x, y>> \o r)[2] = y
         /\ SubSeq(<<x, y>> \o r, 3, Len(<<x, y>> \o r)) = r
<1>1. <<x>> \in Seq(S) /\ <<y>> \in Seq(S) /\ <<x, y>> \in Seq(S) /\ Len(<<x, y>>) = 2
  OBVIOUS
<1>2. <<x>> \o <<y>> = <<x, y>>
  <2>1. Append(<<x>>, y) = <<x>> \o <<y>>
    BY <1>1, AppendIsConcat
  <2>2. Append(<<x>>, y) = <<x, y>>
    <3>1. /\ Append(<<x>>, y) \in Seq(S) /\ Len(Append(<<x>>, y)) = 2
          /\ Append(<<x>>, y)[1] = x /\ Append(<<x>>, y)[2] = y
      <4>1. Len(<<x>>) = 1 /\ <<x>>[1] = x
        OBVIOUS
      <4>2. /\ Append(<<x>>, y) \in Seq(S) /\ Len(Append(<<x>>, y)) = Len(<<x>>) + 1
            /\ \A i \in 1 .. Len(<<x>>) : Append(<<x>>, y)[i] = <<x>>[i]
            /\ Append(<<x>>, y)[Len(<<x>>) + 1] = y
        BY <1>1, AppendProperties
      <4> QED
        BY <4>1, <4>2
    <3>2. <<x, y>>[1] = x /\ <<x, y>>[2] = y
      OBVIOUS
    <3>3. ASSUME NEW i \in 1 .. 2 PROVE Append(<<x>>, y)[i] = <<x, y>>[i]
      <4>1. i = 1 \/ i = 2
        OBVIOUS
      <4> QED
        BY <3>1, <3>2, <4>1
    <3> QED
      BY <1>1, <3>1, <3>3, SeqEqual
  <2> QED
    BY <2>1, <2>2
<1>3. <<x, y>> \o r = <<x>> \o (<<y>> \o r)
  <2>1. (<<x>> \o <<y>>) \o r = <<x>> \o (<<y>> \o r)
    BY <1>1, ConcatAssociative
  <2> QED
    BY <1>2, <2>1
<1>4. /\ <<x, y>> \o r \in Seq(S) /\ Len(<<x, y>> \o r) = 2 + Len(r) /\ Len(r) \in Nat
      /\ \A i \in 1 .. 2 + Len(r) : (<<x, y>> \o r)[i] = IF i <= 2 THEN <<x, y>>[i] ELSE r[i - 2]
  BY <1>1, ConcatProperties, LenProperties
<1>5. (<<x, y>> \o r)[1] = x /\ (<<x, y>> \o r)[2] = y
  BY <1>4
<1> DEFINE q == <<x, y>> \o r
<1> HIDE DEF q
<1>6. SubSeq(q, 3, Len(q)) = r
  <2>1. /\ q \in Seq(S) /\ Len(q) = 2 + Len(r) /\ Len(r) \in Nat
        /\ \A i \in 1 .. 2 + Len(r) : i > 2 => q[i] = r[i - 2]
    BY <1>4 DEF q
  <2>2. \A i \in 3 .. Len(q) : q[i] \in S
    BY <2>1
  <2>3. /\ SubSeq(q, 3, Len(q)) \in Seq(S)
        /\ Len(SubSeq(q, 3, Len(q))) = IF 3 <= Len(q) THEN Len(q) - 3 + 1 ELSE 0
        /\ \A i \in 1 .. Len(q) - 3 + 1 : SubSeq(q, 3, Len(q))[i] = q[3 + i - 1]
    BY <2>1, <2>2, SubSeqProperties
  <2>4. Len(SubSeq(q, 3, Len(q))) = Len(r)
    BY <2>1, <2>3
  <2>5. ASSUME NEW i \in 1 .. Len(r) PROVE SubSeq(q, 3, Len(q))[i] = r[i]
    <3>1. /\ i \in 1 .. Len(q) - 3 + 1 /\ 3 + i - 1 = i + 2 /\ i + 2 \in 1 .. 2 + Len(r)
          /\ i + 2 > 2 /\ (i + 2) - 2 = i
      BY <2>1
    <3> QED
      BY <2>1, <2>3, <3>1
  <2> QED
    BY <2>3, <2>4, <2>5, SeqEqual
<1> QED
  BY <1>3, <1>4, <1>5, <1>6 DEF q

LEMMA Prefix ==
  ASSUME NEW S, NEW s \in Seq(S), NEW t \in Seq(S)
  PROVE  SubSeq(s \o t, 1, Len(s)) = s /\ Len(s \o t) >= Len(s) /\ s \o t \in Seq(S)
<1> DEFINE q == s \o t
<1>1. /\ q \in Seq(S) /\ Len(q) = Len(s) + Len(t) /\ Len(s) \in Nat /\ Len(t) \in Nat
      /\ \A i \in 1 .. Len(s) + Len(t) : q[i] = IF i <= Len(s) THEN s[i] ELSE t[i - Len(s)]
  BY ConcatProperties, LenProperties
<1> HIDE DEF q
<1>2. \A i \in 1 .. Len(s) : q[i] = s[i] /\ q[i] \in S
  BY <1>1
<1>3. /\ SubSeq(q, 1, Len(s)) \in Seq(S)
      /\ Len(SubSeq(q, 1, Len(s))) = IF 1 <= Len(s) THEN Len(s) - 1 + 1 ELSE 0
      /\ \A i \in 1 .. Len(s) - 1 + 1 : SubSeq(q, 1, Len(s))[i] = q[1 + i - 1]
  BY <1>1, <1>2, SubSeqProperties
<1>4. Len(SubSeq(q, 1, Len(s))) = Len(s)
  BY <1>1, <1>3
<1>5. ASSUME NEW i \in 1 .. Len(s) PROVE SubSeq(q, 1, Len(s))[i] = s[i]
  <2>1. i \in 1 .. Len(s) - 1 + 1 /\ 1 + i - 1 = i
    BY <1>1
  <2> QED
    BY <1>2, <1>3, <2>1
<1>6. SubSeq(q, 1, Len(s)) = s
  BY <1>3, <1>4, <1>5, SeqEqual
<1> QED
  BY <1>1, <1>6 DEF q

LEMMA Even ==
  ASSUME NEW s \in Nat, s > 0
  PROVE  /\ (2 * s) % 2 = 0 /\ (2 * s - 1) % 2 = 1
         /\ 2 * s > 1 /\ 2 * s - 1 > 0
BY SMT

(***************************************************************************)
(* Where PacketProtocol sees the loop, from what is left of the sequence   *)
(* under way.                                                              *)
(***************************************************************************)
LEMMA LastOfRest ==
  ASSUME todo \in Seq(Ops), NEW CONSTANT ops \in Seq(Ops), Rest(ops), todo # <<>>
  PROVE  todo[Len(todo)] = ops[Len(ops)]
<1>1. Len(todo) \in Nat \ {0} /\ Len(ops) \in Nat
  BY EmptySeq, LenProperties
<1>2. Len(todo) \in 1 .. Len(todo) /\ Len(ops) - Len(todo) + Len(todo) = Len(ops)
  BY <1>1
<1> QED
  BY <1>1, <1>2 DEF Rest

LEMMA OutsideMap ==
  pc # "loop" \/ todo = <<>> => CyclesDone = 0 /\ ~OnPort
BY DEF CyclesDone, OnPort, InUnit

LEMMA WriteSetupMap ==
  todo \in Seq(Ops) /\ Rest(WriteSetup) => CyclesDone = 0 /\ ~OnPort
<1> SUFFICES ASSUME todo \in Seq(Ops), Rest(WriteSetup), InUnit PROVE FALSE
  BY DEF CyclesDone, OnPort
<1>1. todo[Len(todo)] = WriteSetup[2]
  BY Sequences, LastOfRest DEF InUnit
<1>2. WriteSetup[2] = "drive"
  BY DEF WriteSetup
<1> QED
  BY <1>1, <1>2 DEF InUnit

LEMMA DdrReadSetupMap ==
  todo \in Seq(Ops) /\ Rest(DdrReadSetup) => CyclesDone = 0 /\ ~OnPort
<1> SUFFICES ASSUME todo \in Seq(Ops), Rest(DdrReadSetup), InUnit PROVE FALSE
  BY DEF CyclesDone, OnPort
<1>1. todo[Len(todo)] = DdrReadSetup[2]
  BY Sequences, LastOfRest DEF InUnit
<1>2. DdrReadSetup[2] = "rw1"
  BY DEF DdrReadSetup
<1> QED
  BY <1>1, <1>2 DEF InUnit

SetupView ==
  todo \in Seq(Ops) /\ (Rest(WriteSetup) \/ Rest(DdrReadSetup)) => CyclesDone = 0 /\ ~OnPort

LEMMA SetupNext == SetupView'
<1>1. SetupView
  BY WriteSetupMap, DdrReadSetupMap DEF SetupView
<1> QED
  BY <1>1, PTL

LEMMA OutsideNext == pc' # "loop" \/ todo' = <<>> => CyclesDone' = 0 /\ ~OnPort'
BY DEF CyclesDone, OnPort, InUnit

WriteUnitView ==
  \A k \in Nat :
    todo \in Seq(Ops) /\ Rest(WriteUnit) /\ pc = "loop" /\ Writing /\ k = Len(todo) =>
      /\ k \in {0, 3, 4} => CyclesDone = 0
      /\ k \in {1, 2} => CyclesDone = 1
      /\ k \in {0, 2, 4} => ~OnPort
      /\ k \in {1, 3} => OnPort

LEMMA WriteUnitMap == WriteUnitView
<1> SUFFICES ASSUME NEW k \in Nat, todo \in Seq(Ops), Rest(WriteUnit), pc = "loop", Writing,
                    k = Len(todo)
             PROVE  /\ k \in {0, 3, 4} => CyclesDone = 0
                    /\ k \in {1, 2} => CyclesDone = 1
                    /\ k \in {0, 2, 4} => ~OnPort
                    /\ k \in {1, 3} => OnPort
  BY DEF WriteUnitView
<1>1. CASE todo = <<>>
  <2>1. k = 0 /\ CyclesDone = 0 /\ ~OnPort
    BY <1>1, OutsideMap
  <2> QED
    BY <2>1
<1>2. CASE todo # <<>>
  <2>1. todo[Len(todo)] = WriteUnit[4] /\ WriteUnit[4] = "e0"
    BY <1>2, Sequences, LastOfRest DEF WriteUnit
  <2>2. InUnit
    BY <1>2, <2>1 DEF InUnit
  <2>3. CyclesDone = IF k <= 2 THEN 1 ELSE 0
    BY <2>2 DEF CyclesDone
  <2>4. OnPort <=> Head(todo) \in {"e0", "e1"}
    BY <2>2 DEF OnPort
  <2>5. \/ Head(todo) = "data" /\ k = 4
        \/ Head(todo) = "e1" /\ k = 3
        \/ Head(todo) = "data" /\ k = 2
        \/ Head(todo) = "e0" /\ k = 1
    BY <1>2, WriteUnitOp
  <2>6. ASSUME NEW j \in Nat, NEW op, NEW c,
               \/ op = "data" /\ j = 4
               \/ op = "e1" /\ j = 3
               \/ op = "data" /\ j = 2
               \/ op = "e0" /\ j = 1,
               c = IF j <= 2 THEN 1 ELSE 0
        PROVE  /\ j \in {0, 3, 4} => c = 0
               /\ j \in {1, 2} => c = 1
               /\ j \in {0, 2, 4} => op \notin {"e0", "e1"}
               /\ j \in {1, 3} => op \in {"e0", "e1"}
    BY <2>6
  <2> QED
    BY <2>3, <2>4, <2>5, <2>6
<1> QED
  BY <1>1, <1>2

SdrReadUnitView ==
  \A k \in Nat :
    todo \in Seq(Ops) /\ Rest(SdrReadUnit) /\ pc = "loop" /\ appState = "SDR_RD"
      /\ k = Len(todo) =>
      /\ k \in {0, 5, 6, 7, 8} => CyclesDone = 0
      /\ k \in {1, 2, 3, 4} => CyclesDone = 1
      /\ k # 5 => ~OnPort
      /\ k = 5 => OnPort

LEMMA SdrReadUnitMap == SdrReadUnitView
<1> SUFFICES ASSUME NEW k \in Nat, todo \in Seq(Ops), Rest(SdrReadUnit), pc = "loop",
                    appState = "SDR_RD", k = Len(todo)
             PROVE  /\ k \in {0, 5, 6, 7, 8} => CyclesDone = 0
                    /\ k \in {1, 2, 3, 4} => CyclesDone = 1
                    /\ k # 5 => ~OnPort
                    /\ k = 5 => OnPort
  BY DEF SdrReadUnitView
<1>1. CASE todo = <<>>
  <2>1. k = 0 /\ CyclesDone = 0 /\ ~OnPort
    BY <1>1, OutsideMap
  <2> QED
    BY <2>1
<1>2. CASE todo # <<>>
  <2>1. todo[Len(todo)] = SdrReadUnit[8] /\ SdrReadUnit[8] = "read"
    BY <1>2, Sequences, LastOfRest DEF SdrReadUnit
  <2>2. InUnit /\ ~Writing
    BY <1>2, <2>1 DEF InUnit, Writing
  <2>3. CyclesDone = IF k <= 4 THEN 1 ELSE 0
    BY <2>2 DEF CyclesDone
  <2>4. OnPort <=> Head(todo) = "e1"
    BY <2>2 DEF OnPort
  <2>5. \/ Head(todo) = "rw0" /\ k = 8
        \/ Head(todo) = "drive" /\ k = 7
        \/ Head(todo) = "data" /\ k = 6
        \/ Head(todo) = "e1" /\ k = 5
        \/ Head(todo) = "input" /\ k = 4
        \/ Head(todo) = "rw1" /\ k = 3
        \/ Head(todo) = "e0" /\ k = 2
        \/ Head(todo) = "read" /\ k = 1
    BY <1>2, SdrReadUnitOp
  <2>6. k \in {1, 2, 3, 4, 5, 6, 7, 8} /\ (k = 5 <=> Head(todo) = "e1")
    <3>1. ASSUME NEW j \in Nat, NEW op,
                 \/ op = "rw0" /\ j = 8
                 \/ op = "drive" /\ j = 7
                 \/ op = "data" /\ j = 6
                 \/ op = "e1" /\ j = 5
                 \/ op = "input" /\ j = 4
                 \/ op = "rw1" /\ j = 3
                 \/ op = "e0" /\ j = 2
                 \/ op = "read" /\ j = 1
          PROVE  j \in {1, 2, 3, 4, 5, 6, 7, 8} /\ (j = 5 <=> op = "e1")
      BY <3>1
    <3> QED
      BY <2>5, <3>1
  <2>7. ASSUME NEW j \in Nat, NEW c, j \in {1, 2, 3, 4, 5, 6, 7, 8},
               c = IF j <= 4 THEN 1 ELSE 0
        PROVE  (j \in {0, 5, 6, 7, 8} => c = 0) /\ (j \in {1, 2, 3, 4} => c = 1)
    BY <2>7
  <2> QED
    BY <2>3, <2>4, <2>6, <2>7
<1> QED
  BY <1>1, <1>2

DdrReadUnitView ==
  \A k \in Nat :
    todo \in Seq(Ops) /\ Rest(DdrReadUnit) /\ pc = "loop" /\ appState = "DDR_RD"
      /\ k = Len(todo) =>
      /\ k \in {0, 4} => CyclesDone = 0
      /\ k \in {2, 3} => CyclesDone = 1
      /\ k = 1 => CyclesDone = 2
      /\ ~OnPort

LEMMA DdrReadUnitMap == DdrReadUnitView
<1> SUFFICES ASSUME NEW k \in Nat, todo \in Seq(Ops), Rest(DdrReadUnit), pc = "loop",
                    appState = "DDR_RD", k = Len(todo)
             PROVE  /\ k \in {0, 4} => CyclesDone = 0
                    /\ k \in {2, 3} => CyclesDone = 1
                    /\ k = 1 => CyclesDone = 2
                    /\ ~OnPort
  BY DEF DdrReadUnitView
<1>1. CASE todo = <<>>
  <2>1. k = 0 /\ CyclesDone = 0 /\ ~OnPort
    BY <1>1, OutsideMap
  <2> QED
    BY <2>1
<1>2. CASE todo # <<>>
  <2>1. todo[Len(todo)] = DdrReadUnit[4] /\ DdrReadUnit[4] = "e0"
    BY <1>2, Sequences, LastOfRest DEF DdrReadUnit
  <2>2. InUnit /\ ~Writing
    BY <1>2, <2>1 DEF InUnit, Writing
  <2>3. CyclesDone = IF k = 1 THEN 2 ELSE IF k <= 3 THEN 1 ELSE 0
    BY <2>2 DEF CyclesDone
  <2>4. ~OnPort
    BY <2>2 DEF OnPort
  <2>5. k \in {1, 2, 3, 4}
    <3>1. k = 4 \/ k = 3 \/ k = 2 \/ k = 1
      BY <1>2, DdrReadUnitOp
    <3> QED
      BY <3>1
  <2>6. PICK c : c = CyclesDone
    OBVIOUS
  <2>7. ASSUME NEW j \in Nat, j \in {1, 2, 3, 4},
               c = IF j = 1 THEN 2 ELSE IF j <= 3 THEN 1 ELSE 0
        PROVE  /\ j \in {0, 4} => c = 0
               /\ j \in {2, 3} => c = 1
               /\ j = 1 => c = 2
    BY <2>7
  <2>8. (k \in {0, 4} => c = 0) /\ (k \in {2, 3} => c = 1) /\ (k = 1 => c = 2)
    BY <2>3, <2>5, <2>6, <2>7
  <2> QED
    BY <2>4, <2>6, <2>8
<1> QED
  BY <1>1, <1>2

(***************************************************************************)
(* The quiet bus: QuietOK is kept, unless a step ends the quiet.           *)
(***************************************************************************)
LEMMA QuietInit == Init => QuietOK /\ Spent
<1> SUFFICES ASSUME Init PROVE QuietOK /\ Spent
  OBVIOUS
<1>1. left = Budget /\ Budget.lost \in Nat /\ Budget.drop \in Nat
  BY CodeAssumption DEF Init
<1> QED
  BY <1>1 DEF Init, QuietOK, Undisturbed, Spent

(* What a port operation shows the host and the logic in the FPGA.         *)
Visible(op) ==
  /\ op = "id" => answers' = Append(answers, <<"echo", id>>)
  /\ op = "size" => answers' = Append(answers, <<"echo", size>>)
  /\ op = "read" => answers' = Append(answers, Value)
  /\ op \notin {"id", "size", "read"} => answers' = answers
  /\ op = "e1" => Edge(TRUE)
  /\ op = "e0" => Edge(FALSE)
  /\ left' = left

LEMMA OpVisible ==
  ASSUME IInv, QuietOK, Undisturbed', PortOp, NEW op, Doing(op)
  PROVE  Visible(op)
<1>1. \A x : Doing(x) => op = x
  BY DEF Doing
<1>2. usb = "on" /\ left.lost = Budget.lost /\ left'.lost = Budget.lost
      /\ left.lost \in Nat /\ left \in [packet : Nat, lost : Nat, drop : Nat]
  BY DEF QuietOK, Undisturbed, IInv, TypeOK
<1>3. \A v : SendByte(v) => answers' = Append(answers, v) /\ left' = left
  <2>1. left' # [left EXCEPT !.lost = @ - 1]
    BY <1>2
  <2> QED
    BY <1>2, <2>1 DEF SendByte
<1>4. CASE Direction
  <2>1. op \in {"drive", "input", "rw0", "rw1", "sdr"}
    BY <1>1, <1>4 DEF Direction
  <2> QED
    BY <1>4, <2>1 DEF Direction, Visible, usbVars, hostVars
<1>5. CASE PutByte
  <2>1. op \in {"data", "zero"}
    BY <1>1, <1>5 DEF PutByte
  <2> QED
    BY <1>5, <2>1 DEF PutByte, Visible, usbVars, hostVars
<1>6. CASE Strobe
  <2>1. \/ op = "e1" /\ Edge(TRUE)
        \/ op = "e0" /\ Edge(FALSE)
    BY <1>1, <1>6 DEF Strobe
  <2>2. answers' = answers /\ left' = left
    BY <1>6 DEF Strobe, usbVars, hostVars
  <2> QED
    BY <2>1, <2>2 DEF Visible
<1>7. CASE Answer
  <2>1. \/ op = "id" /\ answers' = Append(answers, <<"echo", id>>)
        \/ op = "size" /\ answers' = Append(answers, <<"echo", size>>)
        \/ op = "read" /\ answers' = Append(answers, Value)
    BY <1>1, <1>3, <1>7 DEF Answer
  <2>2. left' = left
    BY <1>3, <1>7 DEF Answer
  <2> QED
    BY <2>1, <2>2 DEF Visible
<1> QED
  BY <1>4, <1>5, <1>6, <1>7 DEF PortOp

(* A suspend ends the quiet. *)
LEMMA QuietStays ==
  ASSUME IInv, QuietOK, Undisturbed'
  PROVE  ~Suspend
<1>1. left.drop = Budget.drop /\ left'.drop = Budget.drop /\ left.drop \in Nat
      /\ left \in [packet : Nat, lost : Nat, drop : Nat]
  BY DEF QuietOK, Undisturbed, IInv, TypeOK
<1> QED
  BY <1>1 DEF Suspend

(* The budget only shrinks. *)
LEMMA BudgetShrinks ==
  ASSUME [Next]_vars
  PROVE  \/ left' = left \/ left' = [left EXCEPT !.packet = @ - 1]
         \/ left' = [left EXCEPT !.lost = @ - 1] \/ left' = [left EXCEPT !.drop = @ - 1]
<1>1. CASE Answer
  BY <1>1 DEF Answer, SendByte
<1>2. CASE HostRequest \/ HostSend \/ Suspend \/ Resume \/ UNCHANGED vars
  BY <1>2 DEF HostRequest, HostSend, Suspend, Resume, hostVars, vars
<1>3. CASE Enter \/ CommandLine
  BY <1>3 DEF Enter, CommandLine, hostVars
<1>4. CASE Receive \/ InsertByte \/ PacketId \/ PacketSize \/ Dispatch \/ Return
  BY <1>4 DEF Receive, InsertByte, PacketId, PacketSize, Dispatch, Return, hostVars
<1>5. CASE StartTransfer \/ NextUnit \/ Direction \/ PutByte \/ Strobe
  BY <1>5 DEF StartTransfer, NextUnit, Direction, PutByte, Strobe, hostVars
<1> QED
  BY <1>1, <1>2, <1>3, <1>4, <1>5 DEF Next, Loop

LEMMA SpentKeeps == IInv /\ Spent /\ [Next]_vars => Spent'
<1> SUFFICES ASSUME IInv, Spent, [Next]_vars PROVE Spent'
  OBVIOUS
<1>1. /\ left \in [packet : Nat, lost : Nat, drop : Nat]
      /\ Budget \in [packet : Nat, lost : Nat, drop : Nat]
  BY CodeAssumption DEF IInv, TypeOK
<1>2. \/ left' = left \/ left' = [left EXCEPT !.packet = @ - 1]
      \/ left' = [left EXCEPT !.lost = @ - 1] \/ left' = [left EXCEPT !.drop = @ - 1]
  BY BudgetShrinks
<1> QED
  BY <1>1, <1>2 DEF Spent

(* A quiet that holds now has held all the time. *)
LEMMA QuietBefore == IInv /\ Spent /\ [Next]_vars /\ Undisturbed' => Undisturbed
<1> SUFFICES ASSUME IInv, Spent, [Next]_vars, Undisturbed' PROVE Undisturbed
  OBVIOUS
<1>1. /\ left \in [packet : Nat, lost : Nat, drop : Nat]
      /\ Budget \in [packet : Nat, lost : Nat, drop : Nat]
      /\ left'.lost = Budget.lost /\ left'.drop = Budget.drop
  BY CodeAssumption DEF IInv, TypeOK, Undisturbed
<1>2. \/ left' = left \/ left' = [left EXCEPT !.packet = @ - 1]
      \/ left' = [left EXCEPT !.lost = @ - 1] \/ left' = [left EXCEPT !.drop = @ - 1]
  BY BudgetShrinks
<1>3. left'.lost <= left.lost /\ left'.drop <= left.drop
  BY <1>1, <1>2
<1> QED
  BY <1>1, <1>3 DEF Spent, Undisturbed

LEMMA QuietKeeps == IInv /\ QuietOK /\ Undisturbed' /\ [Next]_vars => QuietOK'
<1> SUFFICES ASSUME IInv, QuietOK, Undisturbed', [Next]_vars PROVE QuietOK'
  OBVIOUS
<1>1. /\ usb = "on" /\ Undisturbed
      /\ pc = "insert" => mode = "app" /\ n <= Len(ep)
      /\ pc = "dispatch" /\ Len(todo) = 1 =>
           answers # <<>> /\ answers[Len(answers)] = <<"echo", id>>
  BY DEF QuietOK
<1>2. n \in Nat /\ ep \in Seq(Data) /\ Len(ep) \in Nat /\ todo \in Seq(Ops)
      /\ left \in [packet : Nat, lost : Nat, drop : Nat]
  BY DEF IInv, TypeOK
<1>3. CASE Enter
  BY <1>1, <1>3 DEF Enter, QuietOK, usbVars, hostVars
<1>4. CASE Receive
  <2>1. inBuffer.count \in Nat /\ Size \in Nat /\ inBuffer.count <= Size
    BY RingAssumption DEF IInv, TypeOK, RingBuffers, Sound
  <2>2. n' <= Len(ep) /\ pc' \in {"switch", "insert"} /\ mode' = "app"
    BY <1>1, <1>2, <1>4, <2>1 DEF Receive, At, Least, GetFreeCount, BytesReceived
  <2> QED
    BY <1>1, <1>4, <2>2 DEF Receive, QuietOK, usbVars, hostVars
<1>5. CASE InsertByte
  <2>1. pc = "insert" /\ n <= Len(ep) /\ n > 0 /\ pc' \in {"switch", "insert"} /\ mode' = "app"
    BY <1>1, <1>5 DEF InsertByte, At, IInv, OutsideOK
  <2>2. ep # <<>> /\ Len(Tail(ep)) = Len(ep) - 1
    BY <1>2, <2>1
  <2>3. n' <= Len(ep') /\ usb' = usb /\ left' = left
    BY <1>1, <1>2, <1>5, <2>1, <2>2 DEF InsertByte, AfterReceive, hostVars
  <2> QED
    BY <1>1, <2>1, <2>3 DEF QuietOK
<1>6. CASE PacketId
  BY <1>1, <1>6 DEF PacketId, QuietOK, usbVars, hostVars
<1>7. CASE PacketSize
  <2>1. pc' = "dispatch" => Len(todo') # 1
    <3>1. todo' = Echoes \/ pc' = "rx"
      BY <1>7 DEF PacketSize
    <3>2. Len(Echoes) # 1
      BY Sequences
    <3> QED
      BY <3>1, <3>2
  <2>2. pc' # "insert" /\ usb' = usb /\ left' = left
    BY <1>7 DEF PacketSize, At, usbVars, hostVars
  <2> QED
    BY <1>1, <2>1, <2>2 DEF QuietOK
<1>8. CASE Dispatch
  BY <1>1, <1>8 DEF Dispatch, QuietOK, usbVars, hostVars
<1>9. CASE Return
  <2>1. todo' = <<>> /\ pc' = "dispatch" /\ usb' = usb /\ left' = left
    BY <1>9 DEF Return, At, usbVars, hostVars
  <2> QED
    BY <1>1, <2>1, EmptyPlace DEF QuietOK
<1>10. CASE StartTransfer
  BY <1>1, <1>10 DEF StartTransfer, QuietOK, usbVars, hostVars
<1>11. CASE NextUnit
  <2>1. pc' # "insert" /\ pc' # "dispatch" /\ usb' = usb /\ left' = left
    BY <1>11 DEF NextUnit, At, usbVars, hostVars
  <2> QED
    BY <1>1, <2>1 DEF QuietOK
<1>12. CASE PortOp
  <2>1. PICK k \in Nat : k = Len(todo)
    BY <1>2
  <2>2. PICK op : Doing(op) /\ Effects(op, k)
    BY <1>12, <2>1, OpEffects
  <2>3. Visible(op)
    BY <1>12, <2>2, OpVisible
  <2>4. todo # <<>> /\ op = Head(todo) /\ Len(todo') = k - 1
    BY <2>1, <2>2, OpFacts DEF Doing
  <2>5. pc # "insert" /\ (pc = "dispatch" => InEchoes(op, k))
    BY <2>1, <2>4, Places DEF InBaseInit, InEchoes, InWriteSetup, InWriteUnit, InSdrReadUnit,
      InDdrReadSetup, InDdrReadUnit
  <2>6. /\ pc' = pc /\ usb' = usb /\ left' = left /\ id' = id
    BY <2>2, <2>3 DEF Effects, Visible
  <2>7. ASSUME pc = "dispatch", Len(todo') = 1
        PROVE  answers' # <<>> /\ answers'[Len(answers')] = <<"echo", id>>
    <3>1. op = "id"
      <4>1. k # 1
        <5>1. ASSUME NEW i \in Nat, i = 1 PROVE i - 1 # 1
          BY <5>1
        <5> QED
          BY <2>4, <2>7, <5>1
      <4> QED
        BY <2>5, <2>7, <4>1 DEF InEchoes
    <3>2. answers' = Append(answers, <<"echo", id>>)
      BY <2>3, <3>1 DEF Visible
    <3>3. answers \in Seq({"echo", "register", "float"} \X Nat) /\ id \in Nat
      BY DEF IInv, TypeOK
    <3> QED
      BY <3>2, <3>3
  <2> QED
    BY <1>1, <2>5, <2>6, <2>7 DEF QuietOK
<1>13. CASE CommandLine
  <2>1. mode = "main" /\ pc # "insert" /\ todo = <<>>
    BY <1>1, <1>13 DEF CommandLine, IInv, OutsideOK
  <2>2. pc' = pc /\ todo' = <<>> /\ usb' = usb /\ left' = left
    BY <1>13, <2>1 DEF CommandLine, cpuVars, hostVars
  <2> QED
    BY <1>1, <2>1, <2>2, EmptyPlace DEF QuietOK
<1>14. CASE HostRequest
  BY <1>1, <1>14 DEF HostRequest, QuietOK, cpuVars, usbVars
<1>15. CASE HostSend
  <2>1. pc # "insert"
    <3>1. ep = <<>> => Len(ep) = 0
      OBVIOUS
    <3>2. pc = "insert" => n > 0
      BY DEF IInv, OutsideOK
    <3> QED
      BY <1>1, <1>2, <1>15, <3>1, <3>2 DEF HostSend
  <2> QED
    BY <1>1, <1>15, <2>1 DEF HostSend, QuietOK, cpuVars
<1>16. ~Suspend
  BY QuietStays
<1>17. CASE Resume
  BY <1>1, <1>17 DEF Resume
<1>18. CASE UNCHANGED vars
  BY <1>1, <1>18 DEF vars, QuietOK
<1> QED
  BY <1>3, <1>4, <1>5, <1>6, <1>7, <1>8, <1>9, <1>10, <1>11, <1>12, <1>13, <1>14, <1>15, <1>16,
     <1>17, <1>18 DEF Next, Loop, PortOp

(***************************************************************************)
(* What PacketProtocol sees in each part of the loop.                      *)
(***************************************************************************)
Waiting == Contents(inBuffer) \o ep

View(q, d, l, a) == Queue = q /\ Due = d /\ Latched = l /\ Answered = a

MapView ==
  /\ mode = "main" => View(<<>>, 0, address, answers)
  /\ mode = "app" /\ pc \notin {"loop", "dispatch"} =>
       View((IF appState = "SIZE" THEN <<id>> ELSE <<>>) \o Waiting,
            IF Writing \/ Reading THEN 2 * size ELSE 0, address, answers)
  /\ mode = "app" /\ pc = "dispatch" /\ todo # <<>> =>
       View(<<id, size>> \o Waiting, 0, address,
            IF Len(todo) = 1 THEN SubSeq(answers, 1, Len(answers) - 1) ELSE answers)
  /\ At("dispatch") /\ ~IsReconfigure =>
       View(<<>> \o Waiting, IF id \in {SdrWr, DdrWr, SdrRd, DdrRd} THEN 2 * size ELSE 0,
            address, answers)
  /\ At("dispatch") /\ IsReconfigure => View(<<>>, 0, 0, answers)
  /\ pc = "loop" =>
       View((IF OnPort THEN <<port>> ELSE <<>>) \o Waiting, 2 * size - CyclesDone,
            address, answers)

LEMMA Mapped == IInv => MapView
<1> SUFFICES ASSUME IInv PROVE MapView
  OBVIOUS
<1>0. /\ mode \in {"main", "app"}
      /\ pc \in {"rx", "insert", "switch", "dispatch", "loop"}
      /\ appState \in {"ID", "SIZE", "SDR_WR", "DDR_WR", "SDR_RD", "DDR_RD"}
      /\ mode = "main" => pc # "loop" /\ todo = <<>>
      /\ size \in Nat
  BY DEF IInv, TypeOK, OutsideOK
<1>1. todo = <<>> => Len(todo) # 1
  OBVIOUS
<1>2. mode = "main" => View(<<>>, 0, address, answers)
  BY <1>0, <1>1 DEF View, Queue, Due, Latched, Answered, Returning, At
<1>3. ASSUME mode = "app", pc \notin {"loop", "dispatch"}
      PROVE  View((IF appState = "SIZE" THEN <<id>> ELSE <<>>) \o Waiting,
                  IF Writing \/ Reading THEN 2 * size ELSE 0, address, answers)
  <2>1. ~Returning /\ ~At("dispatch") /\ CyclesDone = 0 /\ ~OnPort
    BY <1>3, OutsideMap DEF Returning, At
  <2>2. Taken = IF appState = "SIZE" THEN <<id>> ELSE <<>>
    BY <1>3, <2>1 DEF Taken
  <2>3. 2 * size - 0 = 2 * size
    BY <1>0
  <2> QED
    BY <1>3, <2>1, <2>2, <2>3 DEF View, Queue, Due, Latched, Answered, Waiting
<1>4. ASSUME mode = "app", pc = "dispatch", todo # <<>>
      PROVE  View(<<id, size>> \o Waiting, 0, address,
                  IF Len(todo) = 1 THEN SubSeq(answers, 1, Len(answers) - 1) ELSE answers)
  <2>1. ~Returning /\ ~At("dispatch") /\ appState = "SIZE"
    BY <1>4 DEF Returning, At, IInv, OutsideOK
  <2>2. Taken = <<id, size>> /\ ~Writing /\ ~Reading
    BY <1>4, <2>1 DEF Taken, Writing, Reading
  <2> QED
    BY <1>4, <2>1, <2>2 DEF View, Queue, Due, Latched, Answered, Waiting
<1>5. ASSUME At("dispatch")
      PROVE  /\ ~IsReconfigure =>
                  View(<<>> \o Waiting,
                       IF id \in {SdrWr, DdrWr, SdrRd, DdrRd} THEN 2 * size ELSE 0,
                       address, answers)
             /\ IsReconfigure => View(<<>>, 0, 0, answers)
  <2>1. appState = "SIZE" /\ mode = "app" /\ pc = "dispatch" /\ todo = <<>>
    BY <1>5 DEF At, IInv, OutsideOK
  <2>2. Taken = <<>> /\ ~Writing /\ ~Reading
    BY <2>1 DEF Taken, Writing, Reading
  <2>3. Hash \notin {SdrWr, DdrWr, SdrRd, DdrRd}
    BY CodeAssumption
  <2>4. ASSUME ~IsReconfigure
        PROVE  View(<<>> \o Waiting,
                    IF id \in {SdrWr, DdrWr, SdrRd, DdrRd} THEN 2 * size ELSE 0,
                    address, answers)
    BY <1>1, <1>5, <2>1, <2>2, <2>4 DEF View, Queue, Due, Latched, Answered, Returning, Waiting
  <2>5. ASSUME IsReconfigure PROVE View(<<>>, 0, 0, answers)
    <3>1. Due = 0
      BY <2>1, <2>2, <2>3, <2>5 DEF Due, IsReconfigure
    <3> QED
      BY <1>1, <1>5, <2>1, <2>5, <3>1 DEF View, Queue, Latched, Answered, Returning
  <2> QED
    BY <2>4, <2>5
<1>6. ASSUME pc = "loop"
      PROVE  View((IF OnPort THEN <<port>> ELSE <<>>) \o Waiting, 2 * size - CyclesDone,
                  address, answers)
  <2>1. mode = "app" /\ (Writing \/ Reading) /\ appState # "SIZE" /\ ~Returning
    BY <1>0, <1>6 DEF IInv, PacketOK, Writing, Reading, Returning, At
  <2>2. Taken = IF OnPort THEN <<port>> ELSE <<>>
    BY <2>1 DEF Taken
  <2> QED
    BY <1>6, <2>1, <2>2 DEF View, Queue, Due, Latched, Answered, Waiting
<1> QED
  BY <1>2, <1>3, <1>4, <1>5, <1>6 DEF MapView

LEMMA MappedNext == IInv' => MapView'
BY Mapped, PTL

LEMMA Bytes ==
  ASSUME IInv
  PROVE  Contents(inBuffer) \in Seq(Data) /\ ep \in Seq(Data) /\ Waiting \in Seq(Data)
         /\ Len(Contents(inBuffer)) = inBuffer.count
<1>1. Contents(inBuffer) \in Seq(Data) /\ ep \in Seq(Data)
         /\ Len(Contents(inBuffer)) = inBuffer.count
  BY ContentsSeq DEF IInv, TypeOK
<1> QED
  BY <1>1, ConcatProperties DEF Waiting

WaitingOK == Waiting \in Seq(Data)

LEMMA WaitingSeq == IInv => WaitingOK
BY Bytes DEF WaitingOK

LEMMA WaitingNext == IInv' => WaitingOK'
BY WaitingSeq, PTL

(* A step PacketProtocol does not see. *)
LEMMA Unseen ==
  ASSUME Queue' = Queue, Due' = Due, Latched' = Latched, Answered' = Answered,
         written' = written, Due = 0 \/ id' = id
  PROVE  UNCHANGED Protocol!pvars
BY DEF Protocol!pvars, Kind

(* A byte leaves the buffer. *)
LEMMA ByteLeaves ==
  ASSUME IInv, inBuffer.count > 0, inBuffer' = Remove(inBuffer), ep' = ep
  PROVE  <<Peek(inBuffer)>> \o Waiting' = Waiting /\ Peek(inBuffer) \in Data
<1>1. Contents(inBuffer) # <<>> /\ Contents(inBuffer) \in Seq(Data) /\ ep \in Seq(Data)
  BY Bytes DEF IInv, TypeOK, RingBuffers
<1>2. /\ Peek(inBuffer) = Head(Contents(inBuffer))
      /\ Contents(Remove(inBuffer)) = Tail(Contents(inBuffer))
  BY RemoveTakesHead DEF IInv
<1>3. Waiting' = Tail(Contents(inBuffer)) \o ep
  BY <1>2 DEF Waiting
<1>4. <<Head(Contents(inBuffer))>> \o (Tail(Contents(inBuffer)) \o ep) = Contents(inBuffer) \o ep
  BY <1>1, MoveOut
<1>5. Peek(inBuffer) \in Data
  BY TakesByte DEF IInv
<1> QED
  BY <1>2, <1>3, <1>4, <1>5 DEF Waiting

LEMMA NothingBefore ==
  ASSUME IInv
  PROVE  <<>> \o Waiting = Waiting
BY Bytes, ConcatEmptySeq

(***************************************************************************)
(* The steps between the sequences.                                        *)
(***************************************************************************)
(* What waits in the endpoint when the loop starts arrives. *)
LEMMA EnterMaps ==
  ASSUME IInv, IInv', Enter
  PROVE  Protocol!Arrive
<1>1. /\ mode = "main" /\ mode' = "app" /\ pc' = "rx" /\ appState' = "ID" /\ ep' = ep
      /\ address' = address /\ written' = written /\ answers' = answers
      /\ inBuffer' = InitBuffer(inBuffer.data)
  BY DEF Enter, fpgaVars, usbVars
<1>2. View(<<>>, 0, address, answers)
  BY <1>1, Mapped DEF MapView
<1>3. Waiting' = ep /\ ep \in Seq(Data)
  <2>1. inBuffer.data \in [0 .. Size - 1 -> Data] /\ ep \in Seq(Data)
    BY DEF IInv, TypeOK, RingBuffers
  <2>2. Contents(inBuffer') = <<>>
    BY <1>1, <2>1, InitEmpty
  <2> QED
    BY <1>1, <2>1, <2>2, ConcatEmptySeq DEF Waiting
<1>4. View(<<>> \o Waiting, 0, address, answers)'
  BY <1>1, MappedNext DEF MapView, Writing, Reading
<1>5. Queue = <<>> /\ Queue' = ep
  BY <1>2, <1>3, <1>4, ConcatEmptySeq DEF View
<1>6. UNCHANGED <<Due, Kind, Latched, written, Answered>>
  BY <1>1, <1>2, <1>4 DEF View, Kind
<1>7. SubSeq(ep, 1, 0) = <<>> /\ Len(ep) \in Nat /\ Len(<<>>) = 0
  BY <1>3, SubSeqEmpty
<1> QED
  BY <1>3, <1>5, <1>6, <1>7 DEF Protocol!Arrive

LEMMA ReceiveMaps ==
  ASSUME IInv, IInv', Receive
  PROVE  UNCHANGED Protocol!pvars
<1>1. /\ mode = "app" /\ mode' = "app" /\ pc = "rx" /\ pc' \in {"switch", "insert"}
      /\ appState' = appState /\ id' = id /\ size' = size /\ inBuffer' = inBuffer /\ ep' = ep
      /\ address' = address /\ written' = written /\ answers' = answers
  BY DEF Receive, At, fpgaVars, usbVars
<1>2. Waiting' = Waiting
  BY <1>1 DEF Waiting, Contents
<1>3. View((IF appState = "SIZE" THEN <<id>> ELSE <<>>) \o Waiting,
           IF Writing \/ Reading THEN 2 * size ELSE 0, address, answers)
  BY <1>1, Mapped DEF MapView
<1>4. View((IF appState = "SIZE" THEN <<id>> ELSE <<>>) \o Waiting,
           IF Writing \/ Reading THEN 2 * size ELSE 0, address, answers)'
  BY <1>1, MappedNext DEF MapView
<1> QED
  BY <1>1, <1>2, <1>3, <1>4, Unseen DEF View, Writing, Reading

LEMMA InsertByteMaps ==
  ASSUME IInv, IInv', QuietOK, InsertByte
  PROVE  UNCHANGED Protocol!pvars
<1>1. /\ mode = "app" /\ mode' = "app" /\ pc = "insert" /\ pc' \in {"switch", "insert"}
      /\ appState' = appState /\ id' = id /\ size' = size
      /\ address' = address /\ written' = written /\ answers' = answers
  BY DEF InsertByte, At, fpgaVars
<1>2. /\ n > 0 /\ n <= Len(ep) /\ usb = "on" /\ inBuffer.count + n <= Size
      /\ n \in Nat /\ Size \in Nat /\ inBuffer.count \in Nat /\ Sound(inBuffer)
  BY <1>1, RingAssumption DEF IInv, OutsideOK, QuietOK, TypeOK, RingBuffers
<1>3. ep # <<>> /\ ep \in Seq(Data)
  <2>1. ep = <<>> => Len(ep) = 0
    OBVIOUS
  <2> QED
    BY <1>2, <2>1, Bytes
<1>4. Waiting' = Waiting
  <2>1. inBuffer' = Insert(inBuffer, Head(ep)) /\ ep' = Tail(ep) /\ Head(ep) \in Data
    BY <1>2, <1>3, HeadTailProperties DEF InsertByte, ReceivedByte, AfterReceive
  <2>2. Contents(inBuffer') = Append(Contents(inBuffer), Head(ep))
    <3>1. inBuffer.count < Size
      BY <1>2
    <3> QED
      BY <1>2, <2>1, <3>1, InsertAppends
  <2>3. Append(Contents(inBuffer), Head(ep)) \o Tail(ep) = Contents(inBuffer) \o ep
    BY <1>3, Bytes, MoveIn
  <2>4. Waiting' = Append(Contents(inBuffer), Head(ep)) \o Tail(ep)
    BY <2>1, <2>2 DEF Waiting
  <2> QED
    BY <2>3, <2>4 DEF Waiting
<1>5. View((IF appState = "SIZE" THEN <<id>> ELSE <<>>) \o Waiting,
           IF Writing \/ Reading THEN 2 * size ELSE 0, address, answers)
  BY <1>1, Mapped DEF MapView
<1>6. View((IF appState = "SIZE" THEN <<id>> ELSE <<>>) \o Waiting,
           IF Writing \/ Reading THEN 2 * size ELSE 0, address, answers)'
  BY <1>1, MappedNext DEF MapView
<1> QED
  BY <1>1, <1>4, <1>5, <1>6, Unseen DEF View, Writing, Reading

LEMMA PacketIdMaps ==
  ASSUME IInv, IInv', PacketId
  PROVE  UNCHANGED Protocol!pvars
<1>1. /\ mode = "app" /\ mode' = "app" /\ pc = "switch" /\ pc' = "rx" /\ appState = "ID"
      /\ ep' = ep /\ address' = address /\ written' = written /\ answers' = answers
  BY DEF PacketId, At, fpgaVars, usbVars
<1>2. Queue = Waiting /\ Due = 0 /\ Latched = address /\ Answered = answers
  BY <1>1, Mapped, NothingBefore DEF MapView, View, Writing, Reading
<1>3. View((IF appState = "SIZE" THEN <<id>> ELSE <<>>) \o Waiting,
           IF Writing \/ Reading THEN 2 * size ELSE 0, address, answers)'
  BY <1>1, MappedNext DEF MapView
<1>4. CASE inBuffer.count > 0
  <2>1. appState' = "SIZE" /\ id' = Peek(inBuffer) /\ inBuffer' = Remove(inBuffer)
    BY <1>4 DEF PacketId, GetCount
  <2>2. <<id'>> \o Waiting' = Waiting
    BY <1>1, <1>4, <2>1, ByteLeaves
  <2>3. Queue' = Queue /\ Due' = 0
    BY <1>2, <1>3, <2>1, <2>2 DEF View, Writing, Reading
  <2> QED
    BY <1>1, <1>2, <1>3, <2>3, Unseen DEF View
<1>5. CASE ~(inBuffer.count > 0)
  <2>1. appState' = "ID" /\ inBuffer' = inBuffer
    BY <1>1, <1>5 DEF PacketId, GetCount
  <2>2. Waiting' = Waiting
    BY <1>1, <2>1 DEF Waiting, Contents
  <2>3. Queue' = Queue /\ Due' = 0
    BY <1>2, <1>3, <2>1, <2>2, NothingBefore DEF View, Writing, Reading
  <2> QED
    BY <1>1, <1>2, <1>3, <2>3, Unseen DEF View
<1> QED
  BY <1>4, <1>5

LEMMA PacketSizeMaps ==
  ASSUME IInv, IInv', PacketSize
  PROVE  UNCHANGED Protocol!pvars
<1>1. /\ mode = "app" /\ mode' = "app" /\ pc = "switch" /\ appState = "SIZE"
      /\ appState' = "SIZE" /\ id' = id /\ todo = <<>>
      /\ ep' = ep /\ address' = address /\ written' = written /\ answers' = answers
  BY DEF PacketSize, At, fpgaVars, usbVars
<1>2. Queue = <<id>> \o Waiting /\ Due = 0 /\ Latched = address /\ Answered = answers
  BY <1>1, Mapped DEF MapView, View, Writing, Reading
<1>3. CASE inBuffer.count > 0
  <2>1. /\ todo' = Echoes /\ pc' = "dispatch" /\ size' = Peek(inBuffer)
        /\ inBuffer' = Remove(inBuffer)
    BY <1>3 DEF PacketSize, GetCount
  <2>2. todo' # <<>> /\ Len(todo') # 1
    <3>1. Len(Echoes) # 1
      BY Sequences
    <3>2. Echoes # <<>>
      BY DEF Echoes
    <3> QED
      BY <2>1, <3>1, <3>2
  <2>3. View(<<id, size>> \o Waiting, 0, address, answers)'
    BY <1>1, <2>1, <2>2, MappedNext DEF MapView, View
  <2>4. <<size'>> \o Waiting' = Waiting /\ size' \in Data
    BY <1>1, <1>3, <2>1, ByteLeaves
  <2>5. <<id, size'>> \o Waiting' = <<id>> \o (<<size'>> \o Waiting')
    <3>1. id \in Data /\ Waiting' \in Seq(Data)
      BY <1>1, WaitingNext DEF IInv, PacketOK, WaitingOK
    <3>2. \A x, y \in Data, r \in Seq(Data) : <<x, y>> \o r = <<x>> \o (<<y>> \o r)
      BY TwoAndRest
    <3> QED
      BY <2>4, <3>1, <3>2, Zenon
  <2>6. Queue' = Queue
    BY <1>1, <1>2, <2>3, <2>4, <2>5 DEF View
  <2> QED
    BY <1>1, <1>2, <2>3, <2>6, Unseen DEF View
<1>4. CASE ~(inBuffer.count > 0)
  <2>1. pc' = "rx" /\ inBuffer' = inBuffer
    BY <1>1, <1>4 DEF PacketSize, GetCount
  <2>2. Waiting' = Waiting
    BY <1>1, <2>1 DEF Waiting, Contents
  <2>3. View(<<id>> \o Waiting, 0, address, answers)'
    BY <1>1, <2>1, MappedNext DEF MapView, Writing, Reading
  <2> QED
    BY <1>1, <1>2, <2>2, <2>3, Unseen DEF View
<1> QED
  BY <1>3, <1>4

LEMMA DispatchMaps ==
  ASSUME IInv, IInv', Dispatch
  PROVE  UNCHANGED Protocol!pvars
<1>1. /\ mode' = "app" /\ pc' = "rx" /\ At("dispatch") /\ ~IsReconfigure
      /\ inBuffer' = inBuffer /\ ep' = ep /\ id' = id /\ size' = size
      /\ address' = address /\ written' = written /\ answers' = answers
  BY DEF Dispatch, At, fpgaVars, usbVars
<1>2. \/ id \in {SdrWr, DdrWr, SdrRd, DdrRd}
           /\ appState' \in {"SDR_WR", "DDR_WR", "SDR_RD", "DDR_RD"}
      \/ id \notin {SdrWr, DdrWr, SdrRd, DdrRd} /\ appState' = "ID"
  BY CodeAssumption DEF Dispatch
<1>3. View(<<>> \o Waiting, IF id \in {SdrWr, DdrWr, SdrRd, DdrRd} THEN 2 * size ELSE 0,
           address, answers)
  BY <1>1, Mapped DEF MapView
<1>4. View((IF appState = "SIZE" THEN <<id>> ELSE <<>>) \o Waiting,
           IF Writing \/ Reading THEN 2 * size ELSE 0, address, answers)'
  BY <1>1, MappedNext DEF MapView
<1>5. Waiting' = Waiting
  BY <1>1 DEF Waiting, Contents
<1>6. View(<<>> \o Waiting, IF id \in {SdrWr, DdrWr, SdrRd, DdrRd} THEN 2 * size ELSE 0,
           address, answers)'
  BY <1>1, <1>2, <1>4 DEF View, Writing, Reading
<1> QED
  BY <1>1, <1>3, <1>5, <1>6, Unseen DEF View

(* What is left of the stream when the loop ends was dropped with #R. *)
LEMMA ReturnMaps ==
  ASSUME IInv, IInv', Return
  PROVE  UNCHANGED Protocol!pvars
<1>1. /\ mode' = "main" /\ At("dispatch") /\ IsReconfigure /\ id' = id
      /\ address' = 0 /\ written' = written /\ answers' = answers
  BY DEF Return, usbVars
<1>2. View(<<>>, 0, 0, answers)
  BY <1>1, Mapped DEF MapView
<1>3. View(<<>>, 0, address, answers)'
  BY <1>1, MappedNext DEF MapView
<1> QED
  BY <1>1, <1>2, <1>3, Unseen DEF View

LEMMA StartTransferMaps ==
  ASSUME IInv, IInv', StartTransfer
  PROVE  UNCHANGED Protocol!pvars
<1>1. /\ mode = "app" /\ pc = "switch" /\ pc' = "loop" /\ (Writing \/ Reading)
      /\ inBuffer' = inBuffer /\ ep' = ep /\ id' = id /\ size' = size /\ size \in Nat
      /\ address' = address /\ written' = written /\ answers' = answers
  BY DEF StartTransfer, At, fpgaVars, usbVars, IInv, TypeOK
<1>2. CyclesDone' = 0 /\ ~OnPort'
  <2>1. todo' = WriteSetup \/ todo' = <<>> \/ todo' = DdrReadSetup
    BY <1>1 DEF StartTransfer, Reading, Writing
  <2>2. todo' \in Seq(Ops)
    BY DEF IInv, TypeOK
  <2>3. CASE todo' = WriteSetup
    BY <2>2, <2>3, Sequences, RestStarts, SetupNext DEF SetupView
  <2>4. CASE todo' = <<>>
    BY <2>4, OutsideNext
  <2>5. CASE todo' = DdrReadSetup
    BY <2>2, <2>5, Sequences, RestStarts, SetupNext DEF SetupView
  <2> QED
    BY <2>1, <2>3, <2>4, <2>5
<1>3. View(<<>> \o Waiting, 2 * size, address, answers)
  BY <1>1, Mapped DEF MapView, Writing, Reading
<1>4. View((IF OnPort THEN <<port>> ELSE <<>>) \o Waiting, 2 * size - CyclesDone,
           address, answers)'
  BY <1>1, MappedNext DEF MapView
<1>5. Waiting' = Waiting /\ 2 * size - 0 = 2 * size
  BY <1>1 DEF Waiting, Contents
<1> QED
  BY <1>1, <1>2, <1>3, <1>4, <1>5, Unseen DEF View

LEMMA NextUnitMaps ==
  ASSUME IInv, IInv', NextUnit
  PROVE  UNCHANGED Protocol!pvars
<1>1. /\ mode = "app" /\ mode' = "app" /\ pc = "loop" /\ todo = <<>>
      /\ inBuffer' = inBuffer /\ ep' = ep /\ id' = id /\ size' = size /\ size \in Nat
      /\ address' = address /\ written' = written /\ answers' = answers
  BY DEF NextUnit, At, fpgaVars, usbVars, IInv, TypeOK
<1>2. Waiting' = Waiting /\ 2 * size - 0 = 2 * size
  BY <1>1 DEF Waiting, Contents
<1>3. View(<<>> \o Waiting, 2 * size, address, answers)
  <2>1. CyclesDone = 0 /\ ~OnPort
    BY <1>1, OutsideMap
  <2> QED
    BY <1>1, <1>2, <2>1, Mapped DEF MapView
<1>4. Writing \/ Reading
  BY <1>1 DEF IInv, PacketOK
<1>5. CASE Ready
  <2>1. pc' = "loop" /\ todo' = Unit /\ appState' = appState /\ todo' \in Seq(Ops)
    BY <1>1, <1>5 DEF NextUnit, IInv, TypeOK
  <2>2. CyclesDone' = 0 /\ ~OnPort'
    <3>1. CASE Writing
      <4>1. todo' = WriteUnit /\ Writing'
        BY <2>1, <3>1 DEF Unit, Writing
      <4>2. Rest(WriteUnit)' /\ Len(todo') = 4
        BY <4>1, Sequences, RestStarts
      <4>3. WriteUnitView'
        BY WriteUnitMap, PTL
      <4> QED
        BY <2>1, <4>1, <4>2, <4>3 DEF WriteUnitView
    <3>2. CASE appState = "SDR_RD"
      <4>1. todo' = SdrReadUnit /\ appState' = "SDR_RD"
        BY <2>1, <3>2 DEF Unit, Writing
      <4>2. Rest(SdrReadUnit)' /\ Len(todo') = 8
        BY <4>1, Sequences, RestStarts
      <4>3. SdrReadUnitView'
        BY SdrReadUnitMap, PTL
      <4> QED
        BY <2>1, <4>1, <4>2, <4>3 DEF SdrReadUnitView
    <3>3. CASE appState = "DDR_RD"
      <4>1. todo' = DdrReadUnit /\ appState' = "DDR_RD"
        BY <2>1, <3>3 DEF Unit, Writing
      <4>2. Rest(DdrReadUnit)' /\ Len(todo') = 4
        BY <4>1, Sequences, RestStarts
      <4>3. DdrReadUnitView'
        BY DdrReadUnitMap, PTL
      <4> QED
        BY <2>1, <4>1, <4>2, <4>3 DEF DdrReadUnitView
    <3> QED
      BY <1>4, <3>1, <3>2, <3>3 DEF Reading
  <2>3. View((IF OnPort THEN <<port>> ELSE <<>>) \o Waiting, 2 * size - CyclesDone,
             address, answers)'
    BY <2>1, MappedNext DEF MapView
  <2> QED
    BY <1>1, <1>2, <1>3, <2>2, <2>3, Unseen DEF View
<1>6. CASE ~Ready
  <2>1. pc' = "rx" /\ appState' = IF size = 0 THEN "ID" ELSE appState
    BY <1>1, <1>6 DEF NextUnit
  <2>2. View((IF appState = "SIZE" THEN <<id>> ELSE <<>>) \o Waiting,
             IF Writing \/ Reading THEN 2 * size ELSE 0, address, answers)'
    BY <1>1, <2>1, MappedNext DEF MapView
  <2>3. View(<<>> \o Waiting, 2 * size, address, answers)'
    <3>1. size = 0 => 2 * size = 0
      BY <1>1
    <3>2. CASE size = 0
      BY <1>1, <2>1, <2>2, <3>1, <3>2 DEF View, Writing, Reading
    <3>3. CASE size # 0
      BY <1>1, <1>4, <2>1, <2>2, <3>3 DEF View, Writing, Reading
    <3> QED
      BY <3>2, <3>3
  <2> QED
    BY <1>1, <1>2, <1>3, <2>3, Unseen DEF View
<1> QED
  BY <1>5, <1>6

(***************************************************************************)
(* The command line and the host.                                          *)
(***************************************************************************)
LEMMA CommandLineMaps ==
  ASSUME IInv, IInv', CommandLine
  PROVE  UNCHANGED Protocol!pvars
<1>1. /\ mode = "main" /\ mode' = "main" /\ id' = id
      /\ address' = address /\ written' = written /\ answers' = answers
  BY DEF CommandLine, cpuVars
<1>2. View(<<>>, 0, address, answers) /\ View(<<>>, 0, address, answers)'
  BY <1>1, Mapped, MappedNext DEF MapView
<1> QED
  BY <1>1, <1>2, Unseen DEF View

(* Only the bytes in the endpoint can make a difference. *)
LEMMA SameView ==
  ASSUME UNCHANGED <<mode, pc, todo, inBuffer, id, size, appState, port, address, answers>>
  PROVE  /\ Due' = Due /\ Kind' = Kind /\ Latched' = Latched /\ Answered' = Answered
         /\ Taken' = Taken /\ Returning' = Returning
         /\ Contents(inBuffer') = Contents(inBuffer)
         /\ ep' = ep => Queue' = Queue
<1>1. /\ Returning' = Returning /\ CyclesDone' = CyclesDone /\ OnPort' = OnPort
      /\ Taken' = Taken
  BY DEF Returning, At, IsReconfigure, CyclesDone, OnPort, InUnit, Writing, Taken
<1>2. Due' = Due
  BY <1>1 DEF Due, Writing, Reading, At
<1>3. Contents(inBuffer') = Contents(inBuffer)
  BY DEF Contents
<1> QED
  BY <1>1, <1>2, <1>3 DEF Kind, Latched, Answered, Queue

LEMMA TakenBytes == IInv /\ mode = "app" => Taken \in Seq(Data)
<1> SUFFICES ASSUME IInv, mode = "app" PROVE Taken \in Seq(Data)
  OBVIOUS
<1>1. appState = "SIZE" => id \in Data
  BY DEF IInv, PacketOK
<1>2. appState = "SIZE" /\ pc = "dispatch" => size \in Data
  BY DEF IInv, OutsideOK
<1>3. ASSUME OnPort PROVE port \in Data
  <2>1. /\ pc = "loop" /\ todo # <<>>
        /\ \/ Writing /\ Head(todo) \in {"e0", "e1"}
           \/ appState = "SDR_RD" /\ Head(todo) = "e1"
    BY <1>3 DEF OnPort, InUnit
  <2>2. PICK k \in Nat : k = Len(todo)
    BY DEF IInv, TypeOK
  <2>3. InWriteUnit(Head(todo), k) \/ InSdrReadUnit(Head(todo), k)
    BY <2>1, <2>2, Places DEF InBaseInit, InEchoes, InWriteSetup, InDdrReadSetup,
      InDdrReadUnit, Writing
  <2> QED
    BY <2>1, <2>3 DEF InWriteUnit, InSdrReadUnit, Writing
<1>4. \A x, y \in Data : <<>> \in Seq(Data) /\ <<x>> \in Seq(Data) /\ <<x, y>> \in Seq(Data)
  OBVIOUS
<1> QED
  BY <1>1, <1>2, <1>3, <1>4 DEF Taken

LEMMA HostSendMaps ==
  ASSUME IInv, IInv', QuietOK, HostSend
  PROVE  Protocol!Arrive \/ UNCHANGED Protocol!pvars
<1>1. /\ UNCHANGED <<mode, pc, todo, inBuffer, id, size, appState, port, address, answers>>
      /\ written' = written /\ ep = <<>> /\ ep' \in Seq(Data)
  BY DEF HostSend, cpuVars, pinVars, fpgaVars, IInv, TypeOK
<1>2. /\ Due' = Due /\ Kind' = Kind /\ Latched' = Latched /\ Answered' = Answered
      /\ Taken' = Taken /\ Returning' = Returning
      /\ Contents(inBuffer') = Contents(inBuffer)
  BY <1>1, SameView
<1>3. CASE mode = "main" \/ Returning
  <2>1. Queue = <<>> /\ Queue' = <<>>
    BY <1>1, <1>2, <1>3 DEF Queue
  <2> QED
    BY <1>1, <1>2, <2>1, Unseen
<1>4. CASE mode # "main" /\ ~Returning
  <2>1. Contents(inBuffer) \in Seq(Data) /\ Taken \in Seq(Data)
    BY <1>4, Bytes, TakenBytes DEF IInv, TypeOK
  <2> DEFINE s == Taken \o Contents(inBuffer)
  <2>2. s \in Seq(Data)
    BY <2>1, ConcatProperties
  <2>3. Queue = s
    <3>1. Queue = Taken \o (Contents(inBuffer) \o <<>>)
      BY <1>1, <1>4 DEF Queue
    <3> QED
      BY <2>1, <3>1, ConcatEmptySeq
  <2>4. Queue' = s \o ep'
    <3>1. Queue' = Taken \o (Contents(inBuffer) \o ep')
      BY <1>1, <1>2, <1>4 DEF Queue
    <3> QED
      BY <1>1, <2>1, <3>1, ConcatAssociative
  <2> HIDE DEF s
  <2>5. SubSeq(s \o ep', 1, Len(s)) = s /\ Len(s \o ep') >= Len(s) /\ s \o ep' \in Seq(Data)
    BY <1>1, <2>2, Prefix
  <2> QED
    BY <1>1, <1>2, <2>3, <2>4, <2>5 DEF Protocol!Arrive
<1> QED
  BY <1>3, <1>4

(***************************************************************************)
(* The port operations.                                                    *)
(***************************************************************************)
LEMMA FrontOfAppend ==
  ASSUME NEW S, NEW a \in Seq(S), NEW y \in S
  PROVE  SubSeq(Append(a, y), 1, Len(Append(a, y)) - 1) = a
<1>1. <<y>> \in Seq(S) /\ Append(a, y) = a \o <<y>>
  BY AppendIsConcat
<1>2. Len(Append(a, y)) - 1 = Len(a)
  BY AppendProperties
<1>3. SubSeq(a \o <<y>>, 1, Len(a)) = a
  BY <1>1, Prefix
<1> QED
  BY <1>1, <1>2, <1>3

LEMMA LastTwo ==
  ASSUME NEW S, NEW a \in Seq(S), NEW x \in S, NEW y \in S, a # <<>>, a[Len(a)] = x
  PROVE  Append(a, y) = SubSeq(a, 1, Len(a) - 1) \o <<x, y>>
<1> DEFINE f == SubSeq(a, 1, Len(a) - 1)
<1>1. Len(a) \in Nat \ {0}
  BY EmptySeq, LenProperties
<1>2. /\ f \in Seq(S) /\ Len(f) = Len(a) - 1
      /\ \A i \in 1 .. Len(a) - 1 : f[i] = a[i]
  <2>1. \A i \in 1 .. Len(a) - 1 : a[i] \in S
    BY <1>1, ElementOfSeq
  <2>2. /\ f \in Seq(S)
        /\ Len(f) = IF 1 <= Len(a) - 1 THEN (Len(a) - 1) - 1 + 1 ELSE 0
        /\ \A i \in 1 .. (Len(a) - 1) - 1 + 1 : f[i] = a[1 + i - 1]
    BY <1>1, <2>1, SubSeqProperties
  <2>3. ASSUME NEW i \in 1 .. Len(a) - 1 PROVE f[i] = a[i]
    <3>1. i \in 1 .. (Len(a) - 1) - 1 + 1 /\ 1 + i - 1 = i
      BY <1>1
    <3> QED
      BY <2>2, <3>1
  <2>4. ASSUME NEW l \in Nat \ {0}
        PROVE  (IF 1 <= l - 1 THEN (l - 1) - 1 + 1 ELSE 0) = l - 1
    OBVIOUS
  <2>5. Len(f) = Len(a) - 1
    BY <1>1, <2>2, <2>4
  <2> HIDE DEF f
  <2> QED
    BY <2>2, <2>3, <2>5
<1> HIDE DEF f
<1>3. <<x, y>> \in Seq(S) /\ Len(<<x, y>>) = 2 /\ <<x, y>>[1] = x /\ <<x, y>>[2] = y
  OBVIOUS
<1>4. /\ f \o <<x, y>> \in Seq(S) /\ Len(f \o <<x, y>>) = Len(f) + 2
      /\ \A i \in 1 .. Len(f) + 2 :
           (f \o <<x, y>>)[i] = IF i <= Len(f) THEN f[i] ELSE <<x, y>>[i - Len(f)]
  BY <1>2, <1>3, ConcatProperties
<1>5. /\ Append(a, y) \in Seq(S) /\ Len(Append(a, y)) = Len(a) + 1
      /\ \A i \in 1 .. Len(a) : Append(a, y)[i] = a[i]
      /\ Append(a, y)[Len(a) + 1] = y
  BY AppendProperties
<1>6. ASSUME NEW i \in 1 .. Len(a) + 1 PROVE Append(a, y)[i] = (f \o <<x, y>>)[i]
  <2>1. i \in 1 .. Len(f) + 2
    BY <1>1, <1>2
  <2>2. CASE i <= Len(a) - 1
    BY <1>1, <1>2, <1>4, <1>5, <2>1, <2>2
  <2>3. CASE i = Len(a)
    <3>1. ~(i <= Len(f)) /\ i - Len(f) = 1 /\ i \in 1 .. Len(a)
      BY <1>1, <1>2, <2>3
    <3> QED
      BY <1>3, <1>4, <1>5, <2>1, <2>3, <3>1
  <2>4. CASE i = Len(a) + 1
    <3>1. ~(i <= Len(f)) /\ i - Len(f) = 2
      BY <1>1, <1>2, <2>4
    <3> QED
      BY <1>3, <1>4, <1>5, <2>1, <2>4, <3>1
  <2>5. i <= Len(a) - 1 \/ i = Len(a) \/ i = Len(a) + 1
    BY <1>1
  <2> QED
    BY <2>2, <2>3, <2>4, <2>5
<1>7. Len(f \o <<x, y>>) = Len(Append(a, y))
  BY <1>1, <1>2, <1>4, <1>5
<1>8. Append(a, y) = f \o <<x, y>>
  BY <1>4, <1>5, <1>6, <1>7, SeqEqual
<1> QED
  BY <1>8 DEF f

(* A bus cycle, seen by what is due before and after. *)
LEMMA CycleSeen ==
  ASSUME NEW d \in Nat, d > 0, Due = d, Due' = d - 1, id' = id
  PROVE  Protocol!Cycle /\ Kind = id /\ (Protocol!First <=> d % 2 = 0)
<1>1. Due > 0 /\ Due' = Due - 1 /\ Kind = id
  BY DEF Kind
<1>2. Kind' = IF Due = 1 THEN Hash ELSE Kind
  <2>1. Due' = 0 <=> Due = 1
    OBVIOUS
  <2> QED
    BY <1>1, <2>1 DEF Kind
<1> QED
  BY <1>1, <1>2 DEF Protocol!Cycle, Protocol!First

LEMMA BaseInitMaps ==
  ASSUME IInv, IInv', NEW k \in Nat, k = Len(todo), NEW op, Doing(op), Effects(op, k),
         Visible(op), InBaseInit(op, k)
  PROVE  UNCHANGED Protocol!pvars
<1>1. /\ mode = "app" /\ pc = "rx" /\ appState = "ID" /\ e = 0
      /\ op \in {"rw0", "zero", "drive", "e0", "sdr"}
  BY OpFacts DEF InBaseInit, IInv, OutsideOK
<1>2. /\ mode' = "app" /\ pc' = "rx" /\ appState' = "ID" /\ answers' = answers
      /\ inBuffer' = inBuffer /\ ep' = ep /\ id' = id
  BY <1>1 DEF Effects, Visible
<1>3. address' = address /\ written' = written
  <2>1. CASE op = "e0"
    BY <1>1, <2>1 DEF Visible, Edge
  <2>2. CASE op # "e0"
    BY <1>1, <2>2 DEF Effects
  <2> QED
    BY <2>1, <2>2
<1>4. View(<<>> \o Waiting, 0, address, answers) /\ View(<<>> \o Waiting, 0, address, answers)'
  BY <1>1, <1>2, Mapped, MappedNext DEF MapView, Writing, Reading
<1>5. Waiting' = Waiting
  BY <1>2 DEF Waiting, Contents
<1> QED
  BY <1>2, <1>3, <1>4, <1>5, Unseen DEF View

(* Header, Unknown or Return, with the echo of the Length. *)
LEMMA EchoesMap ==
  ASSUME IInv, IInv', QuietOK, NEW k \in Nat, k = Len(todo), NEW op, Doing(op),
         Effects(op, k), Visible(op), InEchoes(op, k)
  PROVE  Protocol!Header \/ Protocol!Unknown \/ Protocol!Return \/ UNCHANGED Protocol!pvars
<1> DEFINE Bytes2 == {"echo", "register", "float"} \X Nat
<1>1. /\ mode = "app" /\ pc = "dispatch" /\ todo # <<>> /\ todo' = Tail(todo)
      /\ id \in Data /\ size \in Data /\ id \in Nat /\ size \in Nat
      /\ answers \in Seq(Bytes2) /\ Waiting \in Seq(Data)
      /\ op \in {"id", "size"}
  BY OpFacts, Bytes DEF InEchoes, IInv, OutsideOK, PacketOK, Doing, TypeOK
<1>2. /\ mode' = "app" /\ pc' = "dispatch" /\ id' = id /\ size' = size
      /\ inBuffer' = inBuffer /\ ep' = ep /\ address' = address /\ written' = written
      /\ Waiting' = Waiting
  BY <1>1 DEF Effects, Waiting, Contents
<1>3. View(<<id, size>> \o Waiting, 0, address,
           IF k = 1 THEN SubSeq(answers, 1, Len(answers) - 1) ELSE answers)
  BY <1>1, Mapped DEF MapView
<1>4. CASE op = "id"
  <2>1. k # 1 /\ todo' # <<>> /\ Len(todo') = 1
    <3>1. ASSUME NEW i \in Nat, i = 2 PROVE i # 1 /\ i - 1 = 1
      BY <3>1
    <3> QED
      BY <1>4, <3>1, OpFacts DEF InEchoes
  <2>2. answers' = Append(answers, <<"echo", id>>) /\ <<"echo", id>> \in Bytes2
    BY <1>1, <1>4 DEF Visible
  <2>3. View(<<id, size>> \o Waiting, 0, address, SubSeq(answers, 1, Len(answers) - 1))'
    BY <1>2, <2>1, MappedNext DEF MapView
  <2>4. SubSeq(answers', 1, Len(answers') - 1) = answers
    BY <1>1, <2>2, FrontOfAppend
  <2> QED
    BY <1>2, <1>3, <2>1, <2>3, <2>4, Unseen DEF View
<1>5. CASE op = "size"
  <2>1. k = 1 /\ todo' = <<>> /\ At("dispatch")'
    BY <1>2, <1>5, OpFacts DEF InEchoes, At
  <2>2. answers' = Append(answers, <<"echo", size>>) /\ <<"echo", size>> \in Bytes2
        /\ <<"echo", id>> \in Bytes2
    BY <1>1, <1>5 DEF Visible
  <2>3. answers # <<>> /\ answers[Len(answers)] = <<"echo", id>>
    BY <1>1, <2>1 DEF QuietOK
  <2>4. answers' = SubSeq(answers, 1, Len(answers) - 1) \o <<<<"echo", id>>, <<"echo", size>>>>
    BY <1>1, <2>2, <2>3, LastTwo
  <2>5. /\ Queue = <<id, size>> \o Waiting /\ Due = 0 /\ Latched = address
        /\ Answered = SubSeq(answers, 1, Len(answers) - 1) /\ Kind = Hash
    BY <1>3, <2>1 DEF View, Kind
  <2>6. /\ Queue[1] = id /\ Queue[2] = size /\ Len(Queue) >= 2
        /\ SubSeq(Queue, 3, Len(Queue)) = Waiting
    <3>1. /\ Len(Queue) = Len(Waiting) + 2 /\ Len(Waiting) \in Nat
          /\ Queue[1] = id /\ Queue[2] = size
          /\ SubSeq(Queue, 3, Len(Queue)) = Waiting
      <4>1. \A x, y \in Data, r \in Seq(Data) :
              /\ Len(<<x, y>> \o r) = Len(r) + 2 /\ Len(r) \in Nat
              /\ (<<x, y>> \o r)[1] = x /\ (<<x, y>> \o r)[2] = y
              /\ SubSeq(<<x, y>> \o r, 3, Len(<<x, y>> \o r)) = r
        BY TwoAndRest
      <4>2. id \in Data /\ size \in Data /\ Waiting \in Seq(Data)
        BY <1>1
      <4>3. Queue = <<id, size>> \o Waiting
        BY <2>5
      <4>4. /\ Len(<<id, size>> \o Waiting) = Len(Waiting) + 2 /\ Len(Waiting) \in Nat
            /\ (<<id, size>> \o Waiting)[1] = id /\ (<<id, size>> \o Waiting)[2] = size
            /\ SubSeq(<<id, size>> \o Waiting, 3, Len(<<id, size>> \o Waiting)) = Waiting
        BY <4>1, <4>2, Zenon
      <4> QED
        BY <4>3, <4>4, Zenon
    <3> QED
      BY <3>1
  <2>7. Protocol!Echo = <<<<"echo", id>>, <<"echo", size>>>>
    BY <2>6 DEF Protocol!Echo
  <2>8. CASE IsReconfigure'
    <3>1. View(<<>>, 0, 0, answers)'
      BY <2>1, <2>8, MappedNext DEF MapView
    <3>2. Protocol!IsReconfigure
      BY <1>2, <2>6, <2>8 DEF IsReconfigure, Protocol!IsReconfigure
    <3> QED
      BY <1>2, <2>4, <2>5, <2>6, <2>7, <3>1, <3>2 DEF View, Kind, Protocol!Return
  <2>9. CASE ~IsReconfigure'
    <3>1. View(<<>> \o Waiting, IF id \in {SdrWr, DdrWr, SdrRd, DdrRd} THEN 2 * size ELSE 0,
               address, answers)'
      BY <2>1, <2>9, MappedNext DEF MapView
    <3>2. ~Protocol!IsReconfigure
      BY <1>2, <2>6, <2>9 DEF IsReconfigure, Protocol!IsReconfigure
    <3>3. Queue' = Waiting /\ Latched' = address /\ Answered' = answers'
          /\ Due' = IF id \in {SdrWr, DdrWr, SdrRd, DdrRd} THEN 2 * size ELSE 0
      BY <1>2, <3>1, NothingBefore DEF View
    <3>4. CASE id \in {SdrWr, DdrWr, SdrRd, DdrRd}
      <4>1. Due' = 2 * Queue[2] /\ Queue[1] \in Protocol!Transfers
        BY <2>6, <3>3, <3>4 DEF Protocol!Transfers
      <4>2. Kind' = IF Due' > 0 THEN Queue[1] ELSE Hash
        <5>1. Due' \in Nat
          BY <1>1, <2>6, <4>1
        <5>2. Due' = 0 <=> ~(Due' > 0)
          BY <5>1
        <5> QED
          BY <1>2, <2>6, <5>2 DEF Kind
      <4> QED
        BY <1>2, <2>4, <2>5, <2>6, <2>7, <3>3, <4>1, <4>2 DEF Protocol!Header
    <3>5. CASE id \notin {SdrWr, DdrWr, SdrRd, DdrRd}
      <4>1. Due' = Due /\ Kind' = Kind /\ Queue[1] \notin Protocol!Transfers
        BY <2>5, <2>6, <3>3, <3>5 DEF Kind, Protocol!Transfers
      <4>2. 3 \in 3 .. Len(Queue) + 1 /\ Queue' = SubSeq(Queue, 3, Len(Queue))
        <5>1. Len(Queue) \in Nat
          BY <1>1, <2>5, ConcatProperties
        <5> QED
          BY <2>6, <3>3, <5>1
      <4> QED
        BY <1>2, <2>4, <2>5, <2>6, <2>7, <3>2, <3>3, <4>1, <4>2 DEF Protocol!Unknown
    <3> QED
      BY <3>4, <3>5
  <2> QED
    BY <2>8, <2>9
<1> QED
  BY <1>1, <1>4, <1>5

LEMMA SetupMaps ==
  ASSUME IInv, IInv', NEW k \in Nat, k = Len(todo), NEW op, Doing(op), Effects(op, k),
         Visible(op), InWriteSetup(op, k) \/ InDdrReadSetup(op, k)
  PROVE  UNCHANGED Protocol!pvars
<1>1. /\ pc = "loop" /\ op \in {"rw0", "drive", "input", "rw1"}
      /\ Rest(WriteSetup) \/ Rest(DdrReadSetup)
      /\ todo \in Seq(Ops) /\ todo' \in Seq(Ops)
  BY OpFacts DEF InWriteSetup, InDdrReadSetup, IInv, TypeOK
<1>2. /\ pc' = "loop" /\ size' = size /\ id' = id /\ answers' = answers
      /\ inBuffer' = inBuffer /\ ep' = ep /\ address' = address /\ written' = written
      /\ Waiting' = Waiting
  BY <1>1 DEF Effects, Visible, Waiting, Contents
<1>3. CyclesDone = 0 /\ ~OnPort
  BY <1>1, WriteSetupMap, DdrReadSetupMap
<1>4. CyclesDone' = 0 /\ ~OnPort'
  <2>1. Rest(WriteSetup)' \/ Rest(DdrReadSetup)'
    BY <1>1, Sequences, RestGoesOn
  <2> QED
    BY <1>1, <2>1, SetupNext DEF SetupView
<1>5. View(<<>> \o Waiting, 2 * size - 0, address, answers)
  BY <1>1, <1>3, Mapped DEF MapView
<1>6. View(<<>> \o Waiting, 2 * size - 0, address, answers)'
  BY <1>2, <1>4, MappedNext DEF MapView
<1> QED
  BY <1>2, <1>5, <1>6, Unseen DEF View

(* A byte on the port is what Head and Tail of the queue tell apart. *)
LEMMA PortFirst ==
  ASSUME NEW q, NEW x \in Data, NEW r \in Seq(Data), q = <<x>> \o r
  PROVE  q # <<>> /\ Head(q) = x /\ Tail(q) = r
BY FirstAndRest

LEMMA WriteUnitMaps ==
  ASSUME IInv, IInv', NEW k \in Nat, k = Len(todo), NEW op, Doing(op), Effects(op, k),
         Visible(op), InWriteUnit(op, k)
  PROVE  Protocol!SetAddress \/ Protocol!Write \/ UNCHANGED Protocol!pvars
<1>1. /\ pc = "loop" /\ Writing /\ Rest(WriteUnit) /\ todo \in Seq(Ops) /\ size \in Nat
      /\ size > 0 /\ on /\ rw = 0 /\ dir = "out" /\ todo # <<>> /\ op = Head(todo)
      /\ Waiting \in Seq(Data) /\ Waiting' \in Seq(Data)
      /\ pc' = "loop" /\ id' = id /\ ep' = ep /\ Writing' /\ answers' = answers
  BY OpFacts, Bytes, WaitingNext
     DEF InWriteUnit, IInv, TypeOK, Doing, Effects, Visible, Writing, WaitingOK
<1>2. /\ Rest(WriteUnit)' /\ todo' \in Seq(Ops) /\ k - 1 = Len(todo') /\ k - 1 \in Nat
  BY <1>1, OpFacts, Sequences, RestGoesOn
<1>3. /\ k \in {0, 3, 4} => CyclesDone = 0
      /\ k \in {1, 2} => CyclesDone = 1
      /\ k \in {0, 2, 4} => ~OnPort
      /\ k \in {1, 3} => OnPort
  BY <1>1, WriteUnitMap DEF WriteUnitView
<1>4. /\ k - 1 \in {0, 3, 4} => CyclesDone' = 0
      /\ k - 1 \in {1, 2} => CyclesDone' = 1
      /\ k - 1 \in {0, 2, 4} => ~OnPort'
      /\ k - 1 \in {1, 3} => OnPort'
  <2>1. WriteUnitView'
    BY WriteUnitMap, PTL
  <2> QED
    BY <1>1, <1>2, <2>1 DEF WriteUnitView
<1>5. View((IF OnPort THEN <<port>> ELSE <<>>) \o Waiting, 2 * size - CyclesDone,
           address, answers)
  BY <1>1, Mapped DEF MapView
<1>6. View((IF OnPort THEN <<port>> ELSE <<>>) \o Waiting, 2 * size - CyclesDone,
           address, answers)'
  BY <1>1, MappedNext DEF MapView
<1>7. \/ op = "data" /\ k \in {2, 4}
      \/ op = "e1" /\ k = 3 /\ e = 0 /\ port \in Data
      \/ op = "e0" /\ k = 1 /\ e = 1 /\ port \in Data
  BY DEF InWriteUnit
<1>8. \/ id = SdrWr /\ ddr = 0
      \/ id = DdrWr /\ ddr = 1
  BY <1>1 DEF IInv, PacketOK, Writing
<1>9. CASE op = "data"
  <2>1. /\ k = 4 => CyclesDone = 0 /\ CyclesDone' = 0
        /\ k = 2 => CyclesDone = 1 /\ CyclesDone' = 1
        /\ ~OnPort /\ OnPort' /\ (k = 4 \/ k = 2)
    <3>1. k = 4 \/ k = 2
      BY <1>7, <1>9
    <3>2. ASSUME NEW i \in Nat, i = 4 \/ i = 2
          PROVE  /\ i \in {0, 2, 4} /\ i - 1 \in {1, 3}
                 /\ i = 4 => i \in {0, 3, 4} /\ i - 1 \in {0, 3, 4}
                 /\ i = 2 => i \in {1, 2} /\ i - 1 \in {1, 2}
      BY <3>2
    <3> QED
      BY <1>3, <1>4, <3>1, <3>2
  <2>2. /\ port' = Peek(inBuffer) /\ inBuffer' = Remove(inBuffer) /\ inBuffer.count > 0
        /\ size' = size /\ address' = address /\ written' = written
    BY <1>1, <1>9, DataThere DEF Effects
  <2>3. <<port'>> \o Waiting' = Waiting
    BY <1>1, <2>2, ByteLeaves
  <2>4. Queue' = Queue
    BY <1>5, <1>6, <2>1, <2>3, NothingBefore DEF View
  <2>5. Due' = Due /\ Latched' = Latched /\ Answered' = Answered
    BY <1>1, <1>5, <1>6, <2>1, <2>2 DEF View
  <2> QED
    BY <1>1, <2>2, <2>4, <2>5, Unseen
<1>10. CASE op # "data"
  <2>1. Waiting' = Waiting
    BY <1>1, <1>10 DEF Effects, Waiting, Contents
  <2>2. Bus = port
    BY <1>1 DEF Bus
  <2>3. Queue = <<port>> \o Waiting /\ Queue' = Waiting
    <3>1. OnPort /\ ~OnPort'
      BY <1>3, <1>4, <1>7, <1>10
    <3> QED
      BY <1>5, <1>6, <2>1, <3>1, NothingBefore DEF View
  <2>4. Queue # <<>> /\ Head(Queue) = port /\ Tail(Queue) = Queue'
    BY <1>1, <1>7, <1>10, <2>3, PortFirst
  <2>5. Latched = address /\ Latched' = address' /\ Answered = answers /\ Answered' = answers
    BY <1>1, <1>5, <1>6 DEF View
  <2>6. CASE op = "e1"
    <3>1. Due = 2 * size /\ Due' = 2 * size - 1
      <4>1. CyclesDone = 0 /\ CyclesDone' = 1 /\ size' = size
        BY <1>3, <1>4, <1>7, <2>6 DEF Effects
      <4> QED
        BY <1>1, <1>5, <1>6, <4>1 DEF View
    <3>2. Protocol!Cycle /\ Kind = id /\ Protocol!First
      <4>1. 2 * size \in Nat /\ 2 * size > 0 /\ (2 * size) % 2 = 0
        BY <1>1, Even
      <4> QED
        BY <1>1, <3>1, <4>1, CycleSeen
    <3>3. Edge(TRUE) /\ e = 0
      BY <1>7, <2>6 DEF Visible
    <3>4. CASE id = SdrWr /\ ddr = 0
      <4>1. address' = port /\ written' = written
        BY <1>1, <2>2, <3>3, <3>4 DEF Edge
      <4> QED
        BY <2>4, <2>5, <3>2, <3>4, <4>1 DEF Protocol!SetAddress
    <3>5. CASE id = DdrWr /\ ddr = 1
      <4>1. written' = Append(written, <<port>>) /\ address' = address
        BY <1>1, <2>2, <3>3, <3>5 DEF Edge
      <4>2. DdrWr # SdrWr
        BY CodeAssumption
      <4> QED
        BY <2>4, <2>5, <3>2, <3>5, <4>1, <4>2 DEF Protocol!Write
    <3> QED
      BY <1>8, <3>4, <3>5
  <2>7. CASE op = "e0"
    <3>1. Due = 2 * size - 1 /\ Due' = (2 * size - 1) - 1
      <4>1. CyclesDone = 1 /\ CyclesDone' = 0 /\ size' = size - 1
        BY <1>1, <1>3, <1>4, <1>7, <2>7 DEF Effects
      <4> QED
        BY <1>1, <1>5, <1>6, <4>1 DEF View
    <3>2. Protocol!Cycle /\ Kind = id /\ ~Protocol!First
      <4>1. 2 * size - 1 \in Nat /\ 2 * size - 1 > 0 /\ (2 * size - 1) % 2 # 0
        <5>1. 2 * size - 1 > 0 /\ (2 * size - 1) % 2 = 1
          BY <1>1, Even
        <5> QED
          BY <1>1, <5>1
      <4> QED
        BY <1>1, <3>1, <4>1, CycleSeen
    <3>3. Edge(FALSE) /\ e = 1
      BY <1>7, <2>7 DEF Visible
    <3>4. CASE id = SdrWr /\ ddr = 0
      <4>1. written' = Append(written, <<address, port>>) /\ address' = address
        BY <1>1, <2>2, <3>3, <3>4 DEF Edge
      <4> QED
        BY <2>4, <2>5, <3>2, <3>4, <4>1 DEF Protocol!Write
    <3>5. CASE id = DdrWr /\ ddr = 1
      <4>1. written' = Append(written, <<port>>) /\ address' = address
        BY <1>1, <2>2, <3>3, <3>5 DEF Edge
      <4>2. DdrWr # SdrWr
        BY CodeAssumption
      <4> QED
        BY <2>4, <2>5, <3>2, <3>5, <4>1, <4>2 DEF Protocol!Write
    <3> QED
      BY <1>8, <3>4, <3>5
  <2> QED
    BY <1>7, <1>10, <2>6, <2>7
<1> QED
  BY <1>9, <1>10

LEMMA SdrReadUnitMaps ==
  ASSUME IInv, IInv', NEW k \in Nat, k = Len(todo), NEW op, Doing(op), Effects(op, k),
         Visible(op), InSdrReadUnit(op, k)
  PROVE  Protocol!SetAddress \/ Protocol!Read \/ UNCHANGED Protocol!pvars
<1>1. /\ pc = "loop" /\ appState = "SDR_RD" /\ Rest(SdrReadUnit) /\ todo \in Seq(Ops)
      /\ size \in Nat /\ size > 0 /\ on /\ todo # <<>> /\ op = Head(todo)
      /\ Waiting \in Seq(Data) /\ Waiting' \in Seq(Data)
      /\ pc' = "loop" /\ id' = id /\ ep' = ep /\ appState' = "SDR_RD"
      /\ id = SdrRd /\ ddr = 0
  BY OpFacts, Bytes, WaitingNext
     DEF InSdrReadUnit, IInv, TypeOK, Doing, Effects, WaitingOK, PacketOK
<1>2. /\ Rest(SdrReadUnit)' /\ todo' \in Seq(Ops) /\ k - 1 = Len(todo') /\ k - 1 \in Nat
  BY <1>1, OpFacts, Sequences, RestGoesOn
<1>3. /\ k \in {0, 5, 6, 7, 8} => CyclesDone = 0
      /\ k \in {1, 2, 3, 4} => CyclesDone = 1
      /\ k # 5 => ~OnPort
      /\ k = 5 => OnPort
  BY <1>1, SdrReadUnitMap DEF SdrReadUnitView
<1>4. /\ k - 1 \in {0, 5, 6, 7, 8} => CyclesDone' = 0
      /\ k - 1 \in {1, 2, 3, 4} => CyclesDone' = 1
      /\ k - 1 # 5 => ~OnPort'
      /\ k - 1 = 5 => OnPort'
  <2>1. SdrReadUnitView'
    BY SdrReadUnitMap, PTL
  <2> QED
    BY <1>1, <1>2, <2>1 DEF SdrReadUnitView
<1>5. View((IF OnPort THEN <<port>> ELSE <<>>) \o Waiting, 2 * size - CyclesDone,
           address, answers)
  BY <1>1, Mapped DEF MapView
<1>6. View((IF OnPort THEN <<port>> ELSE <<>>) \o Waiting, 2 * size - CyclesDone,
           address, answers)'
  BY <1>1, MappedNext DEF MapView
<1>7. \/ op \in {"rw0", "drive"} /\ k \in {7, 8}
      \/ op = "data" /\ k = 6
      \/ op = "e1" /\ k = 5 /\ e = 0 /\ rw = 0 /\ dir = "out" /\ port \in Data
      \/ op \in {"input", "rw1"} /\ k \in {3, 4}
      \/ op = "e0" /\ k = 2 /\ rw = 1
      \/ op = "read" /\ k = 1 /\ rw = 1 /\ dir = "in"
  BY DEF InSdrReadUnit
<1>8. op # "data" => Waiting' = Waiting
  BY <1>1 DEF Effects, Waiting, Contents
<1>9. Latched = address /\ Latched' = address' /\ Answered = answers /\ Answered' = answers'
  BY <1>1, <1>5, <1>6 DEF View
<1>10. CASE op \in {"rw0", "drive", "input", "rw1", "e0"}
  <2>1. ~OnPort /\ ~OnPort' /\ CyclesDone' = CyclesDone /\ size' = size
    <3>1. k \in {7, 8} \/ k \in {3, 4} \/ k = 2
      BY <1>7, <1>10
    <3>2. ASSUME NEW i \in Nat, i \in {7, 8} \/ i \in {3, 4} \/ i = 2
          PROVE  /\ i # 1 /\ i # 5 /\ i - 1 # 5
                 /\ \/ i \in {0, 5, 6, 7, 8} /\ i - 1 \in {0, 5, 6, 7, 8}
                    \/ i \in {1, 2, 3, 4} /\ i - 1 \in {1, 2, 3, 4}
      BY <3>2
    <3>3. /\ k # 1 /\ k # 5 /\ k - 1 # 5
          /\ \/ k \in {0, 5, 6, 7, 8} /\ k - 1 \in {0, 5, 6, 7, 8}
             \/ k \in {1, 2, 3, 4} /\ k - 1 \in {1, 2, 3, 4}
      BY <3>1, <3>2
    <3>4. size' = size
      BY <3>3 DEF Effects
    <3> QED
      BY <1>3, <1>4, <3>3, <3>4
  <2>2. address' = address /\ written' = written /\ answers' = answers
    BY <1>7, <1>10 DEF Effects, Visible, Edge
  <2>3. Queue' = Queue /\ Due' = Due
    BY <1>5, <1>6, <1>8, <1>10, <2>1 DEF View
  <2> QED
    BY <1>1, <1>9, <2>2, <2>3, Unseen
<1>11. CASE op = "data"
  <2>1. CyclesDone = 0 /\ CyclesDone' = 0 /\ ~OnPort /\ OnPort'
    BY <1>3, <1>4, <1>7, <1>11
  <2>2. /\ port' = Peek(inBuffer) /\ inBuffer' = Remove(inBuffer) /\ inBuffer.count > 0
        /\ size' = size /\ address' = address /\ written' = written /\ answers' = answers
    BY <1>1, <1>11, DataThere DEF Effects, Visible
  <2>3. <<port'>> \o Waiting' = Waiting
    BY <1>1, <2>2, ByteLeaves
  <2>4. Queue' = Queue
    BY <1>5, <1>6, <2>1, <2>3, NothingBefore DEF View
  <2>5. Due' = Due
    BY <1>5, <1>6, <2>1, <2>2 DEF View
  <2> QED
    BY <1>1, <1>9, <2>2, <2>4, <2>5, Unseen
<1>12. CASE op = "e1"
  <2>1. Queue = <<port>> \o Waiting /\ Queue' = Waiting
    <3>1. OnPort /\ ~OnPort'
      BY <1>3, <1>4, <1>7, <1>12
    <3> QED
      BY <1>5, <1>6, <1>8, <1>12, <3>1, NothingBefore DEF View
  <2>2. Queue # <<>> /\ Head(Queue) = port /\ Tail(Queue) = Queue'
    BY <1>1, <1>7, <1>12, <2>1, PortFirst
  <2>3. Due = 2 * size /\ Due' = 2 * size - 1
    <3>1. CyclesDone = 0 /\ CyclesDone' = 1 /\ size' = size
      BY <1>3, <1>4, <1>7, <1>12 DEF Effects
    <3> QED
      BY <1>1, <1>5, <1>6, <3>1 DEF View
  <2>4. Protocol!Cycle /\ Kind = id /\ Protocol!First
    <3>1. 2 * size \in Nat /\ 2 * size > 0 /\ (2 * size) % 2 = 0
      BY <1>1, Even
    <3> QED
      BY <1>1, <2>3, <3>1, CycleSeen
  <2>5. address' = port /\ written' = written /\ answers' = answers
    <3>1. Edge(TRUE) /\ e = 0 /\ rw = 0 /\ Bus = port
      BY <1>7, <1>12 DEF Visible, Bus
    <3> QED
      BY <1>1, <1>12, <3>1 DEF Edge, Visible
  <2> QED
    BY <1>1, <1>9, <2>2, <2>4, <2>5 DEF Protocol!SetAddress
<1>13. CASE op = "read"
  <2>1. ~OnPort /\ ~OnPort' /\ CyclesDone = 1 /\ CyclesDone' = 0 /\ size' = size - 1
    <3>1. k = 1
      BY <1>7, <1>13
    <3>2. ASSUME NEW i \in Nat, i = 1
          PROVE  /\ i \in {1, 2, 3, 4} /\ i # 5
                 /\ i - 1 \in {0, 5, 6, 7, 8} /\ i - 1 # 5
      BY <3>2
    <3>3. k \in {1, 2, 3, 4} /\ k # 5 /\ k - 1 \in {0, 5, 6, 7, 8} /\ k - 1 # 5
      BY <3>1, <3>2
    <3>4. size' = size - 1
      BY <1>1, <1>13, <3>1 DEF Effects
    <3> QED
      BY <1>3, <1>4, <3>3, <3>4
  <2>2. Due = 2 * size - 1 /\ Due' = (2 * size - 1) - 1 /\ Queue' = Queue
    BY <1>1, <1>5, <1>6, <1>8, <1>13, <2>1 DEF View
  <2>3. Protocol!Cycle /\ Kind = id /\ ~Protocol!First
    <3>1. 2 * size - 1 \in Nat /\ 2 * size - 1 > 0 /\ (2 * size - 1) % 2 # 0
      <4>1. 2 * size - 1 > 0 /\ (2 * size - 1) % 2 = 1
        BY <1>1, Even
      <4> QED
        BY <1>1, <4>1
    <3> QED
      BY <1>1, <2>2, <3>1, CycleSeen
  <2>4. /\ answers' = Append(answers, <<"register", address>>)
        /\ address' = address /\ written' = written
    BY <1>1, <1>7, <1>13 DEF Visible, Value, Effects
  <2> QED
    BY <1>1, <1>9, <2>2, <2>3, <2>4 DEF Protocol!Read
<1> QED
  BY <1>7, <1>10, <1>11, <1>12, <1>13

LEMMA DdrReadUnitMaps ==
  ASSUME IInv, IInv', NEW k \in Nat, k = Len(todo), NEW op, Doing(op), Effects(op, k),
         Visible(op), InDdrReadUnit(op, k)
  PROVE  Protocol!Read \/ UNCHANGED Protocol!pvars
<1>1. /\ pc = "loop" /\ appState = "DDR_RD" /\ Rest(DdrReadUnit) /\ todo \in Seq(Ops)
      /\ size \in Nat /\ size > 0 /\ on /\ rw = 1 /\ dir = "in"
      /\ pc' = "loop" /\ id' = id /\ ep' = ep /\ appState' = "DDR_RD" /\ id = DdrRd
      /\ op \in {"read", "e1", "e0"}
  BY OpFacts DEF InDdrReadUnit, IInv, TypeOK, Doing, Effects, PacketOK
<1>2. /\ Rest(DdrReadUnit)' /\ todo' \in Seq(Ops) /\ k - 1 = Len(todo') /\ k - 1 \in Nat
  BY <1>1, OpFacts, Sequences, RestGoesOn
<1>3. /\ k \in {0, 4} => CyclesDone = 0
      /\ k \in {2, 3} => CyclesDone = 1
      /\ k = 1 => CyclesDone = 2
      /\ ~OnPort
  BY <1>1, DdrReadUnitMap DEF DdrReadUnitView
<1>4. /\ k - 1 \in {0, 4} => CyclesDone' = 0
      /\ k - 1 \in {2, 3} => CyclesDone' = 1
      /\ k - 1 = 1 => CyclesDone' = 2
      /\ ~OnPort'
  <2>1. DdrReadUnitView'
    BY DdrReadUnitMap, PTL
  <2> QED
    BY <1>1, <1>2, <2>1 DEF DdrReadUnitView
<1>5. View(<<>> \o Waiting, 2 * size - CyclesDone, address, answers)
  BY <1>1, <1>3, Mapped DEF MapView
<1>6. View(<<>> \o Waiting, 2 * size - CyclesDone, address, answers)'
  BY <1>1, <1>4, MappedNext DEF MapView
<1>7. \/ op = "read" /\ k = 4
      \/ op = "e1" /\ k = 3
      \/ op = "read" /\ k = 2
      \/ op = "e0" /\ k = 1
  BY DEF InDdrReadUnit
<1>8. Waiting' = Waiting /\ Queue' = Queue
  <2>1. Waiting' = Waiting
    BY <1>1 DEF Effects, Waiting, Contents
  <2> QED
    BY <1>5, <1>6, <2>1 DEF View
<1>9. Latched = address /\ Latched' = address' /\ Answered = answers /\ Answered' = answers'
  BY <1>5, <1>6 DEF View
<1>10. CASE op \in {"e0", "e1"}
  <2>1. address' = address /\ written' = written /\ answers' = answers
    BY <1>1, <1>10 DEF Visible, Edge
  <2>2. Due' = Due
    <3>1. CASE k = 3
      <4>1. CyclesDone = 1 /\ CyclesDone' = 1 /\ size' = size
        BY <1>3, <1>4, <3>1 DEF Effects
      <4> QED
        BY <1>5, <1>6, <4>1 DEF View
    <3>2. CASE k = 1
      <4>1. CyclesDone = 2 /\ CyclesDone' = 0 /\ size' = size - 1
        BY <1>1, <1>3, <1>4, <1>7, <1>10, <3>2 DEF Effects
      <4> QED
        BY <1>1, <1>5, <1>6, <4>1 DEF View
    <3> QED
      BY <1>7, <1>10, <3>1, <3>2
  <2> QED
    BY <1>1, <1>8, <1>9, <2>1, <2>2, Unseen
<1>11. CASE op = "read"
  <2>1. \E d \in Nat : d > 0 /\ Due = d /\ Due' = d - 1
    <3>1. CASE k = 4
      <4>1. CyclesDone = 0 /\ CyclesDone' = 1 /\ size' = size
        BY <1>3, <1>4, <3>1 DEF Effects
      <4>2. Due = 2 * size /\ Due' = 2 * size - 1 /\ 2 * size \in Nat /\ 2 * size > 0
        BY <1>1, <1>5, <1>6, <4>1 DEF View
      <4> QED
        BY <4>2
    <3>2. CASE k = 2
      <4>1. CyclesDone = 1 /\ CyclesDone' = 2 /\ size' = size
        BY <1>3, <1>4, <3>2 DEF Effects
      <4>2. Due = 2 * size - 1 /\ Due' = (2 * size - 1) - 1 /\ 2 * size - 1 \in Nat
            /\ 2 * size - 1 > 0
        BY <1>1, <1>5, <1>6, <4>1 DEF View
      <4> QED
        BY <4>2
    <3> QED
      BY <1>7, <1>11, <3>1, <3>2
  <2>2. Protocol!Cycle /\ Kind = id
    BY <1>1, <2>1, CycleSeen
  <2>3. /\ answers' = Append(answers, <<"register", address>>)
        /\ address' = address /\ written' = written
    BY <1>1, <1>11 DEF Visible, Value, Effects
  <2> QED
    BY <1>1, <1>8, <1>9, <2>2, <2>3 DEF Protocol!Read
<1> QED
  BY <1>1, <1>10, <1>11

LEMMA PortOpMaps ==
  ASSUME IInv, IInv', QuietOK, Undisturbed', PortOp
  PROVE  Protocol!Next \/ UNCHANGED Protocol!pvars
<1>1. PICK k \in Nat : k = Len(todo)
  BY DEF IInv, TypeOK
<1>2. PICK op : Doing(op) /\ Effects(op, k)
  BY <1>1, OpEffects
<1>3. Visible(op) /\ todo # <<>> /\ op = Head(todo)
  BY <1>2, OpVisible DEF Doing
<1>4. \/ InBaseInit(op, k) \/ InEchoes(op, k) \/ InWriteSetup(op, k) \/ InWriteUnit(op, k)
      \/ InSdrReadUnit(op, k) \/ InDdrReadSetup(op, k) \/ InDdrReadUnit(op, k)
  BY <1>1, <1>3, Places
<1>5. CASE InBaseInit(op, k)
  BY <1>1, <1>2, <1>3, <1>5, BaseInitMaps
<1>6. CASE InEchoes(op, k)
  BY <1>1, <1>2, <1>3, <1>6, EchoesMap DEF Protocol!Next
<1>7. CASE InWriteSetup(op, k) \/ InDdrReadSetup(op, k)
  BY <1>1, <1>2, <1>3, <1>7, SetupMaps
<1>8. CASE InWriteUnit(op, k)
  BY <1>1, <1>2, <1>3, <1>8, WriteUnitMaps DEF Protocol!Next
<1>9. CASE InSdrReadUnit(op, k)
  BY <1>1, <1>2, <1>3, <1>9, SdrReadUnitMaps DEF Protocol!Next
<1>10. CASE InDdrReadUnit(op, k)
  BY <1>1, <1>2, <1>3, <1>10, DdrReadUnitMaps DEF Protocol!Next
<1> QED
  BY <1>4, <1>5, <1>6, <1>7, <1>8, <1>9, <1>10

LEMMA StepMaps ==
  IInv /\ QuietOK /\ Undisturbed' /\ [Next]_vars => [Protocol!Next]_(Protocol!pvars)
<1> SUFFICES ASSUME IInv, QuietOK, Undisturbed', [Next]_vars
    PROVE  Protocol!Next \/ UNCHANGED Protocol!pvars
  OBVIOUS
<1>1. IInv'
  BY StepKeeps
<1>2. CASE Enter
  BY <1>1, <1>2, EnterMaps DEF Protocol!Next
<1>3. CASE Receive
  BY <1>1, <1>3, ReceiveMaps
<1>4. CASE InsertByte
  BY <1>1, <1>4, InsertByteMaps
<1>5. CASE PacketId
  BY <1>1, <1>5, PacketIdMaps
<1>6. CASE PacketSize
  BY <1>1, <1>6, PacketSizeMaps
<1>7. CASE Dispatch
  BY <1>1, <1>7, DispatchMaps
<1>8. CASE Return
  BY <1>1, <1>8, ReturnMaps
<1>9. CASE StartTransfer
  BY <1>1, <1>9, StartTransferMaps
<1>10. CASE NextUnit
  BY <1>1, <1>10, NextUnitMaps
<1>11. CASE PortOp
  BY <1>1, <1>11, PortOpMaps
<1>12. CASE CommandLine
  BY <1>1, <1>12, CommandLineMaps
<1>13. CASE HostRequest \/ UNCHANGED vars
  <2>1. /\ UNCHANGED <<mode, pc, todo, inBuffer, id, size, appState, port, address, answers>>
        /\ ep' = ep /\ written' = written
    BY <1>13 DEF HostRequest, cpuVars, pinVars, fpgaVars, usbVars, vars
  <2> QED
    BY <2>1, SameView, Unseen
<1>14. CASE HostSend
  BY <1>1, <1>14, HostSendMaps DEF Protocol!Next
<1>15. ~Suspend /\ ~Resume
  BY QuietStays DEF QuietOK, Resume
<1> QED
  BY <1>2, <1>3, <1>4, <1>5, <1>6, <1>7, <1>8, <1>9, <1>10, <1>11, <1>12, <1>13, <1>14, <1>15
     DEF Next, Loop, PortOp

LEMMA InitMaps == Init => Protocol!Init
<1> SUFFICES ASSUME Init PROVE Protocol!Init
  OBVIOUS
<1>1. mode = "main" /\ address = 0 /\ answers = <<>> /\ written = <<>>
  BY DEF Init
<1>2. View(<<>>, 0, address, answers)
  BY <1>1, InitHolds, Mapped DEF MapView
<1>3. Undisturbed = TRUE
  BY QuietInit DEF QuietOK
<1> QED
  BY <1>1, <1>2, <1>3 DEF View, Kind, Protocol!Init

(* Until the first bus event, what waits is there, and an echo is the last *)
(* answer, until the next.                                                 *)
THEOREM QuietInvariance == Spec => [](Spent /\ (Undisturbed => QuietOK))
<1>1. Init => Spent /\ (Undisturbed => QuietOK)
  BY QuietInit
<1>2. IInv /\ (Spent /\ (Undisturbed => QuietOK)) /\ [Next]_vars
        => (Spent /\ (Undisturbed => QuietOK))'
  BY SpentKeeps, QuietBefore, QuietKeeps
<1> QED
  BY <1>1, <1>2, LoopInvariance, PTL DEF Spec

(* A host sees the packet protocol and nothing else, up to the first bus   *)
(* event: every byte is used once and in order, by the packet it belongs   *)
(* to, each word takes the cycles it should, and all answers come back in  *)
(* order.                                                                  *)
THEOREM LoopImplementsProtocol == Spec => ImplementsProtocol
<1>1. IInv /\ (Spent /\ (Undisturbed => QuietOK)) /\ [Next]_vars
        => [Undisturbed' => Undisturbed /\ [Protocol!Next]_(Protocol!pvars)]_<<Protocol!pvars, Undisturbed>>
  BY QuietBefore, StepMaps
<1> QED
  BY <1>1, InitMaps, QuietInvariance, LoopInvariance, PTL DEF Spec, ImplementsProtocol, Protocol!Spec
=============================================================================
