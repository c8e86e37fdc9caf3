---------------------------- MODULE VecSepProofs ----------------------------
(***************************************************************************)
(* Proof that a VecSep prints what its source would have printed, for      *)
(* lists of any length.                                                    *)
(***************************************************************************)
EXTENDS VecSep, SequenceTheorems, TLAPS

\* The vectors hold, in order, what From has taken; From is done before
\* print_to starts.
Aligned ==
  /\ Len(seps) <= Len(rest)
  /\ items[1] = head
  /\ \A j \in 1..Len(seps) : /\ seps[j] = rest[j].sep
                             /\ items[j + 1] = rest[j].item

Typed ==
  /\ head \in Item
  /\ rest \in Seq(SepItem)
  /\ items \in Seq(Item)
  /\ seps \in Seq(Sep)
  /\ phase \in {"from", "print"}
  /\ zipped \in Nat
  /\ printed \in Seq(Item \cup Sep)

Whole ==
  /\ zipped <= Len(seps)
  /\ phase = "print" => Len(seps) = Len(rest)
  /\ phase = "from" => zipped = 0

Inv == Typed /\ Aligned /\ Whole /\ OneMoreItem /\ PrintsInOrder

LEMMA InvInit == Init => Inv
  BY DEF Init, Inv, Typed, Aligned, Whole, OneMoreItem, PrintsInOrder, SepItem

LEMMA InvTake == ASSUME Inv, Take PROVE Inv'
<1>1. /\ rest[Len(seps) + 1] \in SepItem
      /\ Len(items) = Len(seps) + 1
  BY DEF Inv, Typed, OneMoreItem, Take
<1>2. Typed'
  BY <1>1 DEF Inv, Typed, Take, SepItem
<1>3. Aligned'
  BY <1>1 DEF Inv, Typed, Aligned, Take, SepItem
<1>4. (Whole /\ OneMoreItem /\ PrintsInOrder)'
  BY <1>1 DEF Inv, Typed, Whole, OneMoreItem, PrintsInOrder, Take, SepItem
<1> QED
  BY <1>2, <1>3, <1>4 DEF Inv

LEMMA InvPrintFirst == ASSUME Inv, PrintFirst PROVE Inv'
<1>1. items[1] \in Item /\ Len(items) >= 1
  BY DEF Inv, Typed, OneMoreItem
<1>2. printed' = <<head>> /\ zipped' = 0 /\ head' = head
  <2>1. items # <<>>
    BY <1>1
  <2> QED
    BY <1>1, <2>1 DEF Inv, Aligned, Whole, PrintFirst
<1>3. (Typed /\ Aligned /\ Whole /\ OneMoreItem)'
  <2>1. <<head>> \in Seq(Item \cup Sep)
    BY DEF Inv, Typed
  <2> QED
    BY <1>2, <2>1 DEF Inv, Typed, Aligned, Whole, OneMoreItem, PrintFirst
<1>4. PrintsInOrder'
  BY <1>2 DEF PrintsInOrder
<1> QED
  BY <1>3, <1>4 DEF Inv

LEMMA InvPrintPair == ASSUME Inv, PrintPair PROVE Inv'
<1> DEFINE k == zipped + 1
           pair == <<seps[k], items[k + 1]>>
<1>1. /\ k \in 1..Len(seps)
      /\ seps[k] \in Sep /\ items[k + 1] \in Item
      /\ seps[k] = rest[k].sep /\ items[k + 1] = rest[k].item
  BY DEF Inv, Typed, Aligned, OneMoreItem, PrintPair, InZip
<1> HIDE DEF k
<1>2. /\ printed' \in Seq(Item \cup Sep)
      /\ Len(printed') = Len(printed) + 2
      /\ \A j \in 1..Len(printed) : printed'[j] = printed[j]
      /\ printed'[Len(printed) + 1] = seps[k]
      /\ printed'[Len(printed) + 2] = items[k + 1]
  <2>1. printed' = printed \o pair
    BY DEF PrintPair, k
  <2>2. /\ printed \in Seq(Item \cup Sep)
        /\ pair \in Seq(Item \cup Sep)
        /\ Len(pair) = 2 /\ pair[1] = seps[k] /\ pair[2] = items[k + 1]
    BY <1>1 DEF Inv, Typed
  <2> HIDE DEF pair
  <2>3. /\ printed \o pair \in Seq(Item \cup Sep)
        /\ Len(printed \o pair) = Len(printed) + Len(pair)
        /\ \A j \in 1 .. Len(printed) + Len(pair) :
             (printed \o pair)[j] =
               IF j <= Len(printed) THEN printed[j] ELSE pair[j - Len(printed)]
    BY <2>2, ConcatProperties, Zenon
  <2>4. Len(printed) \in Nat
    BY <2>2
  <2> QED
    BY <2>1, <2>2, <2>3, <2>4
<1>3. (Typed /\ Aligned /\ Whole /\ OneMoreItem)'
  BY <1>1, <1>2 DEF Inv, Typed, Aligned, Whole, OneMoreItem, PrintPair, k
<1>4. PrintsInOrder'
  <2>1. /\ zipped \in Nat /\ zipped' = k /\ k = zipped + 1
        /\ phase = "print"
        /\ UNCHANGED <<head, rest>>
    BY DEF Inv, Typed, PrintPair, k
  <2>2. /\ Len(printed) = 2 * zipped + 1
        /\ printed[1] = head
        /\ \A j \in 1..zipped : /\ printed[2 * j] = rest[j].sep
                                /\ printed[2 * j + 1] = rest[j].item
    BY <2>1 DEF Inv, PrintsInOrder
  <2>3. Len(printed') = 2 * k + 1 /\ printed'[1] = head
    BY <1>2, <2>1, <2>2
  <2>4. ASSUME NEW j \in 1..k
        PROVE  printed'[2 * j] = rest[j].sep /\ printed'[2 * j + 1] = rest[j].item
    <3>1. CASE j = k
      BY <1>1, <1>2, <2>1, <2>2, <3>1
    <3>2. CASE j # k
      BY <1>2, <2>1, <2>2, <3>2
    <3> QED
      BY <3>1, <3>2
  <2> QED
    BY <2>1, <2>3, <2>4 DEF PrintsInOrder
<1> QED
  BY <1>3, <1>4 DEF Inv

LEMMA InvHolds == Spec => []Inv
<1>1. Inv /\ [Next]_vars => Inv'
  <2>1. Inv /\ UNCHANGED vars => Inv'
    BY DEF Inv, Typed, Aligned, Whole, OneMoreItem, PrintsInOrder, vars
  <2> QED
    BY <2>1, InvTake, InvPrintFirst, InvPrintPair DEF Next
<1> QED
  BY <1>1, InvInit, PTL DEF Spec

\* There is one separator fewer than items, from From's first push on.
THEOREM OneSeparatorFewer == Spec => []OneMoreItem
<1>1. Inv => OneMoreItem
  BY DEF Inv
<1> QED
  BY <1>1, InvHolds, PTL

\* A VecSep prints its source: every piece, in its order, and to the end.
THEOREM PrintsItsSource == Spec => []PrintsSource
<1>1. Inv => PrintsSource
  BY DEF Inv, Typed, Whole, OneMoreItem, PrintsSource, PrintsAll, InZip
<1> QED
  BY <1>1, InvHolds, PTL
=============================================================================
