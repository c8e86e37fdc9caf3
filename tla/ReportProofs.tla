----------------------------- MODULE ReportProofs -----------------------------
(***************************************************************************)
(* Proof that a failed call reports the same error whichever entry point   *)
(* it came through: a scan, which builds nothing, records the failures a   *)
(* parse records, in the same order and inside of the same rules.          *)
(***************************************************************************)
EXTENDS Reports, MeaningProofs

-----------------------------------------------------------------------------
(***************************************************************************)
(* Histories can be joined, and contexts nested, in any grouping.          *)
(***************************************************************************)

LEMMA HistoryFacts ==
  ASSUME NEW h \in HistorySet
  PROVE  /\ h.pos \in Nat
         /\ h.traces \in Seq(Trace)
         /\ Len(h.traces) \in Nat
         /\ h = [pos |-> h.pos, traces |-> h.traces]
         /\ \A t \in 1..Len(h.traces) :
              /\ h.traces[t].context \in Context
              /\ h.traces[t].expectation \in Expectation
<1>1. h.pos \in Nat /\ h.traces \in Seq(Trace) /\ h = [pos |-> h.pos, traces |-> h.traces]
  BY DEF HistorySet
<1>2. Len(h.traces) \in Nat
  BY <1>1, LenProperties
<1>3. \A t \in 1..Len(h.traces) : h.traces[t] \in Trace
  BY <1>1, ElementOfSeq
<1> QED
  BY <1>1, <1>2, <1>3 DEF Trace

LEMMA HistoryMade ==
  ASSUME NEW pos \in Nat, NEW traces \in Seq(Trace)
  PROVE  [pos |-> pos, traces |-> traces] \in HistorySet
BY DEF HistorySet

LEMMA EmptyHistoryType == EmptyHistory \in HistorySet
BY EmptySeq, HistoryMade DEF EmptyHistory

LEMMA JoinedType ==
  ASSUME NEW g \in HistorySet, NEW h \in HistorySet
  PROVE  Joined(g, h) \in HistorySet
<1>1. /\ g.pos \in Nat /\ g.traces \in Seq(Trace)
      /\ h.pos \in Nat /\ h.traces \in Seq(Trace)
  BY HistoryFacts
<1>2. g.traces \o h.traces \in Seq(Trace)
  BY <1>1, ConcatProperties
<1>3. [pos |-> g.pos, traces |-> g.traces \o h.traces] \in HistorySet
  BY <1>1, <1>2, HistoryMade
<1>4. g.pos = h.pos \/ g.pos < h.pos \/ g.pos > h.pos
  BY <1>1
<1> QED
  BY <1>1, <1>3, <1>4 DEF Joined

\* Nothing recorded adds nothing.
LEMMA JoinedNeutral ==
  ASSUME NEW h \in HistorySet
  PROVE  Joined(EmptyHistory, h) = h /\ Joined(h, EmptyHistory) = h
<1>1. /\ h.pos \in Nat /\ h.traces \in Seq(Trace)
      /\ h = [pos |-> h.pos, traces |-> h.traces]
  BY HistoryFacts
<1>2. EmptyHistory.pos = 0 /\ EmptyHistory.traces = <<>>
  BY DEF EmptyHistory
<1>3. <<>> \o h.traces = h.traces /\ h.traces \o <<>> = h.traces
  BY <1>1, ConcatEmptySeq
<1>4. CASE h.pos = 0
  BY <1>1, <1>2, <1>3, <1>4 DEF Joined
<1>5. CASE h.pos > 0
  BY <1>1, <1>2, <1>5 DEF Joined
<1> QED
  BY <1>1, <1>4, <1>5

LEMMA JoinedCases ==
  ASSUME NEW g \in HistorySet, NEW h \in HistorySet
  PROVE  /\ g.pos = h.pos =>
              Joined(g, h) = [pos |-> g.pos, traces |-> g.traces \o h.traces]
         /\ g.pos < h.pos => Joined(g, h) = h
         /\ g.pos > h.pos => Joined(g, h) = g
<1>1. g.pos \in Nat /\ h.pos \in Nat
  BY HistoryFacts
<1>2. ASSUME g.pos = h.pos
      PROVE  Joined(g, h) = [pos |-> g.pos, traces |-> g.traces \o h.traces]
  <2>1. ~(g.pos < h.pos) /\ ~(g.pos > h.pos)
    BY <1>1, <1>2
  <2> QED
    BY <2>1 DEF Joined
<1>3. ASSUME g.pos < h.pos
      PROVE  Joined(g, h) = h
  BY <1>3 DEF Joined
<1>4. ASSUME g.pos > h.pos
      PROVE  Joined(g, h) = g
  <2>1. ~(g.pos < h.pos)
    BY <1>1, <1>4
  <2> QED
    BY <1>4, <2>1 DEF Joined
<1> QED
  BY <1>2, <1>3, <1>4

LEMMA JoinedAssociative ==
  ASSUME NEW g \in HistorySet, NEW h \in HistorySet, NEW k \in HistorySet
  PROVE  Joined(Joined(g, h), k) = Joined(g, Joined(h, k))
<1> DEFINE gh == Joined(g, h)
           hk == Joined(h, k)
<1>1. g.pos \in Nat /\ h.pos \in Nat /\ k.pos \in Nat
  BY HistoryFacts
<1>2. gh \in HistorySet /\ hk \in HistorySet
  BY JoinedType
<1>3. /\ g.pos = h.pos => gh = [pos |-> g.pos, traces |-> g.traces \o h.traces]
      /\ g.pos < h.pos => gh = h
      /\ g.pos > h.pos => gh = g
      /\ h.pos = k.pos => hk = [pos |-> h.pos, traces |-> h.traces \o k.traces]
      /\ h.pos < k.pos => hk = k
      /\ h.pos > k.pos => hk = h
  BY JoinedCases
<1> HIDE DEF gh, hk
<1>4. /\ gh.pos = k.pos => Joined(gh, k) = [pos |-> gh.pos, traces |-> gh.traces \o k.traces]
      /\ gh.pos < k.pos => Joined(gh, k) = k
      /\ gh.pos > k.pos => Joined(gh, k) = gh
      /\ g.pos = hk.pos => Joined(g, hk) = [pos |-> g.pos, traces |-> g.traces \o hk.traces]
      /\ g.pos < hk.pos => Joined(g, hk) = hk
      /\ g.pos > hk.pos => Joined(g, hk) = g
  BY <1>2, JoinedCases
<1>5. CASE g.pos = h.pos /\ h.pos = k.pos
  <2> DEFINE gt == g.traces
             ht == h.traces
             kt == k.traces
  <2>1. gt \in Seq(Trace) /\ ht \in Seq(Trace) /\ kt \in Seq(Trace)
    BY HistoryFacts
  <2>5. /\ gh = [pos |-> g.pos, traces |-> gt \o ht]
        /\ hk = [pos |-> h.pos, traces |-> ht \o kt]
    BY <1>3, <1>5
  <2> HIDE DEF gt, ht, kt
  <2>2. (gt \o ht) \o kt = gt \o (ht \o kt)
    BY <2>1, ConcatAssociative
  <2>3. gh.pos = g.pos /\ gh.traces = gt \o ht /\ hk.pos = h.pos /\ hk.traces = ht \o kt
    BY <2>5
  <2> QED
    BY <1>4, <1>5, <2>2, <2>3 DEF gh, hk, gt, ht, kt
<1>6. CASE g.pos = h.pos /\ h.pos # k.pos
  <2>1. gh.pos = g.pos
    BY <1>3, <1>6
  <2> QED
    BY <1>1, <1>3, <1>4, <1>6, <2>1 DEF gh, hk
<1>7. CASE g.pos < h.pos
  <2>1. gh = h
    BY <1>1, <1>3, <1>7
  <2>2. g.pos < hk.pos
    <3>1. CASE h.pos = k.pos
      BY <1>3, <1>7, <3>1
    <3>2. CASE h.pos < k.pos
      BY <1>1, <1>3, <1>7, <3>2
    <3>3. CASE h.pos > k.pos
      BY <1>3, <1>7, <3>3
    <3> QED
      BY <1>1, <3>1, <3>2, <3>3
  <2>3. Joined(g, hk) = hk
    BY <1>4, <2>2
  <2> QED
    BY <2>1, <2>3 DEF gh, hk
<1>8. CASE g.pos > h.pos
  <2>1. gh = g
    BY <1>3, <1>8
  <2>2. CASE h.pos = k.pos
    BY <1>1, <1>3, <1>4, <1>8, <2>1, <2>2 DEF gh, hk
  <2>3. CASE h.pos > k.pos
    BY <1>1, <1>3, <1>4, <1>8, <2>1, <2>3 DEF gh, hk
  <2>4. CASE h.pos < k.pos
    BY <1>3, <2>1, <2>4 DEF gh, hk
  <2> QED
    BY <1>1, <2>2, <2>3, <2>4
<1> QED
  BY <1>1, <1>5, <1>6, <1>7, <1>8

\* Nesting needs no grouping either, whichever trace feature is on.
LEMMA NestFacts ==
  ASSUME NEW a \in Context, NEW b \in Context, NEW c \in Context
  PROVE  /\ Nest(a, b) \in Context
         /\ Nest(a, Nest(b, c)) = Nest(Nest(a, b), c)
         /\ Nest(<<>>, a) = a
<1>1. /\ a \o b \in Context /\ b \o c \in Context
      /\ (a \o b) \o c = a \o (b \o c)
      /\ <<>> \o a = a
  BY ConcatProperties, ConcatAssociative, ConcatEmptySeq DEF Context
<1>2. CASE AllNodes
  BY <1>1, <1>2 DEF Nest
<1>3. CASE ~AllNodes
  BY <1>1, <1>3 DEF Nest
<1> QED
  BY <1>2, <1>3

LEMMA InContextTraces ==
  ASSUME NEW ctx \in Context, NEW h \in HistorySet
  PROVE  /\ InContext(ctx, h) \in HistorySet
         /\ InContext(ctx, h).pos = h.pos
         /\ Len(InContext(ctx, h).traces) = Len(h.traces)
         /\ \A t \in 1..Len(h.traces) :
              InContext(ctx, h).traces[t] =
                [context |-> Nest(h.traces[t].context, ctx),
                 expectation |-> h.traces[t].expectation]
<1> DEFINE inner(t) == [context |-> Nest(h.traces[t].context, ctx),
                        expectation |-> h.traces[t].expectation]
           traces == [t \in 1..Len(h.traces) |-> inner(t)]
<1>1. h.pos \in Nat /\ Len(h.traces) \in Nat
  BY HistoryFacts
<1>2. ASSUME NEW t \in 1..Len(h.traces)
      PROVE  inner(t) \in Trace
  <2>1. h.traces[t].context \in Context /\ h.traces[t].expectation \in Expectation
    BY HistoryFacts
  <2>2. Nest(h.traces[t].context, ctx) \in Context
    BY <2>1, NestFacts
  <2> QED
    BY <2>1, <2>2 DEF Trace
<1>3. InContext(ctx, h) = [pos |-> h.pos, traces |-> traces]
  BY DEF InContext
<1> HIDE DEF inner
<1>4. traces \in [1..Len(h.traces) -> Trace]
  BY <1>2
<1>5. traces \in Seq(Trace) /\ Len(traces) = Len(h.traces)
  BY <1>1, <1>4
<1>6. \A t \in 1..Len(h.traces) : traces[t] = inner(t)
  OBVIOUS
<1> HIDE DEF traces
<1>7. InContext(ctx, h) \in HistorySet
  BY <1>1, <1>3, <1>5, HistoryMade
<1>8. InContext(ctx, h).pos = h.pos /\ InContext(ctx, h).traces = traces
  BY <1>3
<1>9. \A t \in 1..Len(h.traces) :
        traces[t] = [context |-> Nest(h.traces[t].context, ctx),
                     expectation |-> h.traces[t].expectation]
  BY <1>6 DEF inner
<1> QED
  BY <1>5, <1>7, <1>8, <1>9

LEMMA SameHistory ==
  ASSUME NEW g \in HistorySet, NEW h \in HistorySet, g.pos = h.pos,
         Len(g.traces) = Len(h.traces),
         \A t \in 1..Len(g.traces) : g.traces[t] = h.traces[t]
  PROVE  g = h
<1> DEFINE gt == g.traces
           ht == h.traces
<1>1. gt \in Seq(Trace) /\ ht \in Seq(Trace)
  BY HistoryFacts
<1>2. Len(gt) = Len(ht) /\ \A t \in 1..Len(gt) : gt[t] = ht[t]
  OBVIOUS
<1>3. g = [pos |-> g.pos, traces |-> gt] /\ h = [pos |-> h.pos, traces |-> ht]
  BY HistoryFacts
<1> HIDE DEF gt, ht
<1>4. gt = ht
  BY <1>1, <1>2, SeqEqual
<1> QED
  BY <1>3, <1>4

\* A context goes around each part of a history.
LEMMA InContextJoined ==
  ASSUME NEW c \in Context, NEW g \in HistorySet, NEW h \in HistorySet
  PROVE  InContext(c, Joined(g, h)) = Joined(InContext(c, g), InContext(c, h))
<1> DEFINE cg == InContext(c, g)
           ch == InContext(c, h)
           gh == Joined(g, h)
           whole == InContext(c, gh)
           parts == Joined(cg, ch)
<1>1. /\ g.pos \in Nat /\ h.pos \in Nat
      /\ Len(g.traces) \in Nat /\ Len(h.traces) \in Nat
      /\ g.traces \in Seq(Trace) /\ h.traces \in Seq(Trace)
  BY HistoryFacts
<1>2. gh \in HistorySet /\ cg \in HistorySet /\ ch \in HistorySet
      /\ cg.pos = g.pos /\ ch.pos = h.pos
  BY JoinedType, InContextTraces
<1>3. CASE g.pos < h.pos
  <2>1. gh = h
    BY <1>3, JoinedCases
  <2>2. parts = ch
    <3> HIDE DEF cg, ch
    <3> QED
      BY <1>2, <1>3, JoinedCases
  <2> QED
    BY <2>1, <2>2
<1>4. CASE g.pos > h.pos
  <2>1. gh = g
    BY <1>4, JoinedCases
  <2>2. parts = cg
    <3> HIDE DEF cg, ch
    <3> QED
      BY <1>2, <1>4, JoinedCases
  <2> QED
    BY <2>1, <2>2
<1>5. CASE g.pos = h.pos
  <2>1. /\ gh = [pos |-> g.pos, traces |-> g.traces \o h.traces]
        /\ parts = [pos |-> cg.pos, traces |-> cg.traces \o ch.traces]
    BY <1>2, <1>5, JoinedCases
  <2>2. whole \in HistorySet /\ parts \in HistorySet
    BY <1>2, InContextTraces, JoinedType
  <2>3. /\ Len(whole.traces) = Len(gh.traces) /\ whole.pos = gh.pos
        /\ \A t \in 1..Len(gh.traces) :
             whole.traces[t] = [context |-> Nest(gh.traces[t].context, c),
                                expectation |-> gh.traces[t].expectation]
    BY <1>2, InContextTraces
  <2>4. /\ Len(cg.traces) = Len(g.traces)
        /\ \A t \in 1..Len(g.traces) :
             cg.traces[t] = [context |-> Nest(g.traces[t].context, c),
                             expectation |-> g.traces[t].expectation]
    BY InContextTraces
  <2>5. /\ Len(ch.traces) = Len(h.traces)
        /\ \A t \in 1..Len(h.traces) :
             ch.traces[t] = [context |-> Nest(h.traces[t].context, c),
                             expectation |-> h.traces[t].expectation]
    BY InContextTraces
  <2>6. cg.traces \in Seq(Trace) /\ ch.traces \in Seq(Trace)
    BY <1>2, HistoryFacts
  <2> DEFINE gt == g.traces
             ht == h.traces
             cgt == cg.traces
             cht == ch.traces
  <2>7. gh.pos = g.pos /\ gh.traces = gt \o ht
        /\ parts.pos = g.pos /\ parts.traces = cgt \o cht
    <3> HIDE DEF gh, parts, cg, ch
    <3> QED
      BY <1>2, <2>1
  <2>8. gt \in Seq(Trace) /\ ht \in Seq(Trace) /\ cgt \in Seq(Trace) /\ cht \in Seq(Trace)
        /\ Len(gt) \in Nat /\ Len(ht) \in Nat /\ Len(cgt) = Len(gt) /\ Len(cht) = Len(ht)
    BY <1>1, <2>4, <2>5, <2>6
  <2>9. /\ \A t \in 1..Len(gt) : cgt[t] = [context |-> Nest(gt[t].context, c),
                                           expectation |-> gt[t].expectation]
        /\ \A t \in 1..Len(ht) : cht[t] = [context |-> Nest(ht[t].context, c),
                                           expectation |-> ht[t].expectation]
    BY <2>4, <2>5
  <2> HIDE DEF gt, ht, cgt, cht, cg, ch, gh, whole, parts
  <2>10. /\ Len(gt \o ht) = Len(gt) + Len(ht)
         /\ \A t \in 1 .. Len(gt) + Len(ht) :
              (gt \o ht)[t] = IF t <= Len(gt) THEN gt[t] ELSE ht[t - Len(gt)]
    BY <2>8, ConcatProperties
  <2>11. /\ Len(cgt \o cht) = Len(cgt) + Len(cht)
         /\ \A t \in 1 .. Len(cgt) + Len(cht) :
              (cgt \o cht)[t] = IF t <= Len(cgt) THEN cgt[t] ELSE cht[t - Len(cgt)]
    BY <2>8, ConcatProperties
  <2>12. whole.pos = parts.pos /\ Len(whole.traces) = Len(parts.traces)
    BY <2>3, <2>7, <2>8, <2>10, <2>11
  <2>13. ASSUME NEW t \in 1..Len(whole.traces)
         PROVE  whole.traces[t] = parts.traces[t]
    <3>1. /\ t \in 1 .. Len(gt) + Len(ht) /\ t \in Nat
          /\ whole.traces[t] = [context |-> Nest((gt \o ht)[t].context, c),
                                expectation |-> (gt \o ht)[t].expectation]
          /\ parts.traces[t] = (cgt \o cht)[t]
      BY <2>3, <2>7, <2>10
    <3>2. CASE t <= Len(gt)
      <4>1. (gt \o ht)[t] = gt[t] /\ (cgt \o cht)[t] = cgt[t] /\ t \in 1..Len(gt)
        BY <2>8, <2>10, <2>11, <3>1, <3>2
      <4> QED
        BY <2>9, <3>1, <4>1
    <3>3. CASE ~(t <= Len(gt))
      <4>1. /\ (gt \o ht)[t] = ht[t - Len(gt)] /\ (cgt \o cht)[t] = cht[t - Len(gt)]
            /\ t - Len(gt) \in 1..Len(ht)
        BY <2>8, <2>10, <2>11, <3>1, <3>3
      <4> QED
        BY <2>9, <3>1, <4>1
    <3> QED
      BY <3>2, <3>3
  <2>14. whole = parts
    BY <2>2, <2>12, <2>13, SameHistory
  <2> QED
    BY <2>14 DEF whole, parts, cg, ch, gh
<1> QED
  BY <1>1, <1>3, <1>4, <1>5

LEMMA InContextNested ==
  ASSUME NEW c \in Context, NEW d \in Context, NEW h \in HistorySet
  PROVE  InContext(c, InContext(d, h)) = InContext(Nest(d, c), h)
<1> DEFINE inner == InContext(d, h)
           outer == InContext(c, inner)
           once  == InContext(Nest(d, c), h)
<1>1. Nest(d, c) \in Context
  BY NestFacts
<1>2. /\ inner \in HistorySet /\ inner.pos = h.pos /\ Len(inner.traces) = Len(h.traces)
      /\ \A t \in 1..Len(h.traces) :
           inner.traces[t] = [context |-> Nest(h.traces[t].context, d),
                              expectation |-> h.traces[t].expectation]
  BY InContextTraces
<1> HIDE DEF inner
<1>3. /\ outer \in HistorySet /\ outer.pos = inner.pos
      /\ Len(outer.traces) = Len(inner.traces)
      /\ \A t \in 1..Len(inner.traces) :
           outer.traces[t] = [context |-> Nest(inner.traces[t].context, c),
                              expectation |-> inner.traces[t].expectation]
  BY <1>2, InContextTraces
<1>4. /\ once \in HistorySet /\ once.pos = h.pos /\ Len(once.traces) = Len(h.traces)
      /\ \A t \in 1..Len(h.traces) :
           once.traces[t] = [context |-> Nest(h.traces[t].context, Nest(d, c)),
                             expectation |-> h.traces[t].expectation]
  BY <1>1, InContextTraces
<1> HIDE DEF outer, once
<1>5. ASSUME NEW t \in 1..Len(outer.traces)
      PROVE  outer.traces[t] = once.traces[t]
  <2>1. t \in 1..Len(h.traces) /\ t \in 1..Len(inner.traces)
    BY <1>2, <1>3
  <2>2. h.traces[t].context \in Context
    BY <2>1, HistoryFacts
  <2>3. Nest(h.traces[t].context, Nest(d, c)) = Nest(Nest(h.traces[t].context, d), c)
    <3>1. \A a \in Context : Nest(a, Nest(d, c)) = Nest(Nest(a, d), c)
      BY NestFacts
    <3> QED
      BY <2>2, <3>1
  <2>4. inner.traces[t] = [context |-> Nest(h.traces[t].context, d),
                           expectation |-> h.traces[t].expectation]
    BY <1>2, <2>1
  <2>5. inner.traces[t].context = Nest(h.traces[t].context, d)
        /\ inner.traces[t].expectation = h.traces[t].expectation
    BY <2>4
  <2> QED
    BY <1>3, <1>4, <2>1, <2>3, <2>5
<1>6. outer = once
  BY <1>2, <1>3, <1>4, <1>5, SameHistory
<1> QED
  BY <1>6 DEF outer, once, inner

LEMMA InContextEmpty ==
  ASSUME NEW c \in Context
  PROVE  InContext(c, EmptyHistory) = EmptyHistory
<1> DEFINE h == InContext(c, EmptyHistory)
<1>1. EmptyHistory.pos = 0 /\ EmptyHistory.traces = <<>> /\ Len(EmptyHistory.traces) = 0
  BY EmptySeq DEF EmptyHistory
<1>2. h \in HistorySet /\ h.pos = 0 /\ Len(h.traces) = 0
  BY <1>1, EmptyHistoryType, InContextTraces
<1> HIDE DEF h
<1>3. h = EmptyHistory
  BY <1>1, <1>2, EmptyHistoryType, SameHistory
<1> QED
  BY <1>3 DEF h

LEMMA SingleType ==
  ASSUME NEW pos \in Nat, NEW e \in Expectation
  PROVE  Single(pos, e) \in HistorySet
<1>1. <<>> \in Context
  BY EmptySeq DEF Context
<1>2. [context |-> <<>>, expectation |-> e] \in Trace
  BY <1>1 DEF Trace
<1>3. << [context |-> <<>>, expectation |-> e] >> \in Seq(Trace)
  BY <1>2
<1> QED
  BY <1>3, HistoryMade DEF Single

\* State::expect joins one failure, in its context, to what is recorded.
LEMMA RecordJoins ==
  ASSUME NEW h \in HistorySet, NEW ctx \in Context, NEW pos \in Nat,
         NEW e \in Expectation
  PROVE  Record(h, ctx, pos, e) = Joined(h, InContext(ctx, Single(pos, e)))
<1> DEFINE one == Single(pos, e)
           here == InContext(ctx, one)
           trace == [context |-> ctx, expectation |-> e]
           alone == [pos |-> pos, traces |-> <<trace>>]
<1>1. trace \in Trace
  BY DEF Trace
<1>2. <<trace>> \in Seq(Trace) /\ Len(<<trace>>) = 1 /\ <<trace>>[1] = trace
  <2> HIDE DEF trace
  <2> QED
    BY <1>1
<1>3. alone \in HistorySet /\ alone.pos = pos /\ alone.traces = <<trace>>
  <2> HIDE DEF trace
  <2> QED
    BY <1>2, HistoryMade
<1>4. /\ one \in HistorySet /\ one.pos = pos /\ Len(one.traces) = 1
      /\ one.traces[1] = [context |-> <<>>, expectation |-> e]
  BY SingleType DEF Single
<1>5. one.traces[1].context = <<>> /\ one.traces[1].expectation = e
  BY <1>4
<1> HIDE DEF one
<1>6. /\ here \in HistorySet /\ here.pos = pos /\ Len(here.traces) = 1
      /\ here.traces[1] = [context |-> Nest(<<>>, ctx), expectation |-> e]
  <2>1. 1 \in 1..Len(one.traces)
    BY <1>4
  <2>2. /\ here \in HistorySet /\ here.pos = one.pos /\ Len(here.traces) = Len(one.traces)
        /\ \A t \in 1..Len(one.traces) :
             here.traces[t] = [context |-> Nest(one.traces[t].context, ctx),
                               expectation |-> one.traces[t].expectation]
    BY <1>4, InContextTraces
  <2> HIDE DEF here
  <2> QED
    BY <1>4, <1>5, <2>1, <2>2
<1>7. Nest(<<>>, ctx) = ctx
  BY NestFacts
<1>8. here = alone
  <2> HIDE DEF here, alone
  <2>1. \A t \in 1..1 : here.traces[t] = alone.traces[t]
    BY <1>2, <1>3, <1>6, <1>7
  <2>2. Len(alone.traces) = 1
    BY <1>2, <1>3
  <2> QED
    BY <1>3, <1>6, <2>1, <2>2, SameHistory
<1>9. h.pos \in Nat /\ h.traces \in Seq(Trace) /\ h = [pos |-> h.pos, traces |-> h.traces]
  BY HistoryFacts
<1> HIDE DEF here
<1>10. Append(h.traces, trace) = h.traces \o <<trace>>
  <2> DEFINE ht == h.traces
  <2>1. ht \in Seq(Trace)
    BY <1>9
  <2> HIDE DEF trace, ht
  <2>2. Append(ht, trace) = ht \o <<trace>>
    BY <1>1, <2>1, AppendIsConcat
  <2> QED
    BY <2>2 DEF ht
<1>11. Joined(h, alone) = Record(h, ctx, pos, e)
  <2>1. CASE pos = h.pos
    <3>1. Joined(h, alone) = [pos |-> h.pos, traces |-> h.traces \o alone.traces]
      BY <1>3, <2>1, JoinedCases
    <3>2. Record(h, ctx, pos, e) = [h EXCEPT !.traces = Append(h.traces, trace)]
      BY <2>1 DEF Record
    <3>3. [h EXCEPT !.traces = Append(h.traces, trace)]
            = [pos |-> h.pos, traces |-> Append(h.traces, trace)]
      <4> DEFINE longer == Append(h.traces, trace)
      <4> HIDE DEF longer
      <4>1. [h EXCEPT !.traces = longer] = [pos |-> h.pos, traces |-> longer]
        BY DEF HistorySet
      <4> QED
        BY <4>1 DEF longer
    <3> QED
      BY <1>3, <1>10, <3>1, <3>2, <3>3
  <2>2. CASE pos > h.pos
    <3>1. Joined(h, alone) = alone
      BY <1>3, <1>9, <2>2, JoinedCases
    <3>2. Record(h, ctx, pos, e) = alone
      BY <1>9, <2>2 DEF Record
    <3> QED
      BY <3>1, <3>2
  <2>3. CASE pos < h.pos
    <3>1. Joined(h, alone) = h
      BY <1>3, <1>9, <2>3, JoinedCases
    <3>2. Record(h, ctx, pos, e) = h
      BY <1>9, <2>3 DEF Record
    <3> QED
      BY <3>1, <3>2
  <2> QED
    BY <1>9, <2>1, <2>2, <2>3
<1> QED
  BY <1>8, <1>11 DEF here, one

\* The rule of an activation goes inside of the rules around it.
LEMMA ContextNests ==
  ASSUME NEW n \in Node, NEW p \in Nat, NEW ctx \in Context
  PROVE  /\ Own(n, p) \in Context
         /\ Context_(n, p, ctx) = Nest(Own(n, p), ctx)
         /\ Context_(n, p, ctx) \in Context
<1> DEFINE frame == [node |-> Def[n].name, pos |-> p]
<1>1. frame \in RuleFrame
  BY GrammarAssumption DEF RuleFrame, DefSet
<1> HIDE DEF frame
<1>2. <<frame>> \in Context /\ <<>> \in Context
      /\ <<frame>> \o <<>> = <<frame>> /\ <<frame>> # <<>>
  BY <1>1, EmptySeq, ConcatEmptySeq DEF Context
<1>3. /\ EnterRule(ctx, Def[n].name, p) = Nest(<<frame>>, ctx)
      /\ EnterRule(<<>>, Def[n].name, p) = <<frame>>
  <2>1. CASE AllNodes
    BY <1>2, <2>1 DEF EnterRule, Nest, frame
  <2>2. CASE ~AllNodes
    BY <1>2, <2>2 DEF EnterRule, Nest, frame
  <2> QED
    BY <2>1, <2>2
<1>4. Own(n, p) \in Context /\ Context_(n, p, ctx) = Nest(Own(n, p), ctx)
  BY <1>2, <1>3, NestFacts DEF Own, Context_
<1> QED
  BY <1>4, NestFacts

-----------------------------------------------------------------------------
(***************************************************************************)
(* What several activations owe.                                           *)
(***************************************************************************)

\* g[k] are the first k of the reports h, joined.
SumsUp(g, h, n) ==
  g = [k \in 0..n |-> IF k = 0 THEN EmptyHistory ELSE Joined(h[k], g[k - 1])]

LEMMA SumsStep ==
  ASSUME NEW g, NEW h, NEW n \in Nat, SumsUp(g, h, n)
  PROVE  /\ g[0] = EmptyHistory
         /\ \A k \in 1..n : g[k] = Joined(h[k], g[k - 1])
<1>1. \A k \in 0..n : g[k] = IF k = 0 THEN EmptyHistory ELSE Joined(h[k], g[k - 1])
  BY DEF SumsUp
<1> QED
  BY <1>1

LEMMA SumsExist ==
  ASSUME NEW h, NEW n \in Nat
  PROVE  \E g : SumsUp(g, h, n)
<1> DEFINE S == {m \in Nat : ~\E g : SumsUp(g, h, m)}
<1>1. SUFFICES ASSUME n \in S PROVE FALSE
  OBVIOUS
<1>2. PICK m \in S : \A k \in S : m <= k
  BY <1>1, LeastElement
<1>3. CASE m = 0
  <2>1. SumsUp([k \in 0..0 |-> EmptyHistory], h, 0)
    BY DEF SumsUp
  <2> QED
    BY <1>3, <2>1
<1>4. CASE m # 0
  <2>1. m \in Nat /\ m - 1 \in Nat /\ m - 1 \notin S
    BY <1>2, <1>4
  <2>2. PICK g : SumsUp(g, h, m - 1)
    BY <2>1
  <2> DEFINE f == [k \in 0..m |-> IF k = m THEN Joined(h[m], g[m - 1]) ELSE g[k]]
  <2>3. g[0] = EmptyHistory /\ \A k \in 1 .. m - 1 : g[k] = Joined(h[k], g[k - 1])
    BY <2>1, <2>2, SumsStep
  <2>4. ASSUME NEW k \in 0..m
        PROVE  f[k] = IF k = 0 THEN EmptyHistory ELSE Joined(h[k], f[k - 1])
    <3>1. CASE k = 0
      BY <1>4, <2>1, <2>3, <3>1
    <3>2. CASE k = m
      BY <1>4, <2>1, <3>2
    <3>3. CASE k # 0 /\ k # m
      <4>1. k \in 1 .. m - 1 /\ k - 1 \in 0..m /\ k - 1 # m
        BY <2>1, <3>3
      <4>2. f[k] = g[k] /\ f[k - 1] = g[k - 1]
        BY <3>3, <4>1
      <4> QED
        BY <2>3, <3>3, <4>1, <4>2
    <3> QED
      BY <3>1, <3>2, <3>3
  <2>5. f = [k \in 0..m |-> f[k]]
    OBVIOUS
  <2> HIDE DEF f
  <2>6. SumsUp(f, h, m)
    BY <2>4, <2>5 DEF SumsUp
  <2> QED
    BY <2>6
<1> QED
  BY <1>3, <1>4

LEMMA SumsUnique ==
  ASSUME NEW f, NEW g, NEW a, NEW b, NEW m \in Nat, NEW n \in Nat, m <= n,
         SumsUp(f, a, m), SumsUp(g, b, n), \A k \in 1..m : a[k] = b[k]
  PROVE  f[m] = g[m]
<1> DEFINE S == {k \in Nat : k <= m /\ f[k] # g[k]}
<1>1. SUFFICES ASSUME m \in S PROVE FALSE
  OBVIOUS
<1>2. PICK k \in S : \A l \in S : k <= l
  BY <1>1, LeastElement
<1>3. /\ f[0] = EmptyHistory /\ \A l \in 1..m : f[l] = Joined(a[l], f[l - 1])
      /\ g[0] = EmptyHistory /\ \A l \in 1..n : g[l] = Joined(b[l], g[l - 1])
  BY SumsStep
<1>4. k # 0
  BY <1>2, <1>3
<1>5. k \in 1..m /\ k \in 1..n /\ k - 1 \in Nat /\ k - 1 <= m
  BY <1>2, <1>4
<1>6. f[k - 1] = g[k - 1]
  BY <1>2, <1>5
<1> QED
  BY <1>2, <1>3, <1>5, <1>6

LEMMA AllJoinedIs ==
  ASSUME NEW h, Len(h) \in Nat
  PROVE  \E g : SumsUp(g, h, Len(h)) /\ AllJoined(h) = g[Len(h)]
<1> DEFINE g == CHOOSE g : SumsUp(g, h, Len(h))
<1>1. SumsUp(g, h, Len(h))
  BY SumsExist
<1>2. AllJoined(h) = g[Len(h)]
  BY DEF AllJoined, SumsUp
<1> QED
  BY <1>1, <1>2

LEMMA AllJoinedEmpty ==
  ASSUME NEW h, Len(h) = 0
  PROVE  AllJoined(h) = EmptyHistory
<1>1. PICK g : SumsUp(g, h, Len(h)) /\ AllJoined(h) = g[Len(h)]
  BY AllJoinedIs
<1> QED
  BY <1>1, SumsStep

LEMMA AllJoinedAppend ==
  ASSUME NEW a, NEW b, Len(a) \in Nat, Len(b) = Len(a) + 1,
         \A k \in 1..Len(a) : b[k] = a[k]
  PROVE  AllJoined(b) = Joined(b[Len(b)], AllJoined(a))
<1>1. Len(a) \in Nat /\ Len(b) \in Nat /\ Len(a) <= Len(b)
      /\ \A k \in 1..Len(a) : a[k] = b[k]
  OBVIOUS
<1>2. PICK f : SumsUp(f, a, Len(a)) /\ AllJoined(a) = f[Len(a)]
  BY <1>1, AllJoinedIs
<1>3. PICK g : SumsUp(g, b, Len(b)) /\ AllJoined(b) = g[Len(b)]
  BY <1>1, AllJoinedIs
<1>4. f[Len(a)] = g[Len(a)]
  BY <1>1, <1>2, <1>3, SumsUnique
<1>5. g[Len(b)] = Joined(b[Len(b)], g[Len(b) - 1])
  BY <1>1, <1>3, SumsStep
<1> QED
  BY <1>1, <1>2, <1>3, <1>4, <1>5

LEMMA AllJoinedType ==
  ASSUME NEW h, Len(h) \in Nat, \A k \in 1..Len(h) : h[k] \in HistorySet
  PROVE  AllJoined(h) \in HistorySet
<1>1. Len(h) \in Nat
  OBVIOUS
<1>2. PICK g : SumsUp(g, h, Len(h)) /\ AllJoined(h) = g[Len(h)]
  BY <1>1, AllJoinedIs
<1> DEFINE S == {k \in Nat : k <= Len(h) /\ g[k] \notin HistorySet}
<1>3. SUFFICES ASSUME Len(h) \in S PROVE FALSE
  BY <1>1, <1>2
<1>4. PICK k \in S : \A l \in S : k <= l
  BY <1>3, LeastElement
<1>5. g[0] = EmptyHistory /\ \A l \in 1..Len(h) : g[l] = Joined(h[l], g[l - 1])
  BY <1>1, <1>2, SumsStep
<1>6. k # 0
  BY <1>4, <1>5, EmptyHistoryType
<1>7. k \in 1..Len(h) /\ k - 1 \in Nat /\ k - 1 <= Len(h)
  BY <1>1, <1>4, <1>6
<1>8. g[k - 1] \in HistorySet /\ h[k] \in HistorySet
  BY <1>4, <1>7
<1> QED
  BY <1>4, <1>5, <1>7, <1>8, JoinedType

LEMMA OwedNothing ==
  ASSUME NEW s, NEW st
  PROVE  Owed(s, st, 0) = EmptyHistory
<1> DEFINE h == [j \in 1..0 |-> InContext(st[j].ctx, LeftAfter(s, st[j]))]
<1>1. Len(h) = 0
  OBVIOUS
<1> HIDE DEF h
<1>2. AllJoined(h) = EmptyHistory
  BY <1>1, AllJoinedEmpty
<1> QED
  BY <1>2 DEF Owed, h

LEMMA OwedByOneMore ==
  ASSUME NEW s, NEW st, NEW k \in Nat, k # 0
  PROVE  Owed(s, st, k) =
           Joined(InContext(st[k].ctx, LeftAfter(s, st[k])), Owed(s, st, k - 1))
<1> DEFINE owes(j) == InContext(st[j].ctx, LeftAfter(s, st[j]))
           a == [j \in 1 .. k - 1 |-> owes(j)]
           b == [j \in 1..k |-> owes(j)]
<1> HIDE DEF owes
<1>1. Len(a) = k - 1 /\ Len(b) = k /\ Len(a) \in Nat
  OBVIOUS
<1>2. b[k] = owes(k) /\ \A j \in 1..Len(a) : b[j] = a[j]
  BY <1>1
<1> HIDE DEF a, b
<1>3. AllJoined(b) = Joined(b[Len(b)], AllJoined(a))
  BY <1>1, <1>2, AllJoinedAppend
<1>4. AllJoined(b) = Joined(owes(k), AllJoined(a))
  BY <1>1, <1>2, <1>3
<1> QED
  BY <1>4 DEF Owed, a, b, owes

LEMMA OwedAlike ==
  ASSUME NEW s, NEW st, NEW tt, NEW k \in Nat,
         \A j \in 1..k : st[j] = tt[j]
  PROVE  Owed(s, st, k) = Owed(s, tt, k)
<1>1. [j \in 1..k |-> InContext(st[j].ctx, LeftAfter(s, st[j]))]
        = [j \in 1..k |-> InContext(tt[j].ctx, LeftAfter(s, tt[j]))]
  OBVIOUS
<1> QED
  BY <1>1 DEF Owed

-----------------------------------------------------------------------------
(***************************************************************************)
(* The equations of the table, kind by kind.                               *)
(***************************************************************************)

LEMMA ReadsEnd ==
  ASSUME NEW s \in Inputs, NEW n \in Node, NEW p \in 0..Len(s), Reads(n, s, p).ok
  PROVE  Reads(n, s, p).end \in p..Len(s) /\ Reads(n, s, p).end \in 0..Len(s)
<1>1. p \in Nat /\ Len(s) \in Nat /\ Reads(n, s, p).end \in Nat
  BY PlaceFacts, ReadsFacts
<1>2. p <= Reads(n, s, p).end /\ Reads(n, s, p).end <= Len(s)
  BY AllReadWell DEF ReadsWell, MayMatch
<1> QED
  BY <1>1, <1>2

LEMMA TableFacts ==
  ASSUME NEW s \in Inputs, NEW n \in Node, NEW mode \in Modes, NEW p \in 0..Len(s)
  PROVE  /\ Leaves(n, mode, s, p) \in HistorySet
         /\ Leaves(n, mode, s, p) = LeavesAt(n, mode, s, p)
         /\ Own(n, p) \in Context
         /\ Told(n, mode, s, p) \in HistorySet
<1>1. /\ Leaves(n, mode, s, p) \in HistorySet
      /\ Leaves(n, mode, s, p) = LeavesAt(n, mode, s, p)
  BY ReportsAssumption
<1>2. Own(n, p) \in Context
  <2>1. p \in Nat /\ <<>> \in Context
    BY PlaceFacts, EmptySeq DEF Context
  <2> QED
    BY <2>1, ContextNests
<1> QED
  BY <1>1, <1>2, InContextTraces DEF Told

LEMMA FromFacts ==
  ASSUME NEW s \in Inputs, NEW n \in Node, NEW mode \in Modes, NEW p \in 0..Len(s),
         Branches(n, mode), NEW i \in 1 .. Len(Kids(n)) + 1
  PROVE  /\ LeavesFrom(n, mode, i, s, p) \in HistorySet
         /\ i > Len(Kids(n)) => LeavesFrom(n, mode, i, s, p) = EmptyHistory
         /\ i <= Len(Kids(n)) =>
              LeavesFrom(n, mode, i, s, p) =
                Joined(Told(Kids(n)[i], mode, s, p), AfterKid(n, mode, i, s, p))
<1>1. /\ LeavesFrom(n, mode, i, s, p) \in HistorySet
      /\ LeavesFrom(n, mode, i, s, p) = LeavesFromAt(n, mode, i, s, p)
  BY ReportsAssumption
<1>2. i \in Nat /\ Len(Kids(n)) \in Nat
  BY NodeFacts
<1> QED
  BY <1>1, <1>2 DEF LeavesFromAt

LEMMA AfterKidType ==
  ASSUME NEW s \in Inputs, NEW n \in Node, NEW mode \in Modes, NEW p \in 0..Len(s),
         Branches(n, mode), NEW i \in 1..Len(Kids(n))
  PROVE  AfterKid(n, mode, i, s, p) \in HistorySet
<1>1. Len(Kids(n)) \in Nat /\ Kids(n)[i] \in Node /\ i + 1 \in 1 .. Len(Kids(n)) + 1
  BY NodeFacts
<1>2. CASE ~GoesOn(n, mode, i, s, p)
  BY <1>2, EmptyHistoryType DEF AfterKid
<1>3. CASE GoesOn(n, mode, i, s, p)
  <2>1. GoesOnAt(n, mode, i, s, p) \in 0..Len(s)
    <3>1. CASE Kind(n) = "seq" /\ mode = "match"
      <4>1. Reads(Kids(n)[i], s, p).ok
        BY <1>3, <3>1 DEF GoesOn
      <4> QED
        BY <1>1, <3>1, <4>1, ReadsEnd DEF GoesOnAt
    <3>2. CASE ~(Kind(n) = "seq" /\ mode = "match")
      BY <3>2 DEF GoesOnAt
    <3> QED
      BY <3>1, <3>2
  <2>2. LeavesFrom(n, mode, i + 1, s, GoesOnAt(n, mode, i, s, p)) \in HistorySet
    BY <1>1, <2>1, FromFacts
  <2> QED
    BY <1>3, <2>2 DEF AfterKid
<1> QED
  BY <1>2, <1>3

LEMMA RejectionType ==
  ASSUME NEW s \in Inputs, NEW n \in Node, NEW p \in 0..Len(s), NEW r \in Found,
         r.ok => r.end \in 0..Len(s)
  PROVE  Rejection(n, s, p, r) \in HistorySet
<1> DEFINE t == Slice(s, p, r.end)
           says(kind) == [kind |-> kind, of |-> n, text |-> t]
<1>1. CASE ~r.ok
  BY <1>1, EmptyHistoryType DEF Rejection
<1>2. CASE r.ok
  <2>1. s \in Text /\ p \in Nat /\ r.end \in Nat /\ r.end <= Len(s)
    BY <1>2, PlaceFacts
  <2>2. t \in Text
    BY <2>1, SliceProperties
  <2>3. says("Valid") \in Expectation /\ says("GrammarFrom") \in Expectation
    BY <2>2 DEF Expectation
  <2> HIDE DEF says
  <2>4. /\ Single(r.end, says("Valid")) \in HistorySet
        /\ Single(r.end, says("GrammarFrom")) \in HistorySet
    BY <2>1, <2>3, SingleType
  <2> QED
    BY <1>2, <2>4, EmptyHistoryType DEF Rejection, says
<1> QED
  BY <1>1, <1>2

LEMMA LeafLeavesFacts ==
  ASSUME NEW s \in Inputs, NEW n \in Node, NEW mode \in Modes, NEW p \in 0..Len(s)
  PROVE  /\ Kind(n) \in Literals \cup {"class"} =>
              Leaves(n, mode, s, p) =
                IF mode = "fail" THEN Single(p, Expected(n, Def[n].text))
                ELSE LeafLeaves(n, s, p)
         /\ Kind(n) \in {"unit", "not"} => Leaves(n, mode, s, p) = EmptyHistory
<1>1. Leaves(n, mode, s, p) = LeavesAt(n, mode, s, p)
  BY TableFacts
<1>2. CASE Kind(n) \in Literals \cup {"class"}
  <2>1. /\ Kind(n) \notin {"unit", "not"} /\ Kind(n) # "seq" /\ Kind(n) # "vec"
        /\ ~Branches(n, mode) /\ Kind(n) \notin Conversions
    BY <1>2 DEF Literals, Branches, Conversions
  <2> QED
    BY <1>1, <1>2, <2>1 DEF LeavesAt, LeavesGiven
<1>3. CASE Kind(n) \in {"unit", "not"}
  <2>1. /\ Kind(n) \notin Literals \cup {"class"} /\ Kind(n) # "seq" /\ Kind(n) # "vec"
        /\ ~Branches(n, mode) /\ Kind(n) \notin Conversions
    BY <1>3 DEF Literals, Branches, Conversions
  <2> QED
    BY <1>1, <1>3, <2>1 DEF LeavesAt, LeavesGiven
<1> QED
  BY <1>2, <1>3

LEMMA SeqLeaves ==
  ASSUME NEW s \in Inputs, NEW n \in Node, NEW p \in 0..Len(s), Kind(n) = "seq"
  PROVE  Leaves(n, "match", s, p) =
           Joined(LeavesFrom(n, "match", 1, s, p), Rejection(n, s, p, Rest(n, 1, s, p)))
<1>1. Leaves(n, "match", s, p) = LeavesAt(n, "match", s, p)
  BY TableFacts DEF Modes
<1>2. BeginsAs(n, "match", s, p) = "match" /\ BeginsWith(n, "match", s, p) = 1
  BY DEF BeginsAs, BeginsWith, Dispatches
<1>3. /\ Kind(n) \notin Literals \cup {"class"} /\ Kind(n) \notin {"unit", "not"}
      /\ Kind(n) # "vec" /\ Kind(n) \notin Conversions
  BY DEF Literals, Conversions
<1> QED
  BY <1>1, <1>2, <1>3 DEF LeavesAt, LeavesGiven

LEMMA BranchLeaves ==
  ASSUME NEW s \in Inputs, NEW n \in Node, NEW mode \in Modes, NEW p \in 0..Len(s),
         Branches(n, mode), ~(Kind(n) = "seq" /\ mode = "match")
  PROVE  Leaves(n, mode, s, p) =
           LeavesFrom(n, BeginsAs(n, mode, s, p), BeginsWith(n, mode, s, p), s, p)
<1>1. Leaves(n, mode, s, p) = LeavesAt(n, mode, s, p)
  BY TableFacts
<1>2. /\ Kind(n) \notin Literals \cup {"class"} /\ Kind(n) \notin {"unit", "not"}
      /\ Kind(n) # "vec" /\ Kind(n) \notin Conversions
  BY DEF Literals, Branches, Conversions
<1> QED
  BY <1>1, <1>2 DEF LeavesAt, LeavesGiven

LEMMA WrapperLeaves ==
  ASSUME NEW s \in Inputs, NEW n \in Node, NEW mode \in Modes, NEW p \in 0..Len(s),
         ~Branches(n, mode)
  PROVE  LET told == Told(Forwarded(n), mode, s, p)
             kid == Reads(Kids(n)[1], s, p)
         IN /\ Kind(n) \in {"opt", "box", "raw", "phantom", "vec1"} =>
                 Leaves(n, mode, s, p) = told
            /\ Kind(n) = "vec" =>
                 Leaves(n, mode, s, p) =
                   IF ReadsItem(n, mode, s, p)
                   THEN Joined(told, Leaves(n, mode, s, kid.end)) ELSE told
            /\ Kind(n) \in Conversions =>
                 Leaves(n, mode, s, p) =
                   IF mode = "match" THEN Joined(told, Rejection(n, s, p, kid)) ELSE told
<1>1. Leaves(n, mode, s, p) = LeavesAt(n, mode, s, p)
  BY TableFacts
<1>2. CASE Kind(n) \in {"opt", "box", "raw", "phantom", "vec1"}
  <2>1. Kind(n) \notin Literals \cup {"class"} /\ Kind(n) \notin {"unit", "not"}
        /\ Kind(n) # "seq" /\ Kind(n) # "vec" /\ Kind(n) \notin Conversions
    BY <1>2 DEF Literals, Conversions
  <2> QED
    BY <1>1, <2>1 DEF LeavesAt, LeavesGiven
<1>3. CASE Kind(n) = "vec"
  <2>1. Kind(n) \notin Literals \cup {"class"} /\ Kind(n) \notin {"unit", "not"}
        /\ Kind(n) # "seq" /\ Kind(n) \notin Conversions
    BY <1>3 DEF Literals, Conversions
  <2> QED
    BY <1>1, <1>3, <2>1 DEF LeavesAt, LeavesGiven
<1>4. CASE Kind(n) \in Conversions
  <2>1. Kind(n) \notin Literals \cup {"class"} /\ Kind(n) \notin {"unit", "not"}
        /\ Kind(n) # "seq" /\ Kind(n) # "vec"
        /\ Kind(n) \notin {"opt", "box", "raw", "phantom", "vec1"}
    BY <1>4 DEF Literals, Conversions
  <2>2. CASE mode = "match"
    BY <1>1, <1>4, <2>1, <2>2 DEF LeavesAt, LeavesGiven
  <2>3. CASE mode # "match"
    BY <1>1, <1>4, <2>1, <2>3 DEF LeavesAt, LeavesGiven
  <2> QED
    BY <2>1, <2>2, <2>3
<1> QED
  BY <1>2, <1>3, <1>4

-----------------------------------------------------------------------------
(***************************************************************************)
(* What one activation has left to report.                                 *)
(***************************************************************************)

\* f is an activation that waits for a kid.
Owes(s, f) == f \in FrameSet /\ FrameOK(s, f) /\ HasCall(f)

LEMMA FrameFacts ==
  ASSUME NEW s \in Inputs, NEW f \in FrameSet, FrameOK(s, f)
  PROVE  /\ f.node \in Node /\ f.op \in Matching \cup Failing /\ f.ctx \in Context
         /\ f.saved \in HistorySet
         /\ f.pos \in 0..Len(s) /\ f.cur \in 0..Len(s) /\ f.i \in Nat
         /\ Mode(f.op) \in Modes
         /\ Mode(f.op) = "match" <=> f.op \in Matching
         /\ Mode(f.op) = "fail" <=> f.op \in Failing
         /\ f.cur # f.pos => Kind(f.node) \in {"seq", "vec"} /\ Mode(f.op) = "match"
<1>1. /\ f.node \in Node /\ f.op \in Matching \cup Failing /\ f.ctx \in Context
      /\ f.saved \in HistorySet /\ f.pos \in Nat /\ f.cur \in Nat /\ f.i \in Nat
  BY DEF FrameSet
<1>2. Len(s) \in Nat
  BY ParserAssumption, LenProperties DEF Text
<1>3. /\ f.pos <= f.cur /\ f.cur <= Len(s)
      /\ f.cur # f.pos => Kind(f.node) \in {"seq", "vec"} /\ f.op \in Matching
  BY DEF FrameOK, Located
<1>4. /\ Mode(f.op) \in Modes
      /\ Mode(f.op) = "match" <=> f.op \in Matching
      /\ Mode(f.op) = "fail" <=> f.op \in Failing
  BY <1>1 DEF Mode, Modes, Matching, Failing
<1> QED
  BY <1>1, <1>2, <1>3, <1>4

\* Where the fields of an activation have been read to, all of them end in
\* the text.
LEMMA RejectsType ==
  ASSUME NEW s \in Inputs, NEW n \in Node, Kind(n) = "seq", NEW p \in 0..Len(s)
  PROVE  Rejection(n, s, p, Rest(n, 1, s, p)) \in HistorySet
<1>1. Rest(n, 1, s, p) \in Found /\ Len(Kids(n)) \in Nat /\ 1 \in 1 .. Len(Kids(n)) + 1
  <2>1. Len(Kids(n)) \in Nat /\ 1 \in 1 .. Len(Kids(n)) + 1
    BY NodeFacts
  <2> QED
    BY <2>1, MeaningAssumption
<1>2. ASSUME Rest(n, 1, s, p).ok
      PROVE  Rest(n, 1, s, p).end \in 0..Len(s)
  <2>1. \A m \in Node : \A q \in 0..Len(s) : ReadsWell(m, s, q)
    BY AllReadWell
  <2>2. p \in Nat /\ Len(s) \in Nat
    BY PlaceFacts
  <2>3. /\ \A j \in 1..Len(Kids(n)) : \A q \in p + 1 .. Len(s) : ReadsWell(Kids(n)[j], s, q)
        /\ \A j \in 1..Len(Kids(n)) : LeftKid(n, j) => ReadsWell(Kids(n)[j], s, p)
    BY <2>1, <2>2, NodeFacts
  <2>4. FieldsMayMatch(s, Kids(n), 1, p, p)
    BY <2>2 DEF FieldsMayMatch
  <2>5. p \in p..Len(s)
    BY <2>2
  <2>6. p <= Rest(n, 1, s, p).end /\ Rest(n, 1, s, p).end <= Len(s)
    BY <1>1, <1>2, <2>3, <2>4, <2>5, FieldsReadWell
  <2>7. Rest(n, 1, s, p).end \in Nat
    BY <1>1, RestReads
  <2> QED
    BY <2>2, <2>6, <2>7
<1> QED
  BY <1>1, <1>2, RejectionType

LEMMA WaitingAt ==
  ASSUME NEW s \in Inputs, NEW f, Owes(s, f)
  PROVE  /\ Callee(f) \in Node /\ Kids(f.node) # <<>>
         /\ Branches(f.node, Mode(f.op)) =>
              f.i \in 1..Len(Kids(f.node)) /\ Callee(f) = Kids(f.node)[f.i]
         /\ ~Branches(f.node, Mode(f.op)) => Callee(f) = Forwarded(f.node)
         /\ Kids(f.node)[1] \in Node
         /\ Kind(f.node) \notin Literals \cup {"class", "unit"}
<1>1. f \in FrameSet /\ FrameOK(s, f) /\ HasCall(f) /\ f.node \in Node
  BY FrameFacts DEF Owes
<1>2. Callee(f) \in Node /\ KidIndex(f) \in 1..Len(Kids(f.node))
  BY <1>1, CalleeFacts
<1>3. /\ Kids(f.node) \in Seq(Node) /\ Len(Kids(f.node)) \in Nat
      /\ \A j \in 1..Len(Kids(f.node)) : Kids(f.node)[j] \in Node
      /\ WellFormed(f.node)
  BY <1>1, NodeFacts
<1>4. 1 \in 1..Len(Kids(f.node)) /\ Kids(f.node) # <<>>
  BY <1>2, <1>3, EmptySeq
<1>5. Mode(f.op) = "match" <=> f.op \in Matching
  BY <1>1, FrameFacts
<1>6. ASSUME Branches(f.node, Mode(f.op))
      PROVE  f.i \in 1..Len(Kids(f.node)) /\ Callee(f) = Kids(f.node)[f.i]
  BY <1>2, <1>5, <1>6 DEF Branches, KidIndex, Callee
<1>7. ASSUME ~Branches(f.node, Mode(f.op))
      PROVE  Callee(f) = Forwarded(f.node)
  <2>1. Mode(f.op) \in Modes /\ Indexed(f)
    BY <1>1, FrameFacts DEF FrameOK
  <2>2. CASE Kind(f.node) = "vec1"
    BY <1>5, <1>7, <2>1, <2>2 DEF Branches, KidIndex, Callee, Forwarded, Modes
  <2>3. CASE Kind(f.node) # "vec1"
    <3>1. f.i = 1
      BY <1>7, <2>1, <2>3 DEF Branches, Indexed
    <3> QED
      BY <2>3, <3>1 DEF KidIndex, Callee, Forwarded
  <2> QED
    BY <2>2, <2>3
<1>8. Kind(f.node) \notin Literals \cup {"class", "unit"}
  BY <1>3, <1>4 DEF WellFormed
<1> QED
  BY <1>2, <1>3, <1>4, <1>6, <1>7, <1>8

LEMMA LeftAfterIs ==
  ASSUME NEW s, NEW f
  PROVE  LET n == f.node
             mode == Mode(f.op)
             r == Reads(Kids(n)[1], s, f.cur)
         IN /\ Kind(n) = "seq" /\ mode = "match" =>
                 LeftAfter(s, f) = Joined(AfterKid(n, mode, f.i, s, f.cur), Rejects(s, f))
            /\ Branches(n, mode) /\ ~(Kind(n) = "seq" /\ mode = "match") =>
                 LeftAfter(s, f) = AfterKid(n, mode, f.i, s, f.cur)
            /\ ReadsItem(n, mode, s, f.cur) => LeftAfter(s, f) = Leaves(n, mode, s, r.end)
            /\ Kind(n) \in Conversions /\ mode = "match" =>
                 LeftAfter(s, f) = Rejection(n, s, f.pos, r)
            /\ ~Branches(n, mode) /\ ~ReadsItem(n, mode, s, f.cur)
                 /\ ~(Kind(n) \in Conversions /\ mode = "match") =>
                 LeftAfter(s, f) = EmptyHistory
<1> DEFINE n == f.node
           mode == Mode(f.op)
           r == Reads(Kids(n)[1], s, f.cur)
           Here == LeftAfter(s, f)
<1>1. ASSUME Kind(n) = "seq" /\ mode = "match"
      PROVE  Here = Joined(AfterKid(n, mode, f.i, s, f.cur), Rejects(s, f))
  <2>1. ~(Branches(n, mode) /\ ~(Kind(n) = "seq" /\ mode = "match"))
        /\ ~ReadsItem(n, mode, s, f.cur) /\ Kind(n) \notin Conversions
    BY <1>1 DEF ReadsItem, Conversions
  <2> QED
    BY <1>1, <2>1 DEF LeftAfter
<1>2. ASSUME Branches(n, mode) /\ ~(Kind(n) = "seq" /\ mode = "match")
      PROVE  Here = AfterKid(n, mode, f.i, s, f.cur)
  <2>1. ~ReadsItem(n, mode, s, f.cur) /\ Kind(n) \notin Conversions
    BY <1>2 DEF ReadsItem, Branches, Conversions
  <2> QED
    BY <1>2, <2>1 DEF LeftAfter
<1>3. ASSUME ReadsItem(n, mode, s, f.cur)
      PROVE  Here = Leaves(n, mode, s, r.end)
  <2>1. Kind(n) = "vec" /\ ~Branches(n, mode) /\ Kind(n) \notin Conversions
        /\ Kind(n) # "seq"
    BY <1>3 DEF ReadsItem, Branches, Conversions
  <2> QED
    BY <1>3, <2>1 DEF LeftAfter
<1>4. ASSUME Kind(n) \in Conversions /\ mode = "match"
      PROVE  Here = Rejection(n, s, f.pos, r)
  <2>1. ~Branches(n, mode) /\ ~ReadsItem(n, mode, s, f.cur) /\ Kind(n) # "seq"
    BY <1>4 DEF ReadsItem, Branches, Conversions
  <2> QED
    BY <1>4, <2>1 DEF LeftAfter
<1>5. ASSUME ~Branches(n, mode), ~ReadsItem(n, mode, s, f.cur),
             ~(Kind(n) \in Conversions /\ mode = "match")
      PROVE  Here = EmptyHistory
  <2>1. Kind(n) # "seq"
    BY <1>5 DEF Branches
  <2> QED
    BY <1>5, <2>1 DEF LeftAfter
<1> QED
  BY <1>1, <1>2, <1>3, <1>4, <1>5

LEMMA LeftAfterType ==
  ASSUME NEW s \in Inputs, NEW f, Owes(s, f)
  PROVE  LeftAfter(s, f) \in HistorySet
<1> DEFINE n == f.node
           mode == Mode(f.op)
           r == Reads(Kids(n)[1], s, f.cur)
<1>1. /\ f \in FrameSet /\ n \in Node /\ mode \in Modes
      /\ f.pos \in 0..Len(s) /\ f.cur \in 0..Len(s)
  BY FrameFacts DEF Owes
<1>2. /\ Kids(n)[1] \in Node
      /\ Branches(n, mode) => f.i \in 1..Len(Kids(n))
  BY WaitingAt
<1>3. Branches(n, mode) => AfterKid(n, mode, f.i, s, f.cur) \in HistorySet
  BY <1>1, <1>2, AfterKidType
<1>4. /\ r \in Found
      /\ r.ok => r.end \in 0..Len(s)
  <2>1. r \in Found
    BY <1>1, <1>2, MeaningAssumption
  <2> QED
    BY <1>1, <1>2, <2>1, ReadsEnd
<1>5. CASE Kind(n) = "seq" /\ mode = "match"
  <2>1. Rejects(s, f) \in HistorySet
    BY <1>1, <1>5, RejectsType DEF Rejects
  <2>2. AfterKid(n, mode, f.i, s, f.cur) \in HistorySet
    BY <1>3, <1>5 DEF Branches
  <2> QED
    BY <1>5, <2>1, <2>2, LeftAfterIs, JoinedType
<1>6. CASE Branches(n, mode) /\ ~(Kind(n) = "seq" /\ mode = "match")
  BY <1>3, <1>6, LeftAfterIs
<1>7. CASE ReadsItem(n, mode, s, f.cur)
  <2>1. r.end \in 0..Len(s)
    BY <1>4, <1>7 DEF ReadsItem
  <2>2. Leaves(n, mode, s, r.end) \in HistorySet
    BY <1>1, <2>1, TableFacts
  <2> QED
    BY <1>7, <2>2, LeftAfterIs
<1>8. CASE Kind(n) \in Conversions /\ mode = "match"
  <2>1. Rejection(n, s, f.pos, r) \in HistorySet
    BY <1>1, <1>4, RejectionType
  <2> QED
    BY <1>8, <2>1, LeftAfterIs
<1>9. CASE ~Branches(n, mode) /\ ~ReadsItem(n, mode, s, f.cur)
             /\ ~(Kind(n) \in Conversions /\ mode = "match")
  BY <1>9, LeftAfterIs, EmptyHistoryType
<1> QED
  BY <1>5, <1>6, <1>7, <1>8, <1>9

LEMMA OwedType ==
  ASSUME NEW s \in Inputs, NEW st, NEW k \in Nat,
         \A j \in 1..k : Owes(s, st[j])
  PROVE  Owed(s, st, k) \in HistorySet
<1> DEFINE owes(j) == InContext(st[j].ctx, LeftAfter(s, st[j]))
           h == [j \in 1..k |-> owes(j)]
<1>1. ASSUME NEW j \in 1..k
      PROVE  owes(j) \in HistorySet
  <2>1. st[j].ctx \in Context /\ LeftAfter(s, st[j]) \in HistorySet
    BY FrameFacts, LeftAfterType DEF Owes
  <2> QED
    BY <2>1, InContextTraces
<1> HIDE DEF owes
<1>2. Len(h) = k /\ \A j \in 1..k : h[j] = owes(j)
  OBVIOUS
<1> HIDE DEF h
<1>3. AllJoined(h) \in HistorySet
  BY <1>1, <1>2, AllJoinedType
<1> QED
  BY <1>3 DEF Owed, h, owes

LEMMA LeftHereType ==
  ASSUME NEW s \in Inputs, NEW f \in FrameSet, FrameOK(s, f)
  PROVE  LeftHere(s, f) \in HistorySet
<1> DEFINE n == f.node
           mode == Mode(f.op)
<1>1. /\ n \in Node /\ mode \in Modes /\ f.i \in Nat
      /\ f.pos \in 0..Len(s) /\ f.cur \in 0..Len(s)
  BY FrameFacts
<1>2. Branches(n, mode) /\ f.i # 0 => f.i \in 1 .. Len(Kids(n)) + 1
  <2>1. Indexed(f) /\ Len(Kids(n)) \in Nat
    BY <1>1, NodeFacts DEF FrameOK
  <2> QED
    BY <1>1, <2>1 DEF Indexed, Branches
<1>3. Branches(n, mode) /\ f.i # 0 => LeavesFrom(n, mode, f.i, s, f.cur) \in HistorySet
  BY <1>1, <1>2, FromFacts
<1>4. CASE Kind(n) = "seq" /\ mode = "match"
  <2>1. Rejects(s, f) \in HistorySet
    BY <1>1, <1>4, RejectsType DEF Rejects
  <2>2. f.i # 0
    BY <1>4 DEF FrameOK, Indexed
  <2>3. LeavesFrom(n, mode, f.i, s, f.cur) \in HistorySet
    BY <1>3, <1>4, <2>2 DEF Branches
  <2> QED
    BY <1>4, <2>1, <2>3, JoinedType DEF LeftHere
<1>5. CASE ~(Kind(n) = "seq" /\ mode = "match") /\ Branches(n, mode) /\ f.i # 0
  BY <1>3, <1>5 DEF LeftHere
<1>6. CASE ~(Kind(n) = "seq" /\ mode = "match") /\ ~(Branches(n, mode) /\ f.i # 0)
  <2>1. Leaves(n, mode, s, f.cur) \in HistorySet
    BY <1>1, TableFacts
  <2> QED
    BY <1>6, <2>1 DEF LeftHere
<1> QED
  BY <1>4, <1>5, <1>6

\* What an activation that calls a kid has left to report is what the kid
\* reports, and what is left after it.
LEMMA CallSplits ==
  ASSUME NEW s \in Inputs, NEW f, Owes(s, f), Kind(f.node) # "not"
  PROVE  LeftHere(s, f) =
           Joined(Told(Callee(f), Mode(f.op), s, f.cur), LeftAfter(s, f))
<1> DEFINE n == f.node
           mode == Mode(f.op)
           told == Told(Callee(f), mode, s, f.cur)
           r == Reads(Kids(n)[1], s, f.cur)
<1>1. /\ f \in FrameSet /\ n \in Node /\ mode \in Modes /\ f.i \in Nat
      /\ f.pos \in 0..Len(s) /\ f.cur \in 0..Len(s)
      /\ f.cur # f.pos => Kind(n) \in {"seq", "vec"} /\ mode = "match"
  BY FrameFacts DEF Owes
<1>2. /\ Callee(f) \in Node
      /\ Branches(n, mode) => f.i \in 1..Len(Kids(n)) /\ Callee(f) = Kids(n)[f.i]
      /\ ~Branches(n, mode) => Callee(f) = Forwarded(n)
      /\ Kids(n)[1] \in Node
      /\ Kind(n) \notin Literals \cup {"class", "unit"}
      /\ Len(Kids(n)) \in Nat
  BY <1>1, WaitingAt, NodeFacts
<1>3. told \in HistorySet /\ LeftAfter(s, f) \in HistorySet
  BY <1>1, <1>2, TableFacts, LeftAfterType
<1>4. ASSUME Branches(n, mode)
      PROVE  /\ LeavesFrom(n, mode, f.i, s, f.cur)
                  = Joined(told, AfterKid(n, mode, f.i, s, f.cur))
             /\ AfterKid(n, mode, f.i, s, f.cur) \in HistorySet
             /\ f.i # 0
  <2>1. f.i \in 1..Len(Kids(n)) /\ f.i \in 1 .. Len(Kids(n)) + 1 /\ f.i <= Len(Kids(n))
        /\ Callee(f) = Kids(n)[f.i]
    BY <1>2, <1>4
  <2>2. LeavesFrom(n, mode, f.i, s, f.cur)
          = Joined(Told(Kids(n)[f.i], mode, s, f.cur), AfterKid(n, mode, f.i, s, f.cur))
    BY <1>1, <1>4, <2>1, FromFacts
  <2> QED
    BY <1>1, <1>4, <2>1, <2>2, AfterKidType
<1>5. CASE Kind(n) = "seq" /\ mode = "match"
  <2>1. Rejects(s, f) \in HistorySet
    BY <1>1, <1>5, RejectsType DEF Rejects
  <2> DEFINE after == AfterKid(n, mode, f.i, s, f.cur)
             refused == Rejects(s, f)
  <2>2. LeftHere(s, f) = Joined(LeavesFrom(n, mode, f.i, s, f.cur), refused)
    BY <1>5 DEF LeftHere
  <2>3. LeftAfter(s, f) = Joined(after, refused)
    BY <1>5, LeftAfterIs
  <2>4. LeavesFrom(n, mode, f.i, s, f.cur) = Joined(told, after) /\ after \in HistorySet
    BY <1>4, <1>5 DEF Branches
  <2> HIDE DEF after, refused, told
  <2>5. Joined(Joined(told, after), refused) = Joined(told, Joined(after, refused))
    BY <1>3, <2>1, <2>4, JoinedAssociative DEF refused
  <2> QED
    BY <2>2, <2>3, <2>4, <2>5 DEF told
<1>6. CASE Branches(n, mode) /\ ~(Kind(n) = "seq" /\ mode = "match")
  <2>1. LeftHere(s, f) = LeavesFrom(n, mode, f.i, s, f.cur)
    BY <1>4, <1>6 DEF LeftHere
  <2>2. LeftAfter(s, f) = AfterKid(n, mode, f.i, s, f.cur)
    BY <1>6, LeftAfterIs
  <2> QED
    BY <1>4, <1>6, <2>1, <2>2
<1>7. CASE ~Branches(n, mode)
  <2>1. Kind(n) # "seq" /\ LeftHere(s, f) = Leaves(n, mode, s, f.cur)
    BY <1>7 DEF Branches, LeftHere
  <2>2. told = Told(Forwarded(n), mode, s, f.cur)
    BY <1>2, <1>7
  <2>3. /\ Kind(n) \in {"opt", "box", "raw", "phantom", "vec1"} =>
             Leaves(n, mode, s, f.cur) = told
        /\ Kind(n) = "vec" =>
             Leaves(n, mode, s, f.cur) =
               IF ReadsItem(n, mode, s, f.cur)
               THEN Joined(told, Leaves(n, mode, s, r.end)) ELSE told
        /\ Kind(n) \in Conversions =>
             Leaves(n, mode, s, f.cur) =
               IF mode = "match" THEN Joined(told, Rejection(n, s, f.cur, r)) ELSE told
    BY <1>1, <1>7, <2>2, WrapperLeaves
  <2>4. Joined(told, EmptyHistory) = told
    BY <1>3, JoinedNeutral
  <2>5. CASE Kind(n) \in {"opt", "box", "raw", "phantom", "vec1"}
    <3>1. ~ReadsItem(n, mode, s, f.cur) /\ Kind(n) \notin Conversions
      BY <2>5 DEF ReadsItem, Conversions
    <3>2. LeftAfter(s, f) = EmptyHistory
      BY <1>7, <3>1, LeftAfterIs
    <3> QED
      BY <2>1, <2>3, <2>4, <2>5, <3>2
  <2>6. CASE Kind(n) = "vec"
    <3>1. CASE ReadsItem(n, mode, s, f.cur)
      <4>1. LeftAfter(s, f) = Leaves(n, mode, s, r.end)
        BY <3>1, LeftAfterIs
      <4> QED
        BY <2>1, <2>3, <2>6, <3>1, <4>1
    <3>2. CASE ~ReadsItem(n, mode, s, f.cur)
      <4>1. LeftAfter(s, f) = EmptyHistory
        BY <1>7, <2>6, <3>2, LeftAfterIs DEF Conversions
      <4> QED
        BY <2>1, <2>3, <2>4, <2>6, <3>2, <4>1
    <3> QED
      BY <3>1, <3>2
  <2>7. CASE Kind(n) \in Conversions
    <3>1. f.cur = f.pos /\ ~ReadsItem(n, mode, s, f.cur)
      BY <1>1, <2>7 DEF Conversions, ReadsItem
    <3>2. CASE mode = "match"
      <4>1. LeftAfter(s, f) = Rejection(n, s, f.pos, r)
        BY <2>7, <3>2, LeftAfterIs
      <4> QED
        BY <2>1, <2>3, <2>7, <3>1, <3>2, <4>1
    <3>3. CASE mode # "match"
      <4>1. LeftAfter(s, f) = EmptyHistory
        BY <1>7, <3>1, <3>3, LeftAfterIs
      <4> QED
        BY <2>1, <2>3, <2>4, <2>7, <3>3, <4>1
    <3> QED
      BY <3>2, <3>3
  <2>8. Kind(n) \in {"opt", "box", "raw", "phantom", "vec1", "vec"} \cup Conversions
    <3>1. Kind(n) \in Kinds
      BY <1>1, NodeFacts
    <3> QED
      BY <1>2, <1>7, <3>1 DEF Kinds, Wrappers, Branches
  <2> QED
    BY <2>5, <2>6, <2>7, <2>8
<1> QED
  BY <1>5, <1>6, <1>7

\* A lookahead reports nothing.
LEMMA LookaheadLeaves ==
  ASSUME NEW s \in Inputs, NEW f \in FrameSet, FrameOK(s, f), Kind(f.node) = "not"
  PROVE  LeftHere(s, f) = EmptyHistory /\ LeftAfter(s, f) = EmptyHistory
<1> DEFINE n == f.node
           mode == Mode(f.op)
<1>1. n \in Node /\ mode \in Modes /\ f.cur \in 0..Len(s)
  BY FrameFacts
<1>2. ~Branches(n, mode) /\ ~ReadsItem(n, mode, s, f.cur) /\ Kind(n) \notin Conversions
      /\ Kind(n) # "seq"
  BY DEF Branches, ReadsItem, Conversions
<1>3. Leaves(n, mode, s, f.cur) = EmptyHistory
  BY <1>1, LeafLeavesFacts
<1> QED
  BY <1>2, <1>3, LeftAfterIs DEF LeftHere

\* An activation starts with all that its grammar leaves.
LEMMA ActivationLeaves ==
  ASSUME NEW s \in Inputs, NEW n \in Node, NEW op \in Matching \cup {"fail"},
         NEW p \in 0..Len(s), NEW ctx
  PROVE  LET f == Activation(n, op, p, ctx)
         IN /\ LeftHere(s, f) = Leaves(n, Mode(op), s, p)
            /\ f.ctx = Context_(n, p, ctx)
            /\ f.i = 0 => Dispatches(n, "parse")
<1> DEFINE f == Activation(n, op, p, ctx)
           mode == Mode(op)
<1>1. /\ f.node = n /\ f.op = op /\ f.pos = p /\ f.cur = p
      /\ f.i = IF Dispatches(n, op) THEN 0 ELSE 1
      /\ f.ctx = Context_(n, p, ctx)
  BY DEF Activation
<1> HIDE DEF f
<1>2. f.i = 0 => Dispatches(n, "parse")
  BY <1>1 DEF Dispatches, Matching
<1>3. mode \in Modes /\ (mode = "match" <=> op \in Matching)
      /\ (mode = "fail" <=> op = "fail")
  BY DEF Mode, Modes, Matching, Failing
<1>4. CASE Kind(n) = "seq" /\ mode = "match"
  <2>1. f.i = 1
    BY <1>1, <1>4 DEF Dispatches
  <2>2. LeftHere(s, f) = Joined(LeavesFrom(n, "match", 1, s, p),
                                Rejection(n, s, p, Rest(n, 1, s, p)))
    BY <1>1, <1>4, <2>1 DEF LeftHere, Rejects
  <2> QED
    BY <1>1, <1>2, <1>4, <2>2, SeqLeaves DEF f
<1>5. CASE ~(Kind(n) = "seq" /\ mode = "match") /\ Branches(n, mode) /\ f.i # 0
  <2>1. ~Dispatches(n, op) /\ f.i = 1
    BY <1>1, <1>5
  <2>2. BeginsAs(n, mode, s, p) = mode /\ BeginsWith(n, mode, s, p) = 1
    BY <1>3, <2>1 DEF BeginsAs, BeginsWith, Dispatches, Matching, Modes
  <2>3. Leaves(n, mode, s, p) = LeavesFrom(n, mode, 1, s, p)
    BY <1>3, <1>5, <2>2, BranchLeaves
  <2> QED
    BY <1>1, <1>2, <1>5, <2>1, <2>3 DEF LeftHere, f
<1>6. CASE ~(Kind(n) = "seq" /\ mode = "match") /\ ~(Branches(n, mode) /\ f.i # 0)
  BY <1>1, <1>2, <1>6 DEF LeftHere, f
<1> QED
  BY <1>4, <1>5, <1>6

-----------------------------------------------------------------------------
(***************************************************************************)
(* Steps.  What the activation whose turn it is has left is recorded, left *)
(* to another activation, or left for later.                               *)
(***************************************************************************)

\* By the activation whose turn it is.
NowLeft == IF phase = "call" THEN LeftHere(input, Top) ELSE LeftAfter(input, Top)

LEMMA StackFacts ==
  ASSUME IInv, phase # "idle"
  PROVE  /\ input \in Inputs /\ root \in Node /\ history \in HistorySet
         /\ stack \in Seq(FrameSet) /\ Len(stack) \in Nat
         /\ \A k \in 1..Len(stack) : stack[k] \in FrameSet /\ FrameOK(input, stack[k])
         /\ \A k \in 1 .. Len(stack) - 1 : Owes(input, stack[k])
         /\ phase = "return" => \A k \in 1..Len(stack) : Owes(input, stack[k])
<1>1. /\ input \in Inputs /\ root \in Node /\ history \in HistorySet
      /\ stack \in Seq(FrameSet) /\ Len(stack) \in Nat
  BY ParserAssumption, LenProperties DEF IInv, TypeOK
<1>2. \A k \in 1..Len(stack) : stack[k] \in FrameSet /\ FrameOK(input, stack[k])
  BY <1>1, ElementOfSeq DEF IInv, StackOK
<1>3. \A k \in 1 .. Len(stack) - 1 : Owes(input, stack[k])
  <2>1. \A k \in 1 .. Len(stack) - 1 : HasCall(stack[k]) /\ k \in 1..Len(stack)
    BY <1>1 DEF IInv, StackOK, Waits
  <2> QED
    BY <1>2, <2>1 DEF Owes
<1>4. ASSUME phase = "return", NEW k \in 1..Len(stack)
      PROVE  Owes(input, stack[k])
  <2>1. stack # <<>>
    BY <1>4, EmptySeq
  <2>2. HasCall(stack[Len(stack)])
    <3>1. Last(stack) = stack[Len(stack)]
      BY <1>1, <2>1, FrontProperties
    <3>2. HasCall(Top)
      BY <1>4, <2>1 DEF IInv, PhaseOK
    <3> QED
      BY <3>1, <3>2 DEF Top
  <2>3. k \in 1 .. Len(stack) - 1 \/ k = Len(stack)
    BY <1>1
  <2> QED
    BY <1>2, <1>3, <2>2, <2>3 DEF Owes
<1> QED
  BY <1>1, <1>2, <1>3, <1>4

LEMMA ToComeIs ==
  ASSUME IInv, phase # "idle", stack # <<>>
  PROVE  /\ Len(stack) \in Nat \ {0} /\ Top = stack[Len(stack)]
         /\ Top \in FrameSet /\ Top.ctx \in Context /\ NowLeft \in HistorySet
         /\ \A k \in 0 .. Len(stack) - 1 : Owed(input, stack, k) \in HistorySet
         /\ ToCome = Joined(InContext(Top.ctx, NowLeft),
                            Owed(input, stack, Len(stack) - 1))
<1>1. /\ Len(stack) \in Nat \ {0} /\ Top = stack[Len(stack)] /\ Top \in FrameSet
      /\ input \in Inputs /\ FrameOK(input, Top)
  BY StackFacts, FrontProperties, TopFacts DEF Top
<1>2. phase \in {"call", "return"}
  BY DEF IInv, TypeOK
<1>3. phase = "return" => Owes(input, Top)
  BY <1>1, StackFacts
<1>4. NowLeft \in HistorySet
  BY <1>1, <1>2, <1>3, LeftHereType, LeftAfterType DEF NowLeft
<1>5. Top.ctx \in Context
  BY <1>1 DEF FrameSet
<1>6. ASSUME NEW k \in 0 .. Len(stack) - 1
      PROVE  Owed(input, stack, k) \in HistorySet
  <2>1. k \in Nat /\ \A j \in 1..k : Owes(input, stack[j])
    BY <1>1, StackFacts
  <2> QED
    BY <1>1, <2>1, OwedType
<1>7. ToCome = Joined(InContext(Top.ctx, NowLeft), Owed(input, stack, Len(stack) - 1))
  <2>1. CASE phase = "call"
    BY <2>1 DEF ToCome, NowLeft
  <2>2. CASE phase = "return"
    <3>1. Owed(input, stack, Len(stack))
            = Joined(InContext(Top.ctx, LeftAfter(input, Top)),
                     Owed(input, stack, Len(stack) - 1))
      BY <1>1, OwedByOneMore
    <3> QED
      BY <2>2, <3>1 DEF ToCome, NowLeft
  <2> QED
    BY <1>2, <2>1, <2>2
<1> QED
  BY <1>1, <1>4, <1>5, <1>6, <1>7

\* The activations under the one whose turn it is stay as they are.
LEMMA BelowTop ==
  ASSUME IInv, phase # "idle", stack # <<>>,
         stack' \in Seq(FrameSet), phase' = "return" \/ Len(stack') >= Len(stack),
         \A k \in 1 .. Len(stack) - 1 : stack'[k] = stack[k],
         UNCHANGED <<input, root, outcomes>>
  PROVE  /\ Report' = Report
         /\ Reported => Reported'
         /\ BegunRightly =>
              \A k \in 1 .. Len(stack) - 1 :
                stack'[k].i = 0 => Dispatches(stack'[k].node, "parse")
         /\ \A k \in 0 .. Len(stack) - 1 :
              Owed(input', stack', k) = Owed(input, stack, k)
         /\ \A k \in 1 .. Len(stack) - 1 :
              /\ Probing(k)' = Probing(k)
              /\ SetAside /\ Outermost(k)' =>
                   Joined(stack'[k].saved, Owed(input', stack', k)) = Report'
<1>1. Len(stack) \in Nat \ {0} /\ Len(stack') \in Nat
  BY ToComeIs, LenProperties
<1>2. Report' = Report
  BY DEF Report
<1>3. Reported => Reported'
  BY <1>2 DEF Reported
<1>4. ASSUME BegunRightly, NEW k \in 1 .. Len(stack) - 1
      PROVE  stack'[k].i = 0 => Dispatches(stack'[k].node, "parse")
  BY <1>1, <1>4 DEF BegunRightly
<1>5. ASSUME NEW k \in 0 .. Len(stack) - 1
      PROVE  Owed(input', stack', k) = Owed(input, stack, k)
  <2>1. k \in Nat /\ \A j \in 1..k : stack'[j] = stack[j]
    BY <1>1
  <2>2. Owed(input, stack', k) = Owed(input, stack, k)
    BY <2>1, OwedAlike
  <2> QED
    BY <2>2
<1>6. ASSUME NEW k \in 1 .. Len(stack) - 1
      PROVE  Probing(k)' = Probing(k)
  <2>1. k < Len(stack) /\ stack'[k] = stack[k]
        /\ (k < Len(stack') \/ phase' = "return")
    BY <1>1
  <2> QED
    BY <2>1 DEF Probing
<1>7. ASSUME NEW k \in 1 .. Len(stack) - 1, SetAside, Outermost(k)'
      PROVE  Joined(stack'[k].saved, Owed(input', stack', k)) = Report'
  <2>1. k \in 1..Len(stack) /\ k \in 0 .. Len(stack) - 1
        /\ \A j \in 1 .. k - 1 : j \in 1 .. Len(stack) - 1
    BY <1>1
  <2>2. Outermost(k)
    <3>1. Probing(k)' /\ \A j \in 1 .. k - 1 : ~Probing(j)'
      BY <1>7 DEF Outermost
    <3> QED
      BY <1>6, <2>1, <3>1 DEF Outermost
  <2>3. Joined(stack[k].saved, Owed(input, stack, k)) = Report
    BY <1>7, <2>1, <2>2 DEF SetAside
  <2> QED
    BY <1>2, <1>5, <2>1, <2>3
<1> QED
  BY <1>2, <1>3, <1>4, <1>5, <1>6, <1>7

\* Records what the activation has left, and returns.
LEMMA ReturnReports ==
  ASSUME IInv, ReportsInv, phase # "idle", stack # <<>>, NEW r, Return(r),
         ~Probing(Len(stack)),
         history' = Joined(history, InContext(Top.ctx, NowLeft))
  PROVE  ReportsInv'
<1>1. /\ Len(stack) \in Nat \ {0} /\ Top.ctx \in Context /\ NowLeft \in HistorySet
      /\ \A k \in 0 .. Len(stack) - 1 : Owed(input, stack, k) \in HistorySet
      /\ ToCome = Joined(InContext(Top.ctx, NowLeft),
                         Owed(input, stack, Len(stack) - 1))
      /\ history \in HistorySet
  BY ToComeIs, StackFacts
<1>2. /\ stack' \in Seq(FrameSet) /\ phase' = "return" /\ Len(stack') = Len(stack) - 1
      /\ \A k \in 1 .. Len(stack) - 1 : stack'[k] = stack[k]
      /\ UNCHANGED <<input, root, outcomes>>
  <2>1. stack \in Seq(FrameSet)
    BY StackFacts
  <2>2. /\ Front(stack) \in Seq(FrameSet) /\ Len(Front(stack)) = Len(stack) - 1
        /\ \A i \in 1 .. Len(stack) - 1 : Front(stack)[i] = stack[i]
    BY <2>1, FrontProperties
  <2> QED
    BY <2>2 DEF Return
<1>3. /\ Report' = Report
      /\ Reported => Reported'
      /\ BegunRightly =>
           \A k \in 1 .. Len(stack) - 1 :
             stack'[k].i = 0 => Dispatches(stack'[k].node, "parse")
      /\ \A k \in 0 .. Len(stack) - 1 :
           Owed(input', stack', k) = Owed(input, stack, k)
      /\ \A k \in 1 .. Len(stack) - 1 :
           /\ Probing(k)' = Probing(k)
           /\ SetAside /\ Outermost(k)' =>
                Joined(stack'[k].saved, Owed(input', stack', k)) = Report'
  BY <1>2, BelowTop
<1>4. BegunRightly' /\ SetAside' /\ Reported'
  BY <1>2, <1>3 DEF ReportsInv, BegunRightly, SetAside
<1>5. Recorded'
  <2> SUFFICES ASSUME \A k \in 1..Len(stack') : ~Probing(k)'
               PROVE  Joined(history', ToCome') = Report'
    BY DEF Recorded
  <2>1. \A k \in 1..Len(stack) : ~Probing(k)
    <3>1. \A k \in 1 .. Len(stack) - 1 : ~Probing(k)
      BY <1>2, <1>3
    <3>2. \A k \in 1..Len(stack) : k \in 1 .. Len(stack) - 1 \/ k = Len(stack)
      BY <1>1
    <3> QED
      BY <3>1, <3>2
  <2>2. Joined(history, ToCome) = Report
    BY <2>1 DEF ReportsInv, Recorded
  <2> DEFINE here == InContext(Top.ctx, NowLeft)
             below == Owed(input, stack, Len(stack) - 1)
  <2>3. here \in HistorySet /\ below \in HistorySet
    BY <1>1, InContextTraces
  <2>4. ToCome' = below
    <3>1. ToCome' = Owed(input', stack', Len(stack'))
      BY <1>2 DEF ToCome
    <3>2. Len(stack') \in 0 .. Len(stack) - 1
      BY <1>1, <1>2
    <3> QED
      BY <1>2, <1>3, <3>1, <3>2
  <2>5. history' = Joined(history, here) /\ ToCome = Joined(here, below)
    BY <1>1
  <2> HIDE DEF here, below
  <2>6. Joined(Joined(history, here), below) = Joined(history, Joined(here, below))
    BY <1>1, <2>3, JoinedAssociative
  <2> QED
    BY <1>3, <2>2, <2>4, <2>5, <2>6
<1> QED
  BY <1>4, <1>5 DEF ReportsInv

\* Leaves it for later, going on as f.
LEMMA ContinueReports ==
  ASSUME IInv, ReportsInv, phase # "idle", stack # <<>>, NEW f \in FrameSet, Continue(f),
         f.ctx = Top.ctx, Kind(Top.node) # "not", f.node = Top.node,
         f.i = 0 => Top.i = 0, LeftHere(input, f) = NowLeft
  PROVE  ReportsInv'
<1>1. /\ Len(stack) \in Nat \ {0} /\ Top = stack[Len(stack)]
      /\ ToCome = Joined(InContext(Top.ctx, NowLeft),
                         Owed(input, stack, Len(stack) - 1))
  BY ToComeIs
<1>2. /\ stack' \in Seq(FrameSet) /\ phase' = "call" /\ Len(stack') = Len(stack)
      /\ \A k \in 1 .. Len(stack) - 1 : stack'[k] = stack[k]
      /\ stack'[Len(stack)] = f /\ Top' = f
      /\ UNCHANGED <<input, root, outcomes, history>>
  <2>1. stack \in Seq(FrameSet)
    BY StackFacts
  <2> DEFINE st == [stack EXCEPT ![Len(stack)] = f]
  <2>2. /\ st \in Seq(FrameSet) /\ Len(st) = Len(stack)
        /\ \A k \in 1 .. Len(stack) - 1 : st[k] = stack[k]
        /\ st[Len(stack)] = f /\ Last(st) = f
    BY <2>1, ReplaceLast
  <2>3. stack' = st /\ phase' = "call" /\ UNCHANGED <<input, root, outcomes, history>>
    BY DEF Continue
  <2> HIDE DEF st
  <2> QED
    BY <2>2, <2>3 DEF Top
<1>3. /\ Report' = Report
      /\ Reported => Reported'
      /\ BegunRightly =>
           \A k \in 1 .. Len(stack) - 1 :
             stack'[k].i = 0 => Dispatches(stack'[k].node, "parse")
      /\ \A k \in 0 .. Len(stack) - 1 :
           Owed(input', stack', k) = Owed(input, stack, k)
      /\ \A k \in 1 .. Len(stack) - 1 :
           /\ Probing(k)' = Probing(k)
           /\ SetAside /\ Outermost(k)' =>
                Joined(stack'[k].saved, Owed(input', stack', k)) = Report'
  <2>1. Len(stack') >= Len(stack)
    BY <1>1, <1>2
  <2>2. /\ stack' \in Seq(FrameSet)
        /\ \A k \in 1 .. Len(stack) - 1 : stack'[k] = stack[k]
        /\ UNCHANGED <<input, root, outcomes>>
    BY <1>2
  <2> QED
    BY <2>1, <2>2, BelowTop
<1>4. \A k \in 1..Len(stack) : k \in 1 .. Len(stack) - 1 \/ k = Len(stack)
  BY <1>1
<1>5. \A k \in Nat : k = Len(stack) => ~Probing(k)' /\ ~Probing(k)
  BY <1>1, <1>2 DEF Probing
<1>6. BegunRightly'
  <2>1. f.i = 0 => Dispatches(f.node, "parse")
    BY <1>1 DEF ReportsInv, BegunRightly
  <2> QED
    BY <1>2, <1>3, <1>4, <2>1 DEF ReportsInv, BegunRightly
<1>7. SetAside'
  <2>1. \A k \in Nat : k = Len(stack) => ~Outermost(k)'
    BY <1>5 DEF Outermost
  <2> QED
    BY <1>2, <1>3, <1>4, <2>1 DEF ReportsInv, SetAside
<1>8. Recorded'
  <2> SUFFICES ASSUME \A k \in 1..Len(stack') : ~Probing(k)'
               PROVE  Joined(history', ToCome') = Report'
    BY DEF Recorded
  <2>1. \A k \in 1..Len(stack) : ~Probing(k)
    BY <1>2, <1>3, <1>4, <1>5
  <2>2. Joined(history, ToCome) = Report
    BY <2>1 DEF ReportsInv, Recorded
  <2>3. ToCome' = ToCome
    <3>1. ToCome' = Joined(InContext(f.ctx, LeftHere(input', f)),
                           Owed(input', stack', Len(stack') - 1))
      BY <1>2 DEF ToCome
    <3>2. Owed(input', stack', Len(stack') - 1) = Owed(input, stack, Len(stack) - 1)
      BY <1>1, <1>2, <1>3
    <3> QED
      BY <1>1, <1>2, <3>1, <3>2
  <2> QED
    BY <1>2, <1>3, <2>2, <2>3
<1> QED
  BY <1>3, <1>6, <1>7, <1>8 DEF ReportsInv

\* Leaves a part of it to the kid it calls.  f is the activation that calls: as
\* it was, but for what a lookahead sets aside.
LEMMA PushFacts ==
  ASSUME IInv, phase = "call", HasCall(Top), phase' = "call",
         NEW f \in FrameSet, f.node = Top.node, f.i = Top.i, BegunRightly,
         stack' = Append([stack EXCEPT ![Len(stack)] = f], Started(Top)),
         UNCHANGED <<input, root, ret, outcomes>>
  PROVE  LET g == Started(Top)
         IN /\ stack # <<>> /\ Owes(input, Top)
            /\ Len(stack') = Len(stack) + 1
            /\ stack'[Len(stack)] = f /\ stack'[Len(stack) + 1] = g /\ Top' = g
            /\ \A k \in Nat : k = Len(stack) + 1 => ~Probing(k)'
            /\ BegunRightly'
            /\ Report' = Report
            /\ Reported => Reported'
            /\ \A k \in 0 .. Len(stack) - 1 :
                 Owed(input', stack', k) = Owed(input, stack, k)
            /\ \A k \in 1 .. Len(stack) - 1 :
                 /\ Probing(k)' = Probing(k)
                 /\ SetAside /\ Outermost(k)' =>
                      Joined(stack'[k].saved, Owed(input', stack', k)) = Report'
            /\ LeftHere(input, g) = Leaves(Callee(Top), Mode(Top.op), input, Top.cur)
            /\ g.ctx = Context_(Callee(Top), Top.cur, Top.ctx)
<1> DEFINE s == [stack EXCEPT ![Len(stack)] = f]
           g == Started(Top)
<1>1. stack \in Seq(FrameSet) /\ stack # <<>> /\ phase # "idle"
  BY DEF IInv, TypeOK, PhaseOK
<1>2. /\ Len(stack) \in Nat \ {0}
      /\ s \in Seq(FrameSet)
      /\ Len(s) = Len(stack)
      /\ \A j \in 1 .. Len(stack) - 1 : s[j] = stack[j]
      /\ s[Len(stack)] = f
  BY <1>1, FrontProperties, ReplaceLast
<1>3. g \in FrameSet
  BY <1>1, CalleeOK
<1>4. /\ Callee(Top) \in Node /\ KidOp(Top) \in Matching \cup {"fail"}
      /\ input \in Inputs /\ Top \in FrameSet /\ Top.cur \in 0..Len(input)
      /\ Mode(KidOp(Top)) = Mode(Top.op)
      /\ FrameOK(input, Top)
  <2>1. /\ Top \in FrameSet /\ FrameOK(input, Top) /\ input \in Inputs
    BY <1>1, TopFacts, StackFacts
  <2>2. /\ Callee(Top) \in Node
        /\ Top.op \in Failing => KidOp(Top) = "fail"
        /\ Top.op \in Matching => KidOp(Top) \in Matching
        /\ Top.op \in Matching \cup Failing
        /\ Top.cur \in 0..Len(input)
    BY <2>1, CalleeFacts, FrameFacts
  <2>3. Mode(KidOp(Top)) = Mode(Top.op)
    BY <2>2 DEF Mode, Matching, Failing
  <2> QED
    BY <2>1, <2>2, <2>3
<1>5. /\ LeftHere(input, g) = Leaves(Callee(Top), Mode(Top.op), input, Top.cur)
      /\ g.ctx = Context_(Callee(Top), Top.cur, Top.ctx)
      /\ g.i = 0 => Dispatches(g.node, "parse")
  <2>1. g = Activation(Callee(Top), KidOp(Top), Top.cur, Top.ctx)
    BY DEF Started
  <2>2. g.node = Callee(Top)
    BY <2>1 DEF Activation
  <2> HIDE DEF g
  <2> QED
    BY <1>4, <2>1, <2>2, ActivationLeaves
<1> HIDE DEF s, g
<1>6. stack' = Append(s, g)
  BY DEF s, g
<1>7. /\ stack' \in Seq(FrameSet)
      /\ Len(stack') = Len(stack) + 1
      /\ \A j \in 1 .. Len(s) : stack'[j] = s[j]
      /\ stack'[Len(s) + 1] = g
  <2>1. /\ Append(s, g) \in Seq(FrameSet)
        /\ Len(Append(s, g)) = Len(s) + 1
        /\ \A j \in 1 .. Len(s) : Append(s, g)[j] = s[j]
        /\ Append(s, g)[Len(s) + 1] = g
    BY <1>2, <1>3, AppendProperties
  <2> QED
    BY <1>2, <1>6, <2>1
<1>8. /\ \A j \in 1 .. Len(stack) - 1 : stack'[j] = stack[j]
      /\ stack'[Len(stack)] = f /\ stack'[Len(stack) + 1] = g
  BY <1>2, <1>7
<1>9. Top' = g
  <2>1. stack' # <<>>
    BY <1>2, <1>7, EmptySeq
  <2>2. Last(stack') = stack'[Len(stack')]
    BY <1>7, <2>1, FrontProperties
  <2> QED
    BY <1>7, <1>8, <2>2 DEF Top
<1>10. \A k \in Nat : k = Len(stack) + 1 => ~Probing(k)'
  BY <1>2, <1>7 DEF Probing
<1>11. /\ Report' = Report
       /\ Reported => Reported'
       /\ BegunRightly =>
            \A k \in 1 .. Len(stack) - 1 :
              stack'[k].i = 0 => Dispatches(stack'[k].node, "parse")
       /\ \A k \in 0 .. Len(stack) - 1 :
            Owed(input', stack', k) = Owed(input, stack, k)
       /\ \A k \in 1 .. Len(stack) - 1 :
            /\ Probing(k)' = Probing(k)
            /\ SetAside /\ Outermost(k)' =>
                 Joined(stack'[k].saved, Owed(input', stack', k)) = Report'
  <2>1. Len(stack') >= Len(stack)
    BY <1>2, <1>7
  <2> QED
    BY <1>1, <1>7, <1>8, <2>1, BelowTop
<1>12. BegunRightly'
  <2>1. f.i = 0 => Dispatches(f.node, "parse")
    <3>1. Top = stack[Len(stack)] /\ Len(stack) \in 1..Len(stack)
      BY <1>1, <1>2, ToComeIs
    <3> QED
      BY <3>1 DEF BegunRightly
  <2>2. \A k \in 1..Len(stack') :
          k \in 1 .. Len(stack) - 1 \/ k = Len(stack) \/ k = Len(stack) + 1
    BY <1>2, <1>7
  <2> QED
    BY <1>5, <1>8, <1>11, <2>1, <2>2 DEF BegunRightly
<1>13. Owes(input, Top)
  BY <1>4 DEF Owes
<1> QED
  BY <1>1, <1>5, <1>7, <1>8, <1>9, <1>10, <1>11, <1>12, <1>13 DEF g

\* A kid reports inside of the rule it enters.
LEMMA KidTold ==
  ASSUME NEW s \in Inputs, NEW n \in Node, NEW mode \in Modes, NEW p \in 0..Len(s),
         NEW ctx \in Context
  PROVE  InContext(Context_(n, p, ctx), Leaves(n, mode, s, p))
           = InContext(ctx, Told(n, mode, s, p))
<1>1. p \in Nat
  BY PlaceFacts
<1> DEFINE leaves == Leaves(n, mode, s, p)
           own == Own(n, p)
<1>2. Context_(n, p, ctx) = Nest(own, ctx)
  BY <1>1, ContextNests
<1>3. leaves \in HistorySet /\ own \in Context /\ Told(n, mode, s, p) = InContext(own, leaves)
  BY TableFacts DEF Told
<1> HIDE DEF leaves, own
<1>4. InContext(ctx, InContext(own, leaves)) = InContext(Nest(own, ctx), leaves)
  BY <1>3, InContextNested
<1> QED
  BY <1>2, <1>3, <1>4 DEF leaves

LEMMA CallReports ==
  ASSUME IInv, ReportsInv, Call
  PROVE  ReportsInv'
<1> DEFINE g == Started(Top)
           kid == Callee(Top)
           mode == Mode(Top.op)
           here == LeftHere(input, Top)
           after == LeftAfter(input, Top)
           below == Owed(input, stack, Len(stack) - 1)
           told == Told(kid, mode, input, Top.cur)
<1>1. /\ phase = "call" /\ phase # "idle" /\ HasCall(Top) /\ Kind(Top.node) # "not"
      /\ phase' = "call" /\ stack' = Append(stack, g)
      /\ UNCHANGED <<input, root, ret, history, outcomes>>
  BY DEF Call
<1>2. stack # <<>> /\ stack \in Seq(FrameSet)
  BY <1>1 DEF IInv, PhaseOK, TypeOK
<1>3. /\ Len(stack) \in Nat \ {0} /\ Top = stack[Len(stack)]
      /\ Top \in FrameSet /\ Top.ctx \in Context
      /\ below \in HistorySet
      /\ ToCome = Joined(InContext(Top.ctx, here), below)
      /\ input \in Inputs /\ history \in HistorySet /\ FrameOK(input, Top)
  BY <1>1, <1>2, ToComeIs, StackFacts, TopFacts DEF NowLeft
<1>4. [stack EXCEPT ![Len(stack)] = Top] = stack
  BY <1>2, <1>3
<1> HIDE DEF g
<1>5. BegunRightly /\ SetAside /\ Recorded /\ Reported
  BY DEF ReportsInv
<1>6. /\ Owes(input, Top)
      /\ Len(stack') = Len(stack) + 1
      /\ stack'[Len(stack)] = Top /\ stack'[Len(stack) + 1] = g /\ Top' = g
      /\ \A k \in Nat : k = Len(stack) + 1 => ~Probing(k)'
      /\ BegunRightly'
      /\ Report' = Report
      /\ Reported => Reported'
      /\ \A k \in 0 .. Len(stack) - 1 :
           Owed(input', stack', k) = Owed(input, stack, k)
      /\ \A k \in 1 .. Len(stack) - 1 :
           /\ Probing(k)' = Probing(k)
           /\ SetAside /\ Outermost(k)' =>
                Joined(stack'[k].saved, Owed(input', stack', k)) = Report'
      /\ LeftHere(input, g) = Leaves(kid, mode, input, Top.cur)
      /\ g.ctx = Context_(kid, Top.cur, Top.ctx)
  <2>1. stack' = Append([stack EXCEPT ![Len(stack)] = Top], Started(Top))
    BY <1>1, <1>4 DEF g
  <2>2. UNCHANGED <<input, root, ret, outcomes>>
    BY <1>1
  <2> QED
    BY <1>1, <1>3, <1>5, <2>1, <2>2, PushFacts DEF g
<1>7. \A k \in Nat : k = Len(stack) => ~Probing(k)' /\ ~Probing(k)
  BY <1>1, <1>3, <1>6 DEF Probing
<1>8. \A k \in 1..Len(stack') :
        k \in 1 .. Len(stack) - 1 \/ k = Len(stack) \/ k = Len(stack) + 1
  BY <1>3, <1>6
<1>9. SetAside'
  <2>1. \A k \in Nat : k = Len(stack) \/ k = Len(stack) + 1 => ~Outermost(k)'
    BY <1>6, <1>7 DEF Outermost
  <2> QED
    BY <1>5, <1>6, <1>8, <2>1 DEF SetAside
<1>10. Recorded'
  <2> SUFFICES ASSUME \A k \in 1..Len(stack') : ~Probing(k)'
               PROVE  Joined(history', ToCome') = Report'
    BY DEF Recorded
  <2>1. \A k \in 1..Len(stack) : ~Probing(k)
    <3>1. \A k \in 1 .. Len(stack) - 1 : ~Probing(k)
      BY <1>3, <1>6
    <3>2. \A k \in 1..Len(stack) : k \in 1 .. Len(stack) - 1 \/ k = Len(stack)
      BY <1>3
    <3> QED
      BY <1>7, <3>1, <3>2
  <2>2. Joined(history, ToCome) = Report
    BY <1>1, <1>5, <2>1 DEF Recorded
  <2>3. /\ told \in HistorySet /\ after \in HistorySet
        /\ here = Joined(told, after)
        /\ InContext(g.ctx, LeftHere(input, g)) = InContext(Top.ctx, told)
    <3>1. kid \in Node /\ mode \in Modes /\ Top.cur \in 0..Len(input)
      BY <1>3, <1>6, WaitingAt, FrameFacts
    <3>2. told \in HistorySet /\ after \in HistorySet
      BY <1>3, <1>6, <3>1, TableFacts, LeftAfterType
    <3>3. here = Joined(told, after)
      BY <1>1, <1>3, <1>6, CallSplits
    <3>4. InContext(Context_(kid, Top.cur, Top.ctx), Leaves(kid, mode, input, Top.cur))
            = InContext(Top.ctx, told)
      BY <1>3, <3>1, KidTold
    <3> QED
      BY <1>6, <3>2, <3>3, <3>4
  <2>4. Owed(input', stack', Len(stack)) = Joined(InContext(Top.ctx, after), below)
    <3>1. Owed(input', stack', Len(stack))
            = Joined(InContext(stack'[Len(stack)].ctx, LeftAfter(input', stack'[Len(stack)])),
                     Owed(input', stack', Len(stack) - 1))
      BY <1>3, OwedByOneMore
    <3>2. Len(stack) - 1 \in 0 .. Len(stack) - 1
      BY <1>3
    <3> QED
      BY <1>1, <1>6, <3>1, <3>2
  <2>5. ToCome' = Joined(InContext(Top.ctx, told), Joined(InContext(Top.ctx, after), below))
    <3>1. ToCome' = Joined(InContext(Top'.ctx, LeftHere(input', Top')),
                           Owed(input', stack', Len(stack') - 1))
      BY <1>1 DEF ToCome
    <3>2. Len(stack') - 1 = Len(stack)
      BY <1>3, <1>6
    <3> QED
      BY <1>1, <1>6, <2>3, <2>4, <3>1, <3>2
  <2>6. ToCome' = ToCome
    <3> HIDE DEF told, after, below, here
    <3>1. InContext(Top.ctx, here) = Joined(InContext(Top.ctx, told), InContext(Top.ctx, after))
      BY <1>3, <2>3, InContextJoined
    <3>2. InContext(Top.ctx, told) \in HistorySet /\ InContext(Top.ctx, after) \in HistorySet
      BY <1>3, <2>3, InContextTraces
    <3>3. Joined(Joined(InContext(Top.ctx, told), InContext(Top.ctx, after)), below)
            = Joined(InContext(Top.ctx, told), Joined(InContext(Top.ctx, after), below))
      BY <1>3, <3>2, JoinedAssociative
    <3> QED
      BY <1>3, <2>5, <3>1, <3>3
  <2> QED
    BY <1>1, <1>6, <2>2, <2>6
<1> QED
  BY <1>5, <1>6, <1>9, <1>10 DEF ReportsInv

\* A lookahead sets aside what is recorded; what its kid leaves does not count.
LEMMA ProbeReports ==
  ASSUME IInv, ReportsInv, Probe
  PROVE  ReportsInv'
<1> DEFINE g == Started(Top)
           f == [Top EXCEPT !.saved = history]
           below == Owed(input, stack, Len(stack) - 1)
<1>1. /\ phase = "call" /\ phase # "idle" /\ HasCall(Top) /\ Kind(Top.node) = "not"
      /\ phase' = "call"
      /\ stack' = Append([stack EXCEPT ![Len(stack)].saved = history], g)
      /\ UNCHANGED <<input, root, ret, outcomes>>
  BY DEF Probe
<1>2. stack # <<>> /\ stack \in Seq(FrameSet)
  BY <1>1 DEF IInv, PhaseOK, TypeOK
<1>3. /\ Len(stack) \in Nat \ {0} /\ Top = stack[Len(stack)]
      /\ Top \in FrameSet /\ Top.ctx \in Context
      /\ below \in HistorySet
      /\ ToCome = Joined(InContext(Top.ctx, LeftHere(input, Top)), below)
      /\ input \in Inputs /\ history \in HistorySet /\ FrameOK(input, Top)
  BY <1>1, <1>2, ToComeIs, StackFacts, TopFacts DEF NowLeft
<1>4. /\ f \in FrameSet /\ f.node = Top.node /\ f.op = Top.op /\ f.i = Top.i
      /\ f.ctx = Top.ctx /\ f.pos = Top.pos /\ f.cur = Top.cur /\ f.saved = history
  BY <1>3 DEF FrameSet
<1>5. [stack EXCEPT ![Len(stack)].saved = history] = [stack EXCEPT ![Len(stack)] = f]
  BY <1>3
<1>6. BegunRightly /\ SetAside /\ Recorded /\ Reported
  BY DEF ReportsInv
<1> HIDE DEF g, f
<1>7. /\ Len(stack') = Len(stack) + 1
      /\ stack'[Len(stack)] = f
      /\ \A k \in Nat : k = Len(stack) + 1 => ~Probing(k)'
      /\ BegunRightly'
      /\ Report' = Report
      /\ Reported => Reported'
      /\ \A k \in 0 .. Len(stack) - 1 :
           Owed(input', stack', k) = Owed(input, stack, k)
      /\ \A k \in 1 .. Len(stack) - 1 :
           /\ Probing(k)' = Probing(k)
           /\ SetAside /\ Outermost(k)' =>
                Joined(stack'[k].saved, Owed(input', stack', k)) = Report'
  <2>1. stack' = Append([stack EXCEPT ![Len(stack)] = f], Started(Top))
    BY <1>1, <1>5 DEF g
  <2> QED
    BY <1>1, <1>3, <1>4, <1>6, <2>1, PushFacts
<1>8. \A k \in 1..Len(stack') :
        k \in 1 .. Len(stack) - 1 \/ k = Len(stack) \/ k = Len(stack) + 1
  BY <1>3, <1>7
<1>9. \A k \in Nat : k = Len(stack) => Probing(k)' /\ ~Probing(k)
  <2>1. Top.op \in Matching
    BY <1>1, <1>3 DEF HasCall, FrameSet
  <2> QED
    BY <1>1, <1>3, <1>4, <1>7, <2>1 DEF Probing
<1>10. Recorded'
  <2>1. Len(stack) \in 1..Len(stack') /\ Len(stack) \in Nat
    BY <1>3, <1>7
  <2>2. PICK top \in Nat : top = Len(stack)
    BY <2>1
  <2>3. Probing(top)' /\ top \in 1..Len(stack')
    BY <1>9, <2>1, <2>2
  <2> QED
    BY <2>3 DEF Recorded
<1>11. ASSUME NEW top \in Nat, top = Len(stack), Outermost(top)'
       PROVE  Joined(stack'[top].saved, Owed(input', stack', top)) = Report'
  <2>1. \A k \in 1..Len(stack) : ~Probing(k)
    <3>1. \A k \in 1 .. Len(stack) - 1 : ~Probing(k)'
      BY <1>3, <1>11 DEF Outermost
    <3>2. \A k \in 1..Len(stack) : k \in 1 .. Len(stack) - 1 \/ k = Len(stack)
      BY <1>3
    <3> QED
      BY <1>7, <1>9, <3>1, <3>2
  <2>2. Joined(history, ToCome) = Report
    BY <1>1, <1>6, <2>1 DEF Recorded
  <2>3. LeftHere(input, Top) = EmptyHistory /\ LeftAfter(input, f) = EmptyHistory
    <3>1. LeftHere(input, Top) = EmptyHistory /\ LeftAfter(input, Top) = EmptyHistory
      BY <1>1, <1>3, LookaheadLeaves
    <3>2. LeftAfter(input, f) = LeftAfter(input, Top)
      BY <1>4 DEF LeftAfter, Rejects
    <3> QED
      BY <3>1, <3>2
  <2>4. Owed(input', stack', Len(stack))
          = Joined(InContext(stack'[Len(stack)].ctx, LeftAfter(input', stack'[Len(stack)])),
                   Owed(input', stack', Len(stack) - 1))
    BY <1>3, OwedByOneMore
  <2>5. Len(stack) - 1 \in 0 .. Len(stack) - 1
    BY <1>3
  <2>6. Owed(input', stack', Len(stack)) = ToCome
    BY <1>1, <1>3, <1>4, <1>7, <2>3, <2>4, <2>5
  <2> QED
    BY <1>4, <1>7, <1>11, <2>2, <2>6
<1>12. SetAside'
  <2>1. \A k \in Nat : k = Len(stack) + 1 => ~Outermost(k)'
    BY <1>7 DEF Outermost
  <2> QED
    BY <1>6, <1>7, <1>8, <1>11, <2>1 DEF SetAside
<1> QED
  BY <1>6, <1>7, <1>10, <1>12 DEF ReportsInv

\* The outermost lookahead gives back what it set aside, and leaves nothing.
LEMMA ProbeReturnReports ==
  ASSUME IInv, ReportsInv, ProbeReturn
  PROVE  ReportsInv'
<1> DEFINE below == Owed(input, stack, Len(stack) - 1)
<1>1. /\ phase = "return" /\ phase # "idle" /\ stack # <<>>
      /\ Kind(Top.node) = "not" /\ Top.op \in Matching
      /\ stack' = Front(stack) /\ phase' = "return" /\ history' = Top.saved
      /\ UNCHANGED <<input, root, outcomes>>
  BY DEF ProbeReturn, Answered, Return
<1>2. /\ Len(stack) \in Nat \ {0} /\ Top = stack[Len(stack)]
      /\ Top \in FrameSet /\ Top.ctx \in Context
      /\ below \in HistorySet
      /\ input \in Inputs /\ FrameOK(input, Top)
  BY <1>1, ToComeIs, StackFacts, TopFacts
<1>3. /\ stack' \in Seq(FrameSet) /\ Len(stack') = Len(stack) - 1
      /\ \A k \in 1 .. Len(stack) - 1 : stack'[k] = stack[k]
  <2>1. stack \in Seq(FrameSet)
    BY <1>1, StackFacts
  <2>2. /\ Front(stack) \in Seq(FrameSet) /\ Len(Front(stack)) = Len(stack) - 1
        /\ \A i \in 1 .. Len(stack) - 1 : Front(stack)[i] = stack[i]
    BY <1>1, <2>1, FrontProperties
  <2> QED
    BY <1>1, <2>2
<1>4. /\ Report' = Report
      /\ Reported => Reported'
      /\ BegunRightly =>
           \A k \in 1 .. Len(stack) - 1 :
             stack'[k].i = 0 => Dispatches(stack'[k].node, "parse")
      /\ \A k \in 0 .. Len(stack) - 1 :
           Owed(input', stack', k) = Owed(input, stack, k)
      /\ \A k \in 1 .. Len(stack) - 1 :
           /\ Probing(k)' = Probing(k)
           /\ SetAside /\ Outermost(k)' =>
                Joined(stack'[k].saved, Owed(input', stack', k)) = Report'
  BY <1>1, <1>3, BelowTop
<1>5. BegunRightly' /\ SetAside' /\ Reported'
  BY <1>3, <1>4 DEF ReportsInv, BegunRightly, SetAside
<1>6. Recorded'
  <2> SUFFICES ASSUME \A k \in 1..Len(stack') : ~Probing(k)'
               PROVE  Joined(history', ToCome') = Report'
    BY DEF Recorded
  <2>1. Outermost(Len(stack))
    <3>1. \A k \in 1 .. Len(stack) - 1 : ~Probing(k)
      BY <1>3, <1>4
    <3>2. Probing(Len(stack))
      BY <1>1, <1>2 DEF Probing
    <3> QED
      BY <3>1, <3>2 DEF Outermost
  <2>2. Joined(Top.saved, Owed(input, stack, Len(stack))) = Report
    BY <1>2, <2>1 DEF ReportsInv, SetAside
  <2>3. Owed(input, stack, Len(stack)) = below
    <3>1. Owed(input, stack, Len(stack))
            = Joined(InContext(Top.ctx, LeftAfter(input, Top)), below)
      BY <1>2, OwedByOneMore
    <3>2. InContext(Top.ctx, LeftAfter(input, Top)) = EmptyHistory
      BY <1>1, <1>2, LookaheadLeaves, InContextEmpty
    <3> HIDE DEF below
    <3> QED
      BY <1>2, <3>1, <3>2, JoinedNeutral
  <2>4. ToCome' = below
    <3>1. ToCome' = Owed(input', stack', Len(stack'))
      BY <1>1 DEF ToCome
    <3>2. Len(stack') \in 0 .. Len(stack) - 1
      BY <1>2, <1>3
    <3> QED
      BY <1>3, <1>4, <3>1, <3>2
  <2> QED
    BY <1>1, <1>4, <2>2, <2>3, <2>4
<1> QED
  BY <1>4, <1>5, <1>6 DEF ReportsInv

\* Nothing is recorded, all is to come.
LEMMA BeginReports ==
  ASSUME IInv, ReportsInv, Begin
  PROVE  ReportsInv'
<1> DEFINE g == Activation(root, EntryOp(Entry), 0, <<>>)
           leaves == Leaves(root, "match", input, 0)
           own == Own(root, 0)
<1>1. /\ phase = "idle" /\ phase' = "call" /\ stack' = <<g>> /\ history' = EmptyHistory
      /\ UNCHANGED <<input, root, outcomes>>
  BY DEF Begin
<1>2. /\ root \in Node /\ input \in Inputs /\ 0 \in 0..Len(input)
      /\ EntryOp(Entry) \in Matching /\ Mode(EntryOp(Entry)) = "match"
  <2>1. root \in Node /\ input \in Inputs /\ input \in Text
    BY ParserAssumption DEF IInv, TypeOK
  <2> QED
    BY <2>1, LenProperties DEF Text, EntryOp, Matching, Mode, Failing
<1>3. /\ LeftHere(input, g) = leaves
      /\ g.ctx = own
      /\ g.i = 0 => Dispatches(g.node, "parse")
  <2>1. g.node = root
    BY DEF Activation
  <2> HIDE DEF g
  <2>2. /\ LeftHere(input, g) = leaves
        /\ g.ctx = Context_(root, 0, <<>>)
        /\ g.i = 0 => Dispatches(root, "parse")
    BY <1>2, ActivationLeaves DEF g
  <2> QED
    BY <2>1, <2>2 DEF Own
<1>4. leaves \in HistorySet /\ own \in Context /\ Report = InContext(own, leaves)
  <2>1. "match" \in Modes
    BY DEF Modes
  <2> QED
    BY <1>2, <2>1, TableFacts DEF Report, Told
<1> HIDE DEF g, leaves, own
<1>5. Len(stack') = 1 /\ stack'[1] = g /\ Top' = g
  <2>1. Len(<<g>>) = 1 /\ <<g>>[1] = g
    OBVIOUS
  <2> QED
    BY <1>1, <2>1 DEF Top, Last
<1>6. \A k \in 1..Len(stack') : k = 1 /\ ~Probing(k)'
  BY <1>1, <1>5 DEF Probing
<1>7. BegunRightly' /\ SetAside' /\ Reported'
  BY <1>1, <1>3, <1>5, <1>6 DEF ReportsInv, BegunRightly, SetAside, Reported, Outermost, Report
<1>8. Joined(history', ToCome') = Report'
  <2>1. ToCome' = Joined(InContext(own, leaves), Owed(input', stack', Len(stack') - 1))
    BY <1>1, <1>3, <1>5 DEF ToCome
  <2>2. Owed(input', stack', Len(stack') - 1) = EmptyHistory
    BY <1>5, OwedNothing
  <2>3. InContext(own, leaves) \in HistorySet
    BY <1>4, InContextTraces
  <2>4. Joined(EmptyHistory, Joined(InContext(own, leaves), EmptyHistory))
          = InContext(own, leaves)
    BY <2>3, JoinedNeutral
  <2>5. Report' = Report
    BY <1>1 DEF Report
  <2> QED
    BY <1>1, <1>4, <2>1, <2>2, <2>4, <2>5
<1> QED
  BY <1>7, <1>8 DEF ReportsInv, Recorded

\* All is recorded.
LEMMA FinishReports ==
  ASSUME IInv, ReportsInv, Finish
  PROVE  ReportsInv'
<1>1. /\ phase = "return" /\ phase # "idle" /\ phase' = "idle" /\ stack = <<>> /\ Len(stack) = 0
      /\ UNCHANGED <<input, root, stack, history>>
  BY EmptySeq DEF Finish
<1>2. history = Report
  <2>1. ToCome = EmptyHistory
    <3>1. ToCome = Owed(input, stack, 0)
      BY <1>1 DEF ToCome
    <3> QED
      BY <3>1, OwedNothing
  <2>2. Joined(history, ToCome) = Report
    BY <1>1 DEF ReportsInv, Recorded
  <2>3. history \in HistorySet
    BY DEF IInv, TypeOK
  <2> QED
    BY <2>1, <2>2, <2>3, JoinedNeutral
<1>3. Report' = Report
  BY <1>1 DEF Report
<1>4. Reported'
  <2> DEFINE new == [entry |-> Entry, ok |-> Accepted(Entry, ret), end |-> ret.end,
                     print |-> ret.print, error |-> IntoError(history)]
             Answer == [entry : Entries, ok : BOOLEAN, end : Nat, print : Text,
                        error : HistorySet]
  <2>1. outcomes' = Append(outcomes, new)
    BY DEF Finish
  <2>2. new.error = IntoError(Report)
    BY <1>2
  <2>3. outcomes \in Seq(Answer)
    BY DEF IInv, TypeOK
  <2>4. outcomes' \in Seq(Answer)
    <3>1. IInv'
      BY FinishOK
    <3> QED
      BY <3>1 DEF IInv, TypeOK
  <2> HIDE DEF new, Answer
  <2>5. /\ DOMAIN outcomes = 1..Len(outcomes) /\ Len(outcomes) \in Nat
        /\ DOMAIN outcomes' = 1..Len(outcomes')
    BY <2>3, <2>4, LenProperties
  <2>6. /\ Len(outcomes') = Len(outcomes) + 1
        /\ \A o \in 1..Len(outcomes) : outcomes'[o] = outcomes[o]
        /\ outcomes'[Len(outcomes) + 1] = new
    BY <2>1, <2>3, <2>5
  <2>7. ASSUME NEW o \in DOMAIN outcomes'
        PROVE  outcomes'[o].error = IntoError(Report')
    <3>1. o \in 1..Len(outcomes) \/ o = Len(outcomes) + 1
      BY <2>5, <2>6
    <3>2. CASE o \in 1..Len(outcomes)
      BY <1>3, <2>5, <2>6, <3>2 DEF ReportsInv, Reported
    <3>3. CASE o = Len(outcomes) + 1
      BY <1>3, <2>2, <2>6, <3>3
    <3> QED
      BY <3>1, <3>2, <3>3
  <2> QED
    BY <2>7 DEF Reported
<1>5. BegunRightly' /\ SetAside' /\ Recorded'
  BY <1>1 DEF BegunRightly, SetAside, Recorded
<1> QED
  BY <1>4, <1>5 DEF ReportsInv

LEMMA InitReports ==
  ASSUME Init
  PROVE  ReportsInv
<1>1. phase = "idle" /\ Len(stack) = 0 /\ DOMAIN outcomes = {}
  BY EmptySeq DEF Init
<1> QED
  BY <1>1 DEF ReportsInv, BegunRightly, SetAside, Recorded, Reported

LEMMA StutterReports ==
  ASSUME ReportsInv, UNCHANGED vars
  PROVE  ReportsInv'
<1>1. UNCHANGED <<input, root, phase, stack, history, outcomes>>
  BY DEF vars
<1>2. Report' = Report /\ ToCome' = ToCome
  BY <1>1 DEF Report, ToCome, Top
<1>3. \A k \in Nat : Probing(k)' = Probing(k)
  BY <1>1 DEF Probing
<1>4. ASSUME NEW k \in 1..Len(stack)
      PROVE  Outermost(k)' = Outermost(k) /\ Probing(k)' = Probing(k)
  BY <1>1 DEF Outermost, Probing
<1> QED
  BY <1>1, <1>2, <1>4 DEF ReportsInv, BegunRightly, SetAside, Recorded, Reported

-----------------------------------------------------------------------------
(***************************************************************************)
(* The actions.                                                            *)
(***************************************************************************)

LEMMA TurnFacts ==
  ASSUME IInv, phase # "idle", stack # <<>>
  PROVE  /\ input \in Inputs /\ input \in Text /\ Len(input) \in Nat
         /\ Top \in FrameSet /\ FrameOK(input, Top) /\ Indexed(Top)
         /\ Top.node \in Node /\ Top.ctx \in Context /\ Top.i \in Nat
         /\ Len(Kids(Top.node)) \in Nat
         /\ Top.pos \in 0..Len(input) /\ Top.cur \in 0..Len(input)
         /\ Top.pos \in Nat /\ Top.cur \in Nat
         /\ Top.op \in Matching => Mode(Top.op) = "match"
         /\ Top.op \in Failing => Mode(Top.op) = "fail"
         /\ Top.op \in Matching => Top.op \notin Failing
         /\ Kind(Top.node) \notin {"seq", "vec"} => Top.cur = Top.pos
         /\ phase = "call" => NowLeft = LeftHere(input, Top)
         /\ phase = "return" => NowLeft = LeftAfter(input, Top) /\ Owes(input, Top)
         /\ history \in HistorySet
<1>1. /\ Top \in FrameSet /\ FrameOK(input, Top) /\ input \in Inputs /\ input \in Text
      /\ Len(input) \in Nat /\ Top.node \in Node /\ history \in HistorySet
  BY TopFacts, StackFacts
<1>2. Indexed(Top) /\ Len(Kids(Top.node)) \in Nat
  BY <1>1, NodeFacts DEF FrameOK
<1>3. /\ Top.ctx \in Context /\ Top.i \in Nat
      /\ Top.pos \in 0..Len(input) /\ Top.cur \in 0..Len(input)
      /\ Mode(Top.op) = "match" <=> Top.op \in Matching
      /\ Mode(Top.op) = "fail" <=> Top.op \in Failing
      /\ Top.cur # Top.pos => Kind(Top.node) \in {"seq", "vec"} /\ Mode(Top.op) = "match"
  BY <1>1, FrameFacts
<1>4. phase = "call" => NowLeft = LeftHere(input, Top)
  BY DEF NowLeft
<1>5. ASSUME phase = "return"
      PROVE  NowLeft = LeftAfter(input, Top) /\ Owes(input, Top)
  <2>1. HasCall(Top)
    BY <1>5 DEF IInv, PhaseOK
  <2> QED
    BY <1>1, <1>5, <2>1 DEF NowLeft, Owes
<1>6. Top.op \in Matching => Top.op \notin Failing
  BY DEF Matching, Failing
<1> QED
  BY <1>1, <1>2, <1>3, <1>4, <1>5, <1>6

LEMMA NotProbing ==
  ASSUME IInv, phase # "idle", stack # <<>>,
         phase = "call" \/ Kind(Top.node) # "not" \/ Top.op \in Failing
  PROVE  ~Probing(Len(stack))
<1>1. Top = stack[Len(stack)] /\ Len(stack) \in Nat
  BY ToComeIs
<1> QED
  BY <1>1 DEF Probing, Matching, Failing

LEMMA SilentReturn ==
  ASSUME IInv, ReportsInv, phase # "idle", stack # <<>>, NEW r, Return(r),
         phase = "call" \/ Kind(Top.node) # "not" \/ Top.op \in Failing,
         UNCHANGED history, NowLeft = EmptyHistory
  PROVE  ReportsInv'
<1>1. history \in HistorySet /\ Top.ctx \in Context
  BY TurnFacts
<1>2. Joined(history, InContext(Top.ctx, EmptyHistory)) = history
  BY <1>1, InContextEmpty, JoinedNeutral
<1>3. history' = Joined(history, InContext(Top.ctx, NowLeft))
  BY <1>2
<1> QED
  BY <1>3, NotProbing, ReturnReports

LEMMA ExpectReturn ==
  ASSUME IInv, ReportsInv, phase # "idle", stack # <<>>, NEW r, Return(r),
         phase = "call" \/ Kind(Top.node) # "not" \/ Top.op \in Failing,
         NEW pos \in Nat, NEW e \in Expectation, Expect(pos, e),
         NowLeft = Single(pos, e)
  PROVE  ReportsInv'
<1>1. history \in HistorySet /\ Top.ctx \in Context
  BY TurnFacts
<1>2. Record(history, Top.ctx, pos, e) = Joined(history, InContext(Top.ctx, Single(pos, e)))
  BY <1>1, RecordJoins
<1>3. history' = Joined(history, InContext(Top.ctx, NowLeft))
  BY <1>2 DEF Expect
<1> QED
  BY <1>3, NotProbing, ReturnReports

LEMMA ExpectedType ==
  ASSUME NEW n \in Node, Kind(n) \in Literals \cup {"class"}, NEW text \in Text
  PROVE  Expected(n, text) \in Expectation
<1>1. Expected(n, text).kind \in {"StringEq", "StringEqCI", "CharClass"}
  <2>1. CASE Kind(n) = "lit"
    BY <2>1 DEF Expected
  <2>2. CASE Kind(n) = "litCI"
    BY <2>2 DEF Expected
  <2>3. CASE Kind(n) = "class"
    BY <2>3 DEF Expected
  <2> QED
    BY <2>1, <2>2, <2>3 DEF Literals
<1> DEFINE kind == Expected(n, text).kind
<1>2. Expected(n, text) = [kind |-> kind, of |-> n, text |-> text]
  BY DEF Expected
<1> HIDE DEF kind
<1>3. kind \in {"StringEq", "StringEqCI", "CharClass"}
  BY <1>1 DEF kind
<1> QED
  BY <1>2, <1>3 DEF Expectation

LEMMA LeafTurn ==
  ASSUME IInv, NEW kinds, NEW ops, Going(kinds, ops),
         kinds \subseteq Literals \cup {"class", "unit", "not"}
  PROVE  /\ phase # "idle" /\ stack # <<>> /\ phase = "call"
         /\ Kind(Top.node) \in kinds /\ Top.op \in ops
         /\ NowLeft = Leaves(Top.node, Mode(Top.op), input, Top.pos)
         /\ Top.cur = Top.pos /\ Top.op \in Matching \cup Failing
<1>1. /\ phase # "idle" /\ stack # <<>> /\ phase = "call"
      /\ Kind(Top.node) \in kinds /\ Top.op \in ops
  BY GoingFacts DEF Going
<1>2. Kind(Top.node) \notin {"seq", "vec", "alt", "vec1"}
  BY <1>1 DEF Literals
<1>3. Top.cur = Top.pos /\ NowLeft = LeftHere(input, Top)
  BY <1>1, <1>2, TurnFacts
<1>4. LeftHere(input, Top) = Leaves(Top.node, Mode(Top.op), input, Top.cur)
  BY <1>2 DEF LeftHere, Branches
<1>5. Top.op \in Matching \cup Failing
  BY <1>1, TurnFacts DEF FrameSet
<1> QED
  BY <1>1, <1>3, <1>4, <1>5

LEMMA AgreesSpellsUpTo ==
  ASSUME NEW n, NEW p, NEW k
  PROVE  AgreesUpTo(n, p, k) <=> SpellsUpTo(n, input, p, k)
BY DEF AgreesUpTo, Agrees, SpellsUpTo

LEMMA LiteralMatchReports ==
  ASSUME IInv, ReportsInv, LiteralMatch
  PROVE  ReportsInv'
<1> DEFINE n == Top.node
           p == Top.pos
<1>1. Going(Literals, Matching)
  BY DEF LiteralMatch
<1>2. /\ phase # "idle" /\ stack # <<>> /\ phase = "call"
      /\ Kind(n) \in Literals /\ Top.op \in Matching
      /\ NowLeft = Leaves(n, Mode(Top.op), input, p)
  BY <1>1, LeafTurn
<1>3. /\ input \in Inputs /\ n \in Node /\ p \in 0..Len(input) /\ Mode(Top.op) = "match"
      /\ Len(Def[n].text) \in Nat
  BY <1>2, TurnFacts, LiteralFirst
<1>4. Departs(n, input, p) = {}
  <2>1. SpellsUpTo(n, input, p, Len(Def[n].text))
    BY AgreesSpellsUpTo DEF LiteralMatch
  <2>2. \A l \in 0..Len(Def[n].text) : SpellsUpTo(n, input, p, l)
    BY <1>3, <2>1 DEF SpellsUpTo
  <2> QED
    BY <2>2 DEF Departs
<1>5. NowLeft = EmptyHistory
  <2>1. Leaves(n, "match", input, p) = LeafLeaves(n, input, p)
    BY <1>2, <1>3, LeafLeavesFacts DEF Modes
  <2>2. Kind(n) # "class"
    BY <1>2 DEF Literals
  <2> QED
    BY <1>2, <1>3, <1>4, <2>1, <2>2 DEF LeafLeaves
<1>6. UNCHANGED history /\ \E r : Return(r)
  BY DEF LiteralMatch
<1> QED
  BY <1>2, <1>5, <1>6, SilentReturn

\* Where a character of the literal departs from the text is one place.
LEMMA DepartsOnce ==
  ASSUME NEW n \in Node, Kind(n) \in Literals, NEW s, NEW p,
         NEW k \in 0..Len(Def[n].text), NEW l \in 0..Len(Def[n].text),
         IsChar(Def[n].text, k, l), SpellsUpTo(n, s, p, k), ~SpellsUpTo(n, s, p, l)
  PROVE  Departs(n, s, p) # {} /\ Min(Departs(n, s, p)) = k
<1> DEFINE text == Def[n].text
           D == Departs(n, s, p)
<1>1. Len(text) \in Nat
  BY LiteralFirst
<1>2. k \in D
  BY DEF Departs
<1>3. \A a, b \in 0..Len(text) : a <= b /\ SpellsUpTo(n, s, p, b) => SpellsUpTo(n, s, p, a)
  BY <1>1 DEF SpellsUpTo
<1>4. ASSUME NEW j \in D
      PROVE  j = k
  <2>1. PICK m \in 0..Len(text) :
          IsChar(text, j, m) /\ SpellsUpTo(n, s, p, j) /\ ~SpellsUpTo(n, s, p, m)
    BY DEF Departs
  <2>2. j \in 0..Len(text)
    BY DEF Departs
  <2>3. /\ IsBoundary(text, j) /\ IsBoundary(text, k)
        /\ \A q \in j + 1 .. m - 1 : ~IsBoundary(text, q)
        /\ \A q \in k + 1 .. l - 1 : ~IsBoundary(text, q)
    BY <2>1 DEF IsChar
  <2>4. CASE k < j
    <3>1. l <= j
      BY <1>1, <2>2, <2>3, <2>4
    <3> QED
      BY <1>3, <2>1, <2>2, <3>1
  <2>5. CASE j < k
    <3>1. m <= k
      BY <1>1, <2>2, <2>3, <2>5
    <3> QED
      BY <1>3, <2>1, <3>1
  <2> QED
    BY <1>1, <2>2, <2>4, <2>5
<1>5. D \in SUBSET Nat /\ D # {}
  BY <1>1, <1>2 DEF Departs
<1> HIDE DEF D
<1>6. Min(D) \in D
  BY <1>5, MinFacts
<1> QED
  BY <1>4, <1>5, <1>6 DEF D

LEMMA LiteralMismatchReports ==
  ASSUME IInv, ReportsInv, LiteralMismatch
  PROVE  ReportsInv'
<1> DEFINE n == Top.node
           p == Top.pos
           text == Def[n].text
           rest(k) == Slice(text, k, Len(text))
<1>1. Going(Literals, Matching)
  BY DEF LiteralMismatch
<1>2. /\ phase # "idle" /\ stack # <<>> /\ phase = "call"
      /\ Kind(n) \in Literals /\ Top.op \in Matching
      /\ NowLeft = Leaves(n, Mode(Top.op), input, p)
  BY <1>1, LeafTurn
<1>3. /\ input \in Inputs /\ n \in Node /\ p \in 0..Len(input) /\ Mode(Top.op) = "match"
      /\ text \in Text /\ Len(text) \in Nat /\ p \in Nat
  BY <1>2, TurnFacts, LiteralFirst, NodeFacts
<1>4. PICK k \in 0..Len(text) : \E l \in 0..Len(text) :
        /\ IsChar(text, k, l) /\ AgreesUpTo(n, p, k) /\ ~AgreesUpTo(n, p, l)
        /\ Expect(p + k, Expected(n, rest(k)))
  BY DEF LiteralMismatch
<1>5. PICK l \in 0..Len(text) :
        /\ IsChar(text, k, l) /\ AgreesUpTo(n, p, k) /\ ~AgreesUpTo(n, p, l)
        /\ Expect(p + k, Expected(n, rest(k)))
  BY <1>4
<1>6. SpellsUpTo(n, input, p, k) /\ ~SpellsUpTo(n, input, p, l)
  BY <1>5, AgreesSpellsUpTo
<1>7. Departs(n, input, p) # {} /\ Min(Departs(n, input, p)) = k
  BY <1>2, <1>3, <1>5, <1>6, DepartsOnce
<1>8. NowLeft = Single(p + k, Expected(n, rest(k)))
  <2>1. Leaves(n, "match", input, p) = LeafLeaves(n, input, p)
    BY <1>2, <1>3, LeafLeavesFacts DEF Modes
  <2>2. Kind(n) # "class"
    BY <1>2 DEF Literals
  <2> QED
    BY <1>2, <1>3, <1>7, <2>1, <2>2 DEF LeafLeaves
<1>9. p + k \in Nat /\ Expected(n, rest(k)) \in Expectation
  <2>1. rest(k) \in Text
    BY <1>3, SliceProperties
  <2> QED
    BY <1>2, <1>3, <2>1, ExpectedType
<1>10. Expect(p + k, Expected(n, rest(k))) /\ Return(Nothing)
  BY <1>5 DEF LiteralMismatch
<1> HIDE DEF rest
<1> QED
  BY <1>2, <1>8, <1>9, <1>10, ExpectReturn

LEMMA CharMatchReports ==
  ASSUME IInv, ReportsInv, CharMatch
  PROVE  ReportsInv'
<1> DEFINE n == Top.node
           p == Top.pos
<1>1. Going({"class"}, Matching)
  BY DEF CharMatch
<1>2. /\ phase # "idle" /\ stack # <<>> /\ phase = "call"
      /\ Kind(n) = "class" /\ Top.op \in Matching
      /\ NowLeft = Leaves(n, Mode(Top.op), input, p)
  BY <1>1, LeafTurn
<1>3. input \in Inputs /\ n \in Node /\ p \in 0..Len(input) /\ Mode(Top.op) = "match"
  BY <1>2, TurnFacts
<1>4. CharEnds(n, input, p) # {}
  BY DEF CharMatch, CharEnds, CharHere
<1>5. NowLeft = EmptyHistory
  <2>1. Leaves(n, "match", input, p) = LeafLeaves(n, input, p)
    BY <1>2, <1>3, LeafLeavesFacts DEF Modes
  <2> QED
    BY <1>2, <1>3, <1>4, <2>1 DEF LeafLeaves
<1>6. UNCHANGED history /\ \E r : Return(r)
  BY DEF CharMatch
<1> QED
  BY <1>2, <1>5, <1>6, SilentReturn

LEMMA CharMismatchReports ==
  ASSUME IInv, ReportsInv, CharMismatch
  PROVE  ReportsInv'
<1> DEFINE n == Top.node
           p == Top.pos
           e == Expected(n, <<>>)
<1>1. Going({"class"}, Matching)
  BY DEF CharMismatch
<1>2. /\ phase # "idle" /\ stack # <<>> /\ phase = "call"
      /\ Kind(n) = "class" /\ Top.op \in Matching
      /\ NowLeft = Leaves(n, Mode(Top.op), input, p)
  BY <1>1, LeafTurn
<1>3. /\ input \in Inputs /\ n \in Node /\ p \in 0..Len(input) /\ Mode(Top.op) = "match"
      /\ p \in Nat
  BY <1>2, TurnFacts
<1>4. CharEnds(n, input, p) = {}
  BY DEF CharMismatch, CharEnds, CharHere
<1>5. NowLeft = Single(p, e)
  <2>1. Leaves(n, "match", input, p) = LeafLeaves(n, input, p)
    BY <1>2, <1>3, LeafLeavesFacts DEF Modes
  <2> QED
    BY <1>2, <1>3, <1>4, <2>1 DEF LeafLeaves
<1>6. e \in Expectation
  <2>1. <<>> \in Text
    BY EmptySeq DEF Text
  <2> QED
    BY <1>2, <1>3, <2>1, ExpectedType
<1>7. Expect(p, e) /\ Return(Nothing)
  BY DEF CharMismatch
<1> HIDE DEF e
<1> QED
  BY <1>2, <1>3, <1>5, <1>6, <1>7, ExpectReturn

LEMMA FailLeafReports ==
  ASSUME IInv, ReportsInv, FailLeaf
  PROVE  ReportsInv'
<1> DEFINE n == Top.node
           p == Top.pos
           e == Expected(n, Def[n].text)
<1>1. Going(Literals \cup {"class"}, Failing)
  BY DEF FailLeaf
<1>2. /\ phase # "idle" /\ stack # <<>> /\ phase = "call"
      /\ Kind(n) \in Literals \cup {"class"} /\ Top.op \in Failing
      /\ NowLeft = Leaves(n, Mode(Top.op), input, p)
  BY <1>1, LeafTurn
<1>3. /\ input \in Inputs /\ n \in Node /\ p \in 0..Len(input) /\ Mode(Top.op) = "fail"
      /\ p \in Nat /\ Def[n].text \in Text
  BY <1>2, TurnFacts, NodeFacts
<1>4. NowLeft = Single(p, e)
  BY <1>2, <1>3, LeafLeavesFacts DEF Modes
<1>5. e \in Expectation
  BY <1>2, <1>3, ExpectedType
<1>6. Expect(p, e) /\ Return(Required(TRUE))
  BY DEF FailLeaf
<1> HIDE DEF e
<1> QED
  BY <1>2, <1>3, <1>4, <1>5, <1>6, ExpectReturn

\* () and a lookahead leave nothing.
LEMMA QuietLeafReports ==
  ASSUME IInv, ReportsInv, NEW kinds, NEW ops, Going(kinds, ops),
         kinds \subseteq {"unit", "not"}, NEW r, Return(r), UNCHANGED history
  PROVE  ReportsInv'
<1> DEFINE n == Top.node
<1>1. /\ phase # "idle" /\ stack # <<>> /\ phase = "call"
      /\ Kind(n) \in {"unit", "not"} /\ Top.op \in Matching \cup Failing
      /\ NowLeft = Leaves(n, Mode(Top.op), input, Top.pos)
  <2>1. kinds \subseteq Literals \cup {"class", "unit", "not"}
    OBVIOUS
  <2> QED
    BY <2>1, LeafTurn
<1>2. input \in Inputs /\ n \in Node /\ Top.pos \in 0..Len(input) /\ Mode(Top.op) \in Modes
  BY <1>1, TurnFacts DEF Modes
<1>3. NowLeft = EmptyHistory
  BY <1>1, <1>2, LeafLeavesFacts
<1> QED
  BY <1>1, <1>3, SilentReturn

LEMMA UnitMatchReports ==
  ASSUME IInv, ReportsInv, UnitMatch
  PROVE  ReportsInv'
<1>1. Going({"unit"}, Matching) /\ UNCHANGED history /\ \E r : Return(r)
  BY DEF UnitMatch
<1> QED
  BY <1>1, QuietLeafReports

LEMMA FailNothingReports ==
  ASSUME IInv, ReportsInv, FailNothing
  PROVE  ReportsInv'
<1>1. Going({"unit", "not"}, Failing) /\ UNCHANGED history /\ \E r : Return(r)
  BY DEF FailNothing
<1> QED
  BY <1>1, QuietLeafReports

\* What its kid reports is all an activation reports that has no other.
LEMMA QuietReturnReports ==
  ASSUME IInv, ReportsInv, NEW kinds, NEW ops, Answered(kinds, ops),
         ~Branches(Top.node, Mode(Top.op)),
         ~ReadsItem(Top.node, Mode(Top.op), input, Top.cur),
         ~(Kind(Top.node) \in Conversions /\ Mode(Top.op) = "match"),
         Kind(Top.node) # "not" \/ Top.op \in Failing,
         NEW r, Return(r), UNCHANGED history
  PROVE  ReportsInv'
<1>1. phase # "idle" /\ stack # <<>> /\ phase = "return"
  BY AnsweredFacts DEF Answered
<1>2. NowLeft = LeftAfter(input, Top)
  BY <1>1, TurnFacts
<1>3. LeftAfter(input, Top) = EmptyHistory
  BY LeftAfterIs
<1> QED
  BY <1>1, <1>2, <1>3, SilentReturn

LEMMA OptionReturnReports ==
  ASSUME IInv, ReportsInv, OptionReturn
  PROVE  ReportsInv'
<1>1. Answered({"opt"}, Matching) /\ UNCHANGED history /\ \E r : Return(r)
  BY DEF OptionReturn
<1>2. Kind(Top.node) = "opt"
  BY <1>1 DEF Answered
<1>3. /\ ~Branches(Top.node, Mode(Top.op))
      /\ ~ReadsItem(Top.node, Mode(Top.op), input, Top.cur)
      /\ Kind(Top.node) \notin Conversions /\ Kind(Top.node) # "not"
  BY <1>2 DEF Branches, ReadsItem, Conversions
<1> QED
  BY <1>1, <1>3, QuietReturnReports

LEMMA UnwrapReports ==
  ASSUME IInv, ReportsInv, Unwrap
  PROVE  ReportsInv'
<1>1. Answered({"box", "raw", "phantom"}, Matching) /\ UNCHANGED history /\ \E r : Return(r)
  BY DEF Unwrap
<1>2. Kind(Top.node) \in {"box", "raw", "phantom"}
  BY <1>1 DEF Answered
<1>3. /\ ~Branches(Top.node, Mode(Top.op))
      /\ ~ReadsItem(Top.node, Mode(Top.op), input, Top.cur)
      /\ Kind(Top.node) \notin Conversions /\ Kind(Top.node) # "not"
  BY <1>2 DEF Branches, ReadsItem, Conversions
<1> QED
  BY <1>1, <1>3, QuietReturnReports

LEMMA Vec1ReturnReports ==
  ASSUME IInv, ReportsInv, Vec1Return
  PROVE  ReportsInv'
<1>1. Answered({"vec1"}, Matching) /\ UNCHANGED history /\ \E r : Return(r)
  BY DEF Vec1Return
<1>2. /\ Kind(Top.node) = "vec1" /\ phase # "idle" /\ stack # <<>> /\ Top.op \in Matching
  BY <1>1, AnsweredFacts
<1>3. Mode(Top.op) = "match"
  BY <1>2, TurnFacts
<1>4. /\ ~Branches(Top.node, Mode(Top.op))
      /\ ~ReadsItem(Top.node, Mode(Top.op), input, Top.cur)
      /\ Kind(Top.node) \notin Conversions /\ Kind(Top.node) # "not"
  BY <1>2, <1>3 DEF Branches, ReadsItem, Conversions
<1> QED
  BY <1>1, <1>4, QuietReturnReports

LEMMA FailWrappedReports ==
  ASSUME IInv, ReportsInv, FailWrapped
  PROVE  ReportsInv'
<1>1. /\ Answered(Wrappers \cup Conversions, Failing) /\ UNCHANGED history
      /\ \E r : Return(r)
  BY DEF FailWrapped
<1>2. /\ Kind(Top.node) \in Wrappers \cup Conversions /\ phase # "idle" /\ stack # <<>>
      /\ Top.op \in Failing
  BY <1>1, AnsweredFacts
<1>3. Mode(Top.op) = "fail"
  BY <1>2, TurnFacts
<1>4. /\ ~Branches(Top.node, Mode(Top.op))
      /\ ~ReadsItem(Top.node, Mode(Top.op), input, Top.cur)
      /\ Mode(Top.op) # "match"
  BY <1>2, <1>3 DEF Branches, ReadsItem, Wrappers, Conversions
<1> QED
  BY <1>1, <1>2, <1>4, QuietReturnReports

\* Whether a Vec reads another item, the table and the code agree.
LEMMA ItemRead ==
  ASSUME IInv, ReadsInv, Answered({"vec"}, Matching)
  PROVE  LET n == Top.node
             kid == Reads(Kids(n)[1], input, Top.cur)
         IN /\ phase # "idle" /\ stack # <<>> /\ phase = "return" /\ Kind(n) = "vec"
            /\ Mode(Top.op) = "match" /\ Top.op \in Matching
            /\ ReadsItem(n, Mode(Top.op), input, Top.cur) <=> OneMore(Top, ret)
            /\ ret.end = kid.end /\ ret.end \in Nat /\ ret.print \in Text
            /\ Top.i = 1
<1> DEFINE n == Top.node
           kid == Reads(Callee(Top), input, Top.cur)
<1>1. /\ phase # "idle" /\ stack # <<>> /\ Kind(n) = "vec" /\ Top.op \in Matching
      /\ ret.ok = kid.ok /\ ret.end = kid.end /\ ret.end \in Nat /\ ret.print \in Text
  BY KidMeans
<1>2. phase = "return"
  BY DEF Answered
<1>3. Indexed(Top) /\ Mode(Top.op) = "match"
  BY <1>1, TurnFacts
<1>4. Top.i = 1 /\ Callee(Top) = Kids(n)[1]
  BY <1>1, <1>3 DEF Indexed, Callee, KidIndex
<1>5. ReadsItem(n, Mode(Top.op), input, Top.cur) <=> OneMore(Top, ret)
  BY <1>1, <1>3, <1>4 DEF ReadsItem, OneMore
<1> QED
  BY <1>1, <1>2, <1>3, <1>4, <1>5

LEMMA VecItemReports ==
  ASSUME IInv, ReadsInv, ReportsInv, VecItem
  PROVE  ReportsInv'
<1> DEFINE n == Top.node
           kid == Reads(Kids(n)[1], input, Top.cur)
           out == Top.out \o ret.print
           items == 1
           f == [Top EXCEPT !.cur = ret.end, !.out = out, !.items = items]
<1>1. Answered({"vec"}, Matching) /\ OneMore(Top, ret) /\ Continue(f)
  BY DEF VecItem
<1>2. /\ phase # "idle" /\ stack # <<>> /\ phase = "return" /\ Kind(n) = "vec"
      /\ Mode(Top.op) = "match"
      /\ ReadsItem(n, Mode(Top.op), input, Top.cur)
      /\ ret.end = kid.end /\ ret.end \in Nat /\ ret.print \in Text
      /\ Top.i = 1
  <2> HIDE DEF f
  <2> QED
    BY <1>1, ItemRead
<1>3. Top \in FrameSet /\ NowLeft = LeftAfter(input, Top) /\ Top.out \in Text
  BY <1>2, TurnFacts DEF FrameSet
<1>4. NowLeft = Leaves(n, Mode(Top.op), input, kid.end)
  BY <1>2, <1>3, LeftAfterIs
<1>5. out \in Text /\ items \in {0, 1}
  BY <1>2, <1>3, ConcatProperties DEF Text
<1> HIDE DEF out, items
<1>6. /\ f \in FrameSet /\ f.node = n /\ f.op = Top.op /\ f.ctx = Top.ctx
      /\ f.cur = ret.end /\ f.i = Top.i
  BY <1>2, <1>3, <1>5 DEF FrameSet
<1> HIDE DEF f
<1>7. LeftHere(input, f) = Leaves(n, Mode(Top.op), input, ret.end)
  BY <1>2, <1>6 DEF LeftHere, Branches
<1>8. LeftHere(input, f) = NowLeft
  BY <1>2, <1>4, <1>7
<1>9. Kind(Top.node) # "not" /\ f.node = Top.node /\ (f.i = 0 => Top.i = 0)
  BY <1>2, <1>6
<1> QED
  BY <1>1, <1>2, <1>6, <1>8, <1>9, ContinueReports

LEMMA VecEndReports ==
  ASSUME IInv, ReadsInv, ReportsInv, VecEnd
  PROVE  ReportsInv'
<1>1. Answered({"vec"}, Matching) /\ ~OneMore(Top, ret) /\ UNCHANGED history
      /\ \E r : Return(r)
  BY DEF VecEnd
<1>2. /\ Kind(Top.node) = "vec"
      /\ ~ReadsItem(Top.node, Mode(Top.op), input, Top.cur)
  BY <1>1, ItemRead
<1>3. /\ ~Branches(Top.node, Mode(Top.op))
      /\ Kind(Top.node) \notin Conversions /\ Kind(Top.node) # "not"
  BY <1>2 DEF Branches, Conversions
<1> QED
  BY <1>1, <1>2, <1>3, QuietReturnReports

\* What the user's code rejects, the table and the code agree.
LEMMA ConversionLeaves ==
  ASSUME IInv, ReadsInv, Answered(Conversions, Matching)
  PROVE  LET n == Top.node
         IN /\ phase # "idle" /\ stack # <<>> /\ phase = "return"
            /\ Kind(n) \in Conversions /\ Kind(n) # "not"
            /\ ret.ok => ret.end \in 0..Len(input)
            /\ NowLeft =
                 IF ~ret.ok THEN EmptyHistory
                 ELSE IF Unconvertible(n, ConvertSource)
                 THEN Single(ret.end, Verdict("GrammarFrom", ret.end))
                 ELSE IF Invalid(n, ConvertSource)
                 THEN Single(ret.end, Verdict("Valid", ret.end))
                 ELSE EmptyHistory
<1> DEFINE n == Top.node
           kid == Reads(Kids(n)[1], input, Top.pos)
<1>1. /\ phase # "idle" /\ stack # <<>> /\ Kind(n) \in Conversions
      /\ Top.op \in Matching
      /\ kid \in Found /\ ret.ok = kid.ok /\ ret.end = kid.end
  BY WrappedMeans
<1>2. phase = "return" /\ Kind(n) # "not" /\ Kind(n) \notin {"seq", "vec"}
  BY <1>1 DEF Answered, Conversions
<1>3. Mode(Top.op) = "match" /\ Top.cur = Top.pos /\ NowLeft = LeftAfter(input, Top)
      /\ Top.cur \in 0..Len(input) /\ Len(input) \in Nat
  BY <1>1, <1>2, TurnFacts
<1>4. NowLeft = Rejection(n, input, Top.pos, kid)
  BY <1>1, <1>3, LeftAfterIs
<1>5. ret.ok => ret.end \in 0..Len(input)
  <2>1. ret.ok => ret.end \in Top.cur .. Len(input)
    BY KidMeans
  <2> QED
    BY <1>3, <2>1
<1>6. Kind(n) \in {"fromStr", "tryFrom"} <=> Kind(n) # "from"
  BY <1>1 DEF Conversions
<1>7. /\ Unconvertible(n, ConvertSource) <=>
           Kind(n) \in {"fromStr", "tryFrom"} /\ ~Converts(n, Slice(input, Top.pos, kid.end))
      /\ Invalid(n, ConvertSource) <=> Invalid(n, Slice(input, Top.pos, kid.end))
  BY <1>1, <1>6 DEF Unconvertible, ConvertSource
<1> HIDE DEF kid
<1>8. Rejection(n, input, Top.pos, kid) =
        IF ~kid.ok THEN EmptyHistory
        ELSE IF Kind(n) \in {"fromStr", "tryFrom"} /\ ~Converts(n, Slice(input, Top.pos, kid.end))
        THEN Single(kid.end, Verdict("GrammarFrom", kid.end))
        ELSE IF Invalid(n, Slice(input, Top.pos, kid.end))
        THEN Single(kid.end, Verdict("Valid", kid.end))
        ELSE EmptyHistory
  BY DEF Rejection, Verdict, Invalid
<1> QED
  BY <1>1, <1>2, <1>4, <1>5, <1>7, <1>8

LEMMA ConvertReports ==
  ASSUME IInv, ReadsInv, ReportsInv, Convert
  PROVE  ReportsInv'
<1>1. /\ Answered(Conversions, Matching) /\ ret.ok
      /\ ~Unconvertible(Top.node, ConvertSource) /\ ~Invalid(Top.node, ConvertSource)
      /\ UNCHANGED history /\ \E r : Return(r)
  BY DEF Convert
<1>2. /\ phase # "idle" /\ stack # <<>> /\ phase = "return" /\ Kind(Top.node) # "not"
      /\ NowLeft = EmptyHistory
  BY <1>1, ConversionLeaves
<1> QED
  BY <1>1, <1>2, SilentReturn

LEMMA SourceFailedReports ==
  ASSUME IInv, ReadsInv, ReportsInv, SourceFailed
  PROVE  ReportsInv'
<1>1. /\ Answered(Conversions, Matching) /\ ~ret.ok
      /\ UNCHANGED history /\ \E r : Return(r)
  BY DEF SourceFailed
<1>2. /\ phase # "idle" /\ stack # <<>> /\ phase = "return" /\ Kind(Top.node) # "not"
      /\ NowLeft = EmptyHistory
  BY <1>1, ConversionLeaves
<1> QED
  BY <1>1, <1>2, SilentReturn

LEMMA ConvertRejectedReports ==
  ASSUME IInv, ReadsInv, ReportsInv, ConvertRejected
  PROVE  ReportsInv'
<1> DEFINE n == Top.node
<1>1. Answered(Conversions, Matching) /\ ret.ok /\ Return(Nothing)
  BY DEF ConvertRejected
<1>2. /\ phase # "idle" /\ stack # <<>> /\ phase = "return" /\ Kind(n) # "not"
      /\ ret.end \in 0..Len(input)
      /\ Unconvertible(n, ConvertSource) =>
           NowLeft = Single(ret.end, Verdict("GrammarFrom", ret.end))
      /\ ~Unconvertible(n, ConvertSource) /\ Invalid(n, ConvertSource) =>
           NowLeft = Single(ret.end, Verdict("Valid", ret.end))
  BY <1>1, ConversionLeaves
<1>3. ret.end \in Nat /\ ret.end <= Len(input) /\ Len(input) \in Nat
  BY <1>2, TurnFacts
<1>4. Verdict("Valid", ret.end) \in Expectation
      /\ Verdict("GrammarFrom", ret.end) \in Expectation
  BY <1>2, <1>3, VerdictUnmet
<1>5. CASE Unconvertible(n, ConvertSource)
  <2>1. Expect(ret.end, Verdict("GrammarFrom", ret.end))
    BY <1>5 DEF ConvertRejected
  <2> QED
    BY <1>1, <1>2, <1>3, <1>4, <1>5, <2>1, ExpectReturn
<1>6. CASE ~Unconvertible(n, ConvertSource)
  <2>1. Invalid(n, ConvertSource) /\ Expect(ret.end, Verdict("Valid", ret.end))
    BY <1>6 DEF ConvertRejected
  <2> QED
    BY <1>1, <1>2, <1>3, <1>4, <1>6, <2>1, ExpectReturn
<1> QED
  BY <1>5, <1>6

\* On to the next kid: what is left is what the table says of it.
LEMMA NextKidReports ==
  ASSUME IInv, ReportsInv, phase = "return", stack # <<>>,
         Branches(Top.node, Mode(Top.op)),
         GoesOn(Top.node, Mode(Top.op), Top.i, input, Top.cur),
         NEW f \in FrameSet, Continue(f), f.node = Top.node, f.op = Top.op,
         f.pos = Top.pos, f.ctx = Top.ctx, f.i = Top.i + 1,
         f.cur = GoesOnAt(Top.node, Mode(Top.op), Top.i, input, Top.cur)
  PROVE  ReportsInv'
<1> DEFINE n == Top.node
           mode == Mode(Top.op)
           next == LeavesFrom(n, mode, f.i, input, f.cur)
<1>1. Top.i \in Nat /\ NowLeft = LeftAfter(input, Top)
  BY TurnFacts
<1>2. AfterKid(n, mode, Top.i, input, Top.cur) = next
  BY DEF AfterKid
<1>3. f.i # 0
  BY <1>1
<1>4. CASE Kind(n) = "seq" /\ mode = "match"
  <2>1. LeftAfter(input, Top) = Joined(next, Rejects(input, Top))
    BY <1>2, <1>4, LeftAfterIs
  <2>2. LeftHere(input, f) = Joined(next, Rejects(input, f))
    BY <1>4 DEF LeftHere
  <2>3. Rejects(input, f) = Rejects(input, Top)
    BY DEF Rejects
  <2>4. LeftHere(input, f) = NowLeft /\ Kind(n) # "not" /\ phase # "idle"
    BY <1>1, <1>4, <2>1, <2>2, <2>3
  <2> QED
    BY <1>3, <2>4, ContinueReports
<1>5. CASE ~(Kind(n) = "seq" /\ mode = "match")
  <2>1. LeftAfter(input, Top) = next
    BY <1>2, <1>5, LeftAfterIs
  <2>2. LeftHere(input, f) = next
    BY <1>3, <1>5 DEF LeftHere
  <2>3. LeftHere(input, f) = NowLeft /\ Kind(n) # "not" /\ phase # "idle"
    BY <1>1, <2>1, <2>2 DEF Branches
  <2> QED
    BY <1>3, <2>3, ContinueReports
<1> QED
  BY <1>4, <1>5

\* No further kid is tried, and nothing was refused.
LEMMA KidsDoneReports ==
  ASSUME IInv, ReportsInv, phase = "return", stack # <<>>,
         Branches(Top.node, Mode(Top.op)),
         AfterKid(Top.node, Mode(Top.op), Top.i, input, Top.cur) = EmptyHistory,
         Kind(Top.node) = "seq" /\ Mode(Top.op) = "match" =>
           Rejects(input, Top) = EmptyHistory,
         NEW r, Return(r), UNCHANGED history
  PROVE  ReportsInv'
<1> DEFINE n == Top.node
           mode == Mode(Top.op)
<1>1. NowLeft = LeftAfter(input, Top)
  BY TurnFacts
<1>2. NowLeft = EmptyHistory
  <2>1. CASE Kind(n) = "seq" /\ mode = "match"
    <3>1. LeftAfter(input, Top) = Joined(EmptyHistory, EmptyHistory)
      BY <2>1, LeftAfterIs
    <3>2. Joined(EmptyHistory, EmptyHistory) = EmptyHistory
      BY EmptyHistoryType, JoinedNeutral
    <3> QED
      BY <1>1, <3>1, <3>2
  <2>2. CASE ~(Kind(n) = "seq" /\ mode = "match")
    BY <1>1, <2>2, LeftAfterIs
  <2> QED
    BY <2>1, <2>2
<1>3. Kind(n) # "not" /\ phase # "idle"
  BY DEF Branches
<1> QED
  BY <1>2, <1>3, SilentReturn

LEMMA NextFieldReports ==
  ASSUME IInv, ReadsInv, ReportsInv, NextField
  PROVE  ReportsInv'
<1> DEFINE n == Top.node
           kid == Reads(Callee(Top), input, Top.cur)
           out == Top.out \o ret.print
           i == Top.i + 1
           f == [Top EXCEPT !.cur = ret.end, !.out = out, !.i = i]
<1>1. Answered({"seq"}, Matching) /\ ret.ok /\ Continue(f)
  BY DEF NextField
<1> HIDE DEF f, out, i
<1>2. /\ phase # "idle" /\ stack # <<>> /\ Kind(n) = "seq" /\ Top.op \in Matching
      /\ ret.ok = kid.ok /\ ret.end = kid.end /\ ret.end \in Nat /\ ret.print \in Text
  <2> HIDE DEF n, kid
  <2>1. Kind(Top.node) \in {"seq"}
    BY <1>1, KidMeans
  <2> QED
    BY <1>1, <2>1, KidMeans DEF n, kid
<1>3. phase = "return"
  BY <1>1 DEF Answered
<1>4. /\ Top \in FrameSet /\ Mode(Top.op) = "match" /\ Top.i \in Nat
      /\ Top.out \in Text
  BY <1>2, TurnFacts DEF FrameSet
<1>5. Callee(Top) = Kids(n)[Top.i]
  BY <1>2 DEF KidIndex, Callee
<1>6. Branches(n, Mode(Top.op)) /\ GoesOn(n, Mode(Top.op), Top.i, input, Top.cur)
      /\ GoesOnAt(n, Mode(Top.op), Top.i, input, Top.cur) = ret.end
  BY <1>1, <1>2, <1>4, <1>5 DEF Branches, GoesOn, GoesOnAt
<1>7. out \in Text /\ i \in Nat
  BY <1>2, <1>4, ConcatProperties DEF Text, out, i
<1>8. /\ f \in FrameSet /\ f.node = n /\ f.op = Top.op /\ f.pos = Top.pos
      /\ f.ctx = Top.ctx /\ f.i = i /\ f.cur = ret.end
  BY <1>2, <1>4, <1>7 DEF FrameSet, f
<1> QED
  BY <1>1, <1>2, <1>3, <1>6, <1>8, NextKidReports DEF i

LEMMA FieldFailedReports ==
  ASSUME IInv, ReadsInv, ReportsInv, FieldFailed
  PROVE  ReportsInv'
<1> DEFINE n == Top.node
           kid == Reads(Callee(Top), input, Top.cur)
           whole == Rest(n, 1, input, Top.pos)
<1>0. Answered({"seq"}, Matching) /\ ~ret.ok /\ Return(Nothing) /\ UNCHANGED history
  BY DEF FieldFailed
<1>1. /\ phase # "idle" /\ stack # <<>> /\ Kind(n) = "seq"
      /\ Top.op \in Matching /\ KidIndex(Top) \in 1..Len(Kids(n))
      /\ ret.ok = kid.ok
  BY <1>0, KidMeans
<1>2. /\ n \in Node /\ input \in Inputs /\ Top.cur \in 0..Len(input)
      /\ Mode(Top.op) = "match" /\ phase = "return"
  BY <1>0, <1>1, TurnFacts DEF Answered
<1>3. /\ Top.i \in 1 .. Len(Kids(n)) + 1 /\ Len(Kids(n)) \in Nat
      /\ Continues(Top, whole, Rest(n, Top.i, input, Top.cur))
  BY <1>1, SequenceMeans
<1>4. KidIndex(Top) = Top.i /\ Callee(Top) = Kids(n)[Top.i]
  BY <1>1 DEF KidIndex, Callee
<1>5. ~(Top.i > Len(Kids(n)))
  BY <1>1, <1>3, <1>4
<1>6. Rest(n, Top.i, input, Top.cur) = Unread
  BY <1>0, <1>1, <1>2, <1>3, <1>4, <1>5, RestReads
<1>7. whole.ok = FALSE
  <2>1. Rest(n, Top.i, input, Top.cur).ok = FALSE
    BY <1>6 DEF Unread
  <2> HIDE DEF whole
  <2> QED
    BY <1>3, <2>1 DEF Continues
<1>8. Rejects(input, Top) = EmptyHistory
  BY <1>7 DEF Rejects, Rejection
<1>9. Branches(n, Mode(Top.op)) /\ ~GoesOn(n, Mode(Top.op), Top.i, input, Top.cur)
  BY <1>0, <1>1, <1>2, <1>4 DEF Branches, GoesOn
<1>10. AfterKid(n, Mode(Top.op), Top.i, input, Top.cur) = EmptyHistory
  BY <1>9 DEF AfterKid
<1> QED
  BY <1>0, <1>1, <1>2, <1>8, <1>9, <1>10, KidsDoneReports

\* All fields were read: what is left is the verdict of the validator.
LEMMA FieldsLeave ==
  ASSUME IInv, ReadsInv, Going({"seq"}, Matching), ~HasCall(Top)
  PROVE  LET n == Top.node
         IN /\ phase = "call" /\ stack # <<>>
            /\ Top.cur \in Nat /\ Top.cur <= Len(input)
            /\ NowLeft = IF Invalid(n, Slice(input, Top.pos, Top.cur))
                         THEN Single(Top.cur, Verdict("Valid", Top.cur))
                         ELSE EmptyHistory
<1> DEFINE n == Top.node
           whole == Rest(n, 1, input, Top.pos)
           t == Slice(input, Top.pos, Top.cur)
<1>1. /\ phase # "idle" /\ stack # <<>> /\ Kind(n) = "seq" /\ Top.op \in Matching
      /\ whole.ok = TRUE /\ whole.end = Top.cur
  BY FieldsMean
<1>2. phase = "call"
  BY DEF Going
<1>3. /\ n \in Node /\ input \in Inputs /\ Mode(Top.op) = "match"
      /\ Top.pos \in 0..Len(input)
      /\ Top.cur \in 0..Len(input) /\ Len(input) \in Nat
      /\ NowLeft = LeftHere(input, Top)
  BY <1>1, <1>2, TurnFacts
<1>4. Top.i \in 1 .. Len(Kids(n)) + 1 /\ Len(Kids(n)) \in Nat
  BY <1>1, SequenceMeans
<1>5. Top.i > Len(Kids(n))
  <2>1. KidIndex(Top) = Top.i /\ DOMAIN Kids(n) = 1..Len(Kids(n))
    BY <1>1, <1>3, NodeFacts DEF KidIndex
  <2>2. Top.i \notin 1..Len(Kids(n))
    BY <1>1, <2>1 DEF HasCall
  <2> QED
    BY <1>4, <2>2
<1>6. LeavesFrom(n, "match", Top.i, input, Top.cur) = EmptyHistory
  <2>1. Branches(n, "match") /\ "match" \in Modes
    BY <1>1 DEF Branches, Modes
  <2> QED
    BY <1>3, <1>4, <1>5, <2>1, FromFacts
<1>7. Rejects(input, Top) \in HistorySet
  BY <1>1, <1>3, RejectsType DEF Rejects
<1>8. NowLeft = Rejects(input, Top)
  BY <1>1, <1>3, <1>6, <1>7, JoinedNeutral DEF LeftHere
<1>9. Kind(n) \notin {"fromStr", "tryFrom"}
  BY <1>1
<1> HIDE DEF whole
<1>10. Rejection(n, input, Top.pos, whole)
         = IF Invalid(n, t) THEN Single(Top.cur, Verdict("Valid", Top.cur))
           ELSE EmptyHistory
  BY <1>1, <1>9 DEF Rejection, Verdict, Invalid
<1> QED
  BY <1>1, <1>2, <1>3, <1>8, <1>10 DEF Rejects, whole

LEMMA FieldsParsedReports ==
  ASSUME IInv, ReadsInv, ReportsInv, FieldsParsed
  PROVE  ReportsInv'
<1>1. /\ Going({"seq"}, Matching) /\ ~HasCall(Top) /\ UNCHANGED history
      /\ ~Invalid(Top.node, Slice(input, Top.pos, Top.cur)) /\ \E r : Return(r)
  BY DEF FieldsParsed
<1>2. phase = "call" /\ phase # "idle" /\ stack # <<>> /\ NowLeft = EmptyHistory
  BY <1>1, FieldsLeave
<1> QED
  BY <1>1, <1>2, SilentReturn

LEMMA FieldsRejectedReports ==
  ASSUME IInv, ReadsInv, ReportsInv, FieldsRejected
  PROVE  ReportsInv'
<1>1. /\ Going({"seq"}, Matching) /\ ~HasCall(Top) /\ Return(Nothing)
      /\ Invalid(Top.node, Slice(input, Top.pos, Top.cur))
      /\ Expect(Top.cur, Verdict("Valid", Top.cur))
  BY DEF FieldsRejected
<1>2. /\ phase = "call" /\ phase # "idle" /\ stack # <<>>
      /\ Top.cur \in Nat /\ Top.cur <= Len(input)
      /\ NowLeft = Single(Top.cur, Verdict("Valid", Top.cur))
  BY <1>1, FieldsLeave
<1>3. Verdict("Valid", Top.cur) \in Expectation
  BY <1>2, VerdictUnmet
<1> QED
  BY <1>1, <1>2, <1>3, ExpectReturn

\* The table's entry is the variant the reports begin with.
LEMMA DispatchHitReports ==
  ASSUME IInv, ReadsInv, ReportsInv, DispatchHit
  PROVE  ReportsInv'
<1> DEFINE n == Top.node
<1>1. /\ phase # "idle" /\ stack # <<>> /\ Kind(n) = "alt"
      /\ Top.op \in Matching
  BY GoingFacts DEF DispatchHit
<1>2. phase = "call" /\ Top.i = 0
  BY DEF DispatchHit, Going
<1>3. /\ n \in Node /\ input \in Inputs /\ Top.pos \in 0..Len(input)
      /\ Top \in FrameSet /\ Len(Kids(n)) \in Nat /\ Len(stack) \in Nat
      /\ DOMAIN Kids(n) = 1..Len(Kids(n)) /\ Mode(Top.op) = "match"
      /\ NowLeft = LeftHere(input, Top) /\ Top.cur = Top.pos
  BY <1>1, <1>2, TurnFacts, NodeFacts, StackFacts
<1>4. Dispatches(n, "parse")
  <2>1. Len(stack) \in 1..Len(stack) /\ Top = stack[Len(stack)]
    BY <1>1, ToComeIs
  <2> QED
    BY <1>2, <2>1 DEF ReportsInv, BegunRightly
<1>5. \E k \in DOMAIN Kids(n) :
        /\ MayStart(Kids(n)[k], Top.pos)
        /\ \A l \in 1 .. k - 1 : ~MayStart(Kids(n)[l], Top.pos)
        /\ Continue([Top EXCEPT !.i = k])
  BY DEF DispatchHit
<1>6. PICK k \in DOMAIN Kids(n) :
        /\ MayStart(Kids(n)[k], Top.pos)
        /\ \A l \in 1 .. k - 1 : ~MayStart(Kids(n)[l], Top.pos)
        /\ Continue([Top EXCEPT !.i = k])
  BY <1>5
<1> DEFINE f == [Top EXCEPT !.i = k]
           S == Starters(n, input, Top.pos)
<1>7. k \in Nat /\ k \in 1..Len(Kids(n)) /\ k # 0
  BY <1>3
<1>8. S \in SUBSET Nat /\ k \in S /\ \A l \in S : k <= l
  <2>1. S = {j \in 1..Len(Kids(n)) : MayStart(Kids(n)[j], Top.pos)}
    BY DEF Starters, CanStart, StartsAt, MayStart
  <2> HIDE DEF S
  <2>2. k \in S /\ S \in SUBSET Nat
    BY <1>3, <1>6, <1>7, <2>1
  <2>3. \A l \in S : ~(l < k)
    BY <1>3, <1>6, <1>7, <2>1
  <2> QED
    BY <1>7, <2>2, <2>3
<1> HIDE DEF S
<1>9. S # {} /\ Min(S) = k
  <2>1. Min(S) \in S /\ \A l \in S : Min(S) <= l
    BY <1>8, MinFacts
  <2>2. Min(S) \in Nat /\ Min(S) <= k /\ k <= Min(S)
    BY <1>8, <2>1
  <2>3. S # {} /\ \A m \in Nat : m <= k /\ k <= m => m = k
    BY <1>7, <1>8
  <2> QED
    BY <2>2, <2>3
<1>10. BeginsWith(n, "match", input, Top.pos) = k
       /\ BeginsAs(n, "match", input, Top.pos) = "match"
  BY <1>4, <1>9 DEF BeginsWith, BeginsAs, S
<1>11. Branches(n, "match") /\ "match" \in Modes
  BY <1>1 DEF Branches, Modes
<1>12. Leaves(n, "match", input, Top.pos) = LeavesFrom(n, "match", k, input, Top.pos)
  BY <1>1, <1>3, <1>10, <1>11, BranchLeaves
<1>13. Continue(f)
  BY <1>6
<1>14. /\ f \in FrameSet /\ f.node = n /\ f.op = Top.op /\ f.cur = Top.cur
       /\ f.ctx = Top.ctx /\ f.i = k
  BY <1>3, <1>7 DEF FrameSet
<1> HIDE DEF f
<1>15. LeftHere(input, f) = LeavesFrom(n, "match", k, input, Top.pos)
  BY <1>1, <1>3, <1>7, <1>11, <1>14 DEF LeftHere
<1>16. NowLeft = Leaves(n, "match", input, Top.pos)
  BY <1>1, <1>2, <1>3 DEF LeftHere
<1> QED
  BY <1>1, <1>2, <1>7, <1>12, <1>13, <1>14, <1>15, <1>16, ContinueReports

\* Without an entry every variant reports as if it had failed.
LEMMA DispatchMissReports ==
  ASSUME IInv, ReadsInv, ReportsInv, DispatchMiss
  PROVE  ReportsInv'
<1> DEFINE n == Top.node
           f == [Top EXCEPT !.op = "miss", !.i = 1]
           S == Starters(n, input, Top.pos)
<1>1. /\ phase # "idle" /\ stack # <<>> /\ Kind(n) = "alt"
      /\ Top.op \in Matching
  BY GoingFacts DEF DispatchMiss
<1>2. phase = "call" /\ Top.i = 0
  BY DEF DispatchMiss, Going
<1>3. /\ n \in Node /\ input \in Inputs /\ Top.pos \in 0..Len(input)
      /\ Top \in FrameSet /\ Len(Kids(n)) \in Nat /\ Len(stack) \in Nat
      /\ DOMAIN Kids(n) = 1..Len(Kids(n)) /\ Mode(Top.op) = "match"
      /\ NowLeft = LeftHere(input, Top) /\ Top.cur = Top.pos
  BY <1>1, <1>2, TurnFacts, NodeFacts, StackFacts
<1>4. Dispatches(n, "parse")
  <2>1. Len(stack) \in 1..Len(stack) /\ Top = stack[Len(stack)]
    BY <1>1, ToComeIs
  <2> QED
    BY <1>2, <2>1 DEF ReportsInv, BegunRightly
<1>5. S = {}
  BY <1>3 DEF DispatchMiss, Starters, CanStart, StartsAt, MayStart
<1> HIDE DEF S
<1>6. BeginsWith(n, "match", input, Top.pos) = 1
      /\ BeginsAs(n, "match", input, Top.pos) = "fail"
  BY <1>4, <1>5 DEF BeginsWith, BeginsAs, S
<1>7. Branches(n, "match") /\ Branches(n, "fail") /\ "match" \in Modes
  BY <1>1 DEF Branches, Modes
<1>8. Leaves(n, "match", input, Top.pos) = LeavesFrom(n, "fail", 1, input, Top.pos)
  BY <1>1, <1>3, <1>6, <1>7, BranchLeaves
<1>9. Continue(f)
  BY DEF DispatchMiss
<1>10. /\ f \in FrameSet /\ f.node = n /\ f.op = "miss" /\ f.cur = Top.cur
       /\ f.ctx = Top.ctx /\ f.i = 1
  BY <1>3 DEF FrameSet, Failing
<1> HIDE DEF f
<1>11. Mode(f.op) = "fail"
  BY <1>10 DEF Mode, Failing
<1>12. LeftHere(input, f) = LeavesFrom(n, "fail", 1, input, Top.pos)
  BY <1>1, <1>3, <1>7, <1>10, <1>11 DEF LeftHere
<1>13. NowLeft = Leaves(n, "match", input, Top.pos)
  BY <1>1, <1>2, <1>3 DEF LeftHere
<1>14. f.i # 0
  BY <1>10
<1> QED
  BY <1>1, <1>2, <1>8, <1>9, <1>10, <1>12, <1>13, <1>14, ContinueReports

LEMMA VariantMatchedReports ==
  ASSUME IInv, ReadsInv, ReportsInv, VariantMatched
  PROVE  ReportsInv'
<1> DEFINE n == Top.node
<1>1. Answered({"alt"}, Matching) /\ ret.ok /\ Return(ret) /\ UNCHANGED history
  BY DEF VariantMatched
<1>2. /\ phase # "idle" /\ stack # <<>> /\ Kind(n) = "alt" /\ Top.op \in Matching
      /\ ret.ok = Reads(Kids(n)[Top.i], input, Top.pos).ok
  BY <1>1, AlternationMeans
<1>3. phase = "return" /\ Mode(Top.op) = "match" /\ Top.cur = Top.pos
  BY <1>1, <1>2, TurnFacts DEF Answered
<1>4. Branches(n, Mode(Top.op)) /\ ~GoesOn(n, Mode(Top.op), Top.i, input, Top.cur)
  BY <1>1, <1>2, <1>3 DEF Branches, GoesOn
<1>5. AfterKid(n, Mode(Top.op), Top.i, input, Top.cur) = EmptyHistory
  BY <1>4 DEF AfterKid
<1> QED
  BY <1>1, <1>2, <1>3, <1>4, <1>5, KidsDoneReports

LEMMA NextVariantReports ==
  ASSUME IInv, ReadsInv, ReportsInv, NextVariant
  PROVE  ReportsInv'
<1> DEFINE n == Top.node
           i == Top.i + 1
           f == [Top EXCEPT !.i = i]
<1>1. Answered({"alt"}, Matching) /\ ~ret.ok /\ Continue(f)
  BY DEF NextVariant
<1>2. /\ phase # "idle" /\ stack # <<>> /\ Kind(n) = "alt" /\ Top.op \in Matching
      /\ Top \in FrameSet
      /\ ret.ok = Reads(Kids(n)[Top.i], input, Top.pos).ok
  BY <1>1, AlternationMeans
<1>3. phase = "return" /\ Mode(Top.op) = "match" /\ Top.cur = Top.pos /\ Top.i \in Nat
  BY <1>1, <1>2, TurnFacts DEF Answered
<1>4. /\ Branches(n, Mode(Top.op)) /\ GoesOn(n, Mode(Top.op), Top.i, input, Top.cur)
      /\ GoesOnAt(n, Mode(Top.op), Top.i, input, Top.cur) = Top.cur
  BY <1>1, <1>2, <1>3 DEF Branches, GoesOn, GoesOnAt
<1>5. i \in Nat
  BY <1>3
<1> HIDE DEF i
<1>6. /\ f \in FrameSet /\ f.node = n /\ f.op = Top.op /\ f.pos = Top.pos
      /\ f.ctx = Top.ctx /\ f.i = i /\ f.cur = Top.cur
  BY <1>2, <1>5 DEF FrameSet
<1> HIDE DEF f
<1> QED
  BY <1>1, <1>2, <1>3, <1>4, <1>6, NextKidReports DEF i

\* After the last kid there is nothing to report.
LEMMA AfterLastKid ==
  ASSUME IInv, phase # "idle", stack # <<>>, Branches(Top.node, Mode(Top.op)),
         Mode(Top.op) \in Modes, Kind(Top.node) = "alt", Top.i = Len(Kids(Top.node))
  PROVE  AfterKid(Top.node, Mode(Top.op), Top.i, input, Top.cur) = EmptyHistory
<1> DEFINE n == Top.node
           mode == Mode(Top.op)
<1>1. /\ n \in Node /\ input \in Inputs /\ Top.cur \in 0..Len(input)
      /\ Len(Kids(n)) \in Nat
  BY TurnFacts
<1>2. Top.i + 1 \in 1 .. Len(Kids(n)) + 1 /\ Top.i + 1 > Len(Kids(n))
  BY <1>1
<1>3. LeavesFrom(n, mode, Top.i + 1, input, Top.cur) = EmptyHistory
  BY <1>1, <1>2, FromFacts
<1>4. GoesOnAt(n, mode, Top.i, input, Top.cur) = Top.cur
  BY DEF GoesOnAt
<1> QED
  BY <1>3, <1>4 DEF AfterKid

LEMMA NoVariantReports ==
  ASSUME IInv, ReadsInv, ReportsInv, NoVariant
  PROVE  ReportsInv'
<1> DEFINE n == Top.node
<1>1. /\ Answered({"alt"}, Matching) /\ Top.i = Len(Kids(n)) /\ Return(Nothing)
      /\ UNCHANGED history
  BY DEF NoVariant
<1>2. phase # "idle" /\ stack # <<>> /\ Kind(n) = "alt" /\ Top.op \in Matching
  BY <1>1, AlternationMeans
<1>3. phase = "return" /\ Mode(Top.op) = "match"
  BY <1>1, <1>2, TurnFacts DEF Answered
<1>4. Branches(n, Mode(Top.op)) /\ Mode(Top.op) \in Modes
  BY <1>2, <1>3 DEF Branches, Modes
<1>5. AfterKid(n, Mode(Top.op), Top.i, input, Top.cur) = EmptyHistory
  BY <1>1, <1>2, <1>4, AfterLastKid
<1> QED
  BY <1>1, <1>2, <1>3, <1>4, <1>5, KidsDoneReports

LEMMA FailFieldReports ==
  ASSUME IInv, ReportsInv, FailField
  PROVE  ReportsInv'
<1> DEFINE n == Top.node
           i == Top.i + 1
           f == [Top EXCEPT !.i = i]
<1>1. /\ phase # "idle" /\ stack # <<>> /\ Kind(n) \in {"seq", "vec1"}
      /\ Top.op \in Failing /\ Top \in FrameSet /\ Top.i \in Nat
      /\ ret.ok <=> ~First[Kids(n)[Top.i]].nil
  BY KidFailed DEF FailField
<1>2. phase = "return"
  BY DEF FailField, Answered
<1>3. Mode(Top.op) = "fail"
  BY <1>1, TurnFacts
<1>4. Branches(n, Mode(Top.op)) /\ ~(Kind(n) = "seq" /\ Mode(Top.op) = "match")
  BY <1>1, <1>3 DEF Branches
<1>5. /\ GoesOn(n, Mode(Top.op), Top.i, input, Top.cur) <=> ~ret.ok
      /\ GoesOnAt(n, Mode(Top.op), Top.i, input, Top.cur) = Top.cur
  BY <1>1, <1>3 DEF GoesOn, GoesOnAt
<1>6. CASE ret.ok
  <2>1. Return(ret) /\ UNCHANGED history
    BY <1>6 DEF FailField
  <2>2. AfterKid(n, Mode(Top.op), Top.i, input, Top.cur) = EmptyHistory
    BY <1>5, <1>6 DEF AfterKid
  <2> QED
    BY <1>1, <1>2, <1>4, <2>1, <2>2, KidsDoneReports
<1>7. CASE ~ret.ok
  <2>1. Continue(f)
    BY <1>7 DEF FailField
  <2>2. i \in Nat
    BY <1>1
  <2> HIDE DEF i
  <2>3. /\ f \in FrameSet /\ f.node = n /\ f.op = Top.op /\ f.pos = Top.pos
        /\ f.ctx = Top.ctx /\ f.i = i /\ f.cur = Top.cur
    BY <1>1, <2>2 DEF FrameSet
  <2> HIDE DEF f
  <2> QED
    BY <1>1, <1>2, <1>4, <1>5, <1>7, <2>1, <2>3, NextKidReports DEF i
<1> QED
  BY <1>6, <1>7

LEMMA FailFieldsEndReports ==
  ASSUME IInv, ReportsInv, FailFieldsEnd
  PROVE  ReportsInv'
<1> DEFINE n == Top.node
<1>1. /\ phase # "idle" /\ stack # <<>> /\ Kind(n) \in {"seq", "vec1"}
      /\ Top.op \in Failing
  BY GoingFacts DEF FailFieldsEnd
<1>2. phase = "call" /\ ~HasCall(Top) /\ Return(Required(FALSE)) /\ UNCHANGED history
  BY DEF FailFieldsEnd, Going
<1>3. /\ n \in Node /\ input \in Inputs /\ Top.cur \in 0..Len(input)
      /\ Len(Kids(n)) \in Nat /\ DOMAIN Kids(n) = 1..Len(Kids(n))
      /\ Mode(Top.op) = "fail" /\ NowLeft = LeftHere(input, Top) /\ Indexed(Top)
      /\ Top.op \notin Matching
  BY <1>1, <1>2, TurnFacts, NodeFacts
<1>4. Top.i \in 1 .. Len(Kids(n)) + 1
  BY <1>1, <1>3 DEF Indexed
<1>5. KidIndex(Top) = Top.i /\ Kind(n) # "not"
  BY <1>1, <1>3 DEF KidIndex
<1>6. Top.i > Len(Kids(n)) /\ Top.i # 0
  <2>1. Top.i \notin 1..Len(Kids(n))
    BY <1>2, <1>3, <1>5 DEF HasCall
  <2> QED
    BY <1>3, <1>4, <2>1
<1>7. Branches(n, "fail") /\ "fail" \in Modes
  BY <1>1 DEF Branches, Modes
<1>8. LeavesFrom(n, "fail", Top.i, input, Top.cur) = EmptyHistory
  BY <1>3, <1>4, <1>6, <1>7, FromFacts
<1>9. NowLeft = EmptyHistory
  BY <1>3, <1>6, <1>7, <1>8 DEF LeftHere
<1> QED
  BY <1>1, <1>2, <1>9, SilentReturn

LEMMA FailVariantReports ==
  ASSUME IInv, ReportsInv, FailVariant
  PROVE  ReportsInv'
<1> DEFINE n == Top.node
           i == Top.i + 1
           all == StillRequired(Top, ret)
           f == [Top EXCEPT !.i = i, !.all = all]
<1>1. /\ phase # "idle" /\ stack # <<>> /\ Kind(n) = "alt" /\ Top.op \in Failing
      /\ Top \in FrameSet /\ Top.i \in Nat /\ ret \in Result
  BY KidFailed DEF FailVariant
<1>2. phase = "return"
  BY DEF FailVariant, Answered
<1>3. Mode(Top.op) = "fail"
  BY <1>1, TurnFacts
<1>4. /\ Branches(n, Mode(Top.op)) /\ GoesOn(n, Mode(Top.op), Top.i, input, Top.cur)
      /\ GoesOnAt(n, Mode(Top.op), Top.i, input, Top.cur) = Top.cur
  BY <1>1, <1>3 DEF Branches, GoesOn, GoesOnAt
<1>5. i \in Nat /\ all \in BOOLEAN
  BY <1>1 DEF StillRequired, Result, FrameSet
<1>6. Continue(f)
  BY DEF FailVariant
<1> HIDE DEF i, all
<1>7. /\ f \in FrameSet /\ f.node = n /\ f.op = Top.op /\ f.pos = Top.pos
      /\ f.ctx = Top.ctx /\ f.i = i /\ f.cur = Top.cur
  BY <1>1, <1>5 DEF FrameSet
<1> HIDE DEF f
<1> QED
  BY <1>1, <1>2, <1>4, <1>6, <1>7, NextKidReports DEF i

LEMMA FailVariantsEndReports ==
  ASSUME IInv, ReportsInv, FailVariantsEnd
  PROVE  ReportsInv'
<1> DEFINE n == Top.node
<1>1. /\ phase # "idle" /\ stack # <<>> /\ Kind(n) = "alt" /\ Top.op \in Failing
  BY KidFailed DEF FailVariantsEnd
<1>2. /\ phase = "return" /\ Top.i = Len(Kids(n)) /\ UNCHANGED history
      /\ \E r : Return(r)
  BY DEF FailVariantsEnd, Answered
<1>3. Mode(Top.op) = "fail"
  BY <1>1, TurnFacts
<1>4. Branches(n, Mode(Top.op)) /\ Mode(Top.op) \in Modes
  BY <1>1, <1>3 DEF Branches, Modes
<1>5. AfterKid(n, Mode(Top.op), Top.i, input, Top.cur) = EmptyHistory
  BY <1>1, <1>2, <1>4, AfterLastKid
<1> QED
  BY <1>1, <1>2, <1>3, <1>4, <1>5, KidsDoneReports

LEMMA NextReports ==
  ASSUME IInv, ReadsInv, ReportsInv, [Next]_vars
  PROVE  ReportsInv'
<1>1. CASE Begin
  BY <1>1, BeginReports
<1>2. CASE Finish
  BY <1>2, FinishReports
<1>3. CASE Call
  BY <1>3, CallReports
<1>4. CASE Probe
  BY <1>4, ProbeReports
<1>5. CASE Leaf
  BY <1>5, LiteralMatchReports, LiteralMismatchReports, CharMatchReports,
     CharMismatchReports, FailLeafReports, UnitMatchReports, FailNothingReports
     DEF Leaf
<1>6. CASE Repetition
  BY <1>6, OptionReturnReports, VecItemReports, VecEndReports, Vec1ReturnReports
     DEF Repetition
<1>7. CASE Sequence
  BY <1>7, NextFieldReports, FieldFailedReports, FieldsParsedReports,
     FieldsRejectedReports DEF Sequence
<1>8. CASE Alternation
  BY <1>8, DispatchHitReports, DispatchMissReports, VariantMatchedReports,
     NextVariantReports, NoVariantReports DEF Alternation
<1>9. CASE Wrapped
  BY <1>9, ProbeReturnReports, UnwrapReports, ConvertReports,
     ConvertRejectedReports, SourceFailedReports DEF Wrapped
<1>10. CASE Fail
  BY <1>10, FailFieldReports, FailFieldsEndReports, FailVariantReports,
     FailVariantsEndReports, FailWrappedReports DEF Fail
<1>11. CASE UNCHANGED vars
  BY <1>11, StutterReports
<1> QED
  BY <1>1, <1>2, <1>3, <1>4, <1>5, <1>6, <1>7, <1>8, <1>9, <1>10, <1>11
     DEF Next, Done

\* What was recorded and what every activation still has to report make up the
\* report of the root, and every error that was returned is that report.
THEOREM ReportsInvariance == Spec => []ReportsInv
<1>1. IInv /\ ReadsInv /\ ReportsInv /\ [Next]_vars => ReportsInv'
  BY NextReports
<1> QED
  BY <1>1, InitReports, Invariance, ReadsInvariance, PTL DEF Spec

\* The error depends on the root and the input alone: whichever entry point
\* is called, however often, and whether or not a value is built.
THEOREM ErrorsAgreeAlways == Spec => []ErrorsAgree
<1>1. ReportsInv => ErrorsAgree
  BY DEF ReportsInv, Reported, ErrorsAgree
<1> QED
  BY <1>1, ReportsInvariance, PTL

\* scan answers as parse does, and scan_prefix as parse_prefix: the same
\* verdict, the same end, and when they fail the same error, although the scans
\* build no values and take other paths through validation and Vec1.
THEOREM ScansAgree == Spec => []ScanAgreesWithParse
<1>1. ReadsInv /\ ReportsInv => ScanAgreesWithParse
  <2> SUFFICES ASSUME ReadsInv, ReportsInv,
                      NEW i \in DOMAIN outcomes, NEW j \in DOMAIN outcomes,
                      \/ outcomes[i].entry = "parse" /\ outcomes[j].entry = "scan"
                      \/ /\ outcomes[i].entry = "parse_prefix"
                         /\ outcomes[j].entry = "scan_prefix"
               PROVE  SameButValue(outcomes[i], outcomes[j])
    BY DEF ScanAgreesWithParse
  <2>1. outcomes[i].error = outcomes[j].error
    BY DEF ReportsInv, Reported
  <2>2. outcomes[i].end = outcomes[j].end /\ outcomes[i].ok = outcomes[j].ok
    BY DEF ReadsInv, AnsweredAsMeant, AnswersAs, Promise!MeaningOf
  <2> QED
    BY <2>1, <2>2 DEF SameButValue
<1> QED
  BY <1>1, ReadsInvariance, ReportsInvariance, PTL
=============================================================================
