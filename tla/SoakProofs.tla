------------------------------ MODULE SoakProofs ------------------------------
(***************************************************************************)
(* For any operators, worlds, targets, tolerances and faults: the numbers  *)
(* of a soak run are those of one sequence of samples, and a run that is   *)
(* recorded as passed has earned it.                                       *)
(*                                                                         *)
(* The argument: what a process is about to write is whole.  Its numbers   *)
(* are those of a chain of samples (Sums), each of which is of the world   *)
(* as it was then and of no minute before the run (AreOf); so whoever      *)
(* writes last leaves sound numbers, whatever else it overwrites.  The     *)
(* verdict is given to numbers that are sound at the time it is given, by  *)
(* a sample after the deadline, and what they tell of the past cannot      *)
(* change any more (Earned).                                               *)
(***************************************************************************)
EXTENDS Soak, TLAPS, FiniteSetTheorems, NaturalsInduction, WellFoundedInduction, SequenceTheorems

\* What _aggregate is given.
Samples == [at : Nat \ {0}, ok : BOOLEAN, inst : Nat \ {0}]

Numbers ==
  [count : Nat, bad : Nat, last : Nat, gap : Nat, since : Nat, outages : Nat, longest : Nat,
   changes : Nat, changed : Nat, starts : Nat, monitor : Nat, chain : Seq(Samples)]

BadOnes(c) == {k \in DOMAIN c : ~c[k].ok}
Daemons(c) == {c[k].inst : k \in DOMAIN c}

\* The outage that began with sample k was seen to end.
IsOver(c, k) == \E x \in k..Len(c) : c[x].ok

\* The numbers are those of their chain; the start, the first daemon.
Tally(n, first) ==
  LET c == n.chain IN
  /\ n.count = Len(c)
  /\ IsFiniteSet(BadOnes(c)) /\ n.bad = Cardinality(BadOnes(c))
  /\ IsFiniteSet(Starts(c)) /\ n.outages = Cardinality(Starts(c))
  /\ IsFiniteSet(Daemons(c)) /\ n.changes = Cardinality(Daemons(c) \ {first})
  /\ \A k \in 2..Len(c) : c[k - 1].at <= c[k].at /\ c[k].at - c[k - 1].at <= n.gap
  /\ \A k \in Starts(c) : IsOver(c, k) => Length(c, k) <= n.longest

\* What the next sample is compared with is the latest one.
Latest(n, first) ==
  LET c == n.chain
      l == c[Len(c)]
  IN IF c = <<>> THEN n.last = None /\ n.since = None /\ n.changed = None
     ELSE /\ n.last = l.at
          /\ (n.since = None) = l.ok
          /\ ~l.ok => \A k \in Starts(c) : ~IsOver(c, k) => n.since = c[k].at
          /\ n.since <= n.last
          /\ n.changed = IF l.inst = first THEN None ELSE l.inst
          /\ \A k \in DOMAIN c : c[k].at <= l.at /\ first <= c[k].inst /\ c[k].inst <= l.inst

Sums(n, first) == n \in Numbers /\ Tally(n, first) /\ Latest(n, first)

-----------------------------------------------------------------------------
LEMMA LeastExists ==
  ASSUME NEW S, S \subseteq Nat, S # {}
  PROVE  \E x \in S : \A y \in S : x <= y
<1>1. PICK x \in S : \A y \in S : ~(<<y, x>> \in OpToRel(<, Nat))
  BY NatLessThanWellFounded, WFMin
<1>2. ASSUME NEW y \in S PROVE x <= y
  <2>1. y < x => <<y, x>> \in OpToRel(<, Nat) BY DEF OpToRel
  <2>2. ~(y < x) BY <1>1, <2>1, Zenon
  <2>3. x \in Nat /\ y \in Nat OBVIOUS
  <2> QED BY <2>2, <2>3
<1> QED BY <1>2

\* An outage lasted until the first good sample after its start.
LEMMA LengthIs ==
  ASSUME NEW c \in Seq(Samples), NEW k \in DOMAIN c
  PROVE  /\ IsOver(c, k) =>
              \E e \in k..Len(c) :
                c[e].ok /\ (\A y \in k..Len(c) : c[y].ok => e <= y) /\ Length(c, k) = c[e].at - c[k].at
         /\ ~IsOver(c, k) => Length(c, k) = c[Len(c)].at - c[k].at
<1> DEFINE after == {x \in k..Len(c) : c[x].ok}
           end   == IF after = {} THEN Len(c) ELSE CHOOSE x \in after : \A y \in after : x <= y
<1>1. Length(c, k) = c[end].at - c[k].at BY DEF Length
<1>2. (after = {}) = ~IsOver(c, k) BY DEF IsOver
<1>3. k \in Nat /\ Len(c) \in Nat /\ after \subseteq Nat OBVIOUS
<1>4. CASE IsOver(c, k)
  <2>1. \E x \in after : \A y \in after : x <= y BY <1>2, <1>3, <1>4, LeastExists
  <2>2. end \in after /\ \A y \in after : end <= y BY <1>2, <1>4, <2>1
  <2> HIDE DEF end
  <2>3. end \in k..Len(c) /\ c[end].ok /\ \A y \in k..Len(c) : c[y].ok => end <= y BY <2>2
  <2> QED BY <1>1, <1>4, <2>3
<1>5. CASE ~IsOver(c, k) BY <1>1, <1>2, <1>5
<1> QED BY <1>4, <1>5

LEMMA LargerIs ==
  ASSUME NEW x \in Nat, NEW y \in Nat, NEW z \in Nat
  PROVE  Larger(x, y - z) \in Nat /\ Larger(x, y - z) >= x /\ Larger(x, y - z) >= y - z
BY DEF Larger

\* One more sample.
LEMMA ChainGrows ==
  ASSUME NEW c \in Seq(Samples), NEW s \in Samples
  PROVE  /\ Append(c, s) \in Seq(Samples) /\ Append(c, s) # <<>>
         /\ Len(c) \in Nat /\ Len(Append(c, s)) = Len(c) + 1
         /\ DOMAIN c = 1..Len(c) /\ DOMAIN Append(c, s) = 1..Len(c) + 1
         /\ \A k \in 1..Len(c) : Append(c, s)[k] = c[k] /\ c[k] \in Samples
         /\ Append(c, s)[Len(c) + 1] = s
         /\ (c = <<>>) = (Len(c) = 0)
  BY AppendProperties, EmptySeq

LEMMA SetsGrow ==
  ASSUME NEW c \in Seq(Samples), NEW s \in Samples
  PROVE  /\ BadOnes(Append(c, s)) = IF s.ok THEN BadOnes(c) ELSE BadOnes(c) \cup {Len(c) + 1}
         /\ Len(c) + 1 \notin BadOnes(c)
         /\ Starts(Append(c, s)) = IF ~s.ok /\ (c = <<>> \/ c[Len(c)].ok) THEN Starts(c) \cup {Len(c) + 1}
                                   ELSE Starts(c)
         /\ Len(c) + 1 \notin Starts(c)
         /\ Daemons(Append(c, s)) = Daemons(c) \cup {s.inst}
<1> DEFINE d == Append(c, s)
           l == Len(c)
<1>1. /\ l \in Nat /\ DOMAIN c = 1..l /\ DOMAIN d = 1..l + 1 /\ d[l + 1] = s
      /\ \A k \in 1..l : d[k] = c[k]
      /\ (c = <<>>) = (l = 0)
  BY ChainGrows
<1> HIDE DEF d, l
<1>2. BadOnes(d) = (IF s.ok THEN BadOnes(c) ELSE BadOnes(c) \cup {l + 1}) /\ l + 1 \notin BadOnes(c)
  BY <1>1 DEF BadOnes
<1>3. l + 1 \notin Starts(c) BY <1>1 DEF Starts
<1>4. ASSUME NEW k \in 1..l PROVE k \in Starts(d) <=> k \in Starts(c)
  <2>1. d[k] = c[k] BY <1>1
  <2>2. k # 1 => k - 1 \in 1..l BY <1>1
  <2>3. k # 1 => d[k - 1] = c[k - 1] BY <1>1, <2>2
  <2> QED BY <1>1, <2>1, <2>3 DEF Starts
<1>5. l + 1 \in Starts(d) <=> ~s.ok /\ (c = <<>> \/ c[l].ok)
  <2>1. l # 0 => d[l] = c[l] BY <1>1
  <2>2. (l + 1) - 1 = l /\ (l + 1 = 1 <=> l = 0) BY <1>1
  <2> QED BY <1>1, <2>1, <2>2 DEF Starts
<1>6. Starts(d) \subseteq 1..l + 1 /\ Starts(c) \subseteq 1..l BY <1>1 DEF Starts
<1>7. Starts(d) = IF ~s.ok /\ (c = <<>> \/ c[l].ok) THEN Starts(c) \cup {l + 1} ELSE Starts(c)
  <2> DEFINE new == ~s.ok /\ (c = <<>> \/ c[l].ok)
  <2>1. ASSUME NEW k PROVE k \in 1..l + 1 <=> k \in 1..l \/ k = l + 1 BY <1>1
  <2>2. \A k : k \in Starts(d) <=> k \in Starts(c) \/ (k = l + 1 /\ new)
    BY Zenon, <1>3, <1>4, <1>5, <1>6, <2>1
  <2> HIDE DEF new
  <2>3. Starts(d) = IF new THEN Starts(c) \cup {l + 1} ELSE Starts(c) BY <2>2
  <2> QED BY <2>3 DEF new
<1>8. Daemons(d) = Daemons(c) \cup {s.inst}
  <2>1. ASSUME NEW k PROVE k \in 1..l + 1 <=> k \in 1..l \/ k = l + 1 BY <1>1
  <2> QED BY <1>1, <2>1 DEF Daemons
<1> QED BY <1>2, <1>3, <1>7, <1>8 DEF d, l

-----------------------------------------------------------------------------
\* _aggregate keeps the numbers those of the samples, if a sample is not older
\* than the one before.
LEMMA AggregateKeepsSums ==
  ASSUME NEW n, NEW first \in Nat \ {0}, NEW s \in Samples, NEW st \in Nat,
         Sums(n, first), n.last <= s.at, first <= s.inst,
         n.chain # <<>> => n.chain[Len(n.chain)].inst <= s.inst
  PROVE  /\ Sums(Aggregate(n, first, s, st), first)
         /\ Aggregate(n, first, s, st).chain = Append(n.chain, s)
         /\ Aggregate(n, first, s, st).last = s.at
         /\ Aggregate(n, first, s, st).starts = st
<1> DEFINE c == n.chain
           l == Len(c)
           d == Append(c, s)
           m == Aggregate(n, first, s, st)
<1>1. n \in Numbers /\ Tally(n, first) /\ Latest(n, first) BY DEF Sums
<1>2. /\ c \in Seq(Samples) /\ n.count \in Nat /\ n.bad \in Nat /\ n.last \in Nat /\ n.gap \in Nat
      /\ n.since \in Nat /\ n.outages \in Nat /\ n.longest \in Nat /\ n.changes \in Nat
      /\ n.changed \in Nat
  BY <1>1 DEF Numbers
<1>3. s.at \in Nat \ {0} /\ s.ok \in BOOLEAN /\ s.inst \in Nat \ {0} BY DEF Samples
<1>4. /\ m.count = n.count + 1
      /\ m.bad = IF s.ok THEN n.bad ELSE n.bad + 1
      /\ m.gap = IF n.last = None THEN n.gap ELSE Larger(n.gap, s.at - n.last)
      /\ m.last = s.at
      /\ m.longest = IF s.ok /\ n.since # None THEN Larger(n.longest, s.at - n.since) ELSE n.longest
      /\ m.outages = IF ~s.ok /\ n.since = None THEN n.outages + 1 ELSE n.outages
      /\ m.since = IF s.ok THEN None ELSE IF n.since = None THEN s.at ELSE n.since
      /\ m.changes = IF s.inst \notin {first, n.changed} THEN n.changes + 1 ELSE n.changes
      /\ m.changed = IF s.inst # first THEN s.inst ELSE n.changed
      /\ m.starts = st
      /\ m.chain = d
  BY <1>1 DEF Aggregate, Numbers
<1>23. /\ m.bad \in {n.bad, n.bad + 1} /\ m.outages \in {n.outages, n.outages + 1}
       /\ m.changes \in {n.changes, n.changes + 1} /\ m.since \in {None, s.at, n.since}
       /\ m.longest \in {n.longest, Larger(n.longest, s.at - n.since)}
       /\ m.changed \in {s.inst, n.changed}
  BY Zenon, <1>4
<1>24. /\ m.count = n.count + 1 /\ m.last = s.at /\ m.starts = st /\ m.chain = d
       /\ m.gap = IF n.last = None THEN n.gap ELSE Larger(n.gap, s.at - n.last)
  BY Zenon, <1>4
<1>5. m \in Numbers
  <2>1. d \in Seq(Samples) BY <1>2, ChainGrows
  <2>2. Larger(n.gap, s.at - n.last) \in Nat /\ Larger(n.longest, s.at - n.since) \in Nat
    <3>1. s.at \in Nat BY <1>3
    <3> QED BY Zenon, <1>2, <3>1, LargerIs
  <2>3. m.count \in Nat /\ m.last \in Nat
    <3>1. n.count + 1 \in Nat /\ s.at \in Nat BY <1>2, <1>3
    <3> QED BY Zenon, <1>24, <3>1
  <2>8. m.bad \in Nat /\ m.outages \in Nat /\ m.changes \in Nat
    <3>1. n.bad + 1 \in Nat /\ n.outages + 1 \in Nat /\ n.changes + 1 \in Nat BY <1>2
    <3> QED BY Zenon, <1>2, <1>23, <3>1
  <2>4. m.since \in Nat /\ m.changed \in Nat /\ m.starts \in Nat
    <3>1. None \in Nat /\ s.at \in Nat /\ s.inst \in Nat /\ st \in Nat BY <1>3 DEF None
    <3> QED BY Zenon, <1>2, <1>23, <1>24, <3>1
  <2>5. m.gap \in Nat /\ m.longest \in Nat BY <1>2, <1>23, <1>24, <2>2
  <2>6. m.chain \in Seq(Samples) BY <1>24, <2>1
  <2> DEFINE a == n.count + 1
             b == IF s.ok THEN n.bad ELSE n.bad + 1
             g == IF n.last = None THEN n.gap ELSE Larger(n.gap, s.at - n.last)
             e == IF s.ok /\ n.since # None THEN Larger(n.longest, s.at - n.since) ELSE n.longest
             f == IF ~s.ok /\ n.since = None THEN n.outages + 1 ELSE n.outages
             u == IF s.ok THEN None ELSE IF n.since = None THEN s.at ELSE n.since
             h == IF s.inst \notin {first, n.changed} THEN n.changes + 1 ELSE n.changes
             i == IF s.inst # first THEN s.inst ELSE n.changed
  <2>7. m = [n EXCEPT !.count = a, !.bad = b, !.gap = g, !.last = s.at, !.longest = e, !.outages = f,
                      !.since = u, !.changes = h, !.changed = i, !.starts = st, !.chain = d]
    BY Zenon DEF Aggregate
  <2> HIDE DEF m, d
  <2>9. a \in Nat /\ b \in Nat /\ g \in Nat /\ e \in Nat /\ f \in Nat /\ u \in Nat /\ h \in Nat /\ i \in Nat
    BY Zenon, <1>4, <2>3, <2>4, <2>5, <2>8
  <2> HIDE DEF a, b, g, e, f, u, h, i
  <2>10. s.at \in Nat /\ d \in Seq(Samples) BY <1>3, <1>4, <2>6
  <2> DEFINE x == [n EXCEPT !.count = a, !.bad = b, !.gap = g]
             y == [x EXCEPT !.last = s.at, !.longest = e, !.outages = f]
             z == [y EXCEPT !.since = u, !.changes = h, !.changed = i]
             w == [z EXCEPT !.starts = st, !.chain = d]
  <2>11. m = w BY <2>7
  <2>12. x \in Numbers BY <1>1, <2>9 DEF Numbers
  <2> HIDE DEF x
  <2>13. y \in Numbers BY <2>9, <2>10, <2>12 DEF Numbers
  <2> HIDE DEF y
  <2>14. z \in Numbers BY <2>9, <2>13 DEF Numbers
  <2> HIDE DEF z
  <2>15. w \in Numbers BY <2>10, <2>14 DEF Numbers
  <2> HIDE DEF w
  <2> QED BY <2>11, <2>15
<1> HIDE DEF m
<1>6. /\ l \in Nat /\ Len(d) = l + 1 /\ DOMAIN c = 1..l /\ DOMAIN d = 1..l + 1 /\ d # <<>>
      /\ \A k \in 1..l : d[k] = c[k] /\ c[k] \in Samples
      /\ d[l + 1] = s /\ (c = <<>>) = (l = 0) /\ d \in Seq(Samples)
  BY <1>2, ChainGrows
<1>7. /\ BadOnes(d) = IF s.ok THEN BadOnes(c) ELSE BadOnes(c) \cup {l + 1}
      /\ l + 1 \notin BadOnes(c)
      /\ Starts(d) = IF ~s.ok /\ (c = <<>> \/ c[l].ok) THEN Starts(c) \cup {l + 1} ELSE Starts(c)
      /\ l + 1 \notin Starts(c)
      /\ Daemons(d) = Daemons(c) \cup {s.inst}
  BY <1>2, SetsGrow
<1> HIDE DEF d, l
<1>8. /\ n.count = l
      /\ IsFiniteSet(BadOnes(c)) /\ n.bad = Cardinality(BadOnes(c))
      /\ IsFiniteSet(Starts(c)) /\ n.outages = Cardinality(Starts(c))
      /\ IsFiniteSet(Daemons(c)) /\ n.changes = Cardinality(Daemons(c) \ {first})
      /\ \A k \in 2..l : c[k - 1].at <= c[k].at /\ c[k].at - c[k - 1].at <= n.gap
      /\ \A k \in Starts(c) : IsOver(c, k) => Length(c, k) <= n.longest
  BY <1>1 DEF Tally, l
<1>9. IF c = <<>> THEN n.last = None /\ n.since = None /\ n.changed = None
      ELSE /\ n.last = c[l].at
           /\ (n.since = None) = c[l].ok
           /\ ~c[l].ok => \A k \in Starts(c) : ~IsOver(c, k) => n.since = c[k].at
           /\ n.since <= n.last
           /\ n.changed = IF c[l].inst = first THEN None ELSE c[l].inst
           /\ \A k \in DOMAIN c : c[k].at <= c[l].at /\ first <= c[k].inst /\ c[k].inst <= c[l].inst
  BY <1>1 DEF Latest, l
<1>10. c # <<>> => c[l].inst <= s.inst BY DEF l
<1> HIDE DEF c
<1>11. IsFiniteSet(BadOnes(d)) /\ m.bad = Cardinality(BadOnes(d))
  <2>1. /\ IsFiniteSet(BadOnes(c) \cup {l + 1})
        /\ Cardinality(BadOnes(c) \cup {l + 1}) = Cardinality(BadOnes(c)) + 1
    BY Zenon, <1>7, <1>8, FS_AddElement
  <2> QED BY <1>4, <1>7, <1>8, <2>1
<1>12. IsFiniteSet(Starts(d)) /\ m.outages = Cardinality(Starts(d))
  <2>1. (n.since = None) = (c = <<>> \/ c[l].ok) BY <1>9
  <2>2. /\ IsFiniteSet(Starts(c) \cup {l + 1})
        /\ Cardinality(Starts(c) \cup {l + 1}) = Cardinality(Starts(c)) + 1
    BY Zenon, <1>7, <1>8, FS_AddElement
  <2> QED BY <1>4, <1>7, <1>8, <2>1, <2>2
<1>13. IsFiniteSet(Daemons(d)) /\ m.changes = Cardinality(Daemons(d) \ {first})
  <2>6. IsFiniteSet(Daemons(c) \cup {s.inst}) BY Zenon, <1>8, FS_AddElement
  <2>1. IsFiniteSet(Daemons(d)) BY <1>7, <2>6
  <2>2. IsFiniteSet(Daemons(c) \ {first}) BY <1>8, FS_RemoveElement
  <2>3. CASE s.inst = first
    BY <1>4, <1>7, <1>8, <2>1, <2>3
  <2>4. CASE s.inst # first /\ s.inst = n.changed
    <3>1. c # <<>> /\ c[l].inst = s.inst BY <1>3, <1>9, <2>4 DEF None
    <3>2. l \in DOMAIN c BY <1>6, <3>1
    <3>3. s.inst \in Daemons(c) BY <3>1, <3>2 DEF Daemons
    <3>4. Daemons(d) = Daemons(c) BY <1>7, <3>3
    <3> QED BY <1>4, <1>8, <2>1, <2>4, <3>4
  <2>5. CASE s.inst # first /\ s.inst # n.changed
    <3>1. s.inst \notin Daemons(c)
      <4> SUFFICES ASSUME NEW k \in DOMAIN c, c[k].inst = s.inst PROVE FALSE BY DEF Daemons
      <4>1. c # <<>> /\ l \in 1..l BY <1>6
      <4>2. c[l] \in Samples BY <1>6, <4>1
      <4>3. c[l].inst \in Nat BY <4>2 DEF Samples
      <4>4. c[l].inst = s.inst BY <1>3, <1>9, <1>10, <4>1, <4>3
      <4> QED BY <1>9, <2>5, <4>1, <4>4
    <3>2. Daemons(d) \ {first} = (Daemons(c) \ {first}) \cup {s.inst} BY <1>7, <2>5
    <3>3. Cardinality(Daemons(d) \ {first}) = Cardinality(Daemons(c) \ {first}) + 1
      BY <2>2, <3>1, <3>2, FS_AddElement
    <3> QED BY <1>4, <1>8, <2>1, <2>5, <3>3
  <2> QED BY <2>3, <2>4, <2>5
<1>14. ASSUME NEW k \in 2..Len(d)
       PROVE  d[k - 1].at <= d[k].at /\ d[k].at - d[k - 1].at <= m.gap
  <2>1. m.gap \in Nat /\ m.gap >= n.gap
    <3>1. s.at \in Nat /\ n.gap >= n.gap BY <1>2, <1>3
    <3>2. Larger(n.gap, s.at - n.last) \in Nat /\ Larger(n.gap, s.at - n.last) >= n.gap
      BY Zenon, <1>2, <3>1, LargerIs
    <3> QED BY Zenon, <1>2, <1>24, <3>1, <3>2
  <2>2. CASE k = l + 1
    <3>1. l \in 1..l /\ c # <<>> BY <1>6, <2>2
    <3>2. d[k] = s /\ d[k - 1] = c[l] /\ c[l] \in Samples BY <1>6, <2>2, <3>1
    <3>3. n.last = c[l].at /\ n.last # None BY <1>9, <3>1, <3>2 DEF Samples, None
    <3>5. m.gap = Larger(n.gap, s.at - n.last) BY Zenon, <1>24, <3>3
    <3>4. m.gap >= s.at - n.last BY <1>2, <1>3, <3>5 DEF Larger
    <3> QED BY <1>2, <1>3, <2>1, <3>2, <3>3, <3>4
  <2>3. CASE k # l + 1
    <3>1. k \in 2..l /\ k - 1 \in 1..l /\ k \in 1..l BY <1>6, <2>3
    <3>2. d[k] = c[k] /\ d[k - 1] = c[k - 1] /\ c[k] \in Samples /\ c[k - 1] \in Samples BY <1>6, <3>1
    <3>3. c[k].at \in Nat /\ c[k - 1].at \in Nat BY <3>2 DEF Samples
    <3>4. c[k - 1].at <= c[k].at /\ c[k].at - c[k - 1].at <= n.gap BY <1>8, <3>1
    <3>5. d[k].at = c[k].at /\ d[k - 1].at = c[k - 1].at BY <3>2
    <3>6. n.gap \in Nat BY <1>2
    <3> HIDE DEF c, d
    <3> QED BY <2>1, <3>3, <3>4, <3>5, <3>6
  <2> QED BY <2>2, <2>3
<1>15. ASSUME NEW k \in Starts(c)
       PROVE  /\ k \in 1..l /\ d[k] = c[k] /\ c[k].at \in Nat
              /\ IsOver(c, k) => IsOver(d, k) /\ Length(d, k) = Length(c, k)
              /\ IsOver(d, k) /\ ~IsOver(c, k) => s.ok /\ Length(d, k) = s.at - c[k].at
  <2>1. k \in 1..l /\ k \in DOMAIN c /\ k \in DOMAIN d BY <1>6 DEF Starts
  <2>2. d[k] = c[k] /\ c[k] \in Samples BY <1>6, <2>1
  <2>3. /\ \A x \in k..l : x \in 1..l
        /\ \A x \in k..l + 1 : x \in k..l \/ x = l + 1
        /\ \A x \in k..l : x \in k..l + 1
    BY <1>6, <2>1
  <2>4. ASSUME IsOver(c, k)
        PROVE  IsOver(d, k) /\ Length(d, k) = Length(c, k)
    <3>1. PICK e \in k..l :
            c[e].ok /\ (\A y \in k..l : c[y].ok => e <= y) /\ Length(c, k) = c[e].at - c[k].at
      BY <1>2, <2>1, <2>4, LengthIs DEF l
    <3>2. d[e] = c[e] /\ e \in k..Len(d) BY <1>6, <2>3, <3>1
    <3>3. IsOver(d, k) BY <3>1, <3>2 DEF IsOver
    <3>4. PICK f \in k..Len(d) :
            d[f].ok /\ (\A y \in k..Len(d) : d[y].ok => f <= y) /\ Length(d, k) = d[f].at - d[k].at
      BY <1>6, <2>1, <3>3, LengthIs
    <3>5. f <= e BY <3>1, <3>2, <3>4
    <3>6. f \in k..l /\ d[f] = c[f] BY <1>6, <2>1, <2>3, <3>1, <3>4, <3>5
    <3>7. e <= f BY <3>1, <3>4, <3>6
    <3>8. e = f BY <3>5, <3>7, <2>1
    <3> QED BY <2>2, <3>1, <3>2, <3>3, <3>4, <3>8
  <2>5. ASSUME IsOver(d, k), ~IsOver(c, k)
        PROVE  s.ok /\ Length(d, k) = s.at - c[k].at
    <3>1. PICK f \in k..Len(d) : d[f].ok /\ Length(d, k) = d[f].at - d[k].at
      <4>1. d \in Seq(Samples) /\ k \in DOMAIN d BY <1>6, <2>1
      <4> HIDE DEF d
      <4> QED BY <2>5, <4>1, LengthIs
    <3>2. f \notin k..l
      <4> SUFFICES ASSUME f \in k..l PROVE FALSE OBVIOUS
      <4>1. d[f] = c[f] BY <1>6, <2>3
      <4> QED BY <2>5, <3>1, <4>1 DEF IsOver, l
    <3>3. f = l + 1 BY <1>6, <2>3, <3>1, <3>2
    <3> QED BY <1>6, <2>2, <3>1, <3>3
  <2> QED BY <2>1, <2>2, <2>4, <2>5 DEF Samples
<1>16. ASSUME NEW k \in Starts(d), IsOver(d, k)
       PROVE  Length(d, k) <= m.longest
  <2>1. k \in Starts(c)
    <3> SUFFICES ASSUME k = l + 1, ~s.ok PROVE FALSE BY <1>7
    <3>1. PICK x \in k..Len(d) : d[x].ok BY <1>16 DEF IsOver
    <3>2. x = l + 1 BY <1>6, <3>1
    <3> QED BY <1>6, <3>1, <3>2
  <2>2. m.longest \in Nat /\ m.longest >= n.longest BY <1>2, <1>3, <1>23 DEF Larger
  <2>3. CASE IsOver(c, k)
    <3>1. Length(c, k) <= n.longest /\ Length(d, k) = Length(c, k) BY <1>8, <1>15, <2>1, <2>3
    <3>2. Length(c, k) \in Int
      <4>1. PICK e \in k..Len(c) : Length(c, k) = c[e].at - c[k].at
        BY <1>2, <1>6, <1>15, <2>1, <2>3, LengthIs
      <4>2. e \in 1..l BY <1>6, <1>15, <2>1, <4>1 DEF l
      <4>3. c[e] \in Samples BY <1>6, <4>2
      <4> QED BY <1>15, <2>1, <4>1, <4>3 DEF Samples
    <3> QED BY <1>2, <2>2, <3>1, <3>2
  <2>4. CASE ~IsOver(c, k)
    <3>1. s.ok /\ Length(d, k) = s.at - c[k].at /\ k \in 1..l BY <1>15, <1>16, <2>1, <2>4
    <3>2. c # <<>> /\ l \in k..l BY <1>6, <3>1
    <3>3. ~c[l].ok BY <2>4, <3>2 DEF IsOver, l
    <3>4. n.since = c[k].at /\ n.since # None BY <1>9, <2>1, <2>4, <3>2, <3>3
    <3>5. m.longest = Larger(n.longest, s.at - n.since) BY Zenon, <1>4, <3>1, <3>4
    <3>6. Length(d, k) = s.at - n.since BY <3>1, <3>4
    <3> QED BY <1>2, <1>3, <3>5, <3>6 DEF Larger
  <2> QED BY <2>3, <2>4
<1>17. Tally(m, first)
  BY <1>4, <1>6, <1>8, <1>11, <1>12, <1>13, <1>14, <1>16 DEF Tally
<1>18. /\ (m.since = None) = s.ok
       /\ m.since <= m.last
       /\ m.changed = IF s.inst = first THEN None ELSE s.inst
  <2>1. (m.since = None) = s.ok BY <1>3, <1>4 DEF None
  <2>4. n.since <= n.last BY <1>2, <1>9
  <2>2. m.since <= m.last BY <1>2, <1>3, <1>23, <1>24, <2>4 DEF None
  <2>3. s.inst = first => n.changed = None
    <3> SUFFICES ASSUME s.inst = first, c # <<>> PROVE n.changed = None BY <1>9
    <3>1. l \in 1..l /\ l \in DOMAIN c BY <1>6
    <3>2. c[l] \in Samples BY <1>6, <3>1
    <3>3. c[l].inst \in Nat BY <3>2 DEF Samples
    <3>4. c[l].inst = first BY <1>9, <1>10, <3>1, <3>3
    <3> QED BY <1>9, <3>4
  <2> QED BY <1>4, <2>1, <2>2, <2>3
<1>19. ASSUME ~s.ok, NEW k \in Starts(d), ~IsOver(d, k)
       PROVE  m.since = d[k].at
  <2>1. CASE k = l + 1
    <3>1. c = <<>> \/ c[l].ok BY <1>7, <1>19, <2>1
    <3>2. n.since = None BY <1>9, <3>1
    <3> QED BY <1>4, <1>6, <1>19, <2>1, <3>2
  <2>2. CASE k # l + 1
    <3>1. k \in Starts(c) BY <1>7, <2>2
    <3>2. ~IsOver(c, k) /\ d[k] = c[k] /\ k \in 1..l BY <1>15, <1>19, <3>1
    <3>3. c # <<>> /\ l \in k..l BY <1>6, <3>2
    <3>4. ~c[l].ok BY <3>2, <3>3 DEF IsOver, l
    <3>5. n.since = c[k].at /\ n.since # None BY <1>9, <3>1, <3>2, <3>3, <3>4
    <3> QED BY <1>4, <1>19, <3>2, <3>5
  <2> QED BY <2>1, <2>2
<1>20. ASSUME NEW k \in DOMAIN d
       PROVE  d[k].at <= s.at /\ first <= d[k].inst /\ d[k].inst <= s.inst
  <2>1. CASE k = l + 1 BY <1>3, <1>6, <2>1
  <2>2. CASE k # l + 1
    <3>1. k \in 1..l /\ k \in DOMAIN c /\ c # <<>> /\ l \in 1..l BY <1>6, <2>2
    <3>2. d[k] = c[k] /\ c[k] \in Samples /\ c[l] \in Samples BY <1>6, <3>1
    <3>3. c[k].at \in Nat /\ c[l].at \in Nat /\ c[k].inst \in Nat /\ c[l].inst \in Nat
      BY <3>2 DEF Samples
    <3>4. n.last = c[l].at /\ c[k].at <= c[l].at /\ first <= c[k].inst /\ c[k].inst <= c[l].inst
      BY <1>9, <3>1
    <3> QED BY <1>3, <1>10, <3>1, <3>2, <3>3, <3>4
  <2> QED BY <2>1, <2>2
<1>21. Latest(m, first)
  <2>1. m.chain # <<>> /\ m.chain[Len(m.chain)] = s /\ m.last = s.at BY <1>4, <1>6
  <2> QED BY <1>4, <1>18, <1>19, <1>20, <2>1 DEF Latest
<1>22. Sums(m, first) BY <1>5, <1>17, <1>21 DEF Sums
<1> QED BY <1>4, <1>22 DEF m, c, d

\* Closing an open outage makes nothing shorter, and counts that outage too.
LEMMA ClosedKeepsSums ==
  ASSUME NEW n, NEW first, NEW at \in Nat, Sums(n, first), n.last <= at
  PROVE  /\ Sums(Closed(n, at), first)
         /\ Closed(n, at) = [n EXCEPT !.longest = Closed(n, at).longest]
         /\ \A k \in Starts(n.chain) : Length(n.chain, k) <= Closed(n, at).longest
<1> DEFINE c == n.chain
           m == Closed(n, at)
<1>1. n \in Numbers /\ Tally(n, first) /\ Latest(n, first) BY DEF Sums
<1>2. n.longest \in Nat /\ n.since \in Nat /\ n.last \in Nat /\ c \in Seq(Samples) BY <1>1 DEF Numbers
<1>3. /\ m = [n EXCEPT !.longest = m.longest] /\ m.longest \in Nat /\ m.longest >= n.longest
      /\ n.since # None => m.longest >= at - n.since
  <2>1. CASE n.since = None
    <3>1. m = n BY <2>1 DEF Closed
    <3>2. n = [n EXCEPT !.longest = n.longest] BY <1>1 DEF Numbers
    <3> QED BY <1>2, <2>1, <3>1, <3>2
  <2>2. CASE n.since # None
    <3>1. m = [n EXCEPT !.longest = Larger(n.longest, at - n.since)] BY <2>2 DEF Closed
    <3>2. m.longest = Larger(n.longest, at - n.since) BY <1>1, <3>1 DEF Numbers
    <3> QED BY <1>2, <3>1, <3>2 DEF Larger
  <2> QED BY <2>1, <2>2
<1> HIDE DEF m
<1>4. /\ m \in Numbers /\ m.count = n.count /\ m.bad = n.bad /\ m.last = n.last /\ m.gap = n.gap
      /\ m.since = n.since /\ m.outages = n.outages /\ m.changes = n.changes
      /\ m.changed = n.changed /\ m.chain = c
  BY <1>1, <1>3 DEF Numbers
<1>5. ASSUME NEW k \in Starts(c) PROVE Length(c, k) <= m.longest
  <2>1. k \in DOMAIN c /\ DOMAIN c = 1..Len(c) /\ Len(c) \in Nat BY <1>2 DEF Starts
  <2>2. CASE IsOver(c, k)
    <3>1. PICK e \in k..Len(c) : Length(c, k) = c[e].at - c[k].at BY <1>2, <2>1, <2>2, LengthIs
    <3>2. c[e] \in Samples /\ c[k] \in Samples BY <1>2, <2>1, <3>1
    <3>3. Length(c, k) \in Int BY <3>1, <3>2 DEF Samples
    <3>4. Length(c, k) <= n.longest BY <1>1, <2>2 DEF Tally
    <3> QED BY <1>2, <1>3, <3>3, <3>4
  <2>3. CASE ~IsOver(c, k)
    <3>1. c # <<>> /\ Len(c) \in k..Len(c) BY <2>1
    <3>2. ~c[Len(c)].ok BY <2>3, <3>1 DEF IsOver
    <3>3. n.last = c[Len(c)].at /\ n.since = c[k].at /\ n.since # None
      BY <1>1, <2>3, <3>1, <3>2 DEF Latest
    <3>4. Length(c, k) = n.last - n.since BY <1>2, <2>1, <2>3, <3>3, LengthIs
    <3>5. m.longest >= at - n.since BY <1>3, <3>3
    <3> QED BY <1>2, <1>3, <3>4, <3>5
  <2> QED BY <2>2, <2>3
<1>6. Tally(m, first) BY <1>1, <1>4, <1>5 DEF Tally
<1>7. Latest(m, first) BY <1>1, <1>4 DEF Latest
<1> QED BY <1>3, <1>4, <1>5, <1>6, <1>7 DEF Sums, m

-----------------------------------------------------------------------------
(* The rows, and what each process holds of them.                          *)

PastOK ==
  /\ past \in Seq([world : Worlds, inst : Nat \ {0}]) /\ past # <<>>
  /\ \A t, u \in 1..Now : t <= u => past[t].inst <= past[u].inst

\* Each sample tells of the minute it was taken in.
AreOf(c, start) ==
  \A k \in DOMAIN c :
    /\ start <= c[k].at /\ c[k].at <= Now
    /\ c[k].inst = past[c[k].at].inst /\ c[k].ok = Healthy(past[c[k].at].world)

Sound(n, r) == Sums(n, r.inst) /\ AreOf(n.chain, r.start)

SameDaemon(r, at) == \A t \in r.start..at : past[t].inst = r.inst

\* The samples of a pass.
Earned(r) ==
  LET c == r.judged IN
  /\ c # <<>> /\ c[Len(c)].at = r.finished /\ r.finished <= Now
  /\ AreOf(c, r.start) /\ \A k \in DOMAIN c : c[k].ok
  /\ \A k \in 2..Len(c) : c[k - 1].at <= c[k].at /\ c[k].at - c[k - 1].at <= MaxGap
  /\ SameDaemon(r, r.finished)

Verdicts == {"success", "failed"}

Runs ==
  [status : {"running", "skipped"} \cup Verdicts, start : Nat \ {0}, inst : Nat \ {0},
   finished : Nat, n : Numbers, judged : Seq(Samples)]

RunOK(r) ==
  /\ r.start <= Now /\ r.inst = past[r.start].inst
  /\ Sound(r.n, r)
  /\ r.status = "running" => r.n.last < r.start + Target
  /\ r.status \in Verdicts => r.start + Target <= r.finished
  /\ r.status \in Verdicts /\ r.n.last = r.finished =>
       \A k \in Starts(r.n.chain) : Length(r.n.chain, k) <= r.n.longest
  /\ r.status = "success" => Earned(r)

RowsOK == rows \in Seq(Runs) /\ \A i \in DOMAIN rows : RunOK(rows[i])

Jobs ==
  [pc : {"idle"}] \cup [pc : {"insert"}, start : Nat \ {0}, inst : Nat \ {0}]
    \cup [pc : {"next"}, todo : SUBSET Nat] \cup [pc : {"read", "mark"}, id : Nat, todo : SUBSET Nat]
    \cup [pc : {"look", "note"}, id : Nat, todo : SUBSET Nat, n : Numbers]
    \cup [pc : {"load", "commit"}, id : Nat, todo : SUBSET Nat, at : Nat, n : Numbers]
    \cup [pc : {"stop"}, id : Nat] \cup [pc : {"skip"}, id : Nat, n : Numbers]

WithId   == {"read", "mark", "look", "note", "load", "commit", "stop", "skip"}
WithTodo == {"next", "read", "mark", "look", "note", "load", "commit"}

JobOK(j) ==
  /\ j \in Jobs
  /\ j.pc = "insert" => j.start <= Now /\ j.inst = past[j.start].inst
  /\ j.pc \in WithId => j.id \in DOMAIN rows
  /\ j.pc \in WithTodo => j.todo \subseteq DOMAIN rows
  /\ j.pc \in {"look", "note", "skip"} => Sound(j.n, rows[j.id])
  /\ j.pc \in {"look", "note"} => j.n.last < rows[j.id].start + Target
  /\ j.pc \in {"load", "commit"} =>
       /\ Sound(j.n, rows[j.id]) /\ j.n.chain # <<>> /\ j.n.last = j.at /\ j.at <= Now
       /\ j.n.starts = 0 => SameDaemon(rows[j.id], j.at)

JobsOK == job = [p \in Processes |-> job[p]] /\ \A p \in Processes : JobOK(job[p])

SoakInv == PastOK /\ RowsOK /\ JobsOK

-----------------------------------------------------------------------------
LEMMA PastIs ==
  ASSUME PastOK
  PROVE  /\ Now \in Nat \ {0} /\ DOMAIN past = 1..Now
         /\ \A t \in 1..Now : past[t].world \in Worlds /\ past[t].inst \in Nat \ {0}
<1> DEFINE M == [world : Worlds, inst : Nat \ {0}]
<1>1. past \in Seq(M) /\ past # <<>> BY DEF PastOK
<1> HIDE DEF M
<1>2. Now \in Nat /\ Now # 0 /\ DOMAIN past = 1..Now BY <1>1, EmptySeq DEF Now
<1>3. \A t \in 1..Now : past[t] \in M BY <1>1, <1>2
<1> QED BY <1>2, <1>3 DEF M

\* A process goes on, and the rows change at most by what the step wrote.
LEMMA StepKeeps ==
  ASSUME SoakInv, NEW p \in Processes, NEW j, past' = past, Goes(p, j),
         rows' \in Seq(Runs), DOMAIN rows \subseteq DOMAIN rows',
         \A i \in DOMAIN rows : rows'[i].start = rows[i].start /\ rows'[i].inst = rows[i].inst,
         \A i \in DOMAIN rows' : RunOK(rows[i])',
         JobOK(j)'
  PROVE  SoakInv'
<1>1. PastOK' BY DEF SoakInv, PastOK, Now
<1>2. RowsOK' BY DEF RowsOK
<1>3. job' = [q \in Processes |-> IF q = p THEN j ELSE job[q]] BY DEF SoakInv, JobsOK, Goes
<1>4. ASSUME NEW q \in Processes PROVE JobOK(job[q])'
  <2>1. CASE q = p BY <1>3, <2>1
  <2>2. CASE q # p
    <3>1. job'[q] = job[q] /\ JobOK(job[q]) BY <1>3, <2>2 DEF SoakInv, JobsOK
    <3>2. Now' = Now BY DEF Now
    <3>3. ASSUME job[q].pc \in WithId
          PROVE  /\ job[q].id \in DOMAIN rows /\ job[q].id \in DOMAIN rows'
                 /\ rows'[job[q].id].start = rows[job[q].id].start
                 /\ rows'[job[q].id].inst = rows[job[q].id].inst
      BY <3>1, <3>3 DEF JobOK
    <3>4. {"look", "note", "skip", "load", "commit"} \subseteq WithId BY DEF WithId
    <3>5. ASSUME job[q].pc \in {"look", "note", "skip", "load", "commit"}, Sound(job[q].n, rows[job[q].id])
          PROVE  Sound(job[q].n, rows[job[q].id])'
      BY <3>1, <3>2, <3>3, <3>4, <3>5 DEF Sound, AreOf
    <3>6. ASSUME job[q].pc \in {"load", "commit"}, SameDaemon(rows[job[q].id], job[q].at)
          PROVE  SameDaemon(rows[job[q].id], job[q].at)'
      BY <3>1, <3>3, <3>4, <3>6 DEF SameDaemon
    <3> QED BY <3>1, <3>2, <3>3, <3>4, <3>5, <3>6 DEF JobOK
  <2> QED BY <2>1, <2>2
<1> QED BY <1>1, <1>2, <1>3, <1>4 DEF SoakInv, JobsOK

\* The rows stay as they are.
LEMMA OnlyJob ==
  ASSUME SoakInv, NEW p \in Processes, NEW j, UNCHANGED <<past, rows>>, Goes(p, j), JobOK(j)
  PROVE  SoakInv'
<1>1. Now' = Now BY DEF Now
<1>2. JobOK(j)' BY <1>1 DEF JobOK, Sound, AreOf, SameDaemon
<1>3. ASSUME NEW i \in DOMAIN rows PROVE RunOK(rows[i])'
  <2>1. RunOK(rows[i]) BY DEF SoakInv, RowsOK
  <2>2. Sound(rows[i].n, rows[i]) => Sound(rows[i].n, rows[i])' BY <1>1 DEF Sound, AreOf
  <2>3. Earned(rows[i]) => Earned(rows[i])' BY <1>1 DEF Earned, AreOf, SameDaemon
  <2> QED BY <1>1, <2>1, <2>2, <2>3 DEF RunOK
<1>4. rows' \in Seq(Runs) BY DEF SoakInv, RowsOK
<1> QED BY <1>2, <1>3, <1>4, StepKeeps

\* Row i is written.
LEMMA OneRow ==
  ASSUME SoakInv, NEW p \in Processes, NEW j, NEW i \in DOMAIN rows, NEW r \in Runs,
         past' = past, Goes(p, j), rows' = [rows EXCEPT ![i] = r],
         r.start = rows[i].start, r.inst = rows[i].inst, RunOK(r),
         j = Idle \/ \E todo \in SUBSET DOMAIN rows : j = [pc |-> "next", todo |-> todo]
  PROVE  SoakInv'
<1>1. Now' = Now BY DEF Now
<1>2. rows \in Seq(Runs) /\ DOMAIN rows \subseteq Nat BY DEF SoakInv, RowsOK
<1>3. /\ rows' \in Seq(Runs) /\ DOMAIN rows' = DOMAIN rows
      /\ \A k \in DOMAIN rows : rows'[k] = IF k = i THEN r ELSE rows[k]
  BY <1>2
<1>4. ASSUME NEW k \in DOMAIN rows' PROVE RunOK(rows[k])'
  <2>1. PICK x : x = IF k = i THEN r ELSE rows[k] OBVIOUS
  <2>2. RunOK(x) /\ rows'[k] = x BY <1>3, <2>1 DEF SoakInv, RowsOK
  <2>3. Sound(x.n, x) => Sound(rows[k].n, rows[k])' BY <1>1, <2>2 DEF Sound, AreOf
  <2>4. Earned(x) => Earned(rows[k])' BY <1>1, <2>2 DEF Earned, AreOf, SameDaemon
  <2> QED BY <1>1, <2>2, <2>3, <2>4 DEF RunOK
<1>5. JobOK(j)'
  <2>1. CASE j = Idle BY <2>1 DEF Idle, JobOK, Jobs, WithId, WithTodo
  <2>2. CASE j # Idle
    <3>1. PICK todo \in SUBSET DOMAIN rows : j = [pc |-> "next", todo |-> todo] BY <2>2
    <3> QED BY <1>2, <1>3, <3>1 DEF JobOK, Jobs, WithId, WithTodo
  <2> QED BY <2>1, <2>2
<1>6. \A k \in DOMAIN rows : rows'[k].start = rows[k].start /\ rows'[k].inst = rows[k].inst BY <1>3
<1> QED BY <1>3, <1>4, <1>5, <1>6, StepKeeps

LEMMA JobIs ==
  ASSUME SoakInv, NEW p \in Processes
  PROVE  /\ JobOK(job[p])
         /\ At(p, "insert") => job[p] \in [pc : {"insert"}, start : Nat \ {0}, inst : Nat \ {0}]
         /\ At(p, "next") => job[p] \in [pc : {"next"}, todo : SUBSET Nat]
         /\ At(p, "look") \/ At(p, "note") =>
              job[p] \in [pc : {"look", "note"}, id : Nat, todo : SUBSET Nat, n : Numbers]
         /\ At(p, "load") \/ At(p, "commit") =>
              job[p] \in [pc : {"load", "commit"}, id : Nat, todo : SUBSET Nat, at : Nat, n : Numbers]
         /\ At(p, "skip") => job[p] \in [pc : {"skip"}, id : Nat, n : Numbers]
         /\ job[p].pc \in WithId => job[p].id \in DOMAIN rows /\ Run(p) \in Runs /\ RunOK(Run(p))
         /\ job[p].pc \in WithTodo => job[p].todo \in SUBSET DOMAIN rows
         /\ rows \in Seq(Runs) /\ DOMAIN rows \subseteq Nat
<1>1. JobOK(job[p]) BY DEF SoakInv, JobsOK
<1>2. rows \in Seq(Runs) /\ DOMAIN rows \subseteq Nat BY DEF SoakInv, RowsOK
<1>3. job[p].pc \in WithId => job[p].id \in DOMAIN rows /\ Run(p) \in Runs /\ RunOK(Run(p))
  BY <1>1, <1>2 DEF JobOK, Run, SoakInv, RowsOK
<1>4. job[p].pc \in WithTodo => job[p].todo \in SUBSET DOMAIN rows BY <1>1 DEF JobOK
<1>5. job[p] \in Jobs BY <1>1 DEF JobOK
<1> QED BY <1>1, <1>2, <1>3, <1>4, <1>5 DEF Jobs, At

\* A process turns to what it has left to do.
LEMMA Resting ==
  ASSUME SoakInv, NEW todo \in SUBSET DOMAIN rows
  PROVE  /\ JobOK(Pass(todo)) /\ JobOK(Idle)
         /\ Pass(todo) = Idle \/ \E t \in SUBSET DOMAIN rows : Pass(todo) = [pc |-> "next", todo |-> t]
<1>1. DOMAIN rows \subseteq Nat BY DEF SoakInv, RowsOK
<1> QED BY <1>1 DEF Pass, Idle, JobOK, Jobs, WithId, WithTodo

-----------------------------------------------------------------------------
(* Each step.                                                              *)

LEMMA OperatorsRead ==
  ASSUME SoakInv, NEW p \in Processes, Start(p) \/ FindStop(p) \/ LoadStop(p)
  PROVE  SoakInv'
<1>1. CASE Start(p)
  <2>1. Now \in Nat \ {0} /\ past[Now].inst \in Nat \ {0} BY PastIs DEF SoakInv
  <2>2. JobOK([pc |-> "insert", start |-> Now, inst |-> Inst])
    BY <2>1 DEF JobOK, Jobs, WithId, WithTodo, Inst
  <2> QED BY <1>1, <2>2, OnlyJob DEF Start
<1>2. CASE FindStop(p)
  <2>1. PICK i \in Active : Goes(p, [pc |-> "stop", id |-> i]) BY <1>2 DEF FindStop
  <2>2. i \in DOMAIN rows /\ i \in Nat BY DEF Active, SoakInv, RowsOK
  <2>3. JobOK([pc |-> "stop", id |-> i]) BY <2>2 DEF JobOK, Jobs, WithId, WithTodo
  <2> QED BY <1>2, <2>1, <2>3, OnlyJob DEF FindStop
<1>3. CASE LoadStop(p)
  <2>1. job[p].id \in DOMAIN rows /\ Run(p) \in Runs /\ RunOK(Run(p)) /\ DOMAIN rows \subseteq Nat
    BY <1>3, JobIs DEF LoadStop, At, WithId
  <2>2. Sound(Run(p).n, Run(p)) /\ Run(p).n \in Numbers BY <2>1 DEF RunOK, Runs
  <2>3. JobOK([pc |-> "skip", id |-> job[p].id, n |-> Run(p).n])
    BY <2>1, <2>2 DEF JobOK, Jobs, WithId, WithTodo, Run
  <2> QED BY <1>3, <2>3, OnlyJob DEF LoadStop
<1> QED BY <1>1, <1>2, <1>3

LEMMA EmptyIsSound ==
  ASSUME NEW first
  PROVE  Sums(NoSamples, first) /\ NoSamples.chain = <<>> /\ NoSamples.last = None
<1>1. /\ NoSamples \in Numbers /\ NoSamples.chain = <<>> /\ NoSamples.last = None
      /\ NoSamples.since = None /\ NoSamples.changed = None /\ NoSamples.count = 0
      /\ NoSamples.bad = 0 /\ NoSamples.outages = 0 /\ NoSamples.changes = 0
  BY DEF NoSamples, Numbers, None
<1>2. BadOnes(<<>>) = {} /\ Starts(<<>>) = {} /\ Daemons(<<>>) = {} /\ Len(<<>>) = 0
  BY DEF BadOnes, Starts, Daemons
<1>3. Daemons(<<>>) \ {first} = {} BY <1>2
<1>4. Tally(NoSamples, first)
  <2>1. IsFiniteSet({}) /\ Cardinality({}) = 0 BY FS_EmptySet
  <2>2. 2..0 = {} OBVIOUS
  <2> HIDE DEF NoSamples
  <2> QED BY <1>1, <1>2, <1>3, <2>1, <2>2 DEF Tally
<1>5. Latest(NoSamples, first) BY <1>1 DEF Latest
<1> QED BY <1>1, <1>4, <1>5 DEF Sums

LEMMA InsertKeeps == ASSUME SoakInv, NEW p \in Processes, Insert(p) PROVE SoakInv'
<1>1. CASE ~exists
  <2>1. JobOK(Idle) BY Resting
  <2> QED BY <1>1, <2>1, OnlyJob DEF Insert
<1>2. CASE exists
  <2> DEFINE r == [status |-> "running", start |-> job[p].start, inst |-> job[p].inst,
                   finished |-> None, n |-> NoSamples, judged |-> <<>>]
  <2> PICK j : j = [pc |-> "read", id |-> Len(rows) + 1, todo |-> {}] OBVIOUS
  <2>1. /\ job[p] \in [pc : {"insert"}, start : Nat \ {0}, inst : Nat \ {0}] /\ JobOK(job[p])
        /\ rows \in Seq(Runs)
    BY JobIs DEF Insert
  <2>2. job[p].start <= Now /\ job[p].inst = past[job[p].start].inst
    BY <2>1 DEF JobOK
  <2>3. rows' = Append(rows, r) /\ Goes(p, j) /\ past' = past BY <1>2 DEF Insert
  <2>4. r \in Runs BY <2>1, EmptyIsSound DEF Runs, Sums, None
  <2>5. RunOK(r)
    <3>1. AreOf(<<>>, r.start) BY DEF AreOf
    <3>2. Target \in Nat \ {0} BY SoakAssumption
    <3>3. Sound(r.n, r) BY <3>1, EmptyIsSound DEF Sound
    <3> QED BY <2>1, <2>2, <3>2, <3>3, EmptyIsSound DEF RunOK, Verdicts, None
  <2> HIDE DEF r
  <2>6. /\ rows' \in Seq(Runs) /\ DOMAIN rows' = DOMAIN rows \cup {Len(rows) + 1}
        /\ Len(rows) + 1 \in Nat
        /\ rows'[Len(rows) + 1] = r /\ \A k \in DOMAIN rows : rows'[k] = rows[k]
    BY <2>1, <2>3, <2>4, AppendProperties
  <2>7. ASSUME NEW k \in DOMAIN rows' PROVE RunOK(rows[k])'
    <3>1. RunOK(IF k = Len(rows) + 1 THEN r ELSE rows[k]) BY <2>5, <2>6 DEF SoakInv, RowsOK
    <3>2. rows'[k] = IF k = Len(rows) + 1 THEN r ELSE rows[k] BY <2>6
    <3>3. RunOK(rows'[k]) /\ Now' = Now BY <2>3, <3>1, <3>2 DEF Now
    <3> QED BY <2>3, <3>3 DEF RunOK, Sound, AreOf, Earned, SameDaemon
  <2>8. JobOK(j)' BY <2>6 DEF JobOK, Jobs, WithId, WithTodo
  <2> QED BY <2>3, <2>6, <2>7, <2>8, StepKeeps
<1> QED BY <1>1, <1>2

LEMMA StopKeeps == ASSUME SoakInv, NEW p \in Processes, Stop(p) PROVE SoakInv'
<1> DEFINE i == job[p].id
           r == [rows[i] EXCEPT !.status = "skipped", !.n = job[p].n, !.finished = Now]
<1>1. /\ job[p] \in [pc : {"skip"}, id : Nat, n : Numbers] /\ JobOK(job[p])
      /\ i \in DOMAIN rows /\ rows[i] \in Runs /\ RunOK(rows[i]) /\ rows \in Seq(Runs)
  BY JobIs DEF Stop, At, WithId, Run
<1>2. Sound(job[p].n, rows[i]) BY <1>1 DEF JobOK, Stop, At
<1>3. Now \in Nat BY PastIs DEF SoakInv
<1>4. r \in Runs /\ r.start = rows[i].start /\ r.inst = rows[i].inst /\ r.n = job[p].n
      /\ r.status = "skipped"
  BY <1>1, <1>3 DEF Runs
<1>5. RunOK(r) BY <1>1, <1>2, <1>4 DEF RunOK, Sound, Verdicts
<1>6. rows' = [rows EXCEPT ![i] = r] BY DEF Stop
<1> HIDE DEF r
<1> QED BY <1>1, <1>4, <1>5, <1>6, OneRow DEF Stop

LEMMA SamplersRead ==
  ASSUME SoakInv, NEW p \in Processes, Turn(p) \/ Read(p) \/ Load(p) \/ LoadMark(p)
  PROVE  SoakInv'
<1>1. CASE Turn(p)
  <2>1. job[p].todo \in SUBSET DOMAIN rows /\ DOMAIN rows \subseteq Nat
    BY <1>1, JobIs DEF Turn, At, WithTodo
  <2>2. PICK i \in job[p].todo : Goes(p, [pc |-> "read", id |-> i, todo |-> job[p].todo \ {i}])
    BY <1>1 DEF Turn
  <2>3. JobOK([pc |-> "read", id |-> i, todo |-> job[p].todo \ {i}])
    BY <2>1 DEF JobOK, Jobs, WithId, WithTodo
  <2> QED BY <1>1, <2>2, <2>3, OnlyJob DEF Turn
<1>2. CASE Read(p) \/ LoadMark(p)
  <2>1. /\ job[p].pc \in {"read", "mark"}
        /\ job[p].id \in DOMAIN rows /\ Run(p) \in Runs /\ RunOK(Run(p))
        /\ job[p].todo \in SUBSET DOMAIN rows /\ DOMAIN rows \subseteq Nat
    BY <1>2, JobIs DEF Read, LoadMark, At, WithId, WithTodo
  <2>2. JobOK(Rest(p)) BY <2>1, Resting DEF Rest
  <2>3. ASSUME Run(p).status = "running", NEW pc \in {"look", "note"}
        PROVE  JobOK([pc |-> pc, id |-> job[p].id, todo |-> job[p].todo, n |-> Run(p).n])
    <3>1. Sound(Run(p).n, Run(p)) /\ Run(p).n \in Numbers /\ Run(p).n.last < Run(p).start + Target
      BY <2>1, <2>3 DEF RunOK, Runs
    <3> QED BY <2>1, <3>1 DEF JobOK, Jobs, WithId, WithTodo, Run
  <2>4. PICK j : Goes(p, j) /\ JobOK(j) BY <1>2, <2>2, <2>3 DEF Read, LoadMark
  <2> QED BY <1>2, <2>4, OnlyJob DEF Read, LoadMark
<1>3. CASE Load(p)
  <2>1. /\ job[p] \in [pc : {"load", "commit"}, id : Nat, todo : SUBSET Nat, at : Nat, n : Numbers]
        /\ JobOK(job[p]) /\ At(p, "load") /\ job[p].todo \in SUBSET DOMAIN rows
    BY <1>3, JobIs DEF Load, At, WithTodo
  <2>2. JobOK(Rest(p)) BY <2>1, Resting DEF Rest
  <2>3. JobOK([job[p] EXCEPT !.pc = "commit"])
    <3> DEFINE j == [job[p] EXCEPT !.pc = "commit"]
    <3>1. /\ j \in [pc : {"load", "commit"}, id : Nat, todo : SUBSET Nat, at : Nat, n : Numbers]
          /\ j.pc = "commit" /\ j.id = job[p].id /\ j.todo = job[p].todo /\ j.at = job[p].at
          /\ j.n = job[p].n
      BY <2>1
    <3>2. j \in Jobs BY <3>1 DEF Jobs
    <3> HIDE DEF j
    <3> QED BY <2>1, <3>1, <3>2 DEF JobOK, At, WithId, WithTodo
  <2>4. PICK j : Goes(p, j) /\ JobOK(j) BY <1>3, <2>2, <2>3 DEF Load
  <2> QED BY <1>3, <2>4, OnlyJob DEF Load
<1> QED BY <1>1, <1>2, <1>3

\* If no daemon has started since, it is the same one.
LEMMA NoStarts ==
  ASSUME PastOK, NEW start \in 1..Now, StartsSince(start) = 0
  PROVE  \A t \in start..Now : past[t].inst = past[start].inst
<1>1. Now \in Nat /\ start \in Nat BY PastIs
<1> DEFINE C == {t \in start + 1..Now : past[t].inst # past[t - 1].inst}
           B == {t \in start..Now : past[t].inst # past[start].inst}
<1>2. C = {}
  <2>1. IsFiniteSet(start + 1..Now) BY <1>1, FS_Interval
  <2>2. IsFiniteSet(C) BY <2>1, FS_Subset
  <2> QED BY <2>2, FS_EmptySet DEF StartsSince
<1>3. SUFFICES ASSUME B # {} PROVE FALSE OBVIOUS
<1>8. B \subseteq Nat BY <1>1
<1>4. PICK t \in B : \A u \in B : t <= u
  <2> HIDE DEF B
  <2> QED BY <1>3, <1>8, LeastExists
<1>5. t \in start + 1..Now /\ t - 1 \in start..Now /\ t - 1 < t BY <1>1, <1>4
<1>6. t - 1 \notin B BY <1>1, <1>4, <1>5
<1>7. past[t].inst # past[t - 1].inst BY <1>4, <1>5, <1>6
<1> QED BY <1>2, <1>5, <1>7

LEMMA LookKeeps == ASSUME SoakInv, NEW p \in Processes, Look(p) PROVE SoakInv'
<1> DEFINE j  == job[p]
           r  == Run(p)
           s  == [at |-> Now, ok |-> Healthy(World), inst |-> Inst]
           m  == Aggregate(j.n, r.inst, s, StartsSince(r.start))
           jj == [pc |-> "load", id |-> j.id, todo |-> j.todo, at |-> Now, n |-> m]
<1>1. /\ j \in [pc : {"look", "note"}, id : Nat, todo : SUBSET Nat, n : Numbers] /\ JobOK(j)
      /\ j.id \in DOMAIN rows /\ r \in Runs /\ RunOK(r) /\ j.todo \in SUBSET DOMAIN rows
      /\ j.pc = "look"
  BY JobIs DEF Look, At, WithId, WithTodo
<1>2. Sums(j.n, r.inst) /\ AreOf(j.n.chain, r.start) BY <1>1 DEF JobOK, Run, Sound
<1>3. /\ Now \in Nat \ {0} /\ past[Now].inst \in Nat \ {0} /\ PastOK
      /\ \A t \in 1..Now : past[t].inst \in Nat \ {0}
  BY PastIs DEF SoakInv
<1>4. r.start \in 1..Now /\ r.inst = past[r.start].inst /\ r.inst \in Nat \ {0}
  BY <1>1, <1>3 DEF RunOK, Runs
<1>5. s \in Samples /\ s.at = Now /\ s.ok = Healthy(past[Now].world) /\ s.inst = past[Now].inst
  <2>1. Healthy(World) \in BOOLEAN BY Zenon DEF Healthy
  <2> QED BY <1>3, <2>1 DEF Samples, Inst, World
<1>6. r.inst <= s.inst BY <1>3, <1>4, <1>5 DEF PastOK
<1>7. j.n.last <= Now /\ (j.n.chain # <<>> => j.n.chain[Len(j.n.chain)].inst <= s.inst)
  <2>1. Latest(j.n, r.inst) /\ j.n.chain \in Seq(Samples) BY <1>2 DEF Sums, Numbers
  <2>2. CASE j.n.chain = <<>> BY <1>3, <2>1, <2>2 DEF Latest, None
  <2>3. CASE j.n.chain # <<>>
    <3> DEFINE l == Len(j.n.chain)
    <3>1. l \in DOMAIN j.n.chain BY <2>1, <2>3, EmptySeq
    <3>2. j.n.chain[l] \in Samples BY <2>1, <3>1
    <3>3. j.n.chain[l].at \in 1..Now /\ j.n.chain[l].inst = past[j.n.chain[l].at].inst
      BY <1>2, <1>3, <3>1, <3>2 DEF AreOf, Samples
    <3>4. j.n.last = j.n.chain[l].at BY <2>1, <2>3 DEF Latest
    <3>6. j.n.chain[l].at <= Now /\ Now \in 1..Now BY <1>3, <3>3
    <3>5. past[j.n.chain[l].at].inst <= past[Now].inst
      <4> DEFINE t == j.n.chain[l].at
      <4>1. t \in 1..Now /\ t <= Now BY <3>3, <3>6
      <4> HIDE DEF t
      <4>2. past[t].inst <= past[Now].inst BY <1>3, <3>6, <4>1 DEF PastOK
      <4> QED BY <4>2 DEF t
    <3> QED BY <1>5, <3>3, <3>4, <3>5, <3>6
  <2> QED BY <2>2, <2>3
<1>8. StartsSince(r.start) \in Nat
  <2>3. r.start + 1 \in Int /\ Now \in Int BY <1>3, <1>4
  <2>1. IsFiniteSet(r.start + 1..Now) BY <2>3, FS_Interval
  <2>2. IsFiniteSet({t \in r.start + 1..Now : past[t].inst # past[t - 1].inst}) BY <2>1, FS_Subset
  <2> QED BY <2>2, FS_CardinalityType DEF StartsSince
<1> HIDE DEF s
<1>9. Sums(m, r.inst) /\ m.chain = Append(j.n.chain, s) /\ m.last = s.at /\ m.starts = StartsSince(r.start)
  <2>1. PICK n, f, x, st : n = j.n /\ f = r.inst /\ x = s /\ st = StartsSince(r.start) OBVIOUS
  <2>2. m = Aggregate(n, f, x, st) BY <2>1
  <2>3. /\ x \in Samples /\ f \in Nat \ {0} /\ st \in Nat /\ Sums(n, f) /\ n.last <= x.at /\ f <= x.inst
        /\ n.chain # <<>> => n.chain[Len(n.chain)].inst <= x.inst
    BY <1>2, <1>4, <1>5, <1>6, <1>7, <1>8, <2>1
  <2> HIDE DEF m
  <2>4. Sums(m, f) /\ m.chain = Append(n.chain, x) /\ m.last = x.at /\ m.starts = st
    BY <2>2, <2>3, AggregateKeepsSums
  <2> QED BY <2>1, <2>4
<1> HIDE DEF m
<1>10. AreOf(m.chain, r.start)
  <2>1. j.n.chain \in Seq(Samples) BY <1>2 DEF Sums, Numbers
  <2>2. ASSUME NEW k \in DOMAIN m.chain
        PROVE  m.chain[k] = s \/ (k \in DOMAIN j.n.chain /\ m.chain[k] = j.n.chain[k])
    BY <1>5, <1>9, <2>1, <2>2, ChainGrows
  <2> QED BY <1>2, <1>3, <1>4, <1>5, <2>2 DEF AreOf
<1>11. m.chain # <<>>
  <2>1. j.n.chain \in Seq(Samples) BY <1>2 DEF Sums, Numbers
  <2> QED BY <1>5, <1>9, <2>1, ChainGrows
<1>12. m.starts = 0 => SameDaemon(r, Now) BY <1>3, <1>4, <1>9, NoStarts DEF SameDaemon
<1>13. jj.pc = "load" /\ jj.id = j.id /\ jj.todo = j.todo /\ jj.at = Now /\ jj.n = m OBVIOUS
<1>14. jj \in Jobs BY <1>1, <1>3, <1>9 DEF Jobs, Sums
<1>15. Goes(p, jj) /\ UNCHANGED <<past, rows>> BY DEF Look, s, m
<1> HIDE DEF jj
<1>16. JobOK(jj)
  <2>1. Sound(jj.n, rows[jj.id]) BY <1>9, <1>10, <1>13 DEF Sound, Run
  <2>2. jj.n.chain # <<>> /\ jj.n.last = jj.at /\ jj.at <= Now BY <1>3, <1>5, <1>9, <1>11, <1>13
  <2>3. jj.n.starts = 0 => SameDaemon(rows[jj.id], jj.at) BY <1>12, <1>13 DEF Run
  <2> QED BY <1>1, <1>13, <1>14, <2>1, <2>2, <2>3 DEF JobOK, WithId, WithTodo
<1> QED BY <1>15, <1>16, OnlyJob

\* What is written after the verdict was made of the samples before it.
LEMMA CommitKeeps == ASSUME SoakInv, NEW p \in Processes, Commit(p) PROVE SoakInv'
<1> DEFINE j == job[p]
           i == j.id
           n == Closed(j.n, j.at)
           r0 == [rows[i] EXCEPT !.n = j.n]
<1>1. /\ j \in [pc : {"load", "commit"}, id : Nat, todo : SUBSET Nat, at : Nat, n : Numbers] /\ JobOK(j)
      /\ i \in DOMAIN rows /\ rows[i] \in Runs /\ RunOK(rows[i]) /\ j.todo \in SUBSET DOMAIN rows
      /\ rows \in Seq(Runs)
  BY JobIs DEF Commit, At, WithId, WithTodo, Run
<1>2. /\ Sound(j.n, rows[i]) /\ j.n.chain # <<>> /\ j.n.last = j.at /\ j.at <= Now
      /\ j.n.starts = 0 => SameDaemon(rows[i], j.at)
      /\ j.at \in Nat /\ j.n \in Numbers
  BY <1>1 DEF JobOK, Commit, At
<1>3. Target \in Nat \ {0} /\ rows[i].start \in Nat \ {0} /\ rows[i].finished \in Nat
  BY <1>1, SoakAssumption DEF Runs
<1>4. Goes(p, Rest(p)) /\ past' = past BY DEF Commit
<1>5. Rest(p) = Idle \/ \E t \in SUBSET DOMAIN rows : Rest(p) = [pc |-> "next", todo |-> t]
  BY <1>1, Resting DEF Rest
<1>6. CASE j.at < rows[i].start + Target
  <2>1. /\ r0 \in Runs /\ r0.start = rows[i].start /\ r0.inst = rows[i].inst /\ r0.n = j.n
        /\ r0.status = rows[i].status /\ r0.finished = rows[i].finished /\ r0.judged = rows[i].judged
    BY <1>1, <1>2 DEF Runs
  <2>2. rows' = [rows EXCEPT ![i] = r0] BY <1>6 DEF Commit, Run
  <2> HIDE DEF r0
  <2>3. r0.status \in Verdicts => r0.n.last # r0.finished
    <3>1. rows[i].status \in Verdicts => rows[i].start + Target <= rows[i].finished BY <1>1 DEF RunOK
    <3> QED BY <1>2, <1>3, <1>6, <2>1, <3>1
  <2>4. r0.status = "success" => Earned(r0) BY <1>1, <2>1 DEF RunOK, Earned, SameDaemon
  <2>5. Sound(r0.n, r0) BY <1>2, <2>1 DEF Sound
  <2>6. RunOK(r0) BY <1>1, <1>2, <1>6, <2>1, <2>3, <2>4, <2>5 DEF RunOK
  <2> QED BY <1>1, <1>4, <1>5, <2>1, <2>2, <2>6, OneRow
<1>7. CASE ~(j.at < rows[i].start + Target)
  <2>0. PICK v \in Outcomes(n) :
          rows' = [rows EXCEPT ![i].n = n, ![i].finished = j.at, ![i].judged = n.chain,
                               ![i].status = v]
    BY <1>7 DEF Commit, Run
  <2> DEFINE r1 == [rows[i] EXCEPT !.n = n, !.finished = j.at, !.judged = n.chain, !.status = v]
  <2>1. /\ Sums(n, rows[i].inst) /\ n = [j.n EXCEPT !.longest = n.longest]
        /\ \A k \in Starts(j.n.chain) : Length(j.n.chain, k) <= n.longest
    <3>1. j.at \in Nat /\ Sums(j.n, rows[i].inst) /\ j.n.last <= j.at BY <1>2 DEF Sound
    <3>2. PICK m, f, a : m = j.n /\ f = rows[i].inst /\ a = j.at OBVIOUS
    <3>3. /\ Sums(Closed(m, a), f) /\ Closed(m, a) = [m EXCEPT !.longest = Closed(m, a).longest]
          /\ \A k \in Starts(m.chain) : Length(m.chain, k) <= Closed(m, a).longest
      <4>1. a \in Nat /\ Sums(m, f) /\ m.last <= a BY <3>1, <3>2
      <4> HIDE DEF j, i
      <4> QED BY <4>1, ClosedKeepsSums
    <3> QED BY <3>2, <3>3
  <2> HIDE DEF n
  <2>2. /\ n \in Numbers /\ n.chain = j.n.chain /\ n.last = j.at /\ n.starts = j.n.starts
        /\ n.chain \in Seq(Samples)
    BY <1>2, <2>1 DEF Numbers, Sums
  <2>3. /\ r1 \in Runs /\ r1.start = rows[i].start /\ r1.inst = rows[i].inst /\ r1.n = n
        /\ r1.status = v /\ r1.finished = j.at /\ r1.judged = n.chain
    <3>1. v \in {"running", "skipped"} \cup Verdicts BY <2>0 DEF Verdicts, Outcomes
    <3>2. r1 = [rows[i] EXCEPT !.n = n, !.finished = j.at, !.judged = n.chain, !.status = v] OBVIOUS
    <3> HIDE DEF r1
    <3> QED BY <1>1, <1>2, <2>2, <3>1, <3>2 DEF Runs
  <2>4. rows' = [rows EXCEPT ![i] = r1] BY <2>0
  <2> HIDE DEF r1
  <2>5. Sound(r1.n, r1) BY <1>2, <2>1, <2>2, <2>3 DEF Sound
  <2>6. r1.status \in Verdicts /\ r1.start + Target <= r1.finished
    BY <1>2, <1>3, <1>7, <2>0, <2>3 DEF Verdicts, Outcomes
  <2>7. \A k \in Starts(r1.n.chain) : Length(r1.n.chain, k) <= r1.n.longest BY <2>1, <2>2, <2>3
  <2>8. ASSUME r1.status = "success" PROVE Earned(r1)
    <3>1. Passes(n) BY <2>0, <2>3, <2>8 DEF Outcomes
    <3> DEFINE c == n.chain
    <3>2. Tally(n, rows[i].inst) /\ Latest(n, rows[i].inst) BY <2>1 DEF Sums
    <3>3. c # <<>> /\ c[Len(c)].at = j.at BY <1>2, <2>2, <3>2 DEF Latest
    <3>4. AreOf(c, rows[i].start) BY <1>2, <2>2 DEF Sound
    <3>5. \A k \in DOMAIN c : c[k].ok
      <4>1. n.bad = 0 BY <3>1 DEF Passes
      <4>2. BadOnes(c) = {} BY <3>2, <4>1, FS_EmptySet DEF Tally
      <4> QED BY <4>2 DEF BadOnes
    <3>6. ASSUME NEW k \in 2..Len(c)
          PROVE  c[k - 1].at <= c[k].at /\ c[k].at - c[k - 1].at <= MaxGap
      <4>1. n.gap <= MaxGap /\ MaxGap \in Nat /\ n.gap \in Nat
        BY <2>2, <3>1, SoakAssumption DEF Passes, Numbers
      <4>2. c[k - 1].at <= c[k].at /\ c[k].at - c[k - 1].at <= n.gap BY <3>2 DEF Tally
      <4>3. k \in DOMAIN c /\ k - 1 \in DOMAIN c BY <2>2
      <4>4. c[k] \in Samples /\ c[k - 1] \in Samples BY <2>2, <4>3
      <4>5. c[k].at \in Nat /\ c[k - 1].at \in Nat BY <4>4 DEF Samples
      <4> HIDE DEF c
      <4> QED BY <4>1, <4>2, <4>5
    <3>7. SameDaemon(rows[i], j.at) BY <1>2, <2>2, <3>1 DEF Passes
    <3> HIDE DEF c
    <3>8. r1.judged = c BY <2>3 DEF c
    <3> QED BY <1>2, <2>3, <3>3, <3>4, <3>5, <3>6, <3>7, <3>8 DEF Earned, SameDaemon
  <2>9. RunOK(r1) BY <1>1, <2>3, <2>5, <2>6, <2>7, <2>8 DEF RunOK, Verdicts
  <2> QED BY <1>1, <1>4, <1>5, <2>3, <2>4, <2>9, OneRow
<1> QED BY <1>6, <1>7

LEMMA FailKeeps == ASSUME SoakInv, NEW p \in Processes, Fail(p) PROVE SoakInv'
<1>1. /\ job[p].id \in DOMAIN rows /\ job[p].todo \in SUBSET DOMAIN rows /\ DOMAIN rows \subseteq Nat
  BY JobIs DEF Fail, Sampling, WithId, WithTodo
<1>2. JobOK([pc |-> "mark", id |-> job[p].id, todo |-> job[p].todo])
  BY <1>1 DEF JobOK, Jobs, WithId, WithTodo
<1>3. JobOK(Idle) BY Resting
<1>4. PICK j : Goes(p, j) /\ JobOK(j) BY <1>2, <1>3 DEF Fail
<1> QED BY <1>4, OnlyJob DEF Fail

LEMMA MarkKeeps == ASSUME SoakInv, NEW p \in Processes, Mark(p) PROVE SoakInv'
<1> DEFINE j == job[p]
           i == j.id
           n == [j.n EXCEPT !.monitor = IF @ < MaxTime THEN @ + 1 ELSE @]
           r == [rows[i] EXCEPT !.n = n]
<1>1. /\ j \in [pc : {"look", "note"}, id : Nat, todo : SUBSET Nat, n : Numbers] /\ JobOK(j)
      /\ i \in DOMAIN rows /\ rows[i] \in Runs /\ RunOK(rows[i]) /\ j.todo \in SUBSET DOMAIN rows
      /\ rows \in Seq(Runs)
  BY JobIs DEF Mark, At, WithId, WithTodo, Run
<1>2. Sound(j.n, rows[i]) /\ j.n.last < rows[i].start + Target /\ j.n \in Numbers
  BY <1>1 DEF JobOK, Mark, At
<1>3. Target \in Nat \ {0} /\ rows[i].start \in Nat \ {0} /\ rows[i].finished \in Nat
  BY <1>1, SoakAssumption DEF Runs
<1>4. /\ n \in Numbers /\ n.count = j.n.count /\ n.bad = j.n.bad /\ n.last = j.n.last /\ n.gap = j.n.gap
      /\ n.since = j.n.since /\ n.outages = j.n.outages /\ n.longest = j.n.longest
      /\ n.changes = j.n.changes /\ n.changed = j.n.changed /\ n.chain = j.n.chain
  <2>1. PICK v : v = (IF j.n.monitor < MaxTime THEN j.n.monitor + 1 ELSE j.n.monitor) OBVIOUS
  <2>2. j.n.monitor \in Nat /\ MaxTime \in Nat BY <1>2, SoakAssumption DEF Numbers
  <2>3. v \in Nat BY <2>1, <2>2
  <2>4. n = [j.n EXCEPT !.monitor = v] BY <2>1
  <2> HIDE DEF n
  <2> QED BY <1>2, <2>3, <2>4 DEF Numbers
<1>5. rows' = [rows EXCEPT ![i] = r] BY DEF Mark
<1> HIDE DEF n
<1>6. Sound(n, rows[i]) BY <1>2, <1>4 DEF Sound, Sums, Tally, Latest
<1>7. /\ r \in Runs /\ r.start = rows[i].start /\ r.inst = rows[i].inst /\ r.n = n
      /\ r.status = rows[i].status /\ r.finished = rows[i].finished /\ r.judged = rows[i].judged
  BY <1>1, <1>4 DEF Runs
<1> HIDE DEF r
<1>8. r.status \in Verdicts => r.n.last # r.finished
  <2>1. rows[i].status \in Verdicts => rows[i].start + Target <= rows[i].finished BY <1>1 DEF RunOK
  <2>2. n.last \in Nat BY <1>4 DEF Numbers
  <2> QED BY <1>2, <1>3, <1>4, <1>7, <2>1, <2>2
<1>9. r.status = "success" => Earned(r) BY <1>1, <1>7 DEF RunOK, Earned, SameDaemon
<1>10. Sound(r.n, r) BY <1>6, <1>7 DEF Sound
<1>11. RunOK(r) BY <1>1, <1>2, <1>4, <1>7, <1>8, <1>9, <1>10 DEF RunOK
<1>12. Rest(p) = Idle \/ \E t \in SUBSET DOMAIN rows : Rest(p) = [pc |-> "next", todo |-> t]
  BY <1>1, Resting DEF Rest
<1> QED BY <1>1, <1>5, <1>7, <1>11, <1>12, OneRow DEF Mark

\* A minute more leaves what was seen as it was.
LEMMA TickKeeps == ASSUME SoakInv, Tick PROVE SoakInv'
<1> DEFINE M == [world : Worlds, inst : Nat \ {0}]
<1>1. PICK w \in Worlds, i \in {Inst, Inst + 1} : past' = Append(past, [world |-> w, inst |-> i])
  BY DEF Tick
<1>2. /\ Now \in Nat \ {0} /\ PastOK /\ past \in Seq(M)
      /\ \A t \in 1..Now : past[t].inst \in Nat \ {0}
  BY PastIs DEF SoakInv, PastOK
<1>3. Inst \in Nat \ {0} BY <1>2 DEF Inst
<1>4. [world |-> w, inst |-> i] \in M BY <1>3
<1> HIDE DEF M
<1>5. /\ past' \in Seq(M) /\ past' # <<>> /\ Now' = Now + 1
      /\ \A t \in 1..Now : past'[t] = past[t]
      /\ past'[Now + 1] = [world |-> w, inst |-> i]
  BY <1>1, <1>2, <1>4, AppendProperties DEF Now
<1>6. ASSUME NEW t \in 1..Now', NEW u \in 1..Now', t <= u PROVE past'[t].inst <= past'[u].inst
  <2>1. t \in 1..Now \/ t = Now + 1 BY <1>2, <1>5
  <2>2. u \in 1..Now \/ u = Now + 1 BY <1>2, <1>5
  <2>3. past'[Now + 1].inst = i BY <1>5
  <2>4. CASE u \in 1..Now
    <3>1. t \in 1..Now BY <1>2, <1>6, <2>1, <2>4
    <3> QED BY <1>2, <1>5, <1>6, <2>4, <3>1 DEF PastOK
  <2>5. CASE u = Now + 1 /\ t \in 1..Now
    <3>1. Now \in 1..Now /\ t <= Now BY <1>2, <2>5
    <3>2. past[t].inst <= past[Now].inst BY <1>2, <2>5, <3>1 DEF PastOK
    <3>3. past[t].inst \in Nat /\ Inst = past[Now].inst BY <1>2, <2>5 DEF Inst
    <3> QED BY <1>3, <1>5, <2>3, <2>5, <3>2, <3>3
  <2>6. CASE u = Now + 1 /\ t = Now + 1 BY <1>3, <2>3, <2>6
  <2> QED BY <2>1, <2>2, <2>4, <2>5, <2>6
<1>7. PastOK' BY <1>5, <1>6 DEF PastOK, M
<1>8. UNCHANGED <<rows, job>> BY DEF Tick
<1>9. ASSUME NEW c, NEW start, c \in Seq(Samples), AreOf(c, start) PROVE AreOf(c, start)'
  <2> SUFFICES ASSUME NEW k \in DOMAIN c
               PROVE  /\ start <= c[k].at /\ c[k].at <= Now'
                      /\ c[k].inst = past'[c[k].at].inst /\ c[k].ok = Healthy(past'[c[k].at].world)
    BY DEF AreOf
  <2>1. c[k] \in Samples BY <1>9
  <2>2. c[k].at \in 1..Now BY <1>2, <1>9, <2>1 DEF Samples, AreOf
  <2>3. past'[c[k].at] = past[c[k].at] BY <1>5, <2>2
  <2>4. c[k].at <= Now' BY <1>2, <1>5, <2>2
  <2> QED BY <1>9, <2>3, <2>4 DEF AreOf
<1>10. ASSUME NEW start \in Nat \ {0}, NEW at \in Nat, at <= Now, NEW t \in start..at
       PROVE  past'[t] = past[t]
  BY <1>2, <1>5, <1>10
<1>11. ASSUME NEW n \in Numbers, NEW r \in Runs, Sound(n, r) PROVE Sound(n, r)'
  <2>1. n.chain \in Seq(Samples) BY DEF Numbers
  <2> QED BY <1>9, <1>11, <2>1 DEF Sound
<1>12. ASSUME NEW r \in Runs, RunOK(r) PROVE RunOK(r)'
  <2>1. r.start \in 1..Now /\ past'[r.start] = past[r.start] /\ r.start <= Now'
    BY <1>2, <1>5, <1>12 DEF RunOK, Runs
  <2>2. Sound(r.n, r)' BY <1>11, <1>12 DEF RunOK, Runs
  <2>3. ASSUME Earned(r) PROVE Earned(r)'
    <3>1. r.judged \in Seq(Samples) /\ r.finished \in Nat /\ r.start \in Nat \ {0} BY DEF Runs
    <3>2. AreOf(r.judged, r.start)' BY <1>9, <2>3, <3>1 DEF Earned
    <3>3. r.finished <= Now /\ r.finished <= Now' BY <1>2, <1>5, <2>3, <3>1 DEF Earned
    <3>4. SameDaemon(r, r.finished)' BY <1>10, <2>3, <3>1, <3>3 DEF Earned, SameDaemon
    <3> QED BY <2>3, <3>2, <3>3, <3>4 DEF Earned
  <2> QED BY <1>12, <2>1, <2>2, <2>3 DEF RunOK
<1>13. RowsOK' BY <1>8, <1>12 DEF SoakInv, RowsOK
<1>14. ASSUME NEW j, JobOK(j) PROVE JobOK(j)'
  <2>1. j \in Jobs /\ rows \in Seq(Runs) BY <1>14 DEF JobOK, SoakInv, RowsOK
  <2>2. j.pc = "insert" => j.start \in Nat \ {0} BY <2>1 DEF Jobs
  <2>3. j.pc \in {"look", "note", "skip", "load", "commit"} => j.n \in Numbers BY <2>1 DEF Jobs
  <2>4. j.pc \in {"load", "commit"} => j.at \in Nat BY <2>1 DEF Jobs
  <2>5. j.pc \in WithId => rows[j.id] \in Runs /\ rows[j.id].start \in Nat \ {0}
    <3> SUFFICES ASSUME j.pc \in WithId PROVE rows[j.id] \in Runs /\ rows[j.id].start \in Nat \ {0}
      OBVIOUS
    <3>1. j.id \in DOMAIN rows BY <1>14 DEF JobOK
    <3>2. rows[j.id] \in Runs BY <2>1, <3>1
    <3> QED BY <3>2 DEF Runs
  <2>6. j.pc = "insert" => j.start <= Now' /\ j.inst = past'[j.start].inst
    BY <1>2, <1>5, <1>14, <2>2 DEF JobOK
  <2>7. j.pc \in {"look", "note", "skip", "load", "commit"} => Sound(j.n, rows[j.id])'
    BY <1>8, <1>11, <1>14, <2>3, <2>5 DEF JobOK, WithId
  <2>8. j.pc \in {"load", "commit"} => j.at <= Now' /\ (j.n.starts = 0 => SameDaemon(rows[j.id], j.at)')
    <3> SUFFICES ASSUME j.pc \in {"load", "commit"}
                 PROVE  j.at <= Now' /\ (j.n.starts = 0 => SameDaemon(rows[j.id], j.at)')
      OBVIOUS
    <3>1. j.at \in Nat /\ j.at <= Now /\ rows[j.id].start \in Nat \ {0} BY <1>14, <2>4, <2>5 DEF JobOK, WithId
    <3> QED BY <1>2, <1>5, <1>8, <1>10, <1>14, <3>1 DEF JobOK, SameDaemon
  <2> QED BY <1>8, <1>14, <2>6, <2>7, <2>8 DEF JobOK
<1>15. JobsOK' BY <1>8, <1>14 DEF SoakInv, JobsOK
<1> QED BY <1>7, <1>13, <1>15 DEF SoakInv

LEMMA OthersKeep ==
  ASSUME SoakInv, Watch \/ (\E p \in Processes : Die(p)) \/ DeleteAccount \/ UNCHANGED vars
  PROVE  SoakInv'
<1>1. ASSUME UNCHANGED <<past, rows, job>> PROVE SoakInv'
  <2>1. PICK p : p = "watchdog" OBVIOUS
  <2>2. p \in Processes BY <2>1 DEF Processes
  <2>3. JobOK(job[p]) BY <2>2, JobIs
  <2>4. Goes(p, job[p]) BY <1>1, <2>2 DEF Goes, SoakInv, JobsOK
  <2> QED BY <1>1, <2>2, <2>3, <2>4, OnlyJob
<1>2. CASE Watch
  <2>1. "watchdog" \in Processes BY DEF Processes
  <2>2. Active \in SUBSET DOMAIN rows BY DEF Active
  <2>3. JobOK(Pass(Active)) BY <2>2, Resting
  <2>4. CASE Goes("watchdog", Pass(Active)) BY <1>2, <2>1, <2>3, <2>4, OnlyJob DEF Watch
  <2>5. CASE UNCHANGED job BY <1>1, <1>2, <2>5 DEF Watch
  <2> QED BY <1>2, <2>4, <2>5 DEF Watch
<1>3. ASSUME NEW p \in Processes, Die(p) PROVE SoakInv'
  BY <1>3, Resting, OnlyJob DEF Die
<1>4. CASE DeleteAccount BY <1>1, <1>4 DEF DeleteAccount
<1>5. CASE UNCHANGED vars BY <1>1, <1>5 DEF vars
<1> QED BY <1>2, <1>3, <1>4, <1>5

\* The inductive invariant of every behaviour.
THEOREM SoakInvariant == Spec => []SoakInv
<1>1. Init => SoakInv
  <2> SUFFICES ASSUME Init PROVE SoakInv OBVIOUS
  <2>1. PICK w \in Worlds : past = <<[world |-> w, inst |-> 1]>> BY DEF Init
  <2>2. Now = 1 /\ past # <<>> /\ past[1].inst = 1 BY <2>1 DEF Now
  <2>3. past \in Seq([world : Worlds, inst : Nat \ {0}]) BY <2>1
  <2>4. PastOK BY <2>2, <2>3 DEF PastOK
  <2>5. rows = <<>> /\ job = [p \in Processes |-> Idle] BY DEF Init
  <2>6. RowsOK BY <2>5 DEF RowsOK
  <2>7. JobsOK BY <2>5 DEF JobsOK, JobOK, Jobs, Idle, WithId, WithTodo
  <2> QED BY <2>4, <2>6, <2>7 DEF SoakInv
<1>2. SoakInv /\ [Next]_vars => SoakInv'
  <2> SUFFICES ASSUME SoakInv, [Next]_vars PROVE SoakInv' OBVIOUS
  <2>1. ASSUME NEW p \in Operators, Operate(p) PROVE SoakInv'
    <3>1. p \in Processes BY DEF Processes
    <3> QED BY <2>1, <3>1, OperatorsRead, InsertKeeps, StopKeeps DEF Operate
  <2>2. ASSUME NEW p \in Processes, Sample(p) PROVE SoakInv'
    BY <2>2, SamplersRead, LookKeeps, CommitKeeps, FailKeeps, MarkKeeps DEF Sample
  <2> QED BY <2>1, <2>2, TickKeeps, OthersKeep DEF Next
<1> QED BY <1>1, <1>2, PTL DEF Spec

\* Whatever samplers, stops, deaths and errors overlap, the counts, gaps,
\* outages and changes of a row are those of the samples it was made of.
THEOREM NumbersAreSound == Spec => []NumbersAreOfItsSamples
<1>1. SoakInv => NumbersAreOfItsSamples
  <2> SUFFICES ASSUME SoakInv, NEW i \in DOMAIN rows
               PROVE  LET n == rows[i].n
                          c == n.chain
                      IN /\ n.count = Len(c) /\ n.bad = Cardinality({k \in DOMAIN c : ~c[k].ok})
                         /\ n.outages = Cardinality(Starts(c))
                         /\ \A k \in Starts(c) :
                              (Judged(i) \/ \E x \in k..Len(c) : c[x].ok)
                                => Length(c, k) <= n.longest
                         /\ n.changes = Cardinality({c[k].inst : k \in DOMAIN c} \ {rows[i].inst})
                         /\ \A k \in 2..Len(c) : c[k - 1].at <= c[k].at /\ c[k].at - c[k - 1].at <= n.gap
    BY DEF NumbersAreOfItsSamples
  <2>1. RunOK(rows[i]) BY DEF SoakInv, RowsOK
  <2>2. Tally(rows[i].n, rows[i].inst) BY <2>1 DEF RunOK, Sound, Sums
  <2>3. Judged(i) => \A k \in Starts(rows[i].n.chain) : Length(rows[i].n.chain, k) <= rows[i].n.longest
    BY <2>1 DEF Judged, RunOK, Verdicts
  <2> QED BY <2>2, <2>3 DEF Tally, BadOnes, Daemons, IsOver
<1> QED BY <1>1, SoakInvariant, PTL

\* A run that passed had no outage as long as the tolerated gap, from the first
\* sample it was judged by to its verdict, and one daemon until its deadline.
THEOREM PassesAreEarned == Spec => []PassIsEarned
<1>1. SoakInv => PassIsEarned
  <2> SUFFICES ASSUME SoakInv, NEW i \in Passed
               PROVE  /\ \A t \in rows[i].judged[1].at..rows[i].finished - MaxGap + 1 :
                           \E k \in t..t + MaxGap - 1 : Healthy(past[k].world)
                      /\ \A t \in rows[i].start..rows[i].start + Target :
                           past[t].inst = past[rows[i].start].inst
    BY DEF PassIsEarned, SawLongOutages, OneDaemon
  <2> DEFINE r == rows[i]
             c == r.judged
  <2>1. r \in Runs /\ RunOK(r) /\ r.status = "success" BY DEF Passed, SoakInv, RowsOK
  <2>2. Earned(r) /\ r.start + Target <= r.finished /\ r.inst = past[r.start].inst
    BY <2>1 DEF RunOK, Verdicts
  <2>3. r.start \in Nat /\ r.finished \in Nat /\ Target \in Nat /\ MaxGap \in Nat \ {0} /\ c \in Seq(Samples)
    BY <2>1, SoakAssumption DEF Runs
  <2>4. ASSUME NEW t \in r.start..r.start + Target PROVE past[t].inst = past[r.start].inst
    <3>1. t \in r.start..r.finished BY <2>2, <2>3
    <3> QED BY <2>2, <3>1 DEF Earned, SameDaemon
  <2>5. ASSUME NEW t \in c[1].at..r.finished - MaxGap + 1
        PROVE  \E k \in t..t + MaxGap - 1 : Healthy(past[k].world)
    <3> DEFINE later == {k \in DOMAIN c : t <= c[k].at}
    <3>1. DOMAIN c = 1..Len(c) /\ Len(c) \in Nat /\ Len(c) # 0 BY <2>2, <2>3, EmptySeq DEF Earned
    <3>2. \A k \in DOMAIN c : c[k].at \in Nat
      <4>1. \A k \in DOMAIN c : c[k] \in Samples
        <5> HIDE DEF c
        <5> QED BY <2>3
      <4> QED BY <4>1 DEF Samples
    <3>3. t \in Nat /\ c[1].at <= t /\ t <= r.finished - MaxGap + 1 BY <2>3, <3>1, <3>2
    <3>4. Len(c) \in later
      <4>1. c[Len(c)].at = r.finished BY <2>2 DEF Earned
      <4> QED BY <2>3, <3>1, <3>3, <4>1
    <3>5. PICK k \in later : \A x \in later : k <= x
      <4>1. later \subseteq Nat BY <3>1
      <4> HIDE DEF later
      <4> QED BY <3>4, <4>1, LeastExists
    <3>6. k \in DOMAIN c /\ t <= c[k].at BY <3>5
    <3>7. c[k].at <= t + MaxGap - 1
      <4>1. CASE k = 1 BY <2>3, <3>2, <3>3, <3>6, <4>1
      <4>2. CASE k # 1
        <5>1. k - 1 \in DOMAIN c /\ k \in 2..Len(c) /\ k - 1 < k BY <3>1, <3>6, <4>2
        <5>2. k - 1 \notin later BY <3>1, <3>5, <5>1
        <5>3. c[k - 1].at < t BY <3>2, <3>3, <5>1, <5>2
        <5>4. c[k].at - c[k - 1].at <= MaxGap BY <2>2, <5>1 DEF Earned
        <5>5. c[k].at \in Nat /\ c[k - 1].at \in Nat BY <3>2, <3>6, <5>1
        <5> HIDE DEF c
        <5> QED BY <2>3, <3>3, <5>3, <5>4, <5>5
      <4> QED BY <4>1, <4>2
    <3>8. Healthy(past[c[k].at].world) BY <2>2, <3>6 DEF Earned, AreOf
    <3>9. c[k].at \in t..t + MaxGap - 1 BY <2>3, <3>2, <3>3, <3>6, <3>7
    <3> QED BY <3>8, <3>9
  <2> QED BY <2>4, <2>5
<1> QED BY <1>1, SoakInvariant, PTL
=============================================================================
