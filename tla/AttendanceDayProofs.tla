------------------------ MODULE AttendanceDayProofs ------------------------
(***************************************************************************)
(* Proofs about summarizeEvents, for days of any number of punches, and     *)
(* about AttendanceDay, for any punches, corrections and requests.          *)
(***************************************************************************)
EXTENDS AttendanceServed, WorkedDay, FiniteSetTheorems, WellFoundedInduction, TLAPS

(* Induction up to a number, in the form of a set of numbers. *)

LEMMA LeastMember ==
    ASSUME NEW S \in SUBSET Int, IsFiniteSet(S), S # {}
    PROVE  \E x \in S : \A y \in S : x <= y
<1> DEFINE Below(x) == {y \in S : y < x}
           T == {Below(x) : x \in S}
<1>1. T \subseteq FiniteSubsetsOf(S) /\ T # {}
  <2>1. \A x \in S : Below(x) \in FiniteSubsetsOf(S) BY FS_Subset DEF FiniteSubsetsOf
  <2> QED BY <2>1
<1>2. PICK A \in T : \A B \in T : <<B, A>> \notin StrictSubsetOrdering(S)
  <2> HIDE DEF T
  <2> QED BY <1>1, WFMin, FS_StrictSubsetOrderingWellFounded
<1>3. PICK x \in S : A = Below(x) BY <1>2
<1>4. ASSUME NEW y \in S PROVE x <= y
  <2>1. x \in Int /\ y \in Int /\ \A z \in S : z \in Int OBVIOUS
  <2>2. CASE y < x
    <3>1. Below(y) \subseteq Below(x)
      <4> SUFFICES ASSUME NEW z \in S, z < y PROVE z < x OBVIOUS
      <4> QED BY <2>1, <2>2
    <3>2. y \in Below(x) /\ y \notin Below(y) BY <2>1, <2>2
    <3>3. <<Below(y), Below(x)>> \in StrictSubsetOrdering(S)
      BY <3>1, <3>2 DEF StrictSubsetOrdering
    <3> QED BY <1>2, <1>3, <3>3
  <2> QED BY <2>1, <2>2
<1> QED BY <1>4

LEMMA UpTo ==
    ASSUME NEW n \in Nat, NEW S, 0 \in S, \A k \in 0..n : k \in S /\ k < n => k + 1 \in S
    PROVE  \A k \in 0..n : k \in S
<1> DEFINE T == {k \in 0..n : k \notin S}
<1>1. CASE T = {} BY <1>1
<1>2. CASE T # {}
  <2>1. IsFiniteSet(T)
    <3>1. IsFiniteSet(0..n) BY FS_Interval
    <3> QED BY <3>1, FS_Subset
  <2>2. T \in SUBSET Int OBVIOUS
  <2>3. PICK m \in T : \A k \in T : m <= k
    <3> HIDE DEF T
    <3> QED BY <1>2, <2>1, <2>2, LeastMember
  <2>4. m # 0 /\ m - 1 \in 0..n /\ m - 1 < n /\ m \in 0..n OBVIOUS
  <2>5. m - 1 \in S BY <2>3, <2>4
  <2>6. (m - 1) + 1 \in S BY <2>4, <2>5
  <2> QED BY <2>4, <2>6
<1> QED BY <1>1, <1>2

---------------------------------------------------------------------------
(* The loop of summarizeEvents. *)

\* The loop makes one turn for each event.
LEMMA LoopTurns ==
    ASSUME NEW seq, NEW n \in Nat, Len(seq) = n
    PROVE  Loop(seq) = [k \in 0..n |-> IF k = 0 THEN Start ELSE Punch(Loop(seq)[k - 1], seq[k])]
<1> DEFINE Made(f, m) == f = [k \in 0..m |-> IF k = 0 THEN Start ELSE Punch(f[k - 1], seq[k])]
           S == {m \in 0..n : \E f : Made(f, m)}
<1>1. 0 \in S
  <2>1. PICK f : f = [k \in 0..0 |-> Start] OBVIOUS
  <2>2. Made(f, 0) BY <2>1
  <2> QED BY <2>2
<1>2. ASSUME NEW m \in 0..n, m \in S, m < n PROVE m + 1 \in S
  <2>1. PICK f : Made(f, m) BY <1>2
  <2>2. PICK g : g = [k \in 0..m + 1 |-> IF k = m + 1 THEN Punch(f[m], seq[m + 1]) ELSE f[k]]
    OBVIOUS
  <2>3. ASSUME NEW k \in 0..m + 1
        PROVE  g[k] = IF k = 0 THEN Start ELSE Punch(g[k - 1], seq[k])
    <3>1. CASE k = m + 1
      <4>1. g[k] = Punch(f[m], seq[k]) /\ k # 0 /\ k - 1 = m BY <2>2, <3>1
      <4>2. g[m] = f[m] BY <2>2
      <4> QED BY <4>1, <4>2
    <3>2. CASE k # m + 1
      <4>1. k \in 0..m /\ g[k] = f[k] BY <2>2, <3>2
      <4>2. f[k] = IF k = 0 THEN Start ELSE Punch(f[k - 1], seq[k]) BY <2>1, <4>1
      <4>3. k # 0 => k - 1 \in 0..m + 1 /\ k - 1 # m + 1 BY <4>1
      <4>4. k # 0 => g[k - 1] = f[k - 1] BY <2>2, <4>3
      <4> QED BY <4>1, <4>2, <4>4
    <3> QED BY <3>1, <3>2
  <2>4. Made(g, m + 1) BY <2>2, <2>3
  <2>5. m + 1 \in 0..n BY <1>2
  <2> HIDE DEF Made
  <2> QED BY <2>4, <2>5
<1>3. n \in S
  <2> HIDE DEF S
  <2>1. \A k \in 0..n : k \in S /\ k < n => k + 1 \in S BY <1>2
  <2>2. \A k \in 0..n : k \in S BY ONLY <1>1, <2>1, n \in Nat, UpTo
  <2> QED BY <2>2
<1>4. \E f : Made(f, n) BY <1>3
<1>5. Loop(seq) = CHOOSE f : Made(f, n) BY DEF Loop
<1> HIDE DEF Made
<1>6. Made(Loop(seq), n) BY <1>4, <1>5
<1> QED BY <1>6 DEF Made

LEMMA WorkAdds ==
    ASSUME NEW seq, NEW n \in Nat, Len(seq) = n
    PROVE  WorkUpTo(seq) =
               [k \in 0..n |-> IF k = 0 THEN 0 ELSE WorkUpTo(seq)[k - 1] + Ticks(seq, k)]
<1> DEFINE Made(f, m) == f = [k \in 0..m |-> IF k = 0 THEN 0 ELSE f[k - 1] + Ticks(seq, k)]
           S == {m \in 0..n : \E f : Made(f, m)}
<1>1. 0 \in S
  <2>1. PICK f : f = [k \in 0..0 |-> 0] OBVIOUS
  <2>2. Made(f, 0) BY <2>1
  <2> QED BY <2>2
<1>2. ASSUME NEW m \in 0..n, m \in S, m < n PROVE m + 1 \in S
  <2>1. PICK f : Made(f, m) BY <1>2
  <2>2. PICK g : g = [k \in 0..m + 1 |-> IF k = m + 1 THEN f[m] + Ticks(seq, m + 1) ELSE f[k]]
    OBVIOUS
  <2>3. ASSUME NEW k \in 0..m + 1
        PROVE  g[k] = IF k = 0 THEN 0 ELSE g[k - 1] + Ticks(seq, k)
    <3>1. CASE k = m + 1
      <4>1. g[k] = f[m] + Ticks(seq, k) /\ k # 0 /\ k - 1 = m BY <2>2, <3>1
      <4>2. g[m] = f[m] BY <2>2
      <4> QED BY <4>1, <4>2
    <3>2. CASE k # m + 1
      <4>1. k \in 0..m /\ g[k] = f[k] BY <2>2, <3>2
      <4>2. f[k] = IF k = 0 THEN 0 ELSE f[k - 1] + Ticks(seq, k) BY <2>1, <4>1
      <4>3. k # 0 => k - 1 \in 0..m + 1 /\ k - 1 # m + 1 BY <4>1
      <4>4. k # 0 => g[k - 1] = f[k - 1] BY <2>2, <4>3
      <4> QED BY <4>1, <4>2, <4>4
    <3> QED BY <3>1, <3>2
  <2>4. Made(g, m + 1) BY <2>2, <2>3
  <2>5. m + 1 \in 0..n BY <1>2
  <2> HIDE DEF Made
  <2> QED BY <2>4, <2>5
<1>3. n \in S
  <2> HIDE DEF S
  <2>1. \A k \in 0..n : k \in S /\ k < n => k + 1 \in S BY <1>2
  <2>2. \A k \in 0..n : k \in S BY ONLY <1>1, <2>1, n \in Nat, UpTo
  <2> QED BY <2>2
<1>4. \E f : Made(f, n) BY <1>3
<1>5. WorkUpTo(seq) = CHOOSE f : Made(f, n) BY DEF WorkUpTo
<1> HIDE DEF Made
<1>6. Made(WorkUpTo(seq), n) BY <1>4, <1>5
<1> QED BY <1>6 DEF Made

---------------------------------------------------------------------------
\* Punches one after another.
Chronological(seq) ==
    /\ Len(seq) \in Nat /\ DOMAIN seq = 1..Len(seq)
    /\ seq = [k \in 1..Len(seq) |-> seq[k]]
    /\ \A k \in 1..Len(seq) : seq[k].at \in Nat
    /\ \A j, k \in 1..Len(seq) : j <= k => seq[j].at <= seq[k].at

\* The sort leaves alone what is in order.
LEMMA OrderedIsSame ==
    ASSUME NEW seq, Chronological(seq)
    PROVE  Ordered(seq) = seq
<1> DEFINE n == Len(seq)
<1>1. ASSUME NEW k \in 1..n PROVE Place(seq, k) = k
  <2>1. {j \in DOMAIN seq : seq[j].at < seq[k].at \/ (seq[j].at = seq[k].at /\ j <= k)} = 1..k
    <3>1. ASSUME NEW j \in 1..n
          PROVE  (seq[j].at < seq[k].at \/ (seq[j].at = seq[k].at /\ j <= k)) <=> j <= k
      BY DEF Chronological
    <3> QED BY <3>1 DEF Chronological
  <2>2. Cardinality(1..k) = k BY FS_Interval
  <2> QED BY <2>1, <2>2 DEF Place
<1>2. ASSUME NEW m \in 1..n PROVE (CHOOSE k \in DOMAIN seq : Place(seq, k) = m) = m
  BY <1>1 DEF Chronological
<1> QED BY <1>2 DEF Ordered, Chronological

\* Rounding to minutes moves an interval by a tick at most.
LEMMA MinutesRound ==
    ASSUME NEW t \in Nat
    PROVE  Minutes(t) \in Nat /\ t <= 2 * Minutes(t) /\ 2 * Minutes(t) <= t + 1
BY DEF Minutes

Known(acc) ==
    /\ DOMAIN acc = {"active", "brk", "worked", "breaks"}
    /\ acc.active \in Nat \cup {NoTime} /\ acc.brk \in Nat \cup {NoTime}
    /\ acc.worked \in Nat /\ acc.breaks \in Nat

\* The gross minutes worked so far: what is counted twice lies between the
\* first punch, a, and the one the work in progress began at, or now, t. Every
\* two punches may round up by a tick.
Counted(acc, a, t, k) ==
    /\ acc.active # NoTime => acc.active \in a..t /\ 2 * acc.worked <= acc.active - a + (k - 1) \div 2
    /\ acc.active = NoTime => 2 * acc.worked <= t - a + k \div 2
    /\ acc.brk # NoTime => acc.brk <= t

\* What one turn makes of the four fields.
LEMMA PunchEffect ==
    ASSUME NEW acc, Known(acc), NEW e, NEW after, after = Punch(acc, e),
           e.at \in Nat, acc.active # NoTime => acc.active <= e.at,
           acc.brk # NoTime => acc.brk <= e.at
    PROVE  /\ Known(after)
           /\ \/ /\ e.kind = "CLOCK_IN" /\ acc.active = NoTime
                 /\ after.active = e.at /\ after.brk = acc.brk
                 /\ after.worked = acc.worked /\ after.breaks = acc.breaks
              \/ /\ e.kind = "BREAK_START" /\ acc.active # NoTime /\ acc.brk = NoTime
                 /\ after.active = acc.active /\ after.brk = e.at
                 /\ after.worked = acc.worked /\ after.breaks = acc.breaks
              \/ /\ e.kind = "BREAK_END" /\ acc.brk # NoTime
                 /\ after.active = acc.active /\ after.brk = NoTime
                 /\ after.worked = acc.worked
                 /\ after.breaks = acc.breaks + Minutes(e.at - acc.brk)
              \/ /\ e.kind = "CLOCK_OUT" /\ acc.active # NoTime
                 /\ after.active = NoTime /\ after.brk = acc.brk
                 /\ after.worked = acc.worked + Minutes(e.at - acc.active)
                 /\ after.breaks = acc.breaks
              \/ /\ after = acc
                 /\ e.kind = "CLOCK_IN" => acc.active # NoTime
                 /\ e.kind = "BREAK_START" => acc.active = NoTime \/ acc.brk # NoTime
                 /\ e.kind = "BREAK_END" => acc.brk = NoTime
                 /\ e.kind = "CLOCK_OUT" => acc.active = NoTime
<1> DEFINE in    == e.kind = "CLOCK_IN" /\ acc.active = NoTime
           start == e.kind = "BREAK_START" /\ acc.active # NoTime /\ acc.brk = NoTime
           end   == e.kind = "BREAK_END" /\ acc.brk # NoTime
           out   == e.kind = "CLOCK_OUT" /\ acc.active # NoTime
<1>1. CASE in
  <2>1. after = [acc EXCEPT !.active = e.at] BY <1>1 DEF Punch
  <2> QED BY <1>1, <2>1 DEF Known
<1>2. CASE start
  <2>1. after = [acc EXCEPT !.brk = e.at] BY <1>2 DEF Punch
  <2> QED BY <1>2, <2>1 DEF Known
<1>3. CASE end
  <2>1. e.at - acc.brk \in Nat BY <1>3 DEF Known
  <2>2. PICK m : m = Minutes(e.at - acc.brk) OBVIOUS
  <2>3. m \in Nat BY <2>1, <2>2, MinutesRound
  <2>4. after = [acc EXCEPT !.breaks = @ + m, !.brk = NoTime] BY <1>3, <2>2 DEF Punch
  <2> QED BY <1>3, <2>2, <2>3, <2>4 DEF Known
<1>4. CASE out
  <2>1. e.at - acc.active \in Nat BY <1>4 DEF Known
  <2>2. PICK m : m = Minutes(e.at - acc.active) OBVIOUS
  <2>3. m \in Nat BY <2>1, <2>2, MinutesRound
  <2>4. after = [acc EXCEPT !.worked = @ + m, !.active = NoTime] BY <1>4, <2>2 DEF Punch
  <2> QED BY <1>4, <2>2, <2>3, <2>4 DEF Known
<1>5. CASE ~in /\ ~start /\ ~end /\ ~out
  <2>1. after = acc BY <1>5 DEF Punch
  <2> QED BY <1>5, <2>1
<1> QED BY <1>1, <1>2, <1>3, <1>4, <1>5

\* After each turn, whatever the kinds of the punches.
LEMMA LoopCounts ==
    ASSUME NEW seq, Chronological(seq)
    PROVE  \A k \in 0..Len(seq) :
               /\ Known(Loop(seq)[k])
               /\ k = 0 => Loop(seq)[k] = Start
               /\ k > 0 => Counted(Loop(seq)[k], seq[1].at, seq[k].at, k)
<1> DEFINE n == Len(seq)
           Good(k) == /\ Known(Loop(seq)[k])
                      /\ k = 0 => Loop(seq)[k] = Start
                      /\ k > 0 => Counted(Loop(seq)[k], seq[1].at, seq[k].at, k)
           S == {k \in 0..n : Good(k)}
<1>0. n \in Nat BY DEF Chronological
<1>1. /\ Loop(seq)[0] = Start
      /\ \A k \in 1..n : Loop(seq)[k] = Punch(Loop(seq)[k - 1], seq[k])
  BY <1>0, LoopTurns
<1>2. 0 \in S BY <1>0, <1>1 DEF Start, Known, NoTime
<1>3. ASSUME NEW k \in 0..n, k \in S, k < n PROVE k + 1 \in S
  <2>1. PICK acc, after, e, a : /\ acc = Loop(seq)[k] /\ after = Loop(seq)[k + 1]
                                /\ e = seq[k + 1] /\ a = seq[1].at
    OBVIOUS
  <2>2. after = Punch(acc, e) BY <1>1, <1>3, <2>1
  <2>3. Known(acc) /\ (k = 0 => acc = Start) BY <1>3, <2>1
  <2>4. e.at \in Nat /\ a \in Nat /\ a <= e.at BY <1>0, <1>3, <2>1 DEF Chronological
  <2>5. CASE k = 0
    <3>1. acc.active = NoTime /\ acc.brk = NoTime /\ acc.worked = 0 BY <2>3, <2>5 DEF Start
    <3>2. e.at = a BY <2>1, <2>5
    <3>3. Known(after) /\ Counted(after, a, e.at, 1)
      <4>1. acc.active \notin Nat /\ acc.brk \notin Nat BY <3>1 DEF NoTime
      <4>2. /\ Known(after)
            /\ \/ /\ after.active = e.at /\ after.brk = acc.brk /\ after.worked = acc.worked
               \/ after = acc
        BY <2>2, <2>3, <2>4, <3>1, PunchEffect
      <4>3. CASE after.active = e.at /\ after.brk = acc.brk /\ after.worked = acc.worked
        BY <2>4, <3>1, <3>2, <4>2, <4>3 DEF Counted, NoTime
      <4>4. CASE after = acc
        BY <2>4, <3>1, <3>2, <4>2, <4>4 DEF Counted, NoTime
      <4> QED BY <4>2, <4>3, <4>4
    <3> QED BY <1>0, <1>3, <2>1, <2>5, <3>3
  <2>6. CASE k > 0
    <3>1. PICK t : t = seq[k].at OBVIOUS
    <3>2. t \in Nat /\ t <= e.at BY <1>3, <2>1, <2>6, <3>1 DEF Chronological
    <3>3. Counted(acc, a, t, k) BY <1>3, <2>1, <2>6, <3>1
    <3>4. (acc.active # NoTime => acc.active <= e.at) /\ (acc.brk # NoTime => acc.brk <= e.at)
      BY <2>3, <2>4, <3>2, <3>3 DEF Counted, Known
    <3>5. Known(after) BY <2>2, <2>3, <2>4, <3>4, PunchEffect
    <3>6. Counted(after, a, e.at, k + 1)
      <4>0. PICK u : u = e.at OBVIOUS
      <4>1. /\ u \in Nat /\ t \in Nat /\ t <= u /\ a \in Nat /\ a <= t
            /\ k \in Nat /\ k >= 1
        BY <1>0, <2>1, <2>4, <2>6, <3>1, <3>2, <4>0 DEF Chronological
      <4>2. PICK p, q : p = (k - 1) \div 2 /\ q = k \div 2 OBVIOUS
      <4>3. /\ p \in Nat /\ q \in Nat /\ p <= q /\ q <= p + 1
            /\ ((k + 1) - 1) \div 2 = q /\ (k + 1) \div 2 = p + 1
        BY <4>1, <4>2
      <4>4. /\ acc.active # NoTime => acc.active \in a..t /\ 2 * acc.worked <= acc.active - a + p
            /\ acc.active = NoTime => 2 * acc.worked <= t - a + q
            /\ acc.brk # NoTime => acc.brk <= t
            /\ acc.worked \in Nat /\ acc.active \in Nat \cup {NoTime}
            /\ acc.brk \in Nat \cup {NoTime}
        BY <2>3, <3>3, <4>2 DEF Counted, Known
      <4> DEFINE Goal == /\ after.active # NoTime =>
                               after.active \in a..u /\ 2 * after.worked <= after.active - a + q
                         /\ after.active = NoTime => 2 * after.worked <= u - a + p + 1
                         /\ after.brk # NoTime => after.brk <= u
      <4>5. SUFFICES Goal
        <5>1. Counted(after, a, u, k + 1) BY <4>1, <4>3, <4>5 DEF Counted
        <5> QED BY <4>0, <5>1
      <4>6. CASE /\ acc.active = NoTime /\ after.active = u /\ after.brk = acc.brk
                 /\ after.worked = acc.worked
        BY <4>1, <4>3, <4>4, <4>6 DEF NoTime
      <4>7. CASE /\ after.active = acc.active
                 /\ after.brk \in {u, NoTime, acc.brk} /\ after.worked = acc.worked
        <5>1. after.brk # NoTime => after.brk <= u BY <4>1, <4>4, <4>7
        <5>2. CASE acc.active = NoTime BY <4>1, <4>3, <4>4, <4>7, <5>1, <5>2
        <5>3. CASE acc.active # NoTime
          <6>1. acc.active \in Int /\ a <= acc.active /\ acc.active <= u BY <4>1, <4>4, <5>3
          <6> QED BY <4>1, <4>3, <4>4, <4>7, <5>1, <5>3, <6>1
        <5> QED BY <5>2, <5>3
      <4>8. CASE /\ acc.active # NoTime /\ after.active = NoTime /\ after.brk = acc.brk
                 /\ after.worked = acc.worked + Minutes(u - acc.active)
        <5>1. u - acc.active \in Nat BY <4>1, <4>4, <4>8
        <5>2. PICK m : m = Minutes(u - acc.active) OBVIOUS
        <5>3. m \in Nat /\ 2 * m <= u - acc.active + 1 BY <5>1, <5>2, MinutesRound
        <5>4. acc.active \in Int /\ 2 * acc.worked <= acc.active - a + p BY <4>4, <4>8, <5>1
        <5>5. 2 * after.worked <= u - a + p + 1
          <6>1. PICK v, w : v = acc.active /\ w = acc.worked OBVIOUS
          <6>2. after.worked = w + m BY <4>8, <5>2, <6>1
          <6>3. v \in Int /\ w \in Nat /\ 2 * w <= v - a + p /\ 2 * m <= u - v + 1
            BY <4>4, <5>3, <5>4, <6>1
          <6>4. 2 * (w + m) <= u - a + p + 1 BY <4>1, <4>3, <5>3, <6>3
          <6> QED BY <6>2, <6>4
        <5>6. after.brk # NoTime => after.brk <= u BY <4>1, <4>4, <4>8
        <5> QED BY <4>8, <5>5, <5>6
      <4>9. \/ /\ acc.active = NoTime /\ after.active = u /\ after.brk = acc.brk
               /\ after.worked = acc.worked
            \/ /\ after.active = acc.active
               /\ after.brk \in {u, NoTime, acc.brk} /\ after.worked = acc.worked
            \/ /\ acc.active # NoTime /\ after.active = NoTime /\ after.brk = acc.brk
               /\ after.worked = acc.worked + Minutes(u - acc.active)
        BY <2>2, <2>3, <2>4, <3>4, <4>0, PunchEffect
      <4> HIDE DEF Goal
      <4> QED BY <4>6, <4>7, <4>8, <4>9
    <3> QED BY <1>0, <1>3, <2>1, <2>6, <3>5, <3>6
  <2> QED BY <2>5, <2>6
<1>4. \A k \in 0..n : k \in S
  <2> HIDE DEF S
  <2> QED BY <1>0, <1>2, <1>3, UpTo
<1> QED BY <1>4

---------------------------------------------------------------------------
(* Days of matched punches. *)

\* How far what is counted up to t, the intervals in progress included, is
\* off the time worked.
Off(acc, t, work) ==
    2 * (acc.worked - acc.breaks)
    + (IF acc.active # NoTime THEN t - acc.active ELSE 0)
    - (IF acc.brk # NoTime THEN t - acc.brk ELSE 0)
    - work

\* Half a tick for each of m punches, one way or the other.
Within(d, m) == -m <= 2 * d /\ 2 * d <= m

\* The kind of the last punch says what is in progress; an interval that is not
\* yet closed is not yet rounded.
Balanced(acc, kind, t, work, k) ==
    /\ work \in Nat
    /\ acc.active # NoTime => acc.active <= t
    /\ acc.brk # NoTime => acc.brk <= t
    /\ \/ /\ kind \in {"CLOCK_IN", "BREAK_END"} /\ acc.active # NoTime /\ acc.brk = NoTime
          /\ Within(Off(acc, t, work), k - 1)
       \/ /\ kind = "BREAK_START" /\ acc.active # NoTime /\ acc.brk # NoTime
          /\ Within(Off(acc, t, work), k - 2)
       \/ /\ kind = "CLOCK_OUT" /\ acc.active = NoTime /\ acc.brk = NoTime
          /\ Within(Off(acc, t, work), k)

LEMMA BalancedTurn ==
    ASSUME NEW acc, Known(acc), NEW e, NEW after, after = Punch(acc, e),
           NEW kind, NEW t \in Nat, NEW work, NEW k \in Nat, Balanced(acc, kind, t, work, k),
           e.at \in Nat, t <= e.at, <<kind, e.kind>> \in Follows,
           NEW more, more = IF kind \in {"CLOCK_IN", "BREAK_END"} THEN e.at - t ELSE 0
    PROVE  Balanced(after, e.kind, e.at, work + more, k + 1)
<1>1. PICK u : u = e.at OBVIOUS
<1>2. u \in Nat /\ t <= u /\ work \in Nat BY <1>1 DEF Balanced
<1>3. PICK a, b, w, r : /\ a = acc.active /\ b = acc.brk /\ w = acc.worked /\ r = acc.breaks
  OBVIOUS
<1>4. /\ w \in Nat /\ r \in Nat
      /\ a # NoTime => a \in Nat /\ a <= t
      /\ b # NoTime => b \in Nat /\ b <= t
  BY <1>3 DEF Known, Balanced
<1>5. (acc.active # NoTime => acc.active <= e.at) /\ (acc.brk # NoTime => acc.brk <= e.at)
  BY <1>1, <1>2, <1>3, <1>4
<1>6. Known(after) BY <1>5, PunchEffect
<1> DEFINE d == Off(acc, t, work)
<1>7. CASE kind \in {"CLOCK_IN", "BREAK_END"} /\ e.kind = "BREAK_START"
  <2>1. a # NoTime /\ b = NoTime /\ Within(2 * (w - r) + (t - a) - work, k - 1)
    <3>1. acc.active # NoTime /\ acc.brk = NoTime /\ Within(d, k - 1) BY <1>7 DEF Balanced
    <3>2. d = 2 * (w - r) + (t - a) - 0 - work BY <1>3, <3>1 DEF Off
    <3> QED BY <1>2, <1>3, <1>4, <3>1, <3>2
  <2>2. /\ after.active = a /\ after.brk = u /\ after.worked = w /\ after.breaks = r
    <3>1. /\ acc.active # NoTime /\ acc.brk = NoTime
          /\ after.active = acc.active /\ after.brk = e.at
          /\ after.worked = acc.worked /\ after.breaks = acc.breaks
      <4>1. e.kind = "BREAK_START" /\ acc.active # NoTime /\ acc.brk = NoTime
        BY <1>3, <1>7, <2>1
      <4>2. after = [acc EXCEPT !.brk = e.at] BY <4>1 DEF Punch
      <4> QED BY <4>1, <4>2 DEF Known
    <3> QED BY <1>1, <1>3, <3>1
  <2>3. more = u - t BY <1>1, <1>7
  <2>4. u # NoTime /\ a <= u BY <1>2, <1>4, <2>1 DEF NoTime
  <2>5. Off(after, u, work + more) = 2 * (w - r) + (u - a) - (u - u) - (work + (u - t))
    BY <2>1, <2>2, <2>3, <2>4 DEF Off
  <2>6. Off(after, u, work + more) = 2 * (w - r) + (t - a) - work
    BY <1>2, <1>4, <2>1, <2>5
  <2>7. (k + 1) - 2 = k - 1 /\ work + more \in Nat BY <1>2, <2>3
  <2> QED BY <1>1, <1>7, <2>1, <2>2, <2>4, <2>6, <2>7 DEF Balanced
<1>8. CASE kind \in {"CLOCK_IN", "BREAK_END"} /\ e.kind = "CLOCK_OUT"
  <2>1. a # NoTime /\ b = NoTime /\ Within(2 * (w - r) + (t - a) - work, k - 1)
    <3>1. acc.active # NoTime /\ acc.brk = NoTime /\ Within(d, k - 1) BY <1>8 DEF Balanced
    <3>2. d = 2 * (w - r) + (t - a) - 0 - work BY <1>3, <3>1 DEF Off
    <3> QED BY <1>2, <1>3, <1>4, <3>1, <3>2
  <2>2. PICK m : m = Minutes(u - a) OBVIOUS
  <2>3. m \in Nat /\ u - a <= 2 * m /\ 2 * m <= u - a + 1
    <3>1. u - a \in Nat BY <1>2, <1>4, <2>1
    <3> QED BY <2>2, <3>1, MinutesRound
  <2>4. after.active = NoTime /\ after.brk = NoTime /\ after.worked = w + m /\ after.breaks = r
    <3>1. /\ after.active = NoTime /\ after.brk = acc.brk /\ after.breaks = acc.breaks
          /\ after.worked = acc.worked + Minutes(e.at - acc.active)
      <4>1. e.kind = "CLOCK_OUT" /\ acc.active # NoTime BY <1>3, <1>8, <2>1
      <4>2. after = [acc EXCEPT !.worked = @ + Minutes(e.at - acc.active), !.active = NoTime]
        BY <4>1 DEF Punch
      <4> QED BY <4>2 DEF Known
    <3> QED BY <1>1, <1>3, <2>1, <2>2, <3>1
  <2>5. more = u - t BY <1>1, <1>8
  <2>6. Off(after, u, work + more) = 2 * ((w + m) - r) + 0 - 0 - (work + (u - t))
    BY <2>4, <2>5 DEF Off
  <2>7. Within(Off(after, u, work + more), k + 1)
    BY <1>2, <1>4, <2>1, <2>3, <2>6 DEF Within
  <2>8. work + more \in Nat BY <1>2, <2>5
  <2> QED BY <1>1, <1>8, <2>4, <2>7, <2>8 DEF Balanced
<1>9. CASE kind = "BREAK_START" /\ e.kind = "BREAK_END"
  <2>1. a # NoTime /\ b # NoTime /\ Within(2 * (w - r) + (t - a) - (t - b) - work, k - 2)
    <3>1. acc.active # NoTime /\ acc.brk # NoTime /\ Within(d, k - 2) BY <1>9 DEF Balanced
    <3>2. d = 2 * (w - r) + (t - a) - (t - b) - work BY <1>3, <3>1 DEF Off
    <3> QED BY <1>3, <3>1, <3>2
  <2>2. PICK m : m = Minutes(u - b) OBVIOUS
  <2>3. m \in Nat /\ u - b <= 2 * m /\ 2 * m <= u - b + 1
    <3>1. u - b \in Nat BY <1>2, <1>4, <2>1
    <3> QED BY <2>2, <3>1, MinutesRound
  <2>4. after.active = a /\ after.brk = NoTime /\ after.worked = w /\ after.breaks = r + m
    BY <1>1, <1>3, <1>5, <1>9, <2>1, <2>2, PunchEffect
  <2>5. more = 0 BY <1>9
  <2>6. Off(after, u, work + more) = 2 * (w - (r + m)) + (u - a) - 0 - (work + 0)
    BY <2>1, <2>4, <2>5 DEF Off
  <2>7. Within(Off(after, u, work + more), (k + 1) - 1)
    BY <1>2, <1>4, <2>1, <2>3, <2>6 DEF Within
  <2>8. work + more \in Nat /\ a <= u BY <1>2, <1>4, <2>1, <2>5
  <2> QED BY <1>1, <1>9, <2>1, <2>4, <2>7, <2>8 DEF Balanced
<1>10. CASE kind = "CLOCK_OUT" /\ e.kind = "CLOCK_IN"
  <2>1. a = NoTime /\ b = NoTime /\ Within(2 * (w - r) - work, k)
    <3>1. acc.active = NoTime /\ acc.brk = NoTime /\ Within(d, k) BY <1>10 DEF Balanced
    <3>2. d = 2 * (w - r) + 0 - 0 - work BY <1>3, <3>1 DEF Off
    <3> QED BY <1>2, <1>3, <1>4, <3>1, <3>2
  <2>2. after.active = u /\ after.brk = NoTime /\ after.worked = w /\ after.breaks = r
    BY <1>1, <1>3, <1>5, <1>10, <2>1, PunchEffect
  <2>3. more = 0 /\ u # NoTime /\ u <= u BY <1>2, <1>10 DEF NoTime
  <2>4. Off(after, u, work + more) = 2 * (w - r) + (u - u) - 0 - (work + 0)
    BY <2>2, <2>3 DEF Off
  <2>5. Off(after, u, work + more) = 2 * (w - r) - work BY <1>2, <1>4, <2>4
  <2>6. (k + 1) - 1 = k /\ work + more \in Nat BY <1>2, <2>3
  <2> QED BY <1>1, <1>10, <2>1, <2>2, <2>3, <2>5, <2>6 DEF Balanced
<1> QED BY <1>7, <1>8, <1>9, <1>10 DEF Follows

\* Punches that match their neighbours, from a CLOCK_IN on.
LEMMA LoopBalances ==
    ASSUME NEW seq, Chronological(seq), Len(seq) >= 1, seq[1].kind = "CLOCK_IN",
           \A k \in 1..Len(seq) - 1 : <<seq[k].kind, seq[k + 1].kind>> \in Follows
    PROVE  \A k \in 1..Len(seq) :
               Balanced(Loop(seq)[k], seq[k].kind, seq[k].at, WorkUpTo(seq)[k], k)
<1> DEFINE n == Len(seq)
           Good(k) == Balanced(Loop(seq)[k], seq[k].kind, seq[k].at, WorkUpTo(seq)[k], k)
           S == {k \in 0..n : k > 0 => Good(k)}
<1>0. n \in Nat /\ \A k \in 1..n : seq[k].at \in Nat BY DEF Chronological
<1>1. /\ Loop(seq)[0] = Start
      /\ \A k \in 1..n : Loop(seq)[k] = Punch(Loop(seq)[k - 1], seq[k])
  BY <1>0, LoopTurns
<1>2. /\ WorkUpTo(seq)[0] = 0
      /\ \A k \in 1..n : WorkUpTo(seq)[k] = WorkUpTo(seq)[k - 1] + Ticks(seq, k)
  BY <1>0, WorkAdds
<1>3. 0 \in S BY <1>0
<1>4. ASSUME NEW k \in 0..n, k \in S, k < n PROVE k + 1 \in S
  <2>1. PICK acc, after, e : acc = Loop(seq)[k] /\ after = Loop(seq)[k + 1] /\ e = seq[k + 1]
    OBVIOUS
  <2>2. after = Punch(acc, e) BY <1>1, <1>4, <2>1
  <2>3. Known(acc) BY <1>4, <2>1, LoopCounts
  <2>4. CASE k = 0
    <3>1. acc = Start /\ e.kind = "CLOCK_IN" /\ e.at \in Nat BY <1>0, <1>1, <1>4, <2>1, <2>4
    <3>2. after = [Start EXCEPT !.active = e.at] BY <2>2, <3>1 DEF Punch, Start
    <3>3. WorkUpTo(seq)[1] = 0
      <4>1. Ticks(seq, 1) = 0 BY DEF Ticks
      <4> QED BY <1>2, <1>4, <2>4, <4>1
    <3>4. PICK u : u = e.at OBVIOUS
    <3>5. /\ after.active = u /\ after.brk = NoTime /\ after.worked = 0 /\ after.breaks = 0
          /\ u \in Nat /\ u # NoTime
      BY <3>1, <3>2, <3>4 DEF Start, NoTime
    <3>6. Off(after, u, 0) = 2 * (0 - 0) + (u - u) - 0 - 0 BY <3>5 DEF Off
    <3>7. Within(Off(after, u, 0), 1 - 1) BY <3>5, <3>6 DEF Within
    <3>8. Balanced(after, e.kind, u, 0, 1) BY <3>1, <3>5, <3>7 DEF Balanced
    <3>9. Good(1) BY <2>1, <2>4, <3>3, <3>4, <3>8
    <3> QED BY <1>4, <2>4, <3>9
  <2>5. CASE k > 0
    <3>1. PICK kind, t, work : kind = seq[k].kind /\ t = seq[k].at /\ work = WorkUpTo(seq)[k]
      OBVIOUS
    <3>2. Balanced(acc, kind, t, work, k) BY <1>4, <2>1, <2>5, <3>1
    <3>3. t \in Nat /\ e.at \in Nat /\ t <= e.at /\ <<kind, e.kind>> \in Follows
      BY <1>4, <2>1, <2>5, <3>1 DEF Chronological
    <3>4. Ticks(seq, k + 1) = IF kind \in {"CLOCK_IN", "BREAK_END"} THEN e.at - t ELSE 0
      <4>1. k + 1 > 1 /\ (k + 1) - 1 = k BY <1>0, <1>4, <2>5
      <4> QED BY <2>1, <3>1, <4>1 DEF Ticks
    <3>5. WorkUpTo(seq)[k + 1] = work + Ticks(seq, k + 1)
      <4>1. k + 1 \in 1..n /\ (k + 1) - 1 = k BY <1>0, <1>4, <2>5
      <4> QED BY <1>2, <3>1, <4>1
    <3>6. k \in Nat BY <1>4
    <3>7. Balanced(after, e.kind, e.at, work + Ticks(seq, k + 1), k + 1)
      BY <2>2, <2>3, <3>2, <3>3, <3>4, <3>6, BalancedTurn
    <3>8. Good(k + 1) BY <2>1, <3>5, <3>7
    <3>9. k + 1 \in 0..n BY <1>0, <1>4
    <3> HIDE DEF Good
    <3> QED BY <3>8, <3>9
  <2>6. k = 0 \/ k > 0 BY <1>4
  <2> QED BY <2>4, <2>5, <2>6
<1>5. \A k \in 0..n : k \in S
  <2> HIDE DEF S
  <2> QED BY <1>0, <1>3, <1>4, UpTo
<1>6. ASSUME NEW k \in 1..n PROVE Good(k)
  <2>1. k \in 0..n /\ k > 0 BY <1>0
  <2> HIDE DEF Good
  <2> QED BY <1>5, <2>1
<1> QED BY <1>6

\* The fields of a summary, for a day that is in order.
LEMMA SummaryFields ==
    ASSUME NEW seq, Chronological(seq),
           NEW acc, acc = Loop(seq)[Len(seq)]
    PROVE  /\ Known(acc)
           /\ summarizeEvents(seq).worked =
                  IF acc.worked > acc.breaks THEN acc.worked - acc.breaks ELSE 0
           /\ summarizeEvents(seq).breaks = acc.breaks
           /\ summarizeEvents(seq).missing <=>
                  \/ acc.active # NoTime
                  \/ acc.brk # NoTime
                  \/ Has(seq, "CLOCK_IN") # Has(seq, "CLOCK_OUT")
           /\ summarizeEvents(seq).sources = [k \in DOMAIN seq |-> seq[k].id]
<1>1. Ordered(seq) = seq BY OrderedIsSame
<1>2. Known(acc)
  <2>1. Len(seq) \in 0..Len(seq) BY DEF Chronological
  <2> QED BY <2>1, LoopCounts
<1> QED BY <1>1, <1>2 DEF summarizeEvents

\* Whatever the kinds of the punches, the minutes are no more than passed.
LEMMA WorkedWithinDay ==
    ASSUME NEW seq, Chronological(seq), Len(seq) >= 1
    PROVE  2 * summarizeEvents(seq).worked
               <= seq[Len(seq)].at - seq[1].at + Len(seq) \div 2
<1>1. PICK acc, n, a, t : /\ n = Len(seq) /\ acc = Loop(seq)[n]
                          /\ a = seq[1].at /\ t = seq[n].at
  OBVIOUS
<1>2. n \in Nat /\ n >= 1 /\ a \in Nat /\ t \in Nat /\ a <= t BY <1>1 DEF Chronological
<1>3. Known(acc) /\ Counted(acc, a, t, n)
  <2>1. n \in 0..Len(seq) /\ n > 0 BY <1>1, <1>2
  <2> QED BY <1>1, <2>1, LoopCounts
<1>4. PICK h, g : h = n \div 2 /\ g = (n - 1) \div 2 OBVIOUS
<1>5. h \in Nat /\ g \in Nat /\ g <= h BY <1>2, <1>4
<1>6. PICK w, r, net : /\ w = acc.worked /\ r = acc.breaks
                       /\ net = summarizeEvents(seq).worked
  OBVIOUS
<1>7. w \in Nat /\ r \in Nat BY <1>3, <1>6 DEF Known
<1>8. net = IF w > r THEN w - r ELSE 0 BY <1>1, <1>6, SummaryFields
<1>9. net \in Nat /\ net <= w BY <1>7, <1>8
<1>10. 2 * w <= t - a + h
  <2>1. CASE acc.active # NoTime
    <3>1. PICK v : v = acc.active OBVIOUS
    <3>2. v \in a..t /\ 2 * w <= v - a + g BY <1>3, <1>4, <1>6, <2>1, <3>1 DEF Counted
    <3> QED BY <1>2, <1>5, <1>7, <3>2
  <2>2. CASE acc.active = NoTime BY <1>3, <1>4, <1>6, <2>2 DEF Counted
  <2> QED BY <2>1, <2>2
<1>11. 2 * net <= t - a + h BY <1>2, <1>5, <1>7, <1>9, <1>10
<1> QED BY <1>1, <1>4, <1>6, <1>11

\* On a day of matched punches they are the time at work, but for the rounding.
LEMMA WorkedIsWork ==
    ASSUME NEW seq, Chronological(seq), Len(seq) >= 1, seq[1].kind = "CLOCK_IN",
           seq[Len(seq)].kind = "CLOCK_OUT",
           \A k \in 1..Len(seq) - 1 : <<seq[k].kind, seq[k + 1].kind>> \in Follows
    PROVE  /\ WorkTicks(seq) \in Nat
           /\ 2 * summarizeEvents(seq).worked \in
                  (WorkTicks(seq) - Len(seq) \div 2)..(WorkTicks(seq) + Len(seq) \div 2)
           /\ ~summarizeEvents(seq).missing
<1>1. PICK acc, n, t, work : /\ n = Len(seq) /\ acc = Loop(seq)[n]
                             /\ t = seq[n].at /\ work = WorkTicks(seq)
  OBVIOUS
<1>2. n \in Nat /\ n >= 1 BY <1>1 DEF Chronological
<1>3. Balanced(acc, "CLOCK_OUT", t, work, n)
  <2>1. n \in 1..Len(seq) BY <1>1, <1>2
  <2> QED BY <1>1, <2>1, LoopBalances DEF WorkTicks
<1>4. work \in Nat /\ acc.active = NoTime /\ acc.brk = NoTime /\ Within(Off(acc, t, work), n)
  BY <1>3 DEF Balanced
<1>5. PICK w, r, net : /\ w = acc.worked /\ r = acc.breaks
                       /\ net = summarizeEvents(seq).worked
  OBVIOUS
<1>6. /\ Known(acc) /\ net = IF w > r THEN w - r ELSE 0
      /\ summarizeEvents(seq).missing <=>
             \/ acc.active # NoTime
             \/ acc.brk # NoTime
             \/ Has(seq, "CLOCK_IN") # Has(seq, "CLOCK_OUT")
  BY <1>1, <1>5, SummaryFields
<1>7. w \in Nat /\ r \in Nat BY <1>5, <1>6 DEF Known
<1>8. PICK h : h = n \div 2 OBVIOUS
<1>9. h \in Nat /\ 2 * h <= n /\ n <= 2 * h + 1 BY <1>2, <1>8
<1>10. -n <= 2 * (2 * (w - r) - work) /\ 2 * (2 * (w - r) - work) <= n
  <2>1. Off(acc, t, work) = 2 * (w - r) + 0 - 0 - work BY <1>4, <1>5 DEF Off
  <2>2. Off(acc, t, work) = 2 * (w - r) - work BY <1>4, <1>7, <2>1
  <2> QED BY <1>4, <2>2 DEF Within
<1>11. work - h <= 2 * net /\ 2 * net <= work + h /\ net \in Nat
  <2>1. work - h <= 2 * (w - r) /\ 2 * (w - r) <= work + h BY <1>2, <1>4, <1>7, <1>9, <1>10
  <2>2. CASE w > r
    <3>1. net = w - r BY <1>6, <2>2
    <3> QED BY <1>7, <2>1, <2>2, <3>1
  <2>3. CASE ~(w > r)
    <3>1. net = 0 BY <1>6, <2>3
    <3> QED BY <1>4, <1>7, <1>9, <2>1, <2>3, <3>1
  <2> QED BY <2>2, <2>3
<1>12. 2 * net \in (work - h)..(work + h) BY <1>4, <1>9, <1>11
<1>13. Has(seq, "CLOCK_IN") /\ Has(seq, "CLOCK_OUT")
  <2>1. 1 \in DOMAIN seq /\ n \in DOMAIN seq BY <1>1, <1>2 DEF Chronological
  <2> QED BY <1>1, <2>1 DEF Has
<1> QED BY <1>1, <1>4, <1>5, <1>6, <1>8, <1>12, <1>13

---------------------------------------------------------------------------
(* The days of WorkedDay. *)

Row == [id : Nat, kind : Kinds, at : Nat]

DayInv ==
    /\ day \in Seq(Row)
    /\ \A j, k \in 1..Len(day) : j <= k => day[j].at <= day[k].at

LEMMA DayInvariance == DaySpec => []DayInv
<1>1. DayInit => DayInv BY DEF DayInit, DayInv
<1>2. DayInv /\ [DayNext]_day => DayInv'
  <2> SUFFICES ASSUME DayInv, [DayNext]_day PROVE DayInv' OBVIOUS
  <2>1. CASE AddPunch
    <3>1. PICK kind \in Kinds, at \in 0..MaxTime :
              /\ day # <<>> => at >= Last(day).at
              /\ day' = Append(day, [id |-> Len(day) + 1, kind |-> kind, at |-> at])
      BY <2>1 DEF AddPunch
    <3>2. PICK row : row = [id |-> Len(day) + 1, kind |-> kind, at |-> at] OBVIOUS
    <3>3. row \in Row /\ row.at = at /\ at \in Nat
      <4>1. Len(day) + 1 \in Nat /\ at \in Nat BY DayBounds DEF DayInv
      <4> QED BY <3>2, <4>1 DEF Row
    <3> HIDE DEF Row
    <3>4. PICK n : n = Len(day) OBVIOUS
    <3>5. /\ n \in Nat /\ day' \in Seq(Row) /\ Len(day') = n + 1 /\ day'[n + 1] = row
          /\ \A k \in 1..n : day'[k] = day[k]
      BY <3>1, <3>2, <3>3, <3>4 DEF DayInv
    <3>6. \A k \in 1..n : day[k].at \in Nat
      <4>1. \A k \in 1..n : day[k] \in Row BY <3>4 DEF DayInv
      <4> QED BY <4>1 DEF Row
    <3>7. n > 0 => day[n].at <= at
      <4>1. n > 0 => day # <<>> /\ Last(day) = day[n] BY <3>4 DEF DayInv, Last
      <4>2. n > 0 => n \in 1..n BY <3>5
      <4> QED BY <3>1, <3>3, <3>6, <4>1, <4>2
    <3>8. ASSUME NEW j \in 1..n + 1, NEW k \in 1..n + 1, j <= k
          PROVE  day'[j].at <= day'[k].at
      <4>1. CASE k \in 1..n
        <5>1. j \in 1..n BY <3>5, <3>8, <4>1
        <5> QED BY <3>4, <3>5, <3>8, <4>1, <5>1 DEF DayInv
      <4>2. CASE k = n + 1 /\ j = n + 1 BY <3>3, <3>5, <4>2
      <4>3. CASE k = n + 1 /\ j # n + 1
        <5>1. j \in 1..n /\ n \in 1..n /\ n > 0 /\ j <= n BY <3>5, <4>3
        <5>2. day[j].at <= day[n].at BY <3>4, <5>1 DEF DayInv
        <5>3. day[j].at <= at BY <3>3, <3>6, <3>7, <5>1, <5>2
        <5> QED BY <3>3, <3>5, <4>3, <5>1, <5>3
      <4> QED BY <3>5, <4>1, <4>2, <4>3
    <3> QED BY <3>5, <3>8 DEF DayInv
  <2>2. CASE NewDay BY <2>2 DEF NewDay, DayInv
  <2>3. CASE UNCHANGED day BY <2>3 DEF DayInv
  <2> QED BY <2>1, <2>2, <2>3 DEF DayNext
<1> QED BY <1>1, <1>2, PTL DEF DaySpec

\* The minutes worked of a day are right, for any number of punches of any kind at
\* any times (summarizeEvents).
THEOREM MinutesAreRight == DaySpec => []SummaryAccounts
<1>1. DayInv => SummaryAccounts
  <2> SUFFICES ASSUME DayInv PROVE SummaryAccounts OBVIOUS
  <2>1. Chronological(day)
    <3>1. ASSUME NEW k \in 1..Len(day) PROVE day[k].at \in Nat
      <4>1. day[k] \in Row
        <5> HIDE DEF Row
        <5> QED BY DEF DayInv
      <4> QED BY <4>1 DEF Row
    <3>2. /\ Len(day) \in Nat /\ DOMAIN day = 1..Len(day)
          /\ day = [k \in 1..Len(day) |-> day[k]]
      <4> HIDE DEF Row
      <4> QED BY DEF DayInv
    <3> QED BY <3>1, <3>2 DEF Chronological, DayInv
  <2>2. CASE day = <<>>
    <3>1. Len(day) = 0 /\ DOMAIN day = {} BY <2>2
    <3>2. Loop(day)[0] = Start BY <3>1, LoopTurns
    <3>3. summarizeEvents(day).worked = 0 /\ ~summarizeEvents(day).missing
      <4>1. PICK acc : acc = Loop(day)[Len(day)] OBVIOUS
      <4>2. acc.active = NoTime /\ acc.brk = NoTime /\ acc.worked = 0 /\ acc.breaks = 0
        BY <3>1, <3>2, <4>1 DEF Start
      <4>3. ~Has(day, "CLOCK_IN") /\ ~Has(day, "CLOCK_OUT") BY <3>1 DEF Has
      <4>4. /\ summarizeEvents(day).worked =
                   IF acc.worked > acc.breaks THEN acc.worked - acc.breaks ELSE 0
            /\ summarizeEvents(day).missing <=>
                   \/ acc.active # NoTime
                   \/ acc.brk # NoTime
                   \/ Has(day, "CLOCK_IN") # Has(day, "CLOCK_OUT")
        BY <2>1, <4>1, SummaryFields
      <4>5. (Has(day, "CLOCK_IN") # Has(day, "CLOCK_OUT")) = FALSE BY <4>3 DEF Has
      <4> QED BY <4>2, <4>4, <4>5
    <3>4. WorkTicks(day) = 0
      <4>1. WorkUpTo(day)[0] = 0 BY <3>1, WorkAdds
      <4> QED BY <3>1, <4>1 DEF WorkTicks
    <3>5. Rounding = 0 BY <3>1 DEF Rounding
    <3> QED BY <2>2, <3>3, <3>4, <3>5 DEF SummaryAccounts
  <2>3. CASE day # <<>>
    <3>1. /\ Len(day) >= 1 /\ Len(day) \in Nat
          /\ Head(day) = day[1] /\ Last(day) = day[Len(day)]
      <4> HIDE DEF Row
      <4> QED BY <2>3 DEF DayInv, Last
    <3>2. 2 * summarizeEvents(day).worked <= Last(day).at - Head(day).at + Rounding
      BY <2>1, <3>1, WorkedWithinDay DEF Rounding
    <3>3. Matched(day) =>
              /\ 2 * summarizeEvents(day).worked \in
                     (WorkTicks(day) - Rounding)..(WorkTicks(day) + Rounding)
              /\ ~summarizeEvents(day).missing
      BY <2>1, <2>3, <3>1, WorkedIsWork DEF Rounding, Matched
    <3> QED BY <3>2, <3>3 DEF SummaryAccounts
  <2> QED BY <2>2, <2>3
<1> QED BY <1>1, DayInvariance, PTL

---------------------------------------------------------------------------
(* AttendanceDay: what a request has read, and what a summary is made of. *)

AllIds == ArrivalIds \cup Corrections

\* d is made of accepted events among rows, each once, one after another.
Taken(rows, d) ==
    /\ d \in Seq(Accepted(rows))
    /\ \A j, k \in 1..Len(d) : j <= k => d[j].at <= d[k].at
    /\ \A j, k \in 1..Len(d) : d[j] = d[k] => j = k

UniqueIds(rows) == \A e, f \in rows : e.id = f.id => e = f

LEMMA EventFields ==
    ASSUME NEW e \in Events
    PROVE  e.id \in AllIds /\ e.kind \in Kinds /\ e.at \in Nat /\ e.low \in BOOLEAN
BY DEF Events, EventRow, AllIds

LEMMA TakenGrows ==
    ASSUME NEW rows, NEW more, rows \subseteq more, NEW d, Taken(rows, d)
    PROVE  Taken(more, d)
<1>1. Accepted(rows) \subseteq Accepted(more) BY DEF Accepted
<1>2. d \in Seq(Accepted(more))
  <2>1. PICK A, B : A = Accepted(rows) /\ B = Accepted(more) OBVIOUS
  <2>2. d \in Seq(A) /\ A \subseteq B BY <1>1, <2>1 DEF Taken
  <2> QED BY <2>1, <2>2
<1> QED BY <1>2 DEF Taken

LEMMA TakenMembers ==
    ASSUME NEW rows, NEW d, Taken(rows, d)
    PROVE  /\ Len(d) \in Nat /\ DOMAIN d = 1..Len(d)
           /\ d = [k \in 1..Len(d) |-> d[k]]
           /\ \A k \in 1..Len(d) : d[k] \in rows /\ d[k].decision = "ACCEPTED"
<1>1. PICK A : A = Accepted(rows) OBVIOUS
<1>2. d \in Seq(A) BY <1>1 DEF Taken
<1>3. /\ Len(d) \in Nat /\ DOMAIN d = 1..Len(d)
      /\ d = [k \in 1..Len(d) |-> d[k]]
      /\ \A k \in 1..Len(d) : d[k] \in A
  BY <1>2
<1> QED BY <1>1, <1>3 DEF Accepted

LEMMA TakenInOrder ==
    ASSUME NEW rows, rows \subseteq Events, NEW d, Taken(rows, d)
    PROVE  Chronological(d)
<1>1. \A k \in 1..Len(d) : d[k].at \in Nat BY TakenMembers, EventFields
<1> QED BY <1>1, TakenMembers DEF Chronological, Taken

LEMMA TakenSummary ==
    ASSUME NEW rows, rows \subseteq Events, NEW d, Taken(rows, d)
    PROVE  /\ summarizeEvents(d).worked \in Nat
           /\ summarizeEvents(d).breaks \in Nat
           /\ summarizeEvents(d).missing \in BOOLEAN
           /\ summarizeEvents(d).sources = [k \in 1..Len(d) |-> d[k].id]
           /\ summarizeEvents(d).sources \in Seq(AllIds)
<1>1. PICK acc : acc = Loop(d)[Len(d)] OBVIOUS
<1>2. /\ Known(acc)
      /\ summarizeEvents(d).worked =
             IF acc.worked > acc.breaks THEN acc.worked - acc.breaks ELSE 0
      /\ summarizeEvents(d).breaks = acc.breaks
      /\ summarizeEvents(d).sources = [k \in DOMAIN d |-> d[k].id]
  BY <1>1, TakenInOrder, SummaryFields
<1>3. summarizeEvents(d).worked \in Nat /\ summarizeEvents(d).breaks \in Nat
  BY <1>2 DEF Known
<1>4. summarizeEvents(d).missing \in BOOLEAN BY DEF summarizeEvents
<1>5. summarizeEvents(d).sources = [k \in 1..Len(d) |-> d[k].id] BY <1>2, TakenMembers
<1>6. [k \in 1..Len(d) |-> d[k].id] \in Seq(AllIds)
  <2>1. \A k \in 1..Len(d) : d[k].id \in AllIds BY TakenMembers, EventFields
  <2>2. Len(d) \in Nat BY TakenMembers
  <2> HIDE DEF AllIds
  <2> QED BY <2>1, <2>2
<1> QED BY <1>3, <1>4, <1>5, <1>6

LEMMA DaysTaken ==
    ASSUME NEW rows, rows \subseteq Events, IsFiniteSet(rows), NEW d \in Days(Accepted(rows))
    PROVE  Taken(rows, d)
<1>1. PICK A, n : A = Accepted(rows) /\ n = Cardinality(A) OBVIOUS
<1>2. n \in Nat
  <2>1. A \subseteq rows BY <1>1 DEF Accepted
  <2> QED BY <1>1, <2>1, FS_Subset, FS_CardinalityType
<1>3. /\ d \in [1..n -> A] /\ \A i, j \in 1..n : i # j => d[i] # d[j]
      /\ \A j, k \in DOMAIN d : j <= k => d[j].at <= d[k].at
  BY <1>1 DEF Days, SetToSeqs
<1>4. d \in Seq(A) /\ Len(d) = n BY <1>2, <1>3
<1>5. DOMAIN d = 1..n BY <1>3
<1> QED BY <1>1, <1>3, <1>4, <1>5 DEF Taken

\* Such a day is one the query could return for the events of its ids.
LEMMA TakenIsDay ==
    ASSUME NEW rows, UniqueIds(rows), NEW d, Taken(rows, d),
           NEW ids, ids = [k \in 1..Len(d) |-> d[k].id]
    PROVE  /\ {e \in Accepted(rows) : e.id \in Range(ids)} = {d[k] : k \in 1..Len(d)}
           /\ d \in Days({e \in Accepted(rows) : e.id \in Range(ids)})
<1> DEFINE S == {d[k] : k \in 1..Len(d)}
<1>1. /\ Len(d) \in Nat /\ DOMAIN d = 1..Len(d) /\ d = [k \in 1..Len(d) |-> d[k]]
      /\ \A k \in 1..Len(d) : d[k] \in rows /\ d[k] \in Accepted(rows)
  BY TakenMembers DEF Accepted
<1>2. Range(ids) = {d[k].id : k \in 1..Len(d)} BY DEF Range
<1>3. {e \in Accepted(rows) : e.id \in Range(ids)} = S
  BY <1>1, <1>2 DEF UniqueIds, Accepted
<1>4. d \in Bijection(1..Len(d), S)
  BY <1>1 DEF Bijection, Injection, Surjection, IsInjective, Taken
<1>5. Cardinality(S) = Len(d)
  <2>1. IsFiniteSet(1..Len(d)) /\ Cardinality(1..Len(d)) = Len(d)
    <3>1. PICK n : n = Len(d) OBVIOUS
    <3>2. n \in Nat /\ n - 1 + 1 = n BY <1>1, <3>1
    <3>3. IsFiniteSet(1..n) /\ Cardinality(1..n) = IF 1 > n THEN 0 ELSE n - 1 + 1
      BY <3>2, FS_Interval
    <3> QED BY <3>1, <3>2, <3>3
  <2>2. ExistsBijection(1..Len(d), S) BY <1>4 DEF ExistsBijection
  <2> HIDE DEF S
  <2> QED BY <2>1, <2>2, FS_Bijection
<1>6. d \in SetToSeqs(S)
  <2>1. d \in [1..Len(d) -> S] BY <1>1
  <2>2. \A i, j \in 1..Len(d) : i # j => d[i] # d[j] BY DEF Taken
  <2> HIDE DEF S
  <2> QED BY <1>5, <2>1, <2>2 DEF SetToSeqs
<1>7. d \in Days(S) BY <1>1, <1>6 DEF Days, Taken
<1> QED BY <1>3, <1>7

\* The ids say which events they are.
LEMMA SameIds ==
    ASSUME NEW rows, UniqueIds(rows), NEW d, Taken(rows, d), NEW c,
           DOMAIN c = 1..Len(c), c = [k \in 1..Len(c) |-> c[k]],
           \A k \in 1..Len(c) : c[k] \in rows,
           [k \in DOMAIN c |-> c[k].id] = [k \in 1..Len(d) |-> d[k].id]
    PROVE  c = d
<1>1. DOMAIN c = 1..Len(d) /\ \A k \in 1..Len(d) : c[k].id = d[k].id
  <2>1. PICK f, g : f = [k \in DOMAIN c |-> c[k].id] /\ g = [k \in 1..Len(d) |-> d[k].id]
    OBVIOUS
  <2>2. DOMAIN f = DOMAIN c /\ DOMAIN g = 1..Len(d) /\ f = g BY <2>1
  <2>3. DOMAIN c = 1..Len(d) BY <2>2
  <2>4. ASSUME NEW k \in 1..Len(d) PROVE c[k].id = d[k].id
    <3>1. f[k] = c[k].id /\ g[k] = d[k].id BY <2>1, <2>3
    <3> QED BY <2>2, <3>1
  <2> QED BY <2>3, <2>4
<1>2. \A k \in 1..Len(d) : c[k] = d[k] BY <1>1, TakenMembers DEF UniqueIds
<1> QED BY <1>1, <1>2, TakenMembers

---------------------------------------------------------------------------
(* The invariant of AttendanceDay. *)

SummaryOf(d) == [worked  |-> summarizeEvents(d).worked,
                 breaks  |-> summarizeEvents(d).breaks,
                 sources |-> summarizeEvents(d).sources]

\* Rows are never changed and no two have the same id.
LogInv ==
    /\ events \subseteq Events
    /\ IsFiniteSet(events)
    /\ UniqueIds(events)
    /\ \A e \in events : e.id \in ArrivalIds => e \in Arrivals

SlotOK(q) ==
    /\ q \in Op
    /\ q.pc \in {"upsert", "missing", "location"} => Taken(events, q.day)
    /\ q.pc = "resolve" =>
           exception # NULL /\ q.actor \in Staff /\ q.status \in Closed

RowsOK ==
    /\ exception \in ExceptionRow \cup {NULL}
    /\ location \subseteq SUBSET AllIds
    /\ audit \subseteq Closed \X Staff
    /\ lost \in BOOLEAN /\ crashes \in 0..MaxCrashes

MissingPending == lost \/ exception # NULL \/ \E s \in Slots : op[s].pc = "missing"

\* The summary is of some day of events on file; if punches were missing on it the
\* exception is there, on its way, or lost since.
SummaryInv ==
    summary # NULL =>
        \E d : /\ Taken(events, d)
               /\ summary = SummaryOf(d)
               /\ summarizeEvents(d).missing => MissingPending

DayRowsInv ==
    /\ LogInv
    /\ RowsOK
    /\ op \in [Slots -> Op] /\ \A s \in Slots : SlotOK(op[s])
    /\ SummaryInv
    /\ ResolutionAudited

LEMMA RowTypes ==
    /\ \A x \in ExceptionRow : x # NULL
    /\ \A x \in SummaryRow : x # NULL
    /\ \A a \in Staff : a # NULL
    /\ \A c \in Closed : c # NULL /\ c # "OPEN"
<1>1. \A c \in Closed : c # "OPEN" BY DEF Closed
<1> HIDE DEF ExceptionRow, SummaryRow, Closed
<1> QED BY <1>1, NullAssumption

LEMMA IdleIsOp == IdleOp \in Op /\ IdleOp.pc = "idle"
BY DEF IdleOp, Op

\* A step that only adds to the log.
LEMMA LogGrows ==
    ASSUME DayRowsInv, events \subseteq events', LogInv',
           UNCHANGED <<summary, exception, location, audit, op, lost, crashes>>
    PROVE  DayRowsInv'
<1>1. \A d : Taken(events, d) => Taken(events', d) BY TakenGrows
<1>2. RowsOK' /\ ResolutionAudited' BY DEF DayRowsInv, RowsOK, ResolutionAudited
<1>3. \A s \in Slots : SlotOK(op[s])' BY <1>1 DEF DayRowsInv, SlotOK
<1>4. MissingPending' = MissingPending BY DEF MissingPending
<1>5. SummaryInv' BY <1>1, <1>4 DEF DayRowsInv, SummaryInv
<1> QED BY <1>2, <1>3, <1>5 DEF DayRowsInv

LEMMA ClockGrows == ASSUME NEW e \in Arrivals, DayRowsInv, Clock(e) PROVE DayRowsInv'
<1>1. e \in Events /\ e.id \in ArrivalIds
  BY DayAssumption DEF Events, EventRow, ArrivalIds
<1>2. events' = events \cup {e} /\ e \notin events BY DEF Clock
<1>3. ASSUME NEW f \in events, f.id = e.id PROVE f = e
  <2>1. f \in Arrivals BY <1>1, <1>3 DEF DayRowsInv, LogInv
  <2> QED BY <1>3, <2>1, DayAssumption
<1>4. UniqueIds(events') BY <1>2, <1>3 DEF DayRowsInv, LogInv, UniqueIds
<1>5. IsFiniteSet(events') BY <1>2, FS_AddElement DEF DayRowsInv, LogInv
<1>6. LogInv' BY <1>1, <1>2, <1>4, <1>5 DEF DayRowsInv, LogInv
<1> QED BY <1>2, <1>6, LogGrows DEF Clock

LEMMA CorrectGrows ==
    ASSUME NEW key \in Corrections, NEW original \in events, NEW kind \in Kinds,
           DayRowsInv, Correct(key, original, kind)
    PROVE  DayRowsInv'
<1>1. PICK e : e = [id |-> key, kind |-> kind, at |-> original.at,
                    decision |-> "ACCEPTED", low |-> FALSE]
  OBVIOUS
<1>2. original.at \in Nat BY EventFields DEF DayRowsInv, LogInv
<1>3. e \in Events /\ e.id = key
  BY <1>1, <1>2 DEF Events, EventRow, Decisions
<1>4. events' = events \cup {e} /\ key \notin Ids(events) BY <1>1 DEF Correct
<1>5. \A f \in events : f.id # e.id BY <1>3, <1>4 DEF Ids
<1>6. UniqueIds(events') BY <1>4, <1>5 DEF DayRowsInv, LogInv, UniqueIds
<1>7. IsFiniteSet(events') BY <1>4, FS_AddElement DEF DayRowsInv, LogInv
<1>8. e.id \notin ArrivalIds BY <1>3, DayAssumption
<1>9. LogInv' BY <1>3, <1>4, <1>6, <1>7, <1>8 DEF DayRowsInv, LogInv
<1> QED BY <1>4, <1>9, LogGrows DEF Correct

\* A step of one request.
LEMMA SlotMoves ==
    ASSUME DayRowsInv, NEW s \in Slots, NEW q, op' = [op EXCEPT ![s] = q],
           UNCHANGED events, exception # NULL => exception' # NULL,
           SlotOK(q)', RowsOK', SummaryInv', ResolutionAudited'
    PROVE  DayRowsInv'
<1>1. q \in Op BY DEF SlotOK
<1>2. op' \in [Slots -> Op] BY <1>1 DEF DayRowsInv
<1>3. op'[s] = q /\ \A t \in Slots : t # s => op'[t] = op[t] BY DEF DayRowsInv
<1>4. ASSUME NEW t \in Slots PROVE SlotOK(op[t])'
  <2>1. CASE t = s
    <3>1. PICK r : r = op'[t] OBVIOUS
    <3>2. r = q BY <1>3, <2>1, <3>1
    <3>3. SlotOK(r)' BY <3>2
    <3> QED BY <3>1, <3>3 DEF SlotOK
  <2>2. CASE t # s
    <3>1. SlotOK(op[t]) BY DEF DayRowsInv
    <3>2. op'[t] = op[t] BY <1>3, <2>2
    <3> QED BY <3>1, <3>2 DEF SlotOK
  <2> QED BY <2>1, <2>2
<1>5. LogInv' BY DEF DayRowsInv, LogInv
<1> QED BY <1>2, <1>4, <1>5 DEF DayRowsInv

\* What the summary is of stays so while it is not written and what is pending stays.
LEMMA SummaryStays ==
    ASSUME SummaryInv, UNCHANGED <<events, summary>>,
           MissingPending => MissingPending'
    PROVE  SummaryInv'
BY DEF SummaryInv

\* Moving on to another step leaves the rest of the slot.
LEMMA GotoMoves ==
    ASSUME NEW s \in Slots, NEW pc \in {"idle", "upsert", "missing", "location", "resolve"},
           op \in [Slots -> Op], Goto(s, pc)
    PROVE  \E q \in Op : /\ op' = [op EXCEPT ![s] = q]
                         /\ q.pc = pc /\ q.day = op[s].day
<1>1. op[s] \in Op OBVIOUS
<1>2. PICK q : q = [op[s] EXCEPT !.pc = pc] OBVIOUS
<1>3. q \in Op /\ q.pc = pc /\ q.day = op[s].day BY <1>1, <1>2 DEF Op
<1>4. op' = [op EXCEPT ![s] = q] BY <1>2 DEF Goto
<1> QED BY <1>3, <1>4

LEMMA PendingStays ==
    ASSUME NEW s \in Slots, NEW q, op' = [op EXCEPT ![s] = q], op \in [Slots -> Op],
           op[s].pc = "missing" => lost', lost => lost', exception # NULL => exception' # NULL
    PROVE  MissingPending => MissingPending'
<1>1. \A t \in Slots : t # s => op'[t] = op[t] OBVIOUS
<1>2. \A t \in Slots : op[t].pc = "missing" => op'[t].pc = "missing" \/ lost' BY <1>1
<1> QED BY <1>2 DEF MissingPending

LEMMA RequestKeeps == ASSUME NEW s \in Slots, DayRowsInv, Request(s) PROVE DayRowsInv'
<1>0. /\ op \in [Slots -> Op] /\ op[s] \in Op /\ SlotOK(op[s])
      /\ events \subseteq Events /\ IsFiniteSet(events)
      /\ SummaryInv /\ RowsOK /\ ResolutionAudited
  BY DEF DayRowsInv, LogInv
<1>1. CASE SummarizeRead(s)
  <2>1. PICK d \in Days(Accepted(events)) :
            op' = [op EXCEPT ![s] = [IdleOp EXCEPT !.pc = "upsert", !.day = d]]
    BY <1>1 DEF SummarizeRead
  <2>2. PICK q : q = [IdleOp EXCEPT !.pc = "upsert", !.day = d] OBVIOUS
  <2>3. Taken(events, d) BY <1>0, DaysTaken
  <2>4. d \in Seq(Events)
    <3>1. \A k \in 1..Len(d) : d[k] \in Events BY <1>0, <2>3, TakenMembers
    <3>2. Len(d) \in Nat /\ d = [k \in 1..Len(d) |-> d[k]] BY <2>3, TakenMembers
    <3>3. PICK E : E = Events OBVIOUS
    <3> QED BY <3>1, <3>2, <3>3
  <2>5. q \in Op /\ q.pc = "upsert" /\ q.day = d BY <2>2, <2>4 DEF IdleOp, Op
  <2>6. UNCHANGED <<events, summary, exception, location, audit, lost, crashes>> BY <1>1 DEF SummarizeRead
  <2>7. SlotOK(q)' BY <2>3, <2>5, <2>6 DEF SlotOK
  <2>8. RowsOK' /\ ResolutionAudited' BY <1>0, <2>6 DEF RowsOK, ResolutionAudited
  <2>9. op[s].pc # "missing" BY <1>1 DEF SummarizeRead
  <2>10. MissingPending => MissingPending' BY <1>0, <2>1, <2>6, <2>9, PendingStays
  <2>11. SummaryInv' BY <1>0, <2>6, <2>10, SummaryStays
  <2> QED BY <2>1, <2>2, <2>6, <2>7, <2>8, <2>11, SlotMoves
<1>2. CASE SummarizeUpsert(s)
  <2>1. PICK d : d = op[s].day OBVIOUS
  <2>2. Taken(events, d) BY <1>0, <1>2, <2>1 DEF SlotOK, SummarizeUpsert
  <2>3. PICK pc : pc = IF summarizeEvents(d).missing THEN "missing" ELSE "location" OBVIOUS
  <2>4. Goto(s, pc) BY <1>2, <2>1, <2>3 DEF SummarizeUpsert, Result
  <2>5. pc \in {"missing", "location"} BY <2>3
  <2>6. PICK q \in Op : op' = [op EXCEPT ![s] = q] /\ q.pc = pc /\ q.day = d
    BY <1>0, <2>1, <2>4, <2>5, GotoMoves
  <2>7. UNCHANGED <<events, exception, location, audit, crashes>> /\ lost' = FALSE /\ summary' = SummaryOf(d)
    BY <1>2, <2>1 DEF SummarizeUpsert, Result, SummaryOf
  <2>8. SlotOK(q)' BY <2>2, <2>5, <2>6, <2>7 DEF SlotOK
  <2>9. RowsOK' /\ ResolutionAudited' BY <1>0, <2>7 DEF RowsOK, ResolutionAudited
  <2>10. summarizeEvents(d).missing => MissingPending'
    <3>1. op'[s] = q BY <1>0, <2>6
    <3> QED BY <2>3, <2>6, <3>1 DEF MissingPending
  <2>11. SummaryInv' BY <2>2, <2>7, <2>10 DEF SummaryInv
  <2> QED BY <2>6, <2>7, <2>8, <2>9, <2>11, SlotMoves
<1>3. CASE Fail(s)
  <2>1. op' = [op EXCEPT ![s] = IdleOp] /\ lost' = (lost \/ op[s].pc = "missing")
    BY <1>3 DEF Fail, Finish
  <2>2. UNCHANGED <<events, summary, exception, location, audit, crashes>> BY <1>3 DEF Fail
  <2>3. SlotOK(IdleOp)' BY <2>2, IdleIsOp DEF SlotOK
  <2>4. RowsOK' /\ ResolutionAudited' BY <1>0, <2>1, <2>2 DEF RowsOK, ResolutionAudited
  <2>5. MissingPending => MissingPending' BY <1>0, <2>1, <2>2, PendingStays
  <2>6. SummaryInv' BY <1>0, <2>2, <2>5, SummaryStays
  <2>7. PICK q : q = IdleOp OBVIOUS
  <2>8. SlotOK(q)' BY <2>3, <2>7
  <2> QED BY <2>1, <2>2, <2>4, <2>6, <2>7, <2>8, SlotMoves
<1>4. CASE RaiseMissing(s)
  <2>1. PICK d : d = op[s].day OBVIOUS
  <2>2. Taken(events, d) BY <1>0, <1>4, <2>1 DEF SlotOK, RaiseMissing
  <2>3. PICK sources : sources = summarizeEvents(d).sources OBVIOUS
  <2>4. sources \in Seq(ArrivalIds \cup Corrections)
    BY <1>0, <2>2, <2>3, TakenSummary DEF AllIds
  <2>5. PICK q \in Op : op' = [op EXCEPT ![s] = q] /\ q.pc = "location" /\ q.day = d
    <3>1. Goto(s, "location") BY <1>4 DEF RaiseMissing
    <3> QED BY <1>0, <2>1, <3>1, GotoMoves
  <2>6. /\ UNCHANGED <<events, summary, location, audit, lost, crashes>>
        /\ exception' = IF exception = NULL
                        THEN [status |-> "OPEN", by |-> NULL, evidence |-> sources]
                        ELSE [exception EXCEPT !.status = "OPEN", !.evidence = sources]
    BY <1>4, <2>1, <2>3 DEF RaiseMissing, Result
  <2>7. exception' \in ExceptionRow /\ exception'.status = "OPEN"
    <3>1. exception = NULL \/ exception \in ExceptionRow BY <1>0 DEF RowsOK
    <3> QED BY <2>4, <2>6, <3>1 DEF ExceptionRow
  <2>8. exception' # NULL BY <2>7, RowTypes
  <2>9. SlotOK(q)' BY <2>2, <2>5, <2>6 DEF SlotOK
  <2>10. RowsOK' BY <1>0, <2>6, <2>7 DEF RowsOK
  <2>11. ResolutionAudited' BY <2>7 DEF ResolutionAudited
  <2>12. MissingPending' BY <2>8 DEF MissingPending
  <2>13. SummaryInv' BY <1>0, <2>6, <2>12, SummaryStays
  <2> QED BY <2>5, <2>6, <2>8, <2>9, <2>10, <2>11, <2>13, SlotMoves
<1>5. CASE RaiseLocation(s)
  <2>1. PICK d : d = op[s].day OBVIOUS
  <2>2. Taken(events, d) BY <1>0, <1>5, <2>1 DEF SlotOK, RaiseLocation
  <2>3. op' = [op EXCEPT ![s] = IdleOp] /\ op[s].pc # "missing"
    BY <1>5 DEF RaiseLocation, Finish
  <2>4. UNCHANGED <<events, summary, exception, audit, lost, crashes>> BY <1>5 DEF RaiseLocation
  <2>5. location' \subseteq SUBSET AllIds
    <3>1. PICK low : low = {k \in DOMAIN d : d[k].low} OBVIOUS
    <3>2. location' = IF low = {} THEN location
                      ELSE location \cup {{d[k].id : k \in low}}
      BY <1>5, <2>1, <3>1 DEF RaiseLocation
    <3>3. \A k \in 1..Len(d) : d[k].id \in AllIds BY <1>0, <2>2, TakenMembers, EventFields
    <3>4. DOMAIN d = 1..Len(d) BY <2>2, TakenMembers
    <3>5. {d[k].id : k \in low} \subseteq AllIds BY <3>1, <3>3, <3>4
    <3> HIDE DEF AllIds
    <3> QED BY <1>0, <3>2, <3>5 DEF RowsOK
  <2>6. SlotOK(IdleOp)' BY IdleIsOp DEF SlotOK
  <2>7. RowsOK' /\ ResolutionAudited' BY <1>0, <2>4, <2>5 DEF RowsOK, ResolutionAudited
  <2>8. MissingPending => MissingPending' BY <1>0, <2>3, <2>4, PendingStays
  <2>9. SummaryInv' BY <1>0, <2>4, <2>8, SummaryStays
  <2>10. PICK q : q = IdleOp OBVIOUS
  <2>11. SlotOK(q)' BY <2>6, <2>10
  <2> QED BY <2>3, <2>4, <2>7, <2>9, <2>10, <2>11, SlotMoves
<1>6. ASSUME NEW a \in Staff, NEW status \in Closed, ResolveRead(s, a, status)
      PROVE  DayRowsInv'
  <2>1. PICK q : q = [IdleOp EXCEPT !.pc = "resolve", !.actor = a, !.status = status] OBVIOUS
  <2>2. /\ op' = [op EXCEPT ![s] = q] /\ exception # NULL /\ op[s].pc # "missing"
        /\ UNCHANGED <<events, summary, exception, location, audit, lost, crashes>>
    BY <1>6, <2>1 DEF ResolveRead
  <2>3. q \in Op /\ q.pc = "resolve" /\ q.actor = a /\ q.status = status
    <3>1. q = [pc |-> "resolve", day |-> <<>>, actor |-> a, status |-> status]
      BY <2>1 DEF IdleOp
    <3>2. PICK E : E = Events OBVIOUS
    <3>3. <<>> \in Seq(E) OBVIOUS
    <3>4. a \in Staff \cup {NULL} /\ status \in Closed \cup {NULL} OBVIOUS
    <3> HIDE DEF Closed
    <3> QED BY <3>1, <3>2, <3>3, <3>4 DEF Op
  <2>4. SlotOK(q)' BY <2>2, <2>3 DEF SlotOK
  <2>5. RowsOK' /\ ResolutionAudited' BY <1>0, <2>2 DEF RowsOK, ResolutionAudited
  <2>6. MissingPending => MissingPending' BY <1>0, <2>2, PendingStays
  <2>7. SummaryInv' BY <1>0, <2>2, <2>6, SummaryStays
  <2> QED BY <2>2, <2>4, <2>5, <2>7, SlotMoves
<1>7. CASE ResolveWrite(s)
  <2>1. /\ op[s].pc = "resolve" /\ op' = [op EXCEPT ![s] = IdleOp]
        /\ exception' = [exception EXCEPT !.status = op[s].status, !.by = op[s].actor]
        /\ audit' = audit \cup {<<op[s].status, op[s].actor>>}
        /\ UNCHANGED <<events, summary, location, lost, crashes>>
    BY <1>7 DEF ResolveWrite, Finish
  <2>2. exception # NULL /\ op[s].actor \in Staff /\ op[s].status \in Closed
    BY <1>0, <2>1 DEF SlotOK
  <2>3. exception \in ExceptionRow BY <1>0, <2>2 DEF RowsOK
  <2>4. /\ exception' \in ExceptionRow
        /\ exception'.status = op[s].status /\ exception'.by = op[s].actor
    BY <2>1, <2>2, <2>3 DEF ExceptionRow
  <2>5. exception' # NULL BY <2>4, RowTypes
  <2>6. RowsOK' BY <1>0, <2>1, <2>2, <2>4 DEF RowsOK
  <2>7. ResolutionAudited' BY <2>1, <2>4 DEF ResolutionAudited
  <2>8. SlotOK(IdleOp)' BY IdleIsOp DEF SlotOK
  <2>9. MissingPending' BY <2>5 DEF MissingPending
  <2>10. SummaryInv' BY <1>0, <2>1, <2>9, SummaryStays
  <2>11. PICK q : q = IdleOp OBVIOUS
  <2>12. SlotOK(q)' BY <2>8, <2>11
  <2> QED BY <2>1, <2>5, <2>6, <2>7, <2>10, <2>11, <2>12, SlotMoves
<1> QED BY <1>1, <1>2, <1>3, <1>4, <1>5, <1>6, <1>7 DEF Request

LEMMA DayRowsInvariance == Spec => []DayRowsInv
<1>1. Init => DayRowsInv
  <2> SUFFICES ASSUME Init PROVE DayRowsInv OBVIOUS
  <2>1. LogInv BY FS_EmptySet DEF Init, LogInv, UniqueIds
  <2>2. RowsOK
    <3>1. lost \in BOOLEAN BY DEF Init
    <3> QED BY <3>1, DayAssumption DEF Init, RowsOK
  <2>3. op \in [Slots -> Op] /\ \A s \in Slots : SlotOK(op[s])
    BY IdleIsOp DEF Init, SlotOK
  <2>4. SummaryInv /\ ResolutionAudited BY DEF Init, SummaryInv, ResolutionAudited
  <2> QED BY <2>1, <2>2, <2>3, <2>4 DEF DayRowsInv
<1>2. DayRowsInv /\ [Next]_vars => DayRowsInv'
  <2> SUFFICES ASSUME DayRowsInv, [Next]_vars PROVE DayRowsInv' OBVIOUS
  <2>1. CASE Log BY <2>1, ClockGrows, CorrectGrows DEF Log
  <2>2. ASSUME NEW s \in Slots, Request(s) PROVE DayRowsInv' BY <2>2, RequestKeeps
  <2>3. CASE Crash
    <3>1. /\ crashes' = crashes + 1 /\ crashes < MaxCrashes /\ op' = [s \in Slots |-> IdleOp]
          /\ lost' = (lost \/ \E s \in Slots : op[s].pc = "missing")
          /\ UNCHANGED <<events, summary, exception, location, audit>>
      BY <2>3 DEF Crash
    <3>2. crashes \in 0..MaxCrashes /\ MaxCrashes \in Nat
      BY DayAssumption DEF DayRowsInv, RowsOK
    <3>3. crashes' \in 0..MaxCrashes /\ lost' \in BOOLEAN BY <3>1, <3>2 DEF DayRowsInv, RowsOK
    <3>4. op' \in [Slots -> Op] /\ \A s \in Slots : SlotOK(op[s])'
      BY <3>1, IdleIsOp DEF SlotOK
    <3>5. RowsOK' /\ LogInv' /\ ResolutionAudited'
      BY <3>1, <3>3 DEF DayRowsInv, RowsOK, LogInv, ResolutionAudited
    <3>6. MissingPending => MissingPending' BY <3>1 DEF MissingPending
    <3>7. SummaryInv' BY <3>1, <3>6, SummaryStays DEF DayRowsInv
    <3> QED BY <3>4, <3>5, <3>7 DEF DayRowsInv
  <2>4. CASE UNCHANGED vars
    <3>1. LogInv' /\ UNCHANGED <<events, summary, exception, location, audit, op, lost, crashes>>
      BY <2>4 DEF vars, DayRowsInv, LogInv
    <3> QED BY <3>1, LogGrows
  <2> QED BY <2>1, <2>2, <2>3, <2>4 DEF Next
<1> QED BY <1>1, <1>2, PTL DEF Spec

\* Rows and requests of AttendanceDay have their types; so the sort of
\* summarizeEvents and its minutes always yield a well-formed row.
THEOREM DayTypes == Spec => []TypeOK
<1>1. DayRowsInv => TypeOK
  <2> SUFFICES ASSUME DayRowsInv PROVE TypeOK OBVIOUS
  <2>1. summary \in SummaryRow \cup {NULL}
    <3>1. CASE summary # NULL
      <4>1. PICK d : Taken(events, d) /\ summary = SummaryOf(d)
        BY <3>1 DEF DayRowsInv, SummaryInv
      <4>2. /\ summarizeEvents(d).worked \in Nat /\ summarizeEvents(d).breaks \in Nat
            /\ summarizeEvents(d).sources \in Seq(ArrivalIds \cup Corrections)
        BY <4>1, TakenSummary DEF DayRowsInv, LogInv, AllIds
      <4> QED BY <4>1, <4>2 DEF SummaryOf, SummaryRow
    <3> QED BY <3>1
  <2>2. location \subseteq SUBSET (ArrivalIds \cup Corrections)
    BY DEF DayRowsInv, RowsOK, AllIds
  <2> QED BY <2>1, <2>2 DEF DayRowsInv, LogInv, RowsOK, TypeOK
<1> QED BY <1>1, DayRowsInvariance, PTL

\* However requests overlap, whatever punches and corrections arrive between their
\* steps: a summary is what one computation made of accepted events on file
\* (summarizeDay).
THEOREM SummaryIsOfOneComputation == Spec => []SummaryOfOneComputation
<1>1. DayRowsInv => SummaryOfOneComputation
  <2> SUFFICES ASSUME DayRowsInv, summary # NULL
               PROVE  \E d \in Days({e \in Accepted(events) :
                                         e.id \in Range(summary.sources)}) :
                          LET result == summarizeEvents(d)
                          IN  /\ summary.sources = result.sources
                              /\ summary.worked = result.worked
                              /\ summary.breaks = result.breaks
    BY DEF SummaryOfOneComputation
  <2>1. PICK d : Taken(events, d) /\ summary = SummaryOf(d) BY DEF DayRowsInv, SummaryInv
  <2>2. /\ summary.worked = summarizeEvents(d).worked
        /\ summary.breaks = summarizeEvents(d).breaks
        /\ summary.sources = summarizeEvents(d).sources
    BY <2>1 DEF SummaryOf
  <2>3. summary.sources = [k \in 1..Len(d) |-> d[k].id]
    BY <2>1, <2>2, TakenSummary DEF DayRowsInv, LogInv
  <2>4. PICK ids : ids = summary.sources OBVIOUS
  <2>5. d \in Days({e \in Accepted(events) : e.id \in Range(ids)})
    BY <2>1, <2>3, <2>4, TakenIsDay DEF DayRowsInv, LogInv
  <2> QED BY <2>2, <2>4, <2>5
<1> QED BY <1>1, DayRowsInvariance, PTL

\* The summary of a day with a punch missing is followed by its exception, and where
\* a crash or a failing query came between, as soon as the day is summarized again
\* (summarizeDay).
THEOREM MissingPunchRaised == Spec => []MissingPunchIsRaised
<1>1. DayRowsInv => MissingPunchIsRaised
  <2> SUFFICES ASSUME DayRowsInv, ~lost, summary # NULL, SummaryMissing
               PROVE  MissingPending
    BY DEF MissingPunchIsRaised, MissingPending
  <2>1. PICK d : /\ Taken(events, d) /\ summary = SummaryOf(d)
                 /\ summarizeEvents(d).missing => MissingPending
    BY DEF DayRowsInv, SummaryInv
  <2>2. summary.sources = [k \in 1..Len(d) |-> d[k].id]
    BY <2>1, TakenSummary DEF SummaryOf, DayRowsInv, LogInv
  <2>3. PICK rows : rows = {e \in events : e.id \in Range(summary.sources)} OBVIOUS
  <2>4. PICK c \in Days(rows) : /\ [k \in DOMAIN c |-> c[k].id] = summary.sources
                                /\ summarizeEvents(c).missing
    BY <2>3 DEF SummaryMissing
  <2>5. PICK n : n = Cardinality(rows) OBVIOUS
  <2>6. n \in Nat
    <3>1. rows \subseteq events BY <2>3
    <3> QED BY <2>5, <3>1, FS_Subset, FS_CardinalityType DEF DayRowsInv, LogInv
  <2>7. c \in [1..n -> rows] BY <2>4, <2>5 DEF Days, SetToSeqs
  <2>8. Len(c) = n /\ DOMAIN c = 1..n BY <2>6, <2>7
  <2>9. \A k \in 1..n : c[k] \in events BY <2>3, <2>7
  <2>10. c = d
    <3>1. /\ DOMAIN c = 1..Len(c) /\ c = [k \in 1..Len(c) |-> c[k]]
          /\ \A k \in 1..Len(c) : c[k] \in events
      BY <2>7, <2>8, <2>9
    <3>2. [k \in DOMAIN c |-> c[k].id] = [k \in 1..Len(d) |-> d[k].id] BY <2>2, <2>4
    <3>3. UniqueIds(events) /\ Taken(events, d) BY <2>1 DEF DayRowsInv, LogInv
    <3> QED BY <3>1, <3>2, <3>3, SameIds
  <2> QED BY <2>1, <2>4, <2>10
<1> QED BY <1>1, DayRowsInvariance, PTL

\* Whoever closed an exception, and how, is on the audit log, whatever was reopened
\* or closed again meanwhile (resolveException).
THEOREM ResolutionsOnRecord == Spec => []ResolutionAudited
<1>1. DayRowsInv => ResolutionAudited BY DEF DayRowsInv
<1> QED BY <1>1, DayRowsInvariance, PTL

---------------------------------------------------------------------------
(* Requests one at a time. *)

\* A read takes every accepted event on file.
LEMMA ReadTakesAll ==
    ASSUME LogInv, NEW d \in Days(Accepted(events))
    PROVE  {d[k] : k \in 1..Len(d)} = Accepted(events)
<1>1. PICK A, n : A = Accepted(events) /\ n = Cardinality(A) OBVIOUS
<1>2. IsFiniteSet(A) /\ n \in Nat
  <2>1. A \subseteq events BY <1>1 DEF Accepted
  <2> QED BY <1>1, <2>1, FS_Subset, FS_CardinalityType DEF LogInv
<1>3. d \in [1..n -> A] /\ \A i, j \in 1..n : i # j => d[i] # d[j]
  BY <1>1 DEF Days, SetToSeqs
<1>4. Len(d) = n BY <1>2, <1>3
<1> DEFINE S == {d[k] : k \in 1..n}
<1>5. S \subseteq A BY <1>3
<1>6. d \in Bijection(1..n, S)
  BY <1>3 DEF Bijection, Injection, Surjection, IsInjective
<1>7. Cardinality(S) = n
  <2>1. IsFiniteSet(1..n) /\ Cardinality(1..n) = IF 1 > n THEN 0 ELSE n - 1 + 1
    BY <1>2, FS_Interval
  <2>2. Cardinality(1..n) = n BY <1>2, <2>1
  <2>3. ExistsBijection(1..n, S) BY <1>6 DEF ExistsBijection
  <2> HIDE DEF S
  <2> QED BY <2>1, <2>2, <2>3, FS_Bijection
<1>8. S = A
  <2> HIDE DEF S
  <2> QED BY <1>1, <1>2, <1>5, <1>7, FS_Subset
<1> QED BY <1>1, <1>4, <1>8

\* The events a request is about to write are those of the summary and more.
SerialDay ==
    ~interleaved =>
        /\ OneAtATime
        /\ \A s \in Slots : op[s].pc = "upsert" /\ summary # NULL =>
               Range(summary.sources) \subseteq {op[s].day[k].id : k \in 1..Len(op[s].day)}

Keeps == summary # NULL => Range(summary.sources) \subseteq Range(summary'.sources)

\* The ids of a summary are of events on file.
LEMMA SourcesOnFile ==
    ASSUME DayRowsInv, summary # NULL
    PROVE  Range(summary.sources) \subseteq {e.id : e \in Accepted(events)}
<1>1. PICK d : Taken(events, d) /\ summary = SummaryOf(d) BY DEF DayRowsInv, SummaryInv
<1>2. summary.sources = [k \in 1..Len(d) |-> d[k].id]
  BY <1>1, TakenSummary DEF SummaryOf, DayRowsInv, LogInv
<1>3. Range(summary.sources) = {d[k].id : k \in 1..Len(d)} BY <1>2 DEF Range
<1>4. \A k \in 1..Len(d) : d[k] \in Accepted(events) BY <1>1, TakenMembers DEF Accepted
<1> QED BY <1>3, <1>4

\* A step that writes no summary and lets no other request write one.
LEMMA SerialUnwritten ==
    ASSUME SerialDay, OneAtATime', UNCHANGED <<summary, interleaved>>,
           \A s \in Slots : op'[s].pc = "upsert" =>
               op[s].pc = "upsert" /\ op'[s].day = op[s].day
    PROVE  SerialDay' /\ Keeps
<1>1. Keeps BY DEF Keeps
<1>2. ASSUME ~interleaved, NEW s \in Slots, op'[s].pc = "upsert", summary # NULL
      PROVE  Range(summary.sources) \subseteq {op'[s].day[k].id : k \in 1..Len(op'[s].day)}
  BY <1>2 DEF SerialDay
<1> QED BY <1>1, <1>2 DEF SerialDay

LEMMA SerialRequest ==
    ASSUME NEW s \in Slots, DayRowsInv, SerialDay, ~interleaved, Request(s),
           OneAtATime', UNCHANGED interleaved
    PROVE  SerialDay' /\ Keeps
<1>0. /\ op \in [Slots -> Op] /\ op[s] \in Op /\ SlotOK(op[s])
      /\ events \subseteq Events /\ LogInv
  BY DEF DayRowsInv, LogInv
<1>1. CASE SummarizeRead(s)
  <2>1. PICK d \in Days(Accepted(events)) :
            op' = [op EXCEPT ![s] = [IdleOp EXCEPT !.pc = "upsert", !.day = d]]
    BY <1>1 DEF SummarizeRead
  <2>2. PICK q : q = [IdleOp EXCEPT !.pc = "upsert", !.day = d] OBVIOUS
  <2>3. op'[s] = q /\ q.pc = "upsert" /\ q.day = d
        /\ UNCHANGED <<events, summary>>
    BY <1>0, <1>1, <2>1, <2>2 DEF SummarizeRead, IdleOp
  <2>4. Keeps BY <2>3 DEF Keeps
  <2>5. Busy(s)' BY <2>3, IdleIsOp DEF Busy
  <2>6. ASSUME NEW t \in Slots, op'[t].pc = "upsert", summary' # NULL
        PROVE  Range(summary'.sources) \subseteq
                   {op'[t].day[k].id : k \in 1..Len(op'[t].day)}
    <3>1. t = s
      <4>1. Busy(t)' BY <2>6, IdleIsOp DEF Busy
      <4> QED BY <2>5, <4>1 DEF OneAtATime
    <3>2. {d[k] : k \in 1..Len(d)} = Accepted(events) BY <1>0, ReadTakesAll
    <3>3. Range(summary.sources) \subseteq {e.id : e \in Accepted(events)}
      BY <2>3, <2>6, SourcesOnFile
    <3>4. {e.id : e \in Accepted(events)} = {d[k].id : k \in 1..Len(d)} BY <3>2
    <3> QED BY <2>3, <3>1, <3>3, <3>4
  <2> QED BY <2>4, <2>6 DEF SerialDay
<1>2. CASE SummarizeUpsert(s)
  <2>1. PICK d : d = op[s].day OBVIOUS
  <2>2. Taken(events, d) /\ op[s].pc = "upsert"
    BY <1>0, <1>2, <2>1 DEF SlotOK, SummarizeUpsert
  <2>3. PICK pc : pc = IF summarizeEvents(d).missing THEN "missing" ELSE "location" OBVIOUS
  <2>4. Goto(s, pc) /\ pc \in {"missing", "location"}
    BY <1>2, <2>1, <2>3 DEF SummarizeUpsert, Result
  <2>5. PICK q \in Op : op' = [op EXCEPT ![s] = q] /\ q.pc = pc
    BY <1>0, <2>4, GotoMoves
  <2>6. ASSUME NEW t \in Slots PROVE op'[t].pc # "upsert"
    <3>1. CASE t = s BY <1>0, <2>4, <2>5, <3>1
    <3>2. CASE t # s
      <4>1. Busy(s) BY <2>2, IdleIsOp DEF Busy
      <4>2. ~Busy(t) BY <3>2, <4>1 DEF SerialDay, OneAtATime
      <4>3. op'[t] = op[t] BY <1>0, <2>5, <3>2
      <4> QED BY <4>2, <4>3, IdleIsOp DEF Busy
    <3> QED BY <3>1, <3>2
  <2>7. summary'.sources = [k \in 1..Len(d) |-> d[k].id]
    <3>1. summary'.sources = summarizeEvents(d).sources
      BY <1>2, <2>1 DEF SummarizeUpsert, Result
    <3> QED BY <1>0, <2>2, <3>1, TakenSummary
  <2>8. Range(summary'.sources) = {d[k].id : k \in 1..Len(d)} BY <2>7 DEF Range
  <2>9. Keeps BY <2>1, <2>2, <2>8 DEF Keeps, SerialDay
  <2> QED BY <2>6, <2>9 DEF SerialDay
<1>3. ASSUME NEW q, op' = [op EXCEPT ![s] = q], q.pc # "upsert", UNCHANGED summary
      PROVE  SerialDay' /\ Keeps
  <2>1. op'[s] = q /\ \A t \in Slots : t # s => op'[t] = op[t] BY <1>0, <1>3
  <2>2. \A t \in Slots : op'[t].pc = "upsert" =>
            op[t].pc = "upsert" /\ op'[t].day = op[t].day
    BY <1>3, <2>1
  <2> QED BY <1>3, <2>2, SerialUnwritten
<1>4. CASE Fail(s)
  BY <1>3, <1>4, IdleIsOp DEF Fail, Finish
<1>5. CASE RaiseMissing(s)
  <2>1. Goto(s, "location") /\ UNCHANGED summary BY <1>5 DEF RaiseMissing
  <2>2. PICK q \in Op : op' = [op EXCEPT ![s] = q] /\ q.pc = "location"
    BY <1>0, <2>1, GotoMoves
  <2> QED BY <1>3, <2>1, <2>2
<1>6. CASE RaiseLocation(s)
  BY <1>3, <1>6, IdleIsOp DEF RaiseLocation, Finish
<1>7. ASSUME NEW a \in Staff, NEW status \in Closed, ResolveRead(s, a, status)
      PROVE  SerialDay' /\ Keeps
  <2>1. PICK q : q = [IdleOp EXCEPT !.pc = "resolve", !.actor = a, !.status = status] OBVIOUS
  <2>2. op' = [op EXCEPT ![s] = q] /\ UNCHANGED summary BY <1>7, <2>1 DEF ResolveRead
  <2>3. q.pc # "upsert" BY <2>1 DEF IdleOp
  <2> QED BY <1>3, <2>2, <2>3
<1>8. CASE ResolveWrite(s)
  BY <1>3, <1>8, IdleIsOp DEF ResolveWrite, Finish
<1> QED BY <1>1, <1>2, <1>4, <1>5, <1>6, <1>7, <1>8 DEF Request

LEMMA SerialStep ==
    ASSUME DayRowsInv, SerialDay, [ServedNext]_<<vars, interleaved>>
    PROVE  SerialDay' /\ (~interleaved => Keeps)
<1>1. CASE UNCHANGED <<vars, interleaved>>
  <2>1. UNCHANGED <<summary, op, interleaved>> BY <1>1 DEF vars
  <2>2. SerialDay' BY <2>1 DEF SerialDay, OneAtATime, Busy
  <2>3. Keeps BY <2>1 DEF Keeps
  <2> QED BY <2>2, <2>3
<1>2. CASE ServedNext /\ interleaved BY <1>2 DEF ServedNext, SerialDay
<1>3. CASE ServedNext /\ ~interleaved
  <2>0. Next /\ OneAtATime' /\ UNCHANGED interleaved BY <1>3 DEF ServedNext
  <2>1. CASE Log
    <3>1. UNCHANGED <<summary, op>> BY <2>1 DEF Log, Clock, Correct
    <3> QED BY <2>0, <3>1, SerialUnwritten
  <2>2. ASSUME NEW s \in Slots, Request(s) PROVE SerialDay' /\ Keeps
    BY <1>3, <2>0, <2>2, SerialRequest
  <2>3. CASE Crash
    <3>1. UNCHANGED summary /\ op' = [s \in Slots |-> IdleOp] BY <2>3 DEF Crash
    <3>2. \A s \in Slots : op'[s].pc # "upsert" BY <3>1, IdleIsOp
    <3> QED BY <2>0, <3>1, <3>2, SerialUnwritten
  <2> QED BY <2>0, <2>1, <2>2, <2>3 DEF Next
<1> QED BY <1>1, <1>2, <1>3

\* One request at a time, computing a summary again never drops an event it had
\* (summarizeDay, correct).
THEOREM SerialSummariesKeepEvents == ServedSpec => SummaryNeverGoesBack
<1>1. ServedSpec => Spec
  <2>1. ServedInit => Init BY DEF ServedInit
  <2>2. [ServedNext]_<<vars, interleaved>> => [Next]_vars BY DEF ServedNext
  <2> QED BY <2>1, <2>2, PTL DEF ServedSpec, Spec
<1>2. ServedInit => SerialDay
  BY IdleIsOp DEF ServedInit, Init, SerialDay, OneAtATime, Busy
<1>3. DayRowsInv /\ SerialDay /\ [ServedNext]_<<vars, interleaved>> => SerialDay'
  BY SerialStep
<1>4. DayRowsInv /\ SerialDay /\ [ServedNext]_<<vars, interleaved>> =>
          [~interleaved /\ summary # NULL =>
              Range(summary.sources) \subseteq Range(summary'.sources)]_vars
  BY SerialStep DEF Keeps
<1> QED BY <1>1, <1>2, <1>3, <1>4, DayRowsInvariance, PTL DEF ServedSpec, SummaryNeverGoesBack
=============================================================================
