---------------------------- MODULE DevicesProofs ----------------------------
(***************************************************************************)
(* For every width of counters, every frame and every set of periods: the  *)
(* late timer implements the ticking one, its interrupt comes by the end   *)
(* of the frame, and the joypad notices the lines that fall.               *)
(*                                                                         *)
(* The loop of timer_tick has a closed form (TurnsClosed), so a tick after *)
(* many cycles can be split into ticks of one cycle (CycleTick).  The      *)
(* inductive invariant says that a tick never computes with more clocks    *)
(* than its counters hold: the last one was in this frame (Late), and what *)
(* was left then is less than some period.                                 *)
(***************************************************************************)
EXTENDS Devices, WellFoundedInduction, TLAPS

-----------------------------------------------------------------------------
(* Induction and division with remainder *)

\* Induction, for a set instead of a predicate.
LEMMA NatSetInduction ==
    ASSUME NEW S, 0 \in S, \A n \in Nat : n \in S => n + 1 \in S
    PROVE  \A n \in Nat : n \in S
<1> DEFINE R == OpToRel(<, Nat)
           T == Nat \ S
<1>1. IsWellFoundedOn(R, Nat)
  BY NatLessThanWellFounded
<1>2. \A i, j \in Nat : i < j => <<i, j>> \in R
  BY DEF OpToRel
<1> HIDE DEF R
<1>3. ASSUME T # {} PROVE FALSE
  <2>1. PICK x \in T : \A y \in T : ~ (<<y, x>> \in R)
    BY <1>1, <1>3, WFMin
  <2>2. x \in Nat /\ x # 0
    OBVIOUS
  <2>3. x - 1 \in Nat /\ x - 1 < x
    BY <2>2
  <2>4. x - 1 \notin T
    BY <2>1, <2>2, <2>3, <1>2
  <2>5. (x - 1) + 1 \in S
    BY <2>3, <2>4
  <2> QED
    BY <2>2, <2>5
<1> QED
  BY <1>3

\* A multiple that is not zero is at least one.
LEMMA AtLeastOnce ==
    ASSUME NEW d \in Nat \ {0}, NEW q \in Int, q >= 1
    PROVE  d * q >= d
OBVIOUS

\* Division with remainder.
LEMMA DivMod ==
    ASSUME NEW r \in Int, NEW d \in Nat \ {0}
    PROVE  /\ r \div d \in Int /\ r % d \in 0..(d - 1) /\ r % d \in Nat
           /\ r = d * (r \div d) + (r % d)
OBVIOUS

\* Quotient and remainder are the only ones.
LEMMA DivUnique ==
    ASSUME NEW r \in Int, NEW d \in Nat \ {0}, NEW q \in Int, NEW m \in 0..(d - 1),
           r = d * q + m
    PROVE  r \div d = q /\ r % d = m
<1> DEFINE p == r \div d
           n == r % d
<1>1. p \in Int /\ n \in 0..(d - 1) /\ r = d * p + n
  BY DivMod
<1> HIDE DEF p, n
<1>2. d * (q - p) = n - m /\ d * (p - q) = m - n
  BY <1>1
<1>3. ~(q - p >= 1)
  BY <1>1, <1>2, AtLeastOnce
<1>4. ~(p - q >= 1)
  BY <1>1, <1>2, AtLeastOnce
<1>5. p = q
  BY <1>1, <1>3, <1>4
<1> QED
  BY <1>1, <1>5 DEF p, n

\* Below the divisor nothing is divided.
LEMMA SmallMod ==
    ASSUME NEW d \in Nat \ {0}, NEW r \in 0..(d - 1)
    PROVE  r % d = r /\ r \div d = 0
BY DivUnique

\* What is not negative has a quotient that is not.
LEMMA DivNat ==
    ASSUME NEW r \in Nat, NEW d \in Nat \ {0}
    PROVE  r \div d \in Nat
<1>1. r \div d \in Int /\ r % d \in 0..(d - 1) /\ r = d * (r \div d) + (r % d)
  BY DivMod
<1>2. CASE r \div d >= 0
  BY <1>1, <1>2
<1>3. CASE ~(r \div d >= 0)
  <2>1. d * (0 - (r \div d)) >= d
    BY <1>1, <1>3, AtLeastOnce
  <2> QED
    BY <1>1, <2>1
<1> QED
  BY <1>2, <1>3

\* Dividing a sum: first one part of it, then its remainder and the other part.
LEMMA DivAdd ==
    ASSUME NEW r \in Int, NEW e \in Int, NEW d \in Nat \ {0}
    PROVE  /\ (r + e) % d = ((r % d) + e) % d
           /\ (r + e) \div d = (r \div d) + (((r % d) + e) \div d)
<1> DEFINE m == r % d
           q == r \div d
           x == m + e
<1>1. q \in Int /\ m \in 0..(d - 1) /\ r = d * q + m
  BY DivMod
<1>2. x \in Int
  BY <1>1
<1>3. x \div d \in Int /\ x % d \in 0..(d - 1) /\ x = d * (x \div d) + (x % d)
  BY <1>2, DivMod
<1> DEFINE y == x \div d
           z == x % d
<1>4. r + e = d * q + x
  BY <1>1
<1> HIDE DEF m, q, x
<1>5. d * (q + y) = d * q + d * y
  <2>1. y \in Int
    BY <1>3
  <2> HIDE DEF y
  <2> QED
    BY <1>1, <2>1
<1>6. r + e = d * (q + y) + z
  BY <1>1, <1>2, <1>3, <1>4, <1>5
<1>7. q + y \in Int /\ r + e \in Int /\ z \in 0..(d - 1)
  BY <1>1, <1>3
<1> HIDE DEF y, z
<1>8. (r + e) \div d = q + y /\ (r + e) % d = z
  BY <1>6, <1>7, DivUnique
<1> QED
  BY <1>8 DEF m, q, x, y, z

\* One divisor less, one quotient less.
LEMMA DivSub ==
    ASSUME NEW r \in Int, NEW d \in Nat \ {0}
    PROVE  (r - d) % d = r % d /\ r \div d = 1 + ((r - d) \div d)
<1> DEFINE m == r % d
           q == r \div d
<1>1. q \in Int /\ m \in 0..(d - 1) /\ r = d * q + m
  BY DivMod
<1> HIDE DEF m, q
<1>2. r - d = d * (q - 1) + m
  BY <1>1
<1>3. (r - d) \div d = q - 1 /\ (r - d) % d = m
  BY <1>1, <1>2, DivUnique
<1> QED
  BY <1>1, <1>3 DEF m, q

\* More of the same.
LEMMA TimesMono ==
    ASSUME NEW c \in Nat, NEW a \in Nat, NEW b \in Nat, a <= b
    PROVE  a * c <= b * c /\ a * c \in Nat
<1>1. (b - a) * c \in Nat /\ a * c \in Nat /\ b * c = a * c + (b - a) * c
  OBVIOUS
<1> QED
  BY <1>1

\* A counter that wraps around: a cycle more since the last time.
LEMMA OneLater ==
    ASSUME NEW m \in Nat \ {0}, NEW now \in Int, NEW last \in Int, ((now - last) % m) + 1 < m
    PROVE  (((now + 1) % m) - last) % m = ((now - last) % m) + 1
<1> DEFINE back == 0 - last
           d == now - last
           next == (now + 1) % m
           l == d % m
<1>1. next \in Int /\ l \in Nat
  BY DivMod
<1>2. next - last = next + back /\ (now + 1) + back = d + 1 /\ back \in Int /\ now + 1 \in Int /\ d \in Int
  BY <1>1
<1>3. ((now + 1) + back) % m = (next + back) % m
  <2> HIDE DEF back
  <2> QED
    BY <1>2, DivAdd
<1>4. (d + 1) % m = (l + 1) % m
  <2>1. d \in Int /\ 1 \in Int
    BY <1>2
  <2> HIDE DEF d
  <2> QED
    BY <2>1, DivAdd, Zenon
<1>5. l + 1 \in 0..(m - 1)
  BY <1>1
<1> HIDE DEF l, d, next, back
<1>6. (l + 1) % m = l + 1
  BY <1>5, SmallMod
<1>7. (next - last) % m = l + 1
  BY <1>2, <1>3, <1>4, <1>6
<1> QED
  BY <1>7 DEF l, d, next
-----------------------------------------------------------------------------

Byte == 0..TIMA_MOD - 1
TacType == [on : BOOLEAN, select : DOMAIN PERIOD]
TimerType ==
    [tima_accum : Nat, last_cycles : 0..CYCLE_MOD - 1, div_counter : 0..DIV_MOD - 1,
     tima : Byte, tma : Byte, tac : TacType]
JoypadType ==
    [buttons : [0..GB_BUTTON_COUNT - 1 -> BOOLEAN],
     dpad_selected : BOOLEAN, face_selected : BOOLEAN]

TypeOK ==
    /\ loc \in {"poll", "run"} /\ spent \in 0..FRAME + OVERRUN
    /\ cycles \in 0..CYCLE_MOD - 1
    /\ tmr \in TimerType /\ joypad \in JoypadType
    /\ raised \in Nat /\ due \in BOOLEAN

\* Cycles since the timer was brought up to date.
Late(t, now) == (now - t.last_cycles) % CYCLE_MOD

\* No counter of timer_tick wraps around before it is brought up to date again.
InTime ==
    /\ Late(tmr, cycles) <= spent
    /\ \E select \in DOMAIN PERIOD : tmr.tima_accum < PERIOD[select]

\* Between two frames the timer is up to date.
AtRest == loc = "poll" => spent = 0 /\ Requests(tmr, cycles) = 0

\* A request that a ticking timer has made is in IF or in the tick to come.
Owed == due => "timer" \in if_reg \/ Requests(tmr, cycles) > 0

DevicesInv == TypeOK /\ InTime /\ AtRest /\ Owed
-----------------------------------------------------------------------------
LEMMA Sizes ==
    /\ FRAME \in Nat \ {0} /\ OVERRUN \in Nat
    /\ CYCLE_MOD \in Nat \ {0} /\ DIV_MOD \in Nat \ {0} /\ TIMA_MOD \in Nat \ {0}
    /\ CLOCKS \in Nat \ {0} /\ OVERFLOW_MOD \in Nat \ {0}
BY DevicesAssumption

LEMMA Periods ==
    ASSUME NEW select \in DOMAIN PERIOD
    PROVE  PERIOD[select] \in Nat \ {0}
BY DevicesAssumption

\* TIMA after k increments, and how often it overflowed.
Counted(v, reload, k) == IF v + k < TIMA_MOD THEN v + k
                         ELSE reload + ((v + k - TIMA_MOD) % (TIMA_MOD - reload))
Wraps(v, reload, k) == IF v + k < TIMA_MOD THEN 0
                       ELSE 1 + ((v + k - TIMA_MOD) \div (TIMA_MOD - reload))

LEMMA CountedType ==
    ASSUME NEW v \in Byte, NEW reload \in Byte, NEW k \in Nat
    PROVE  Counted(v, reload, k) \in Byte /\ Wraps(v, reload, k) \in Nat
<1>1. v \in Nat /\ reload \in Nat /\ v < TIMA_MOD /\ reload < TIMA_MOD /\ TIMA_MOD \in Nat
  BY Sizes DEF Byte
<1> DEFINE d == TIMA_MOD - reload
           r == v + k - TIMA_MOD
<1>2. d \in Nat \ {0} /\ r \in Int
  BY <1>1
<1>3. CASE v + k < TIMA_MOD
  BY <1>1, <1>3 DEF Counted, Wraps, Byte
<1>4. CASE ~(v + k < TIMA_MOD)
  <2>1. r \in Nat
    BY <1>1, <1>4
  <2> HIDE DEF d, r
  <2>2. r % d \in 0..(d - 1) /\ r \div d \in Nat
    BY <1>2, <2>1, DivMod, DivNat
  <2>3. Counted(v, reload, k) = reload + (r % d) /\ Wraps(v, reload, k) = 1 + (r \div d)
    BY <1>4 DEF Counted, Wraps, d, r
  <2>4. d = TIMA_MOD - reload
    BY DEF d
  <2> QED
    BY <1>1, <2>2, <2>3, <2>4 DEF Byte
<1> QED
  BY <1>3, <1>4

\* Counting on: k increments and then l more.
LEMMA CountOn ==
    ASSUME NEW v \in Byte, NEW reload \in Byte, NEW k \in Nat, NEW l \in Nat
    PROVE  LET w == Counted(v, reload, k) IN
           /\ Counted(v, reload, k + l) = Counted(w, reload, l)
           /\ Wraps(v, reload, k + l) = Wraps(v, reload, k) + Wraps(w, reload, l)
<1> DEFINE w == Counted(v, reload, k)
           d == TIMA_MOD - reload
           r == v + k - TIMA_MOD
<1>1. v \in Nat /\ reload \in Nat /\ v < TIMA_MOD /\ reload < TIMA_MOD /\ TIMA_MOD \in Nat
  BY Sizes DEF Byte
<1>2. d \in Nat \ {0} /\ r \in Int
  BY <1>1
<1>3. CASE v + k < TIMA_MOD
  <2>1. w = v + k
    BY <1>3 DEF Counted
  <2>2. w + l = v + (k + l) /\ w \in Int
    BY <1>1, <2>1
  <2>3. Wraps(v, reload, k) = 0
    BY <1>3 DEF Wraps
  <2> HIDE DEF w
  <2>4. Counted(v, reload, k + l) = Counted(w, reload, l)
    BY <1>1, <2>2 DEF Counted
  <2>5. Wraps(v, reload, k + l) = Wraps(w, reload, l) /\ Wraps(w, reload, l) \in Nat
    <3>1. w \in Byte
      BY CountedType DEF w
    <3>2. Wraps(w, reload, l) \in Nat
      BY <3>1, CountedType
    <3> QED
      BY <1>1, <2>2, <3>2 DEF Wraps
  <2>6. Wraps(v, reload, k + l) = Wraps(v, reload, k) + Wraps(w, reload, l)
    BY <2>3, <2>5
  <2> QED
    BY <2>4, <2>6 DEF w
<1>4. CASE ~(v + k < TIMA_MOD)
  <2>1. r \in Nat /\ ~(v + (k + l) < TIMA_MOD) /\ v + (k + l) - TIMA_MOD = r + l
    BY <1>1, <1>4
  <2>2. w = reload + (r % d) /\ Wraps(v, reload, k) = 1 + (r \div d)
    BY <1>4 DEF Counted, Wraps
  <2>3. Counted(v, reload, k + l) = reload + ((r + l) % d)
        /\ Wraps(v, reload, k + l) = 1 + ((r + l) \div d)
    BY <2>1 DEF Counted, Wraps
  <2> DEFINE m == r % d
  <2>4. r % d \in 0..(d - 1) /\ r \div d \in Int
    BY <1>2, <2>1, DivMod
  <2>5. (r + l) % d = (m + l) % d /\ (r + l) \div d = (r \div d) + ((m + l) \div d)
    <3>1. r \in Int /\ l \in Int /\ d \in Nat \ {0}
      BY <1>2
    <3> HIDE DEF r, d
    <3> QED
      BY <3>1, DivAdd, Zenon
  <2>6. m \in 0..(d - 1) /\ w = reload + m
    BY <2>2, <2>4
  <2>7. d = TIMA_MOD - reload
    OBVIOUS
  <2> HIDE DEF w, d, r, m
  <2>8. CASE m + l < d
    <3>1. w + l < TIMA_MOD
      BY <1>1, <2>6, <2>7, <2>8
    <3>2. Counted(w, reload, l) = w + l /\ Wraps(w, reload, l) = 0
      BY <3>1 DEF Counted, Wraps
    <3>3. m + l \in 0..(d - 1)
      BY <1>2, <2>6, <2>8
    <3>4. (m + l) % d = m + l /\ (m + l) \div d = 0
      BY <1>2, <3>3, SmallMod
    <3>5. Counted(v, reload, k + l) = w + l
      BY <1>1, <2>3, <2>5, <2>6, <3>3, <3>4
    <3>6. Wraps(v, reload, k + l) = Wraps(v, reload, k)
      BY <2>2, <2>3, <2>4, <2>5, <3>4
    <3>7. Wraps(v, reload, k) \in Nat
      BY CountedType
    <3> QED
      BY <3>2, <3>5, <3>6, <3>7 DEF w
  <2>9. CASE ~(m + l < d)
    <3>1. ~(w + l < TIMA_MOD) /\ w + l - TIMA_MOD = (m + l) - d
      BY <1>1, <1>2, <2>6, <2>7, <2>9
    <3>2. Counted(w, reload, l) = reload + (((m + l) - d) % d)
          /\ Wraps(w, reload, l) = 1 + (((m + l) - d) \div d)
      BY <2>7, <3>1 DEF Counted, Wraps
    <3>3. m + l \in Int
      BY <1>2, <2>6
    <3>4. ((m + l) - d) % d = (m + l) % d /\ (m + l) \div d = 1 + (((m + l) - d) \div d)
      BY <1>2, <3>3, DivSub
    <3>5. Counted(v, reload, k + l) = Counted(w, reload, l)
      BY <2>3, <2>5, <3>2, <3>4
    <3>6. ((m + l) - d) \div d \in Int /\ (m + l) - d \in Int
      BY <1>2, <3>3, DivMod
    <3>7. Wraps(v, reload, k + l) = Wraps(v, reload, k) + Wraps(w, reload, l)
      BY <2>2, <2>3, <2>4, <2>5, <3>2, <3>4, <3>6
    <3> QED
      BY <3>5, <3>7 DEF w
  <2> QED
    BY <2>8, <2>9
<1> QED
  BY <1>3, <1>4

\* One increment.
LEMMA CountOne ==
    ASSUME NEW v \in Byte, NEW reload \in Byte
    PROVE  IF v = TIMA_MOD - 1
           THEN Counted(v, reload, 1) = reload /\ Wraps(v, reload, 1) = 1
           ELSE Counted(v, reload, 1) = v + 1 /\ Wraps(v, reload, 1) = 0
<1>1. v \in Nat /\ reload \in Nat /\ v < TIMA_MOD /\ reload < TIMA_MOD /\ TIMA_MOD \in Nat
  BY Sizes DEF Byte
<1>2. CASE v = TIMA_MOD - 1
  <2> DEFINE d == TIMA_MOD - reload
  <2>1. d \in Nat \ {0} /\ 0 \in 0..(d - 1)
    BY <1>1
  <2> HIDE DEF d
  <2>2. 0 % d = 0 /\ 0 \div d = 0
    BY <2>1, SmallMod
  <2>3. ~(v + 1 < TIMA_MOD) /\ v + 1 - TIMA_MOD = 0
    BY <1>1, <1>2
  <2>4. Counted(v, reload, 1) = reload + 0 /\ Wraps(v, reload, 1) = 1 + 0
    BY <2>2, <2>3 DEF Counted, Wraps, d
  <2> QED
    BY <1>1, <1>2, <2>4
<1>3. CASE v # TIMA_MOD - 1
  BY <1>1, <1>3 DEF Counted, Wraps
<1> QED
  BY <1>2, <1>3
-----------------------------------------------------------------------------
\* timer_tick's loop: the defining equation of the function of its turns.
TurnsOf(t, k, turn) ==
    [j \in 0..k |->
        IF j = 0 THEN [tima |-> t.tima, requests |-> 0]
        ELSE IF turn[j - 1].tima = TIMA_MOD - 1
             THEN [tima |-> t.tma, requests |-> turn[j - 1].requests + 1]
             ELSE [turn[j - 1] EXCEPT !.tima = @ + 1]]

After(t, j) == [tima |-> Counted(t.tima, t.tma, j), requests |-> Wraps(t.tima, t.tma, j)]

\* One turn goes from what j - 1 turns do to what j do.
LEMMA OneTurn ==
    ASSUME NEW t, t.tima \in Byte, t.tma \in Byte, NEW j \in Nat \ {0}
    PROVE  After(t, j) = IF After(t, j - 1).tima = TIMA_MOD - 1
                         THEN [tima |-> t.tma, requests |-> After(t, j - 1).requests + 1]
                         ELSE [After(t, j - 1) EXCEPT !.tima = @ + 1]
<1> DEFINE w == Counted(t.tima, t.tma, j - 1)
           n == Wraps(t.tima, t.tma, j - 1)
<1>1. (j - 1) + 1 = j /\ j - 1 \in Nat /\ 1 \in Nat
  OBVIOUS
<1>2. w \in Byte /\ n \in Nat
  BY <1>1, CountedType
<1>3. /\ Counted(t.tima, t.tma, (j - 1) + 1) = Counted(w, t.tma, 1)
      /\ Wraps(t.tima, t.tma, (j - 1) + 1) = n + Wraps(w, t.tma, 1)
  BY <1>1, CountOn
<1>4. After(t, j) = [tima |-> Counted(w, t.tma, 1), requests |-> n + Wraps(w, t.tma, 1)]
  BY <1>1, <1>3 DEF After
<1>5. After(t, j - 1) = [tima |-> w, requests |-> n]
  BY DEF After
<1> HIDE DEF w, n
<1>6. IF w = TIMA_MOD - 1 THEN Counted(w, t.tma, 1) = t.tma /\ Wraps(w, t.tma, 1) = 1
      ELSE Counted(w, t.tma, 1) = w + 1 /\ Wraps(w, t.tma, 1) = 0
  BY <1>2, CountOne
<1> QED
  BY <1>2, <1>4, <1>5, <1>6

LEMMA TurnsClosed ==
    ASSUME NEW t, t.tima \in Byte, t.tma \in Byte, NEW k \in Nat
    PROVE  Turns(t, k) = After(t, k)
<1> DEFINE closed == [j \in 0..k |-> After(t, j)]
           turn   == CHOOSE f : f = TurnsOf(t, k, f)
<1>1. closed = TurnsOf(t, k, closed)
  <2>1. ASSUME NEW j \in 0..k PROVE closed[j] = TurnsOf(t, k, closed)[j]
    <3>1. CASE j = 0
      <4>1. t.tima \in Nat /\ t.tima < TIMA_MOD /\ TIMA_MOD \in Nat
        BY Sizes DEF Byte
      <4>2. After(t, 0) = [tima |-> t.tima, requests |-> 0]
        BY <4>1 DEF After, Counted, Wraps
      <4> QED
        BY <3>1, <4>2 DEF TurnsOf
    <3>2. CASE j # 0
      <4>1. j \in Nat \ {0} /\ j - 1 \in 0..k
        BY <3>2
      <4>2. closed[j - 1] = After(t, j - 1)
        BY <4>1
      <4> QED
        BY <3>2, <4>1, <4>2, OneTurn DEF TurnsOf
    <3> QED
      BY <3>1, <3>2
  <2> QED
    BY <2>1 DEF TurnsOf
<1> HIDE DEF closed
<1>2. turn = TurnsOf(t, k, turn)
  BY <1>1
<1> HIDE DEF turn
<1>3. \A j \in Nat : j <= k => turn[j] = After(t, j)
  <2> DEFINE S == {j \in Nat : j <= k => turn[j] = After(t, j)}
  <2>1. turn[0] = [tima |-> t.tima, requests |-> 0]
    BY <1>2 DEF TurnsOf
  <2>2. 0 \in S
    <3>1. t.tima \in Nat /\ t.tima < TIMA_MOD /\ TIMA_MOD \in Nat
      BY Sizes DEF Byte
    <3> QED
      BY <2>1, <3>1 DEF After, Counted, Wraps
  <2>3. ASSUME NEW n \in Nat, n \in S PROVE n + 1 \in S
    <3> SUFFICES ASSUME n + 1 <= k PROVE turn[n + 1] = After(t, n + 1)
      OBVIOUS
    <3>1. turn[n] = After(t, n)
      BY <2>3
    <3>2. n + 1 \in 0..k /\ n + 1 \in Nat \ {0} /\ (n + 1) - 1 = n
      OBVIOUS
    <3>3. turn[n + 1] = IF turn[n].tima = TIMA_MOD - 1
                        THEN [tima |-> t.tma, requests |-> turn[n].requests + 1]
                        ELSE [turn[n] EXCEPT !.tima = @ + 1]
      <4>1. turn[n + 1] = TurnsOf(t, k, turn)[n + 1]
        BY <1>2
      <4> QED
        BY <3>2, <4>1 DEF TurnsOf
    <3> QED
      BY <3>1, <3>2, <3>3, OneTurn
  <2> HIDE DEF S
  <2>4. \A n \in Nat : n \in S
    BY <2>2, <2>3, NatSetInduction
  <2> QED
    BY <2>4 DEF S
<1>4. Turns(t, k) = turn[k]
  BY DEF Turns, turn, TurnsOf
<1> QED
  BY <1>3, <1>4
-----------------------------------------------------------------------------
\* A tick that is not too late computes without wrapping around: the clocks since
\* the last one, with those left of a period then, fit CYCLE_MOD.
InBounds(t, now) ==
    /\ t \in TimerType /\ now \in 0..CYCLE_MOD - 1
    /\ Late(t, now) <= FRAME + OVERRUN
    /\ \E select \in DOMAIN PERIOD : t.tima_accum < PERIOD[select]

LEMMA LateType ==
    ASSUME NEW t \in TimerType, NEW now \in 0..CYCLE_MOD - 1
    PROVE  Late(t, now) \in 0..CYCLE_MOD - 1
<1>1. t.last_cycles \in 0..CYCLE_MOD - 1
  BY DEF TimerType
<1>2. now - t.last_cycles \in Int
  BY <1>1, Sizes
<1> QED
  BY <1>2, Sizes, DivMod DEF Late

LEMMA ClocksFit ==
    ASSUME NEW t, NEW now, InBounds(t, now)
    PROVE  /\ Late(t, now) \in Nat /\ Late(t, now) * CLOCKS \in Nat
           /\ Elapsed(t, now) = Late(t, now) * CLOCKS
           /\ Accum(t, now) = t.tima_accum + Late(t, now) * CLOCKS
<1> DEFINE l == Late(t, now)
<1>1. t \in TimerType /\ now \in 0..CYCLE_MOD - 1 /\ l <= FRAME + OVERRUN /\ t.tima_accum \in Nat
  BY DEF InBounds, TimerType
<1>2. l \in Nat
  BY <1>1, LateType, Sizes
<1>3. PICK select \in DOMAIN PERIOD : t.tima_accum < PERIOD[select]
  BY DEF InBounds
<1>4. PERIOD[select] \in Nat /\ PERIOD[select] + (CLOCKS * (FRAME + OVERRUN)) <= CYCLE_MOD
  BY DevicesAssumption, Periods
<1>5. Elapsed(t, now) = (l * CLOCKS) % CYCLE_MOD
      /\ Accum(t, now) = (t.tima_accum + Elapsed(t, now)) % CYCLE_MOD
  BY DEF Elapsed, Accum, Late
<1> HIDE DEF l
<1>6. l * CLOCKS <= (FRAME + OVERRUN) * CLOCKS /\ l * CLOCKS \in Nat
  BY <1>1, <1>2, Sizes, TimesMono
<1>7. (FRAME + OVERRUN) * CLOCKS = CLOCKS * (FRAME + OVERRUN) /\ CLOCKS * (FRAME + OVERRUN) \in Nat
  BY Sizes
<1> DEFINE c == l * CLOCKS
           most == CLOCKS * (FRAME + OVERRUN)
<1>8. c \in Nat /\ c <= most /\ PERIOD[select] + most <= CYCLE_MOD /\ most \in Nat
  BY <1>4, <1>6, <1>7
<1> HIDE DEF c, most
<1>9. c \in 0..(CYCLE_MOD - 1) /\ t.tima_accum + c \in 0..(CYCLE_MOD - 1)
  BY <1>1, <1>3, <1>4, <1>8, Sizes
<1>10. c % CYCLE_MOD = c /\ (t.tima_accum + c) % CYCLE_MOD = t.tima_accum + c
  BY <1>9, Sizes, SmallMod
<1> QED
  BY <1>2, <1>5, <1>8, <1>10 DEF c, l

\* What a tick in bounds makes of the timer.
LEMMA TickValues ==
    ASSUME NEW t, NEW now, InBounds(t, now)
    PROVE  LET c == Late(t, now) * CLOCKS
               n == TurnsDue(t, now)
               u == timer_tick(t, now)
           IN  /\ n \in Nat
               /\ n = IF t.tac.on THEN (t.tima_accum + c) \div PERIOD[t.tac.select] ELSE 0
               /\ u \in TimerType
               /\ u.last_cycles = now /\ u.tma = t.tma /\ u.tac = t.tac
               /\ u.div_counter = (t.div_counter + c) % DIV_MOD
               /\ u.tima_accum = IF t.tac.on THEN (t.tima_accum + c) % PERIOD[t.tac.select]
                                 ELSE t.tima_accum
               /\ u.tima = Counted(t.tima, t.tma, n)
               /\ Requests(t, now) = Wraps(t.tima, t.tma, n)
<1> DEFINE c == Late(t, now) * CLOCKS
           n == TurnsDue(t, now)
           u == timer_tick(t, now)
           P == PERIOD[t.tac.select]
<1>1. /\ t \in TimerType /\ now \in 0..CYCLE_MOD - 1
      /\ t.tima_accum \in Nat /\ t.div_counter \in 0..DIV_MOD - 1 /\ t.tima \in Byte /\ t.tma \in Byte
      /\ t.tac \in TacType /\ t.tac.on \in BOOLEAN /\ t.tac.select \in DOMAIN PERIOD
  BY DEF InBounds, TimerType, TacType
<1>2. c \in Nat /\ Elapsed(t, now) = c /\ Accum(t, now) = t.tima_accum + c
  BY ClocksFit
<1>3. P \in Nat \ {0}
  BY <1>1, Periods
<1>4. n = IF t.tac.on THEN (t.tima_accum + c) \div P ELSE 0
  BY <1>2 DEF TurnsDue
<1> HIDE DEF c
<1>5. t.tima_accum + c \in Nat /\ t.div_counter + c \in Int
  BY <1>1, <1>2, Sizes
<1> DEFINE a == t.tima_accum + c
<1>6. a \div P \in Nat /\ a % P \in Nat
  <2>1. a \in Nat /\ a \in Int
    BY <1>5
  <2> HIDE DEF a, P
  <2> QED
    BY <1>3, <2>1, DivMod, DivNat
<1>7. n \in Nat
  BY <1>4, <1>6
<1>8. (t.div_counter + c) % DIV_MOD \in 0..DIV_MOD - 1
  BY <1>5, Sizes, DivMod
<1>9. Turns(t, n) = After(t, n)
  BY <1>1, <1>7, TurnsClosed
<1> HIDE DEF n, P
<1>10. u = [t EXCEPT !.last_cycles = now, !.div_counter = (t.div_counter + c) % DIV_MOD,
                     !.tima_accum = IF t.tac.on THEN (t.tima_accum + c) % P ELSE t.tima_accum,
                     !.tima = Counted(t.tima, t.tma, n)]
  BY <1>2, <1>9 DEF timer_tick, After, n, P
<1>11. Requests(t, now) = Wraps(t.tima, t.tma, n)
  BY <1>9 DEF Requests, After, n
<1>12. Counted(t.tima, t.tma, n) \in Byte
  BY <1>1, <1>7, CountedType
<1>13. t \in [tima_accum : Nat, last_cycles : 0..CYCLE_MOD - 1, div_counter : 0..DIV_MOD - 1,
               tima : Byte, tma : Byte, tac : TacType]
  BY <1>1 DEF TimerType
<1> HIDE DEF u
<1>14. /\ u.last_cycles = now /\ u.tma = t.tma /\ u.tac = t.tac
       /\ u.div_counter = (t.div_counter + c) % DIV_MOD
       /\ u.tima_accum = (IF t.tac.on THEN (t.tima_accum + c) % P ELSE t.tima_accum)
       /\ u.tima = Counted(t.tima, t.tma, n)
  BY <1>10, <1>13
<1>15. (IF t.tac.on THEN (t.tima_accum + c) % P ELSE t.tima_accum) \in Nat
  BY <1>1, <1>6
<1>16. u \in TimerType
  BY <1>1, <1>8, <1>10, <1>12, <1>13, <1>15 DEF TimerType
<1> QED
  BY <1>4, <1>7, <1>11, <1>14, <1>16 DEF c, n, u, P

\* Right after a tick there is nothing to do.
LEMMA UpToDate ==
    ASSUME NEW t \in TimerType, NEW now \in 0..CYCLE_MOD - 1, t.last_cycles = now,
           t.tac.on => t.tima_accum < PERIOD[t.tac.select]
    PROVE  /\ Late(t, now) = 0
           /\ (\E select \in DOMAIN PERIOD : t.tima_accum < PERIOD[select])
                => timer_tick(t, now) = t /\ Requests(t, now) = 0
<1>1. /\ t.tima_accum \in Nat /\ t.div_counter \in 0..DIV_MOD - 1 /\ t.tima \in Byte /\ t.tma \in Byte
      /\ t.tac \in TacType /\ t.tac.on \in BOOLEAN /\ t.tac.select \in DOMAIN PERIOD
  BY DEF TimerType, TacType
<1>2. now - t.last_cycles = 0 /\ 0 \in 0..(CYCLE_MOD - 1)
  BY Sizes
<1>3. Late(t, now) = 0
  BY <1>2, Sizes, SmallMod DEF Late
<1> SUFFICES ASSUME \E select \in DOMAIN PERIOD : t.tima_accum < PERIOD[select]
             PROVE  timer_tick(t, now) = t /\ Requests(t, now) = 0
  BY <1>3
<1>4. InBounds(t, now)
  BY <1>3, Sizes DEF InBounds
<1> DEFINE n == TurnsDue(t, now)
           u == timer_tick(t, now)
           P == PERIOD[t.tac.select]
<1>5. Late(t, now) * CLOCKS = 0
  BY <1>3, Sizes
<1>6. /\ n = IF t.tac.on THEN (t.tima_accum + 0) \div P ELSE 0
      /\ u \in TimerType
      /\ u.last_cycles = now /\ u.tma = t.tma /\ u.tac = t.tac
      /\ u.div_counter = (t.div_counter + 0) % DIV_MOD
      /\ u.tima_accum = IF t.tac.on THEN (t.tima_accum + 0) % P ELSE t.tima_accum
      /\ u.tima = Counted(t.tima, t.tma, n)
      /\ Requests(t, now) = Wraps(t.tima, t.tma, n)
  BY <1>4, <1>5, TickValues
<1>7. P \in Nat \ {0}
  BY <1>1, Periods
<1> HIDE DEF n, u, P
<1>8. t.tima_accum + 0 = t.tima_accum /\ t.div_counter + 0 = t.div_counter
  BY <1>1, Sizes
<1>9. t.tac.on => t.tima_accum % P = t.tima_accum /\ t.tima_accum \div P = 0
  <2> SUFFICES ASSUME t.tac.on PROVE t.tima_accum % P = t.tima_accum /\ t.tima_accum \div P = 0
    OBVIOUS
  <2>1. t.tima_accum \in 0..(P - 1)
    BY <1>1, <1>7 DEF P
  <2> QED
    BY <1>7, <2>1, SmallMod
<1>10. t.div_counter % DIV_MOD = t.div_counter
  BY <1>1, Sizes, SmallMod
<1>11. n = 0
  BY <1>6, <1>8, <1>9
<1>12. Counted(t.tima, t.tma, 0) = t.tima /\ Wraps(t.tima, t.tma, 0) = 0
  BY <1>1, Sizes DEF Counted, Wraps, Byte
<1>13. /\ u.last_cycles = t.last_cycles /\ u.tma = t.tma /\ u.tac = t.tac
       /\ u.div_counter = t.div_counter /\ u.tima_accum = t.tima_accum /\ u.tima = t.tima
       /\ Requests(t, now) = 0
  BY <1>6, <1>8, <1>9, <1>10, <1>11, <1>12
<1>14. u = t
  BY <1>6, <1>13 DEF TimerType
<1> QED
  BY <1>13, <1>14 DEF u

\* A tick leaves the timer up to date and in bounds.
LEMMA AfterTick ==
    ASSUME NEW t, NEW now, InBounds(t, now)
    PROVE  LET u == timer_tick(t, now) IN
           /\ u \in TimerType /\ u.last_cycles = now
           /\ u.tac.on => u.tima_accum < PERIOD[u.tac.select]
           /\ \E select \in DOMAIN PERIOD : u.tima_accum < PERIOD[select]
<1> DEFINE u == timer_tick(t, now)
           c == Late(t, now) * CLOCKS
<1>1. /\ u \in TimerType /\ u.last_cycles = now /\ u.tac = t.tac
      /\ u.tima_accum = IF t.tac.on THEN (t.tima_accum + c) % PERIOD[t.tac.select] ELSE t.tima_accum
  BY TickValues
<1>2. t.tac.select \in DOMAIN PERIOD /\ t.tima_accum \in Nat /\ c \in Nat
      /\ \E select \in DOMAIN PERIOD : t.tima_accum < PERIOD[select]
  BY ClocksFit DEF InBounds, TimerType, TacType
<1> HIDE DEF u, c
<1> DEFINE P == PERIOD[t.tac.select]
           a == t.tima_accum + c
<1>3. P \in Nat \ {0} /\ a \in Int
  BY <1>2, Periods
<1> HIDE DEF P, a
<1>4. a % P \in 0..(P - 1)
  BY <1>3, DivMod
<1>5. t.tac.on => u.tima_accum < P
  BY <1>1, <1>3, <1>4 DEF P, a
<1>6. CASE t.tac.on
  BY <1>1, <1>2, <1>5, <1>6 DEF P, u
<1>7. CASE ~t.tac.on
  BY <1>1, <1>2, <1>7 DEF u
<1> QED
  BY <1>6, <1>7

LEMMA FrameFits == FRAME + OVERRUN < CYCLE_MOD
<1> DEFINE s == FRAME + OVERRUN
<1>1. PICK select \in DOMAIN PERIOD : PERIOD[select] > 0 /\ PERIOD[select] + (CLOCKS * s) <= CYCLE_MOD
  BY DevicesAssumption
<1>2. PERIOD[select] \in Nat
  BY Periods
<1>3. s \in Nat
  BY Sizes
<1> HIDE DEF s
<1>4. CLOCKS * s >= s /\ CLOCKS * s \in Nat
  <2>1. (CLOCKS - 1) * s \in Nat /\ CLOCKS * s = s + (CLOCKS - 1) * s
    BY <1>3, Sizes
  <2> QED
    BY <1>3, <2>1, Sizes
<1>5. s < CYCLE_MOD
  BY <1>1, <1>2, <1>3, <1>4, Sizes
<1> QED
  BY <1>5 DEF s

\* The late tick of one cycle more is the tick until now and one cycle of a timer
\* that is up to date.
LEMMA CycleTick ==
    ASSUME NEW t, NEW now, InBounds(t, now), Late(t, now) < FRAME + OVERRUN
    PROVE  LET next == (now + 1) % CYCLE_MOD
               u == timer_tick(t, now)
               v == timer_tick(t, next)
               n == IF t.tac.on THEN (u.tima_accum + CLOCKS) \div PERIOD[t.tac.select] ELSE 0
           IN  /\ next \in 0..CYCLE_MOD - 1 /\ Late(t, next) = Late(t, now) + 1 /\ InBounds(t, next)
               /\ v.tma = u.tma /\ v.tac = u.tac /\ u.tac = t.tac
               /\ v.div_counter = (u.div_counter + CLOCKS) % DIV_MOD
               /\ v.tima_accum = IF t.tac.on THEN (u.tima_accum + CLOCKS) % PERIOD[t.tac.select]
                                 ELSE u.tima_accum
               /\ n \in Nat /\ u.tima \in Byte /\ u.tma \in Byte
               /\ v.tima = Counted(u.tima, u.tma, n)
               /\ Requests(t, now) \in Nat /\ Wraps(u.tima, u.tma, n) \in Nat
               /\ Requests(t, next) = Requests(t, now) + Wraps(u.tima, u.tma, n)
<1> DEFINE next == (now + 1) % CYCLE_MOD
           u == timer_tick(t, now)
           v == timer_tick(t, next)
           P == PERIOD[t.tac.select]
           n == IF t.tac.on THEN (u.tima_accum + CLOCKS) \div P ELSE 0
           l == Late(t, now)
           c == l * CLOCKS
           k == TurnsDue(t, now)
<1>1. /\ t \in TimerType /\ now \in 0..CYCLE_MOD - 1 /\ t.last_cycles \in 0..CYCLE_MOD - 1
      /\ t.tima_accum \in Nat /\ t.div_counter \in 0..DIV_MOD - 1 /\ t.tima \in Byte /\ t.tma \in Byte
      /\ t.tac.on \in BOOLEAN /\ t.tac.select \in DOMAIN PERIOD
  BY DEF InBounds, TimerType, TacType
<1>2. P \in Nat \ {0} /\ l \in Nat /\ c \in Nat
  BY <1>1, Periods, ClocksFit
<1>3. next \in 0..CYCLE_MOD - 1
  <2>1. now + 1 \in Int
    BY <1>1, Sizes
  <2> QED
    BY <2>1, Sizes, DivMod
<1>4. Late(t, next) = l + 1
  <2>1. l + 1 < CYCLE_MOD /\ now \in Int /\ t.last_cycles \in Int /\ CYCLE_MOD \in Nat \ {0}
    BY <1>1, <1>2, FrameFits, Sizes
  <2>2. ((now - t.last_cycles) % CYCLE_MOD) + 1 < CYCLE_MOD
    BY <2>1 DEF Late
  <2>3. (((now + 1) % CYCLE_MOD) - t.last_cycles) % CYCLE_MOD = ((now - t.last_cycles) % CYCLE_MOD) + 1
    BY <2>1, <2>2, OneLater
  <2> QED
    BY <2>3 DEF Late
<1>5. InBounds(t, next)
  BY <1>2, <1>3, <1>4, Sizes DEF InBounds
<1> DEFINE m == TurnsDue(t, next)
<1>6. /\ k \in Nat /\ k = IF t.tac.on THEN (t.tima_accum + c) \div P ELSE 0
      /\ u \in TimerType /\ u.tma = t.tma /\ u.tac = t.tac
      /\ u.div_counter = (t.div_counter + c) % DIV_MOD
      /\ u.tima_accum = IF t.tac.on THEN (t.tima_accum + c) % P ELSE t.tima_accum
      /\ u.tima = Counted(t.tima, t.tma, k)
      /\ Requests(t, now) = Wraps(t.tima, t.tma, k)
  BY TickValues
<1>7. Late(t, next) * CLOCKS = c + CLOCKS
  BY <1>2, <1>4, Sizes
<1>8. /\ m = IF t.tac.on THEN (t.tima_accum + (c + CLOCKS)) \div P ELSE 0
      /\ v.tma = t.tma /\ v.tac = t.tac
      /\ v.div_counter = (t.div_counter + (c + CLOCKS)) % DIV_MOD
      /\ v.tima_accum = IF t.tac.on THEN (t.tima_accum + (c + CLOCKS)) % P ELSE t.tima_accum
      /\ v.tima = Counted(t.tima, t.tma, m)
      /\ Requests(t, next) = Wraps(t.tima, t.tma, m)
  BY <1>5, <1>7, TickValues
<1> HIDE DEF c, k, l, m, P, next, u, v
<1>9. v.div_counter = (u.div_counter + CLOCKS) % DIV_MOD
  <2>1. t.div_counter + (c + CLOCKS) = (t.div_counter + c) + CLOCKS
        /\ t.div_counter + c \in Int /\ CLOCKS \in Int
    BY <1>1, <1>2, Sizes
  <2>2. ((t.div_counter + c) + CLOCKS) % DIV_MOD = (((t.div_counter + c) % DIV_MOD) + CLOCKS) % DIV_MOD
    BY <2>1, Sizes, DivAdd
  <2> QED
    BY <1>6, <1>8, <2>1, <2>2
<1> DEFINE a == t.tima_accum + c
<1>10. a \in Nat /\ CLOCKS \in Nat /\ t.tima_accum + (c + CLOCKS) = a + CLOCKS
  BY <1>1, <1>2, Sizes
<1> HIDE DEF a
<1>11. /\ (a + CLOCKS) % P = ((a % P) + CLOCKS) % P
       /\ (a + CLOCKS) \div P = (a \div P) + (((a % P) + CLOCKS) \div P)
       /\ a % P \in 0..(P - 1) /\ a \div P \in Int
  <2>1. a \in Int /\ CLOCKS \in Int /\ P \in Nat \ {0}
    BY <1>2, <1>10
  <2> QED
    BY <2>1, DivAdd, DivMod, Zenon
<1>12. v.tima_accum = IF t.tac.on THEN (u.tima_accum + CLOCKS) % P ELSE u.tima_accum
  BY <1>6, <1>8, <1>10, <1>11 DEF a
<1>13. n \in Nat /\ m = k + n
  <2>1. CASE t.tac.on
    <3>1. u.tima_accum = a % P /\ k = a \div P /\ m = (a + CLOCKS) \div P
      BY <1>6, <1>8, <1>10, <2>1 DEF a
    <3>2. (a % P) + CLOCKS \in Nat
      BY <1>2, <1>10, <1>11
    <3>3. ((a % P) + CLOCKS) \div P \in Nat
      BY <1>2, <3>2, DivNat
    <3> QED
      BY <1>11, <2>1, <3>1, <3>3
  <2>2. CASE ~t.tac.on
    BY <1>6, <1>8, <2>2
  <2> QED
    BY <2>1, <2>2
<1> HIDE DEF n
<1>14. u.tima \in Byte /\ u.tma \in Byte
  BY <1>6 DEF TimerType
<1>15. /\ Counted(t.tima, t.tma, m) = Counted(u.tima, t.tma, n)
       /\ Wraps(t.tima, t.tma, m) = Wraps(t.tima, t.tma, k) + Wraps(u.tima, t.tma, n)
  <2>1. /\ Counted(t.tima, t.tma, k + n) = Counted(Counted(t.tima, t.tma, k), t.tma, n)
        /\ Wraps(t.tima, t.tma, k + n)
             = Wraps(t.tima, t.tma, k) + Wraps(Counted(t.tima, t.tma, k), t.tma, n)
    <3>1. t.tima \in Byte /\ t.tma \in Byte /\ k \in Nat /\ n \in Nat
      BY <1>1, <1>6, <1>13
    <3> QED
      BY <3>1, CountOn, Zenon
  <2>2. u.tima = Counted(t.tima, t.tma, k) /\ m = k + n
    BY <1>6, <1>13
  <2> QED
    BY <2>1, <2>2
<1>16. Wraps(t.tima, t.tma, k) \in Nat /\ Wraps(u.tima, u.tma, n) \in Nat
  BY <1>1, <1>6, <1>13, <1>14, CountedType
<1> QED
  BY <1>3, <1>4, <1>5, <1>6, <1>8, <1>9, <1>12, <1>13, <1>14, <1>15, <1>16
     DEF next, u, v, n, P, l
-----------------------------------------------------------------------------
LEMMA InvBounds == ASSUME DevicesInv PROVE InBounds(tmr, cycles)
<1>1. tmr \in TimerType /\ cycles \in 0..CYCLE_MOD - 1 /\ spent \in 0..FRAME + OVERRUN
      /\ Late(tmr, cycles) <= spent
      /\ \E select \in DOMAIN PERIOD : tmr.tima_accum < PERIOD[select]
  BY DEF DevicesInv, TypeOK, InTime
<1>2. Late(tmr, cycles) \in Nat
  BY <1>1, LateType, Sizes
<1>3. Late(tmr, cycles) <= FRAME + OVERRUN
  BY <1>1, <1>2, Sizes
<1> QED
  BY <1>1, <1>3 DEF InBounds

\* What an access or the end of the frame leaves: the ticked timer, which owes nothing.
LEMMA Refreshed ==
    ASSUME NEW t, NEW now, InBounds(t, now)
    PROVE  LET u == timer_tick(t, now) IN
           /\ u \in TimerType /\ Late(u, now) = 0 /\ InBounds(u, now)
           /\ timer_tick(u, now) = u /\ Requests(u, now) = 0
<1> DEFINE u == timer_tick(t, now)
<1>1. /\ u \in TimerType /\ u.last_cycles = now
      /\ u.tac.on => u.tima_accum < PERIOD[u.tac.select]
      /\ \E select \in DOMAIN PERIOD : u.tima_accum < PERIOD[select]
  BY AfterTick
<1>2. now \in 0..CYCLE_MOD - 1
  BY DEF InBounds
<1> HIDE DEF u
<1>3. Late(u, now) = 0 /\ timer_tick(u, now) = u /\ Requests(u, now) = 0
  BY <1>1, <1>2, UpToDate
<1>4. InBounds(u, now)
  BY <1>1, <1>2, <1>3, Sizes DEF InBounds
<1> QED
  BY <1>1, <1>3, <1>4 DEF u

\* What a write leaves.  Only a write to TAC can make the timer owe something: the
\* clocks left of the old period may be several of the new one.
LEMMA Written ==
    ASSUME NEW t, NEW now, InBounds(t, now), NEW w \in Writes
    PROVE  LET u == timer_tick(t, now)
               x == timer_write(t, now, w[1], w[2])
           IN  /\ x \in TimerType /\ Late(x, now) = 0 /\ InBounds(x, now)
               /\ \/ x = [u EXCEPT !.div_counter = 0] /\ timer_tick(x, now) = x /\ Requests(x, now) = 0
                  \/ /\ w[2] \in Byte /\ timer_tick(x, now) = x /\ Requests(x, now) = 0
                     /\ x = [u EXCEPT !.tima = w[2]] \/ x = [u EXCEPT !.tma = w[2]]
                  \/ w[2] \in TacType /\ x = [u EXCEPT !.tac = w[2]]
<1> DEFINE u == timer_tick(t, now)
           x == timer_write(t, now, w[1], w[2])
<1>1. /\ u \in TimerType /\ u.last_cycles = now
      /\ u.tac.on => u.tima_accum < PERIOD[u.tac.select]
      /\ \E select \in DOMAIN PERIOD : u.tima_accum < PERIOD[select]
  BY AfterTick
<1>2. now \in 0..CYCLE_MOD - 1
  BY DEF InBounds
<1>3. \/ w[1] = "DIV"
      \/ w[1] \in {"TIMA", "TMA"} /\ w[2] \in Byte
      \/ w[1] = "TAC" /\ w[2] \in TacType
  BY DevicesAssumption DEF Writes, Byte, TacType
<1>4. /\ w[1] = "DIV" => x = [u EXCEPT !.div_counter = 0]
      /\ w[1] = "TIMA" => x = [u EXCEPT !.tima = w[2]]
      /\ w[1] = "TMA" => x = [u EXCEPT !.tma = w[2]]
      /\ w[1] = "TAC" => x = [u EXCEPT !.tac = w[2]]
  BY DEF timer_write
<1> HIDE DEF u, x
<1>5. u \in [tima_accum : Nat, last_cycles : 0..CYCLE_MOD - 1, div_counter : 0..DIV_MOD - 1,
               tima : Byte, tma : Byte, tac : TacType]
  BY <1>1 DEF TimerType
<1>6. 0 \in 0..DIV_MOD - 1
  BY Sizes
<1>7. /\ x \in TimerType /\ x.last_cycles = now /\ x.tima_accum = u.tima_accum
      /\ w[1] # "TAC" => x.tac = u.tac
  <2>1. CASE w[1] = "DIV"
    BY <1>1, <1>4, <1>5, <1>6, <2>1 DEF TimerType
  <2>2. CASE w[1] = "TIMA" /\ w[2] \in Byte
    BY <1>1, <1>4, <1>5, <2>2 DEF TimerType
  <2>3. CASE w[1] = "TMA" /\ w[2] \in Byte
    BY <1>1, <1>4, <1>5, <2>3 DEF TimerType
  <2>4. CASE w[1] = "TAC" /\ w[2] \in TacType
    BY <1>1, <1>4, <1>5, <2>4 DEF TimerType
  <2> QED
    BY <1>3, <2>1, <2>2, <2>3, <2>4
<1>8. Late(x, now) = 0
  <2>1. now - x.last_cycles = 0 /\ 0 \in 0..(CYCLE_MOD - 1)
    BY <1>2, <1>7, Sizes
  <2> QED
    BY <2>1, Sizes, SmallMod DEF Late
<1>9. \E select \in DOMAIN PERIOD : x.tima_accum < PERIOD[select]
  BY <1>1, <1>7
<1>10. InBounds(x, now)
  BY <1>2, <1>7, <1>8, <1>9, Sizes DEF InBounds
<1>11. w[1] # "TAC" => timer_tick(x, now) = x /\ Requests(x, now) = 0
  BY <1>1, <1>2, <1>7, <1>9, UpToDate
<1>12. \/ x = [u EXCEPT !.div_counter = 0] /\ timer_tick(x, now) = x /\ Requests(x, now) = 0
       \/ /\ w[2] \in Byte /\ timer_tick(x, now) = x /\ Requests(x, now) = 0
          /\ x = [u EXCEPT !.tima = w[2]] \/ x = [u EXCEPT !.tma = w[2]]
       \/ w[2] \in TacType /\ x = [u EXCEPT !.tac = w[2]]
  <2>1. CASE w[1] = "DIV"
    BY <1>4, <1>11, <2>1
  <2>2. CASE w[1] \in {"TIMA", "TMA"} /\ w[2] \in Byte
    BY <1>4, <1>11, <2>2
  <2>3. CASE w[1] = "TAC" /\ w[2] \in TacType
    BY <1>4, <2>3
  <2> QED
    BY <1>3, <2>1, <2>2, <2>3
<1> QED
  BY <1>7, <1>8, <1>10, <1>12 DEF u, x
-----------------------------------------------------------------------------
\* The refinement of the ticking timer, step by step.
TickingStep == [Ticking!Next]_(Ticking!vars)

LEMMA SameTime ==
    ASSUME UNCHANGED <<cycles, tmr, raised>>
    PROVE  TickingStep /\ Requests(tmr, cycles)' = Requests(tmr, cycles)
BY DEF TickingStep, Ticking!vars, Now

LEMMA RequestsNat == ASSUME NEW t, NEW now, InBounds(t, now) PROVE Requests(t, now) \in Nat
<1>1. /\ TurnsDue(t, now) \in Nat /\ t.tima \in Byte /\ t.tma \in Byte
      /\ Requests(t, now) = Wraps(t.tima, t.tma, TurnsDue(t, now))
  BY TickValues DEF InBounds, TimerType
<1> QED
  BY <1>1, CountedType

\* Counting requests modulo OVERFLOW_MOD before or after adding the ones to come.
LEMMA RaisedMod ==
    ASSUME NEW r \in Nat, NEW q \in Nat
    PROVE  ((r % OVERFLOW_MOD) + q) % OVERFLOW_MOD = (r + q) % OVERFLOW_MOD
           /\ r % OVERFLOW_MOD \in Nat /\ ((r + q) % OVERFLOW_MOD) \in Nat
<1>1. r \in Int /\ q \in Int /\ r + q \in Int /\ OVERFLOW_MOD \in Nat \ {0}
  BY Sizes
<1>2. ((r % OVERFLOW_MOD) + q) % OVERFLOW_MOD = (r + q) % OVERFLOW_MOD
  BY <1>1, DivAdd, Zenon
<1>3. r % OVERFLOW_MOD \in Nat /\ ((r + q) % OVERFLOW_MOD) \in Nat
  BY <1>1, DivMod, Zenon
<1> QED
  BY <1>2, <1>3

LEMMA CycleTicks == ASSUME DevicesInv, Cycle PROVE TickingStep
<1> DEFINE u == timer_tick(tmr, cycles)
           v == timer_tick(tmr, (cycles + 1) % CYCLE_MOD)
           n == IF tmr.tac.on THEN (u.tima_accum + CLOCKS) \div PERIOD[tmr.tac.select] ELSE 0
           q == Requests(tmr, cycles)
           more == Wraps(u.tima, u.tma, n)
<1>1. /\ spent < FRAME + OVERRUN /\ cycles' = (cycles + 1) % CYCLE_MOD
      /\ tmr' = tmr /\ raised' = raised
  BY DEF Cycle
<1>2. InBounds(tmr, cycles) /\ Late(tmr, cycles) < FRAME + OVERRUN /\ raised \in Nat
  <2>1. Late(tmr, cycles) <= spent /\ spent \in Nat /\ Late(tmr, cycles) \in Nat
    BY LateType, Sizes DEF DevicesInv, TypeOK, InTime
  <2> QED
    BY <1>1, <2>1, InvBounds, Sizes DEF DevicesInv, TypeOK
<1>3. /\ v.tma = u.tma /\ v.tac = u.tac /\ u.tac = tmr.tac
      /\ v.div_counter = (u.div_counter + CLOCKS) % DIV_MOD
      /\ v.tima_accum = IF tmr.tac.on THEN (u.tima_accum + CLOCKS) % PERIOD[tmr.tac.select]
                        ELSE u.tima_accum
      /\ v.tima = Counted(u.tima, u.tma, n)
      /\ n \in Nat /\ q \in Nat /\ more \in Nat /\ u.tima \in Byte /\ u.tma \in Byte
      /\ Requests(tmr, (cycles + 1) % CYCLE_MOD) = q + more
  BY <1>2, CycleTick
<1>4. Now = u /\ Now' = v
  BY <1>1 DEF Now
<1>5. (raised + Requests(tmr, cycles)) % OVERFLOW_MOD = (raised + q) % OVERFLOW_MOD
      /\ ((raised + Requests(tmr, cycles)) % OVERFLOW_MOD)' = (raised + (q + more)) % OVERFLOW_MOD
  BY <1>1, <1>3
<1> HIDE DEF u, v, n, q, more
<1>6. (raised + (q + more)) % OVERFLOW_MOD = (((raised + q) % OVERFLOW_MOD) + more) % OVERFLOW_MOD
      /\ (raised + q) % OVERFLOW_MOD \in Nat
  <2>1. raised + q \in Nat /\ raised + (q + more) = (raised + q) + more
    BY <1>2, <1>3
  <2> QED
    BY <1>3, <2>1, RaisedMod
<1>7. Ticking!Incremented(n) = Counted(u.tima, u.tma, n) /\ Ticking!Overflows(n) = more
  BY <1>4 DEF Ticking!Incremented, Ticking!Overflows, Counted, Wraps, more
<1>8. Ticking!Pass(CLOCKS, u.tac)
  <2>1. CASE tmr.tac.on
    <3>1. n = (u.tima_accum + CLOCKS) \div PERIOD[u.tac.select]
      BY <1>3, <2>1 DEF n
    <3> QED
      BY <1>3, <1>4, <1>5, <1>6, <1>7, <2>1, <3>1 DEF Ticking!Pass
  <2>2. CASE ~tmr.tac.on
    <3>1. n = 0
      BY <2>2 DEF n
    <3>2. v.tima = u.tima /\ more = 0
      BY <1>3, <3>1, Sizes DEF Counted, Wraps, Byte, more
    <3>3. (raised + (q + more)) % OVERFLOW_MOD = (raised + q) % OVERFLOW_MOD
      BY <1>3, <3>2
    <3> QED
      BY <1>3, <1>4, <1>5, <2>2, <3>2, <3>3 DEF Ticking!Pass
  <2> QED
    BY <2>1, <2>2
<1>9. Ticking!MCycle
  BY <1>3, <1>4, <1>8 DEF Ticking!MCycle
<1> QED
  BY <1>9 DEF TickingStep, Ticking!Next

\* The counter after an access: the requests made are counted, those to come are q.
LEMMA CountedOnce ==
    ASSUME DevicesInv, Request(cycles), NEW q \in Nat, Requests(tmr, cycles)' = q
    PROVE  /\ raised' \in Nat
           /\ ((raised + Requests(tmr, cycles)) % OVERFLOW_MOD)'
                = (((raised + Requests(tmr, cycles)) % OVERFLOW_MOD) + q) % OVERFLOW_MOD
           /\ (raised + Requests(tmr, cycles)) % OVERFLOW_MOD \in 0..OVERFLOW_MOD - 1
<1>1. raised' = (raised + Requests(tmr, cycles)) % OVERFLOW_MOD
  BY DEF Request
<1>2. raised + Requests(tmr, cycles) \in Nat
  BY InvBounds, RequestsNat DEF DevicesInv, TypeOK
<1> DEFINE r == raised + Requests(tmr, cycles)
<1>3. r \in Int
  BY <1>2
<1> HIDE DEF r
<1>4. r % OVERFLOW_MOD \in 0..OVERFLOW_MOD - 1 /\ r % OVERFLOW_MOD \in Nat
  BY <1>3, Sizes, DivMod
<1> QED
  BY <1>1, <1>4 DEF r

LEMMA ReadTicks ==
    ASSUME DevicesInv, cycles' = cycles, tmr' = timer_tick(tmr, cycles), Request(cycles)
    PROVE  TickingStep
<1>1. InBounds(tmr, cycles)
  BY InvBounds
<1>2. timer_tick(tmr', cycles') = tmr' /\ Requests(tmr', cycles') = 0
  BY <1>1, Refreshed
<1>3. Now' = Now
  BY <1>2 DEF Now
<1> DEFINE o == (raised + Requests(tmr, cycles)) % OVERFLOW_MOD
<1>4. o' = (o + 0) % OVERFLOW_MOD /\ o \in 0..OVERFLOW_MOD - 1
  BY <1>2, CountedOnce
<1>5. o' = o
  <2>1. o + 0 = o
    BY <1>4, Sizes
  <2>2. o % OVERFLOW_MOD = o
    BY <1>4, Sizes, SmallMod
  <2> QED
    BY <1>4, <2>1, <2>2
<1> QED
  BY <1>3, <1>5 DEF TickingStep, Ticking!vars

LEMMA WriteTicks == ASSUME DevicesInv, write_timer PROVE TickingStep
<1>1. PICK w \in Writes : tmr' = timer_write(tmr, cycles, w[1], w[2])
  BY DEF write_timer
<1>2. cycles' = cycles /\ Request(cycles) /\ InBounds(tmr, cycles)
  BY InvBounds DEF write_timer
<1> DEFINE u == timer_tick(tmr, cycles)
           x == timer_write(tmr, cycles, w[1], w[2])
           o == (raised + Requests(tmr, cycles)) % OVERFLOW_MOD
<1>3. /\ x \in TimerType /\ Late(x, cycles) = 0 /\ InBounds(x, cycles)
      /\ \/ x = [u EXCEPT !.div_counter = 0] /\ timer_tick(x, cycles) = x /\ Requests(x, cycles) = 0
         \/ /\ w[2] \in Byte /\ timer_tick(x, cycles) = x /\ Requests(x, cycles) = 0
            /\ x = [u EXCEPT !.tima = w[2]] \/ x = [u EXCEPT !.tma = w[2]]
         \/ w[2] \in TacType /\ x = [u EXCEPT !.tac = w[2]]
  BY <1>2, Written
<1>4. u \in TimerType
  BY <1>2, Refreshed
<1>5. Now = u /\ Now' = timer_tick(x, cycles) /\ Requests(tmr, cycles)' = Requests(x, cycles)
  BY <1>1, <1>2 DEF Now
<1>6. ASSUME NEW q \in Nat, Requests(x, cycles) = q
      PROVE  o' = (o + q) % OVERFLOW_MOD /\ o \in 0..OVERFLOW_MOD - 1
  BY <1>2, <1>5, <1>6, CountedOnce
<1>7. Requests(x, cycles) = 0 => o' = o
  <2> SUFFICES ASSUME Requests(x, cycles) = 0 PROVE o' = o
    OBVIOUS
  <2>1. o' = (o + 0) % OVERFLOW_MOD /\ o \in 0..OVERFLOW_MOD - 1
    BY <1>6
  <2>2. o + 0 = o /\ o % OVERFLOW_MOD = o
    BY <2>1, Sizes, SmallMod
  <2> QED
    BY <2>1, <2>2
<1>8. u \in [tima_accum : Nat, last_cycles : 0..CYCLE_MOD - 1, div_counter : 0..DIV_MOD - 1,
               tima : Byte, tma : Byte, tac : TacType]
  BY <1>4 DEF TimerType
<1> HIDE DEF u, x
<1>9. CASE x = [u EXCEPT !.div_counter = 0] /\ timer_tick(x, cycles) = x /\ Requests(x, cycles) = 0
  <2>1. Ticking!WriteDiv
    BY <1>5, <1>7, <1>8, <1>9 DEF Ticking!WriteDiv
  <2> QED
    BY <2>1 DEF TickingStep, Ticking!Next
<1>10. CASE /\ w[2] \in Byte /\ timer_tick(x, cycles) = x /\ Requests(x, cycles) = 0
            /\ x = [u EXCEPT !.tima = w[2]] \/ x = [u EXCEPT !.tma = w[2]]
  <2>1. w[2] \in Ticking!Bytes
    BY <1>10 DEF Byte, Ticking!Bytes
  <2>2. CASE x = [u EXCEPT !.tima = w[2]]
    <3>1. Ticking!WriteTima
      BY <1>5, <1>7, <1>8, <1>10, <2>1, <2>2 DEF Ticking!WriteTima
    <3> QED
      BY <3>1 DEF TickingStep, Ticking!Next
  <2>3. CASE x = [u EXCEPT !.tma = w[2]]
    <3>1. Ticking!WriteTma
      BY <1>5, <1>7, <1>8, <1>10, <2>1, <2>3 DEF Ticking!WriteTma
    <3> QED
      BY <3>1 DEF TickingStep, Ticking!Next
  <2> QED
    BY <1>10, <2>2, <2>3
<1>11. CASE w[2] \in TacType /\ x = [u EXCEPT !.tac = w[2]]
  <2> DEFINE v == w[2]
             y == timer_tick(x, cycles)
             n == TurnsDue(x, cycles)
             P == PERIOD[v.select]
  <2>1. /\ x.div_counter = u.div_counter /\ x.tima_accum = u.tima_accum
        /\ x.tima = u.tima /\ x.tma = u.tma /\ x.tac = v
    BY <1>8, <1>11
  <2>2. Late(x, cycles) * CLOCKS = 0
    BY <1>3, Sizes
  <2>3. /\ n \in Nat
        /\ n = IF v.on THEN (u.tima_accum + 0) \div P ELSE 0
        /\ y.tma = u.tma /\ y.tac = v
        /\ y.div_counter = (u.div_counter + 0) % DIV_MOD
        /\ y.tima_accum = IF v.on THEN (u.tima_accum + 0) % P ELSE u.tima_accum
        /\ y.tima = Counted(u.tima, u.tma, n)
        /\ Requests(x, cycles) = Wraps(u.tima, u.tma, n)
    BY <1>3, <2>1, <2>2, TickValues
  <2> HIDE DEF n, y, P, v
  <2>4. y.div_counter = u.div_counter
    <3>1. u.div_counter + 0 = u.div_counter /\ u.div_counter \in 0..DIV_MOD - 1
      BY <1>8, Sizes
    <3> QED
      BY <2>3, <3>1, Sizes, SmallMod
  <2>5. Wraps(u.tima, u.tma, n) \in Nat
    BY <1>8, <2>3, CountedType
  <2>6. o' = (o + Wraps(u.tima, u.tma, n)) % OVERFLOW_MOD
    BY <1>6, <2>3, <2>5
  <2>7. Ticking!Incremented(n) = Counted(u.tima, u.tma, n)
        /\ Ticking!Overflows(n) = Wraps(u.tima, u.tma, n)
    BY <1>5 DEF Ticking!Incremented, Ticking!Overflows, Counted, Wraps
  <2>8. Now = u /\ Now' = y
    BY <1>5 DEF y
  <2>9. Ticking!Pass(0, v)
    <3>1. CASE v.on
      <4>1. n = (u.tima_accum + 0) \div P
        BY <2>3, <3>1
      <4> QED
        BY <2>3, <2>6, <2>7, <2>8, <3>1, <4>1 DEF Ticking!Pass, P
    <3>2. CASE ~v.on
      <4>1. n = 0
        BY <2>3, <3>2
      <4>2. Counted(u.tima, u.tma, 0) = u.tima /\ Wraps(u.tima, u.tma, 0) = 0
        BY <1>8, Sizes DEF Counted, Wraps, Byte
      <4>3. o' = o
        BY <1>7, <2>3, <4>1, <4>2
      <4> QED
        BY <2>3, <2>8, <3>2, <4>1, <4>2, <4>3 DEF Ticking!Pass
    <3> QED
      BY <3>1, <3>2
  <2>10. v \in Ticking!Tac
    BY <1>11 DEF v, TacType, Ticking!Tac
  <2>11. Ticking!WriteTac
    BY <2>3, <2>4, <2>8, <2>9, <2>10 DEF Ticking!WriteTac
  <2> QED
    BY <2>11 DEF TickingStep, Ticking!Next
<1> QED
  BY <1>3, <1>9, <1>10, <1>11
-----------------------------------------------------------------------------
\* The inductive invariant.
LEMMA InitInv == ASSUME Init PROVE DevicesInv /\ Ticking!Init
<1>1. /\ loc = "poll" /\ spent = 0 /\ cycles = 0 /\ tmr = timer_init /\ joypad = joypad_init
      /\ raised = 0 /\ due = FALSE
  BY DEF Init
<1>2. 0 \in 0..CYCLE_MOD - 1 /\ 0 \in 0..DIV_MOD - 1 /\ 0 \in Byte /\ 0 \in 0..FRAME + OVERRUN
  BY Sizes DEF Byte
<1>3. 0 \in DOMAIN PERIOD /\ 0 < PERIOD[0]
  BY DevicesAssumption
<1>4. /\ timer_init.tima_accum = 0 /\ timer_init.last_cycles = 0 /\ timer_init.div_counter = 0
      /\ timer_init.tima = 0 /\ timer_init.tma = 0
      /\ timer_init.tac = [on |-> FALSE, select |-> 0] /\ ~timer_init.tac.on
      /\ timer_init \in TimerType
  BY <1>2, <1>3 DEF timer_init, TimerType, TacType
<1>5. joypad_init \in JoypadType
  BY DEF joypad_init, JoypadType
<1>6. Late(tmr, cycles) = 0 /\ timer_tick(tmr, cycles) = tmr /\ Requests(tmr, cycles) = 0
  BY <1>1, <1>2, <1>3, <1>4, UpToDate
<1>7. DevicesInv
  <2>1. TypeOK
    BY <1>1, <1>2, <1>4, <1>5 DEF TypeOK
  <2>2. InTime
    BY <1>1, <1>3, <1>4, <1>6 DEF InTime
  <2>3. AtRest /\ Owed
    BY <1>1, <1>6 DEF AtRest, Owed
  <2> QED
    BY <2>1, <2>2, <2>3 DEF DevicesInv
<1>8. (raised + Requests(tmr, cycles)) % OVERFLOW_MOD = 0
  <2>1. raised + Requests(tmr, cycles) = 0 /\ 0 \in 0..OVERFLOW_MOD - 1
    BY <1>1, <1>6, Sizes
  <2> QED
    BY <2>1, Sizes, SmallMod
<1>9. Now = timer_init
  BY <1>1, <1>6 DEF Now
<1>10. Ticking!Init
  BY <1>4, <1>8, <1>9 DEF Ticking!Init
<1> QED
  BY <1>7, <1>10

\* Nothing happens to the timer, and the frame goes on or is between two steps.
LEMMA Unticked ==
    ASSUME DevicesInv, UNCHANGED <<spent, cycles, tmr, raised>>,
           loc' \in {"poll", "run"}, loc' = "poll" => loc = "poll",
           joypad' \in JoypadType, due' \in BOOLEAN,
           due' => "timer" \in if_reg' \/ Requests(tmr, cycles) > 0
    PROVE  DevicesInv'
<1>1. spent' = spent /\ cycles' = cycles /\ tmr' = tmr /\ raised' = raised
  OBVIOUS
<1>2. Late(tmr, cycles)' = Late(tmr, cycles) /\ Requests(tmr, cycles)' = Requests(tmr, cycles)
  BY <1>1
<1>3. TypeOK'
  BY <1>1 DEF DevicesInv, TypeOK
<1>4. InTime'
  BY <1>1, <1>2 DEF DevicesInv, InTime
<1>5. AtRest' /\ Owed'
  BY <1>1, <1>2 DEF DevicesInv, AtRest, Owed
<1> QED
  BY <1>3, <1>4, <1>5 DEF DevicesInv

\* The timer is brought up to date: by a read, or at the end of the frame.
LEMMA Ticked ==
    ASSUME DevicesInv, UNCHANGED <<cycles, joypad, due>>, loc' \in {"poll", "run"},
           loc' = "poll" => spent' = 0, spent' \in {0, spent},
           tmr' = timer_tick(tmr, cycles), Request(cycles)
    PROVE  DevicesInv'
<1>1. InBounds(tmr, cycles) /\ cycles' = cycles /\ joypad' = joypad /\ due' = due
  BY InvBounds
<1>2. tmr' \in TimerType /\ Late(tmr', cycles') = 0 /\ InBounds(tmr', cycles') /\ Requests(tmr', cycles') = 0
  BY <1>1, Refreshed
<1>3. raised' \in Nat
  BY <1>2, CountedOnce
<1>4. spent' \in 0..FRAME + OVERRUN
  BY Sizes DEF DevicesInv, TypeOK
<1>5. TypeOK'
  BY <1>1, <1>2, <1>3, <1>4 DEF DevicesInv, TypeOK
<1>6. InTime'
  BY <1>2, <1>4, Sizes DEF InTime, InBounds
<1>7. AtRest'
  BY <1>2 DEF AtRest
<1>8. Owed'
  BY <1>1 DEF DevicesInv, Owed, Request
<1> QED
  BY <1>5, <1>6, <1>7, <1>8 DEF DevicesInv

LEMMA WriteInv == ASSUME DevicesInv, write_timer PROVE DevicesInv'
<1>1. PICK w \in Writes : tmr' = timer_write(tmr, cycles, w[1], w[2])
  BY DEF write_timer
<1>2. /\ InBounds(tmr, cycles) /\ loc = "run" /\ loc' = loc /\ spent' = spent /\ cycles' = cycles
      /\ joypad' = joypad /\ Request(cycles)
      /\ due' = (due \/ Requests(tmr', cycles) > 0)
  BY InvBounds DEF write_timer
<1>3. tmr' \in TimerType /\ Late(tmr', cycles') = 0 /\ InBounds(tmr', cycles')
  BY <1>1, <1>2, Written
<1>4. Requests(tmr, cycles)' \in Nat
  BY <1>3, RequestsNat
<1>5. PICK k \in Nat : Requests(tmr, cycles)' = k
  BY <1>4
<1>6. raised' \in Nat
  BY <1>2, <1>5, CountedOnce
<1>7. TypeOK'
  BY <1>2, <1>3, <1>6 DEF DevicesInv, TypeOK
<1>8. InTime'
  BY <1>2, <1>3, Sizes DEF DevicesInv, TypeOK, InTime, InBounds
<1>9. AtRest'
  BY <1>2 DEF AtRest
<1>10. Owed'
  BY <1>2 DEF DevicesInv, Owed, Request
<1> QED
  BY <1>7, <1>8, <1>9, <1>10 DEF DevicesInv

LEMMA CycleInv == ASSUME DevicesInv, Cycle PROVE DevicesInv'
<1> DEFINE next == (cycles + 1) % CYCLE_MOD
           u == timer_tick(tmr, cycles)
           n == IF tmr.tac.on THEN (u.tima_accum + CLOCKS) \div PERIOD[tmr.tac.select] ELSE 0
           more == Wraps(u.tima, u.tma, n)
<1>1. /\ loc = "run" /\ spent < FRAME + OVERRUN /\ spent' = spent + 1 /\ cycles' = next
      /\ loc' = loc /\ tmr' = tmr /\ raised' = raised /\ joypad' = joypad /\ if_reg' = if_reg
      /\ due' = (due \/ Requests(tmr, cycles') > Requests(tmr, cycles))
  BY DEF Cycle
<1>2. InBounds(tmr, cycles) /\ Late(tmr, cycles) < FRAME + OVERRUN
      /\ Late(tmr, cycles) \in Nat /\ Late(tmr, cycles) <= spent /\ spent \in Nat
  <2>1. Late(tmr, cycles) <= spent /\ spent \in Nat /\ Late(tmr, cycles) \in Nat
    BY LateType, Sizes DEF DevicesInv, TypeOK, InTime
  <2> QED
    BY <1>1, <2>1, InvBounds, Sizes
<1>3. /\ next \in 0..CYCLE_MOD - 1 /\ Late(tmr, next) = Late(tmr, cycles) + 1
      /\ Requests(tmr, cycles) \in Nat /\ more \in Nat
      /\ Requests(tmr, next) = Requests(tmr, cycles) + more
  BY <1>2, CycleTick
<1> HIDE DEF next, more, n, u
<1>4. TypeOK'
  BY <1>1, <1>2, <1>3, Sizes DEF DevicesInv, TypeOK
<1>5. InTime'
  <2>1. Late(tmr, cycles)' = Late(tmr, cycles) + 1
    BY <1>1, <1>3
  <2>2. Late(tmr, cycles)' <= spent'
    BY <1>1, <1>2, <2>1
  <2> QED
    BY <1>1, <2>2 DEF DevicesInv, InTime
<1>6. AtRest'
  BY <1>1 DEF AtRest
<1>7. Owed'
  <2>1. Requests(tmr, cycles)' = Requests(tmr, cycles) + more
    BY <1>1, <1>3
  <2>2. Requests(tmr, cycles') = Requests(tmr, cycles) + more
    BY <1>1, <1>3
  <2>3. Requests(tmr, cycles') > Requests(tmr, cycles) => Requests(tmr, cycles)' > 0
    BY <1>3, <2>1, <2>2
  <2>4. Requests(tmr, cycles) > 0 => Requests(tmr, cycles)' > 0
    BY <1>3, <2>1
  <2>5. due' => due \/ Requests(tmr, cycles') > Requests(tmr, cycles)
    BY <1>1
  <2>6. due => "timer" \in if_reg \/ Requests(tmr, cycles) > 0
    BY DEF DevicesInv, Owed
  <2>7. due' => "timer" \in if_reg' \/ Requests(tmr, cycles)' > 0
    BY <1>1, <2>3, <2>4, <2>5, <2>6, Zenon
  <2> QED
    BY <2>7 DEF Owed
<1> QED
  BY <1>4, <1>5, <1>6, <1>7 DEF DevicesInv

LEMMA NextInv == ASSUME DevicesInv, [Next]_vars PROVE DevicesInv' /\ TickingStep
<1>1. CASE Cycle
  BY <1>1, CycleInv, CycleTicks
<1>2. CASE timer_read
  <2>1. UNCHANGED <<loc, spent, cycles, joypad, due>> /\ loc = "run" /\ tmr' = timer_tick(tmr, cycles)
        /\ Request(cycles)
    BY <1>2 DEF timer_read
  <2> QED
    BY <2>1, Ticked, ReadTicks
<1>3. CASE write_timer
  BY <1>3, WriteInv, WriteTicks
<1>4. CASE write_joypad
  <2>1. UNCHANGED <<loc, spent, cycles, tmr, if_reg, raised, due>>
        /\ \E bit5, bit4 \in {0, 1} : joypad' = joypad_write(joypad, bit5, bit4)
    BY <1>4 DEF write_joypad
  <2>2. joypad' \in JoypadType
    BY <2>1 DEF DevicesInv, TypeOK, JoypadType, joypad_write
  <2> QED
    BY <2>1, <2>2, Unticked, SameTime DEF DevicesInv, TypeOK, Owed
<1>5. CASE if_write
  <2>1. UNCHANGED <<loc, spent, cycles, tmr, joypad, raised>> /\ due' = ("timer" \in if_reg')
    BY <1>5 DEF if_write
  <2>2. due' \in BOOLEAN /\ (due' => "timer" \in if_reg')
    <3>1. due' = ("timer" \in if_reg')
      BY <2>1
    <3>2. ("timer" \in if_reg') \in BOOLEAN
      OBVIOUS
    <3>3. due' \in BOOLEAN
      BY <3>1, <3>2, Zenon
    <3>4. due' => "timer" \in if_reg'
      BY <3>1, Zenon
    <3> QED
      BY <3>3, <3>4
  <2>3. loc' \in {"poll", "run"} /\ (loc' = "poll" => loc = "poll") /\ joypad' \in JoypadType
    BY <2>1 DEF DevicesInv, TypeOK
  <2>4. due' => "timer" \in if_reg' \/ Requests(tmr, cycles) > 0
    BY <2>2
  <2>5. DevicesInv'
    BY <2>1, <2>2, <2>3, <2>4, Unticked
  <2>6. TickingStep
    BY <2>1, SameTime
  <2> QED
    BY <2>5, <2>6
<1>6. CASE gb_step
  <2>1. UNCHANGED <<cycles, joypad, due>> /\ loc' = "poll" /\ spent' = 0 /\ tmr' = timer_tick(tmr, cycles)
        /\ Request(cycles)
    BY <1>6 DEF gb_step
  <2> QED
    BY <2>1, Ticked, ReadTicks
<1>7. ASSUME NEW idx \in BUTTONS, NEW pressed \in BOOLEAN, set_button(idx, pressed)
      PROVE  DevicesInv' /\ TickingStep
  <2>1. UNCHANGED <<loc, spent, cycles, tmr, raised, due>> /\ joypad' = gb_set_button(joypad, idx, pressed)
        /\ if_reg \subseteq if_reg'
    BY <1>7 DEF set_button
  <2>2. joypad' \in JoypadType
    BY <1>7, <2>1 DEF DevicesInv, TypeOK, JoypadType, gb_set_button
  <2> QED
    BY <2>1, <2>2, Unticked, SameTime DEF DevicesInv, TypeOK, Owed
<1>8. CASE loc = "poll" /\ loc' = "run" /\ UNCHANGED <<game, spent, cycles, tmr, joypad, if_reg, raised, due>>
  BY <1>8, Unticked, SameTime DEF DevicesInv, TypeOK, Owed
<1>9. CASE UNCHANGED vars
  BY <1>9, Unticked, SameTime DEF DevicesInv, TypeOK, Owed, vars
<1> QED
  BY <1>1, <1>2, <1>3, <1>4, <1>5, <1>6, <1>7, <1>8, <1>9 DEF Next, gb_poll
-----------------------------------------------------------------------------
\* A press or a release of one button, against the lines the game reads.
LEMMA ButtonSeen ==
    ASSUME joypad \in JoypadType, NEW idx \in BUTTONS, NEW pressed \in BOOLEAN, set_button(idx, pressed)
    PROVE  LET fell == joypad_read(joypad') \ joypad_read(joypad)
           IN  /\ fell # {} => "joypad" \in if_reg'
               /\ if_reg' # if_reg =>
                      joypad'.buttons # joypad.buttons /\ joypad_read(Alone(joypad', idx)) # {}
<1>1. /\ joypad' = gb_set_button(joypad, idx, pressed)
      /\ if_reg' = IF requests(joypad, idx, pressed) THEN if_reg \cup {"joypad"} ELSE if_reg
  BY DEF set_button
<1>2. idx \in 0..7 /\ (idx \in DPAD_BUTTONS <=> idx >= RIGHT) /\ (idx \in FACE_BUTTONS <=> ~(idx >= RIGHT))
  BY DevicesAssumption DEF GB_BUTTON_COUNT, DPAD_BUTTONS, FACE_BUTTONS, RIGHT
<1> DEFINE old == joypad.buttons
           new == joypad'.buttons
           down(b, d) == IF d \in DPAD_BUTTONS THEN joypad.dpad_selected /\ b[d]
                                               ELSE joypad.face_selected /\ b[d]
           lines(b) == {d % 4 : d \in {e \in 0..7 : down(b, e)}}
<1>3. /\ joypad'.dpad_selected = joypad.dpad_selected /\ joypad'.face_selected = joypad.face_selected
      /\ new = [old EXCEPT ![idx] = pressed] /\ old \in [0..7 -> BOOLEAN] /\ new[idx] = pressed
      /\ \A d \in 0..7 : d # idx => new[d] = old[d]
  BY <1>1, <1>2 DEF gb_set_button, JoypadType, GB_BUTTON_COUNT
<1>4. joypad_read(joypad) = lines(old) /\ joypad_read(joypad') = lines(new)
  <2>1. \A d : d \in DPAD_BUTTONS \/ d \in FACE_BUTTONS <=> d \in 0..7
    BY DEF DPAD_BUTTONS, FACE_BUTTONS
  <2>2. \A d \in FACE_BUTTONS : d \notin DPAD_BUTTONS
    BY DEF DPAD_BUTTONS, FACE_BUTTONS
  <2>3. {d \in DPAD_BUTTONS : joypad.dpad_selected /\ old[d]}
          \cup {f \in FACE_BUTTONS : joypad.face_selected /\ old[f]} = {e \in 0..7 : down(old, e)}
    BY <2>1, <2>2
  <2>4. {d \in DPAD_BUTTONS : joypad'.dpad_selected /\ new[d]}
          \cup {f \in FACE_BUTTONS : joypad'.face_selected /\ new[f]} = {e \in 0..7 : down(new, e)}
    BY <1>3, <2>1, <2>2
  <2> QED
    BY <2>3, <2>4 DEF joypad_read
<1>5. requests(joypad, idx, pressed) <=> pressed /\ ~old[idx] /\ down(new, idx)
  BY <1>2, <1>3 DEF requests, selected
<1>6. ASSUME NEW d \in 0..7, down(new, d), d % 4 \notin lines(old)
      PROVE  requests(joypad, idx, pressed)
  <2>1. ~down(old, d)
    BY <1>6
  <2>2. d = idx
    BY <1>3, <1>6, <2>1
  <2>3. pressed /\ ~old[idx]
    BY <1>3, <1>6, <2>1, <2>2
  <2> QED
    BY <1>5, <1>6, <2>2, <2>3
<1>7. ASSUME joypad_read(joypad') \ joypad_read(joypad) # {} PROVE "joypad" \in if_reg'
  <2>1. PICK d \in 0..7 : down(new, d) /\ d % 4 \notin lines(old)
    BY <1>4, <1>7
  <2> QED
    BY <1>1, <1>6, <2>1
<1>8. ASSUME if_reg' # if_reg PROVE joypad'.buttons # joypad.buttons /\ joypad_read(Alone(joypad', idx)) # {}
  <2>1. requests(joypad, idx, pressed)
    BY <1>1, <1>8
  <2>2. pressed /\ ~old[idx] /\ down(new, idx)
    BY <1>5, <2>1
  <2>3. new # old
    BY <1>3, <2>2
  <2> DEFINE lone == Alone(joypad', idx)
  <2>4. /\ joypad' \in JoypadType
        /\ joypad' = [joypad EXCEPT !.buttons = [@ EXCEPT ![idx] = pressed]]
    BY <1>1, <1>2 DEF gb_set_button, JoypadType, GB_BUTTON_COUNT
  <2>5. /\ lone.dpad_selected = joypad'.dpad_selected /\ lone.face_selected = joypad'.face_selected
        /\ lone.buttons[idx] = new[idx]
    BY <1>2, <1>3, <2>4 DEF Alone, JoypadType, GB_BUTTON_COUNT
  <2>6. /\ idx \in DPAD_BUTTONS => lone.dpad_selected /\ lone.buttons[idx]
        /\ idx \notin DPAD_BUTTONS => idx \in FACE_BUTTONS /\ lone.face_selected /\ lone.buttons[idx]
    BY <1>2, <1>3, <2>2, <2>5
  <2>7. idx % 4 \in joypad_read(lone)
    BY <2>6 DEF joypad_read
  <2> QED
    BY <2>3, <2>7
<1> QED
  BY <1>7, <1>8
-----------------------------------------------------------------------------
\* The counters of timer_tick do not wrap around before the timer is up to date, and a
\* request that is owed is in IF or in the tick to come.
THEOREM DevicesInvariant == Spec => []DevicesInv
<1>1. Init => DevicesInv
  BY InitInv
<1>2. DevicesInv /\ [Next]_vars => DevicesInv'
  BY NextInv
<1> QED
  BY <1>1, <1>2, PTL DEF Spec

\* timer_tick, however late, implements the timer that ticks in every machine cycle.
THEOREM TimerRefined == Spec => LateIsUnseen
<1>1. Init => DevicesInv /\ Ticking!Init
  BY InitInv
<1>2. DevicesInv /\ [Next]_vars => DevicesInv' /\ [Ticking!Next]_(Ticking!vars)
  BY NextInv DEF TickingStep
<1> QED
  BY <1>1, <1>2, PTL DEF Spec, LateIsUnseen, Ticking!Spec

\* A timer request that a ticking timer would have made is in IF when the frame ends.
THEOREM InterruptInTime == Spec => []DueByFrameEnd
<1>1. DevicesInv => DueByFrameEnd
  <2> SUFFICES ASSUME DevicesInv, loc = "poll", due PROVE "timer" \in if_reg
    BY DEF DueByFrameEnd
  <2>1. Requests(tmr, cycles) = 0
    BY DEF DevicesInv, AtRest
  <2>2. "timer" \in if_reg \/ Requests(tmr, cycles) > 0
    BY DEF DevicesInv, Owed
  <2> QED
    BY <2>1, <2>2
<1> QED
  BY <1>1, DevicesInvariant, PTL

\* gb_set_button requests the joypad interrupt when a line falls, and only for a button
\* that goes down and is selected.
THEOREM PressNoticed == Spec => PressSeen
<1> DEFINE Seen == \A idx \in BUTTONS, pressed \in BOOLEAN :
        set_button(idx, pressed) =>
            LET fell == joypad_read(joypad') \ joypad_read(joypad)
            IN  /\ fell # {} => "joypad" \in if_reg'
                /\ if_reg' # if_reg =>
                       joypad'.buttons # joypad.buttons /\ joypad_read(Alone(joypad', idx)) # {}
<1>1. DevicesInv => Seen
  BY ButtonSeen DEF DevicesInv, TypeOK
<1>2. DevicesInv /\ [Next]_vars => [Seen]_vars
  BY <1>1
<1> QED
  BY <1>2, DevicesInvariant, PTL DEF Spec, PressSeen
=============================================================================
