----------------------------- MODULE SoundProofs -----------------------------
(***************************************************************************)
(* For every clocking of the unit and every width of its counters: what    *)
(* plays can be heard and can end (PlaysSoundly).  The invariant is kept   *)
(* by each part of the unit by itself, the length clock, the sweep, the    *)
(* trigger and the registers, and so by any number of steps of the frame   *)
(* sequencer (TickKeeps).                                                  *)
(***************************************************************************)
EXTENDS Sound, FiniteSetTheorems, WellFoundedInduction, TLAPS

-----------------------------------------------------------------------------
(* Induction and division with remainder *)

\* Induction, for a set instead of a predicate.
LEMMA NatSetInduction ==
    ASSUME NEW S, 0 \in S, \A n \in Nat : n \in S => n + 1 \in S
    PROVE  \A n \in Nat : n \in S
<1> DEFINE R == OpToRel(<, Nat)
           T == Nat \ S
<1>1. IsWellFoundedOn(R, Nat)
  BY NatLessThanWellFounded
<1>2. \A i, j \in Nat : i < j => <<i, j>> \in R
  BY DEF OpToRel
<1> HIDE DEF R
<1>3. ASSUME T # {} PROVE FALSE
  <2>1. PICK x \in T : \A y \in T : ~ (<<y, x>> \in R)
    BY <1>1, <1>3, WFMin
  <2>2. x \in Nat /\ x # 0
    OBVIOUS
  <2>3. x - 1 \in Nat /\ x - 1 < x
    BY <2>2
  <2>4. x - 1 \notin T
    BY <2>1, <2>2, <2>3, <1>2
  <2>5. (x - 1) + 1 \in S
    BY <2>3, <2>4
  <2> QED
    BY <2>2, <2>5
<1> QED
  BY <1>3

\* A multiple that is not zero is at least one.
LEMMA AtLeastOnce ==
    ASSUME NEW d \in Nat \ {0}, NEW q \in Int, q >= 1
    PROVE  d * q >= d
OBVIOUS

\* Division with remainder.
LEMMA DivMod ==
    ASSUME NEW r \in Int, NEW d \in Nat \ {0}
    PROVE  /\ r \div d \in Int /\ r % d \in 0..(d - 1) /\ r % d \in Nat
           /\ r = d * (r \div d) + (r % d)
OBVIOUS

\* What is not negative has a quotient that is not.
LEMMA DivNat ==
    ASSUME NEW r \in Nat, NEW d \in Nat \ {0}
    PROVE  r \div d \in Nat
<1>1. r \div d \in Int /\ r % d \in 0..(d - 1) /\ r = d * (r \div d) + (r % d)
  BY DivMod
<1>2. CASE r \div d >= 0
  BY <1>1, <1>2
<1>3. CASE ~(r \div d >= 0)
  <2>1. d * (0 - (r \div d)) >= d
    BY <1>1, <1>3, AtLeastOnce
  <2> QED
    BY <1>1, <2>1
<1> QED
  BY <1>2, <1>3
-----------------------------------------------------------------------------

LengthType  == [counter : Nat, enable : BOOLEAN]
ChannelType == [enabled : BOOLEAN, dac : BOOLEAN, freq : 0..FREQ_MOD - 1, length : LengthType]
SweepType   == [period : Nat, dir : BOOLEAN, shift : Nat, timer : Nat, enabled : BOOLEAN]
ApuType ==
    [enabled : BOOLEAN, fs_acc : 0..FRAME_SEQ_PERIOD - 1, fs_step : 0..7,
     ch : [Channels -> ChannelType], sweep : SweepType]

\* A channel whose note can be heard and can end, if it plays at all.
Audible(ch) == ch.enabled => ch.dac /\ ch.length.counter > 0

ApuOK(a) ==
    /\ a \in ApuType
    /\ \A c \in Channels : Audible(a.ch[c]) /\ (a.ch[c].enabled => a.enabled)

SoundInv == used \in CHANNEL /\ clock \in 0..FRAME - 1 /\ ApuOK(apu)
-----------------------------------------------------------------------------
LEMMA Sizes ==
    /\ FRAME_SEQ_PERIOD \in Nat \ {0} /\ FRAME \in Nat \ {0}
    /\ FREQ_LOW \in Nat \ {0} /\ FREQ_MOD \in Nat \ {0} /\ FREQ_MOD % FREQ_LOW = 0
    /\ SWEEP_IDLE \in Nat /\ CHANNEL \subseteq Channels
    /\ \A c \in Channels : LENGTH[c] \in Nat /\ LENGTH[c] > 0
BY SoundAssumption

\* 2^n is the number of subsets of a set of n elements.
LEMMA PowerPositive == ASSUME NEW n \in Nat PROVE 2^n \in Nat \ {0}
<1> DEFINE S == SUBSET (1..n)
<1>1. IsFiniteSet(1..n) /\ Cardinality(1..n) = n
  <2>1. 1 \in Int /\ n \in Int
    OBVIOUS
  <2>2. Cardinality(1..n) = (IF 1 > n THEN 0 ELSE (n - 1) + 1) /\ IsFiniteSet(1..n)
    BY <2>1, FS_Interval
  <2> QED
    BY <2>2
<1>2. IsFiniteSet(S) /\ Cardinality(S) = 2^n
  BY <1>1, FS_SUBSET
<1>3. S # {}
  OBVIOUS
<1> HIDE DEF S
<1>4. Cardinality(S) \in Nat /\ Cardinality(S) # 0
  BY <1>2, <1>3, FS_EmptySet, FS_CardinalityType
<1> QED
  BY <1>2, <1>4

\* A frequency shifted to the right is not greater.
LEMMA ShiftedDown ==
    ASSUME NEW f \in Nat, NEW d \in Nat \ {0}
    PROVE  f \div d \in Nat /\ f \div d <= f
<1> DEFINE q == f \div d
<1>1. q \in Nat /\ f % d \in Nat /\ f = d * q + (f % d)
  BY DivMod, DivNat
<1> HIDE DEF q
<1>2. d * q >= q
  <2>1. (d - 1) * q \in Nat /\ d * q = q + (d - 1) * q
    BY <1>1
  <2> QED
    BY <1>1, <2>1
<1>3. d * q \in Nat
  BY <1>1
<1>4. f >= q
  BY <1>1, <1>2, <1>3
<1> QED
  BY <1>1, <1>4 DEF q
\* A number below FREQ_MOD, a multiple of FREQ_LOW, stays below it with other lower bits.
LEMMA LowerBits ==
    ASSUME NEW f \in 0..FREQ_MOD - 1, NEW low \in 0..FREQ_LOW - 1
    PROVE  f - (f % FREQ_LOW) + low \in 0..FREQ_MOD - 1
<1> DEFINE q == f \div FREQ_LOW
           m == FREQ_MOD \div FREQ_LOW
<1>1. /\ f \in Nat /\ f < FREQ_MOD /\ FREQ_LOW \in Nat \ {0} /\ FREQ_MOD \in Nat
      /\ low \in Nat /\ low < FREQ_LOW
  BY Sizes
<1>2. q \in Nat /\ f % FREQ_LOW \in Nat /\ f = FREQ_LOW * q + (f % FREQ_LOW)
  BY <1>1, DivMod, DivNat
<1>3. m \in Int /\ FREQ_MOD = FREQ_LOW * m
  <2>1. FREQ_MOD = FREQ_LOW * m + (FREQ_MOD % FREQ_LOW) /\ m \in Int
    BY <1>1, DivMod
  <2>2. FREQ_LOW * m \in Int
    BY <1>1, <2>1
  <2> HIDE DEF m
  <2> QED
    BY <2>1, <2>2, Sizes
<1> HIDE DEF q, m
<1>4. FREQ_LOW * q <= f /\ FREQ_LOW * q \in Nat
  BY <1>1, <1>2
<1>5. q + 1 <= m
  <2> SUFFICES ASSUME q >= m PROVE FALSE
    BY <1>2, <1>3
  <2>1. FREQ_LOW * (q - m) \in Nat /\ FREQ_LOW * q = FREQ_LOW * m + FREQ_LOW * (q - m)
    BY <1>1, <1>2, <1>3
  <2> QED
    BY <1>1, <1>3, <1>4, <2>1
<1>6. FREQ_LOW * q + FREQ_LOW <= FREQ_MOD
  <2>1. FREQ_LOW * (m - (q + 1)) \in Nat /\ FREQ_LOW * m = FREQ_LOW * (m - (q + 1)) + (FREQ_LOW * q + FREQ_LOW)
    BY <1>1, <1>2, <1>3, <1>5
  <2> QED
    BY <1>1, <1>3, <1>4, <2>1
<1>7. f - (f % FREQ_LOW) = FREQ_LOW * q
  <2> DEFINE r == f % FREQ_LOW
             p == FREQ_LOW * q
  <2>1. r \in Nat /\ p \in Nat /\ f = p + r
    BY <1>2, <1>4
  <2> HIDE DEF r, p
  <2>2. f - r = p
    BY <2>1
  <2> QED
    BY <2>2 DEF r, p
<1> QED
  BY <1>1, <1>4, <1>6, <1>7
-----------------------------------------------------------------------------
\* One channel changed.
LEMMA ChangedChannel ==
    ASSUME NEW a, ApuOK(a), NEW c \in Channels, NEW x \in ChannelType,
           Audible(x), x.enabled => a.enabled
    PROVE  ApuOK([a EXCEPT !.ch[c] = x])
BY DEF ApuOK, ApuType

LEMMA ClockLength ==
    ASSUME NEW ch \in ChannelType, Audible(ch)
    PROVE  /\ clock_length(ch) \in ChannelType /\ Audible(clock_length(ch))
           /\ clock_length(ch).enabled => ch.enabled
<1>1. CASE ch.length.enable /\ ch.length.counter > 0
  <2>1. /\ ch.length \in LengthType /\ ch.length.counter \in Nat
    BY DEF ChannelType, LengthType
  <2>2. ch.length.counter - 1 \in Nat
    BY <1>1, <2>1
  <2> DEFINE x == [ch EXCEPT !.length.counter = @ - 1, !.enabled = @ /\ ch.length.counter # 1]
  <2>3. clock_length(ch) = x
    BY <1>1 DEF clock_length
  <2>4. x.enabled \in BOOLEAN /\ (x.enabled <=> ch.enabled /\ ch.length.counter # 1)
    BY DEF ChannelType, LengthType
  <2>5. x.length = [ch.length EXCEPT !.counter = @ - 1] /\ x.dac = ch.dac /\ x.freq = ch.freq
    BY DEF ChannelType, LengthType
  <2>6. x \in ChannelType
    BY <2>1, <2>2 DEF ChannelType, LengthType
  <2>7. x.length.counter = ch.length.counter - 1
    BY <2>1, <2>5 DEF LengthType
  <2> HIDE DEF x
  <2>8. x.enabled => ch.enabled /\ x.dac /\ x.length.counter > 0
    BY <1>1, <2>1, <2>4, <2>5, <2>7 DEF Audible
  <2> QED
    BY <2>3, <2>6, <2>8 DEF Audible
<1>2. CASE ~(ch.length.enable /\ ch.length.counter > 0)
  BY <1>2 DEF clock_length
<1> QED
  BY <1>1, <1>2

\* The sweep changes the frequency of the first channel, or ends its note.
LEMMA SweepKeeps == ASSUME NEW a, ApuOK(a) PROVE ApuOK(sweep_calc(a)) /\ sweep_calc(a).enabled = a.enabled
<1> DEFINE ch == a.ch["ch1"]
           delta == ch.freq \div 2^a.sweep.shift
           nf == IF a.sweep.dir THEN ch.freq - delta ELSE ch.freq + delta
<1>1. "ch1" \in Channels /\ a \in ApuType /\ ch \in ChannelType /\ Audible(ch) /\ (ch.enabled => a.enabled)
      /\ a.sweep.shift \in Nat /\ ch.freq \in 0..FREQ_MOD - 1
  BY DEF Channels, ApuOK, ApuType, ChannelType, SweepType
<1>2. 2^a.sweep.shift \in Nat \ {0}
  BY <1>1, PowerPositive
<1>3. ch.freq \in Nat /\ ch.freq < FREQ_MOD
  BY <1>1, Sizes
<1>4. delta \in Nat /\ delta <= ch.freq
  BY <1>2, <1>3, ShiftedDown
<1> HIDE DEF delta, ch
<1>5. nf \in Nat
  BY <1>3, <1>4
<1> DEFINE off == [ch EXCEPT !.enabled = FALSE]
           new == [ch EXCEPT !.freq = nf]
<1>6. sweep_calc(a) = IF nf >= FREQ_MOD THEN [a EXCEPT !.ch["ch1"] = off]
                      ELSE IF a.sweep.shift # 0 THEN [a EXCEPT !.ch["ch1"] = new] ELSE a
  BY DEF sweep_calc, ch, delta
<1> HIDE DEF nf
<1>7. off \in ChannelType /\ Audible(off) /\ ~off.enabled
  BY <1>1 DEF ChannelType, Audible
<1>8. ASSUME ~(nf >= FREQ_MOD)
      PROVE  new \in ChannelType /\ Audible(new) /\ (new.enabled => a.enabled)
  <2>1. nf \in 0..FREQ_MOD - 1
    BY <1>5, <1>8, Sizes
  <2> QED
    BY <1>1, <2>1 DEF ChannelType, Audible
<1> HIDE DEF off, new
<1>9. ApuOK([a EXCEPT !.ch["ch1"] = off])
  BY <1>1, <1>7, ChangedChannel
<1>10. ~(nf >= FREQ_MOD) => ApuOK([a EXCEPT !.ch["ch1"] = new])
  BY <1>1, <1>8, ChangedChannel
<1>11. \A x : [a EXCEPT !.ch["ch1"] = x].enabled = a.enabled
  BY <1>1 DEF ApuType
<1> QED
  BY <1>6, <1>9, <1>10, <1>11
LEMMA SweepTimeType == ASSUME NEW a, ApuOK(a) PROVE SweepTime(a) \in Nat
BY Sizes DEF SweepTime, ApuOK, ApuType, SweepType

LEMMA ChangedSweep ==
    ASSUME NEW a, ApuOK(a), NEW s \in SweepType
    PROVE  ApuOK([a EXCEPT !.sweep = s]) /\ [a EXCEPT !.sweep = s].enabled = a.enabled
BY DEF ApuOK, ApuType

LEMMA ClockSweep == ASSUME NEW a, ApuOK(a) PROVE ApuOK(clock_sweep(a)) /\ clock_sweep(a).enabled = a.enabled
<1> DEFINE timer == IF a.sweep.timer > 0 THEN a.sweep.timer - 1 ELSE 0
           time  == IF timer = 0 THEN SweepTime(a) ELSE timer
           s == [a.sweep EXCEPT !.timer = time]
           b == [a EXCEPT !.sweep = s]
           b2 == IF a.sweep.shift # 0 THEN sweep_calc(b) ELSE b
<1>1. a.sweep \in SweepType /\ a.sweep.timer \in Nat
  BY DEF ApuOK, ApuType, SweepType
<1>2. time \in Nat
  BY <1>1, SweepTimeType
<1>3. clock_sweep(a) = IF timer # 0 \/ ~a.sweep.enabled \/ a.sweep.period = 0 THEN b ELSE sweep_calc(b2)
  BY DEF clock_sweep
<1> HIDE DEF time, timer
<1>4. s \in SweepType
  BY <1>1, <1>2 DEF SweepType
<1> HIDE DEF s
<1>5. ApuOK(b) /\ b.enabled = a.enabled
  BY <1>4, ChangedSweep
<1> HIDE DEF b
<1>6. ApuOK(b2) /\ b2.enabled = a.enabled
  BY <1>5, SweepKeeps
<1> HIDE DEF b2
<1>7. ApuOK(sweep_calc(b2)) /\ sweep_calc(b2).enabled = a.enabled
  BY <1>6, SweepKeeps
<1> QED
  BY <1>3, <1>5, <1>7

LEMMA StepKeeps == ASSUME NEW a, ApuOK(a) PROVE ApuOK(frame_step(a)) /\ frame_step(a).enabled = a.enabled
<1> DEFINE clocked == [a EXCEPT !.ch = [c \in Channels |-> clock_length(a.ch[c])]]
           b == IF a.fs_step % 2 = 0 THEN clocked ELSE a
           d == IF a.fs_step \in {2, 6} THEN clock_sweep(b) ELSE b
<1>1. a \in ApuType /\ \A c \in Channels : a.ch[c] \in ChannelType /\ Audible(a.ch[c])
                                            /\ (a.ch[c].enabled => a.enabled)
  BY DEF ApuOK, ApuType
<1>2. ApuOK(clocked) /\ clocked.enabled = a.enabled
  <2> DEFINE chs == [c \in Channels |-> clock_length(a.ch[c])]
  <2>1. \A c \in Channels : /\ chs[c] \in ChannelType /\ Audible(chs[c])
                            /\ (chs[c].enabled => a.enabled)
    BY <1>1, ClockLength
  <2>2. chs \in [Channels -> ChannelType]
    BY <2>1
  <2> HIDE DEF chs
  <2>3. [a EXCEPT !.ch = chs] \in ApuType /\ [a EXCEPT !.ch = chs].ch = chs
        /\ [a EXCEPT !.ch = chs].enabled = a.enabled
    BY <1>1, <2>2 DEF ApuType
  <2>4. clocked = [a EXCEPT !.ch = chs]
    BY DEF chs
  <2> HIDE DEF clocked
  <2> QED
    BY <2>1, <2>3, <2>4 DEF ApuOK
<1> HIDE DEF clocked
<1>3. ApuOK(b) /\ b.enabled = a.enabled
  BY <1>2
<1> HIDE DEF b
<1>4. ApuOK(d) /\ d.enabled = a.enabled
  BY <1>3, ClockSweep
<1>5. frame_step(a) = [d EXCEPT !.fs_step = (@ + 1) % 8]
  BY DEF frame_step, b, d, clocked
<1> HIDE DEF d
<1>6. d \in ApuType /\ (d.fs_step + 1) % 8 \in 0..7
  BY <1>4 DEF ApuOK, ApuType
<1> QED
  BY <1>4, <1>5, <1>6 DEF ApuOK, ApuType

\* The recursive function of apu_tick: any number of steps of the frame sequencer.
StepsOf(a, n, f) == [j \in 0..n |-> IF j = 0 THEN a ELSE frame_step(f[j - 1])]

LEMMA StepsDefined == ASSUME NEW a, NEW k \in Nat PROVE \E f : f = StepsOf(a, k, f)
<1> DEFINE S == {n \in Nat : \E f : f = StepsOf(a, n, f)}
<1>1. 0 \in S
  <2> DEFINE f == [j \in 0..0 |-> a]
  <2>1. f = StepsOf(a, 0, f)
    BY DEF StepsOf
  <2> QED
    BY <2>1
<1>2. ASSUME NEW n \in Nat, n \in S PROVE n + 1 \in S
  <2>1. PICK f : f = StepsOf(a, n, f)
    BY <1>2
  <2> DEFINE g == [j \in 0..n + 1 |-> IF j = n + 1 THEN frame_step(f[n]) ELSE f[j]]
  <2>2. ASSUME NEW j \in 0..n + 1 PROVE g[j] = StepsOf(a, n + 1, g)[j]
    <3>1. CASE j = n + 1
      <4>1. j # 0 /\ j - 1 = n /\ n \in 0..n + 1 /\ n # n + 1
        BY <3>1
      <4>2. g[j - 1] = f[n] /\ g[j] = frame_step(f[n])
        BY <3>1, <4>1
      <4> QED
        BY <4>1, <4>2 DEF StepsOf
    <3>2. CASE j # n + 1 /\ j = 0
      <4>1. 0 \in 0..n
        OBVIOUS
      <4>2. f[0] = a
        BY <2>1, <4>1 DEF StepsOf
      <4> QED
        BY <3>2, <4>2 DEF StepsOf
    <3>3. CASE j # n + 1 /\ j # 0
      <4>1. j \in 0..n /\ j - 1 \in 0..n + 1 /\ j - 1 # n + 1
        BY <3>3
      <4>2. f[j] = frame_step(f[j - 1])
        BY <2>1, <3>3, <4>1 DEF StepsOf
      <4>3. g[j] = f[j] /\ g[j - 1] = f[j - 1]
        BY <3>3, <4>1
      <4> QED
        BY <3>3, <4>2, <4>3 DEF StepsOf
    <3> QED
      BY <3>1, <3>2, <3>3
  <2>3. g = StepsOf(a, n + 1, g)
    BY <2>2 DEF StepsOf
  <2> QED
    BY <2>3
<1> HIDE DEF S
<1>3. \A n \in Nat : n \in S
  BY <1>1, <1>2, NatSetInduction
<1> QED
  BY <1>3 DEF S

LEMMA TickKeeps ==
    ASSUME NEW a, ApuOK(a), NEW t \in Nat
    PROVE  ApuOK(apu_tick(a, t)) /\ apu_tick(a, t).enabled = a.enabled
<1> DEFINE all == a.fs_acc + t
           n == all \div FRAME_SEQ_PERIOD
           after == CHOOSE f : f = StepsOf(a, n, f)
<1>1. a \in ApuType /\ a.fs_acc \in Nat
  BY Sizes DEF ApuOK, ApuType
<1>2. n \in Nat /\ all % FRAME_SEQ_PERIOD \in 0..FRAME_SEQ_PERIOD - 1
  <2>1. all \in Nat /\ FRAME_SEQ_PERIOD \in Nat \ {0}
    BY <1>1, Sizes
  <2> HIDE DEF all
  <2>2. all % FRAME_SEQ_PERIOD \in 0..FRAME_SEQ_PERIOD - 1
    BY <2>1, DivMod
  <2>3. all \div FRAME_SEQ_PERIOD \in Nat
    BY <2>1, DivNat
  <2> QED
    BY <2>2, <2>3
<1>3. apu_tick(a, t) = IF a.enabled THEN [after[n] EXCEPT !.fs_acc = all % FRAME_SEQ_PERIOD]
                       ELSE [a EXCEPT !.fs_acc = 0]
  BY DEF apu_tick, StepsOf
<1> HIDE DEF n, all
<1>4. after = StepsOf(a, n, after)
  BY <1>2, StepsDefined
<1> HIDE DEF after
<1>5. \A j \in Nat : j <= n => ApuOK(after[j]) /\ after[j].enabled = a.enabled
  <2> DEFINE S == {j \in Nat : j <= n => ApuOK(after[j]) /\ after[j].enabled = a.enabled}
  <2>1. 0 \in S
    BY <1>2, <1>4 DEF StepsOf
  <2>2. ASSUME NEW j \in Nat, j \in S PROVE j + 1 \in S
    <3> SUFFICES ASSUME j + 1 <= n PROVE ApuOK(after[j + 1]) /\ after[j + 1].enabled = a.enabled
      OBVIOUS
    <3>1. j + 1 \in 0..n /\ j + 1 # 0 /\ (j + 1) - 1 = j /\ j <= n
      BY <1>2
    <3>2. after[j + 1] = frame_step(after[j])
      <4>1. after[j + 1] = StepsOf(a, n, after)[j + 1]
        BY <1>4
      <4> QED
        BY <3>1, <4>1 DEF StepsOf
    <3>3. ApuOK(after[j]) /\ after[j].enabled = a.enabled
      BY <2>2, <3>1
    <3> QED
      BY <3>2, <3>3, StepKeeps
  <2> HIDE DEF S
  <2>3. \A j \in Nat : j \in S
    BY <2>1, <2>2, NatSetInduction
  <2> QED
    BY <2>3 DEF S
<1>6. ApuOK(after[n]) /\ after[n].enabled = a.enabled
  BY <1>2, <1>5
<1>7. \A b, x : ApuOK(b) /\ x \in 0..FRAME_SEQ_PERIOD - 1
                  => ApuOK([b EXCEPT !.fs_acc = x]) /\ [b EXCEPT !.fs_acc = x].enabled = b.enabled
  BY DEF ApuOK, ApuType
<1>8. 0 \in 0..FRAME_SEQ_PERIOD - 1
  BY Sizes
<1> QED
  BY <1>2, <1>3, <1>6, <1>7, <1>8
-----------------------------------------------------------------------------
\* The registers.
LEMMA TriggerKeeps == ASSUME NEW a, ApuOK(a), a.enabled, NEW c \in Channels PROVE ApuOK(trigger(a, c))
<1> DEFINE ch == a.ch[c]
           x == [ch EXCEPT !.length.counter = IF @ = 0 THEN LENGTH[c] ELSE @, !.enabled = ch.dac]
           b == [a EXCEPT !.ch[c] = x]
           sw == [a.sweep EXCEPT !.timer = SweepTime(a), !.enabled = a.sweep.period # 0 \/ a.sweep.shift # 0]
           s == [b EXCEPT !.sweep = sw]
<1>1. a \in ApuType /\ ch \in ChannelType /\ a.sweep \in SweepType
  BY DEF ApuOK, ApuType
<1>2. x \in ChannelType /\ Audible(x)
  <2>1. ch.length \in LengthType /\ ch.length.counter \in Nat /\ ch.dac \in BOOLEAN
    BY <1>1 DEF ChannelType, LengthType
  <2> DEFINE k == IF ch.length.counter = 0 THEN LENGTH[c] ELSE ch.length.counter
  <2>2. k \in Nat /\ k > 0
    BY <2>1, Sizes
  <2>3. x = [ch EXCEPT !.length = [ch.length EXCEPT !.counter = k], !.enabled = ch.dac]
    BY <1>1, <2>1 DEF ChannelType, LengthType
  <2> HIDE DEF k, ch, x
  <2>4. [ch.length EXCEPT !.counter = k] \in LengthType /\ [ch.length EXCEPT !.counter = k].counter = k
    BY <2>1, <2>2 DEF LengthType
  <2>5. x \in ChannelType /\ x.enabled = ch.dac /\ x.dac = ch.dac
        /\ x.length = [ch.length EXCEPT !.counter = k]
    BY <1>1, <2>1, <2>3, <2>4 DEF ChannelType
  <2> QED
    BY <2>2, <2>4, <2>5 DEF Audible
<1> HIDE DEF ch, x
<1>3. ApuOK(b) /\ b.sweep = a.sweep
  BY <1>1, <1>2, ChangedChannel DEF ApuType
<1>4. sw \in SweepType
  BY <1>1, SweepTimeType DEF SweepType
<1> HIDE DEF b, sw
<1>5. ApuOK(s)
  BY <1>3, <1>4, ChangedSweep
<1> HIDE DEF s
<1>6. ApuOK(sweep_calc(s))
  BY <1>5, SweepKeeps
<1>7. trigger(a, c) = IF c # "ch1" THEN b ELSE IF a.sweep.shift # 0 THEN sweep_calc(s) ELSE s
  <2>1. s = [b EXCEPT !.sweep.timer = SweepTime(a), !.sweep.enabled = a.sweep.period # 0 \/ a.sweep.shift # 0]
    BY <1>1, <1>3 DEF s, sw, ApuOK, ApuType, SweepType
  <2>2. b = [a EXCEPT !.ch[c].length.counter = IF @ = 0 THEN LENGTH[c] ELSE @, !.ch[c].enabled = a.ch[c].dac]
    BY <1>1 DEF b, x, ch, ApuType, ChannelType, LengthType
  <2> QED
    BY <2>1, <2>2 DEF trigger
<1> QED
  BY <1>3, <1>5, <1>6, <1>7

LEMMA Switched == ASSUME NEW a, ApuOK(a), NEW on \in BOOLEAN PROVE ApuOK(NR52(a, on))
<1>1. silent \in ChannelType /\ ~silent.enabled /\ Audible(silent)
  BY Sizes DEF silent, ChannelType, LengthType, Audible
<1>2. no_sweep \in SweepType
  BY DEF no_sweep, SweepType
<1>3. ApuOK([a EXCEPT !.enabled = TRUE])
  BY DEF ApuOK, ApuType
<1> DEFINE off == [a EXCEPT !.enabled = FALSE]
<1>4. off \in ApuType
  BY DEF ApuOK, ApuType
<1> HIDE DEF off
<1>5. ApuOK(reset(off))
  BY <1>1, <1>2, <1>4 DEF reset, ApuOK, ApuType
<1> QED
  BY <1>3, <1>5 DEF NR52, off

LEMMA NoteWritten ==
    ASSUME NEW a, ApuOK(a), NEW c \in Channels
    PROVE  /\ \A v \in 0..LENGTH[c] - 1 : ApuOK(NRx1(a, c, v))
           /\ \A on \in BOOLEAN : ApuOK(NRx2(a, c, on))
           /\ \A low \in 0..FREQ_LOW - 1 : ApuOK(NRx3(a, c, low))
<1> DEFINE ch == a.ch[c]
<1>1. a \in ApuType /\ ch \in ChannelType /\ Audible(ch) /\ (ch.enabled => a.enabled)
      /\ ch.length \in LengthType /\ ch.freq \in 0..FREQ_MOD - 1
  BY DEF ApuOK, ApuType, ChannelType
<1>2. ASSUME NEW v \in 0..LENGTH[c] - 1 PROVE ApuOK(NRx1(a, c, v))
  <2> DEFINE x == [ch EXCEPT !.length.counter = LENGTH[c] - v]
  <2>1. LENGTH[c] - v \in Nat /\ LENGTH[c] - v > 0
    BY Sizes
  <2>2. x \in ChannelType /\ x.length.counter = LENGTH[c] - v /\ x.dac = ch.dac /\ x.enabled = ch.enabled
    BY <1>1, <2>1 DEF ChannelType, LengthType
  <2>3. NRx1(a, c, v) = [a EXCEPT !.ch[c] = x]
    BY <1>1 DEF NRx1
  <2> HIDE DEF x
  <2> QED
    BY <1>1, <2>1, <2>2, <2>3, ChangedChannel DEF Audible
<1>3. ASSUME NEW on \in BOOLEAN PROVE ApuOK(NRx2(a, c, on))
  <2> DEFINE x == [ch EXCEPT !.dac = on, !.enabled = @ /\ on]
  <2>1. x \in ChannelType /\ x.length = ch.length /\ x.dac = on /\ (x.enabled => ch.enabled /\ on)
    BY <1>1 DEF ChannelType
  <2>2. NRx2(a, c, on) = [a EXCEPT !.ch[c] = x]
    BY <1>1 DEF NRx2
  <2> HIDE DEF x
  <2> QED
    BY <1>1, <2>1, <2>2, ChangedChannel DEF Audible
<1>4. ASSUME NEW low \in 0..FREQ_LOW - 1 PROVE ApuOK(NRx3(a, c, low))
  <2> DEFINE f == ch.freq - (ch.freq % FREQ_LOW) + low
             x == [ch EXCEPT !.freq = f]
  <2>1. f \in 0..FREQ_MOD - 1
    BY <1>1, Sizes, LowerBits
  <2>2. NRx3(a, c, low) = [a EXCEPT !.ch[c] = x]
    BY <1>1 DEF NRx3
  <2> HIDE DEF f
  <2>3. x \in ChannelType /\ Audible(x) /\ (x.enabled => a.enabled)
    BY <1>1, <2>1 DEF ChannelType, Audible
  <2> HIDE DEF x
  <2> QED
    BY <2>2, <2>3, ChangedChannel
<1> QED
  BY <1>2, <1>3, <1>4
LEMMA UpperBits ==
    ASSUME NEW f \in 0..FREQ_MOD - 1, NEW high \in 0..(FREQ_MOD \div FREQ_LOW) - 1
    PROVE  (high * FREQ_LOW) + (f % FREQ_LOW) \in 0..FREQ_MOD - 1
<1> DEFINE m == FREQ_MOD \div FREQ_LOW
           r == f % FREQ_LOW
<1>1. FREQ_LOW \in Nat \ {0} /\ FREQ_MOD \in Nat /\ f \in Int
  BY Sizes
<1>2. m \in Int /\ FREQ_MOD = FREQ_LOW * m
  <2>1. FREQ_MOD = FREQ_LOW * m + (FREQ_MOD % FREQ_LOW) /\ m \in Int
    BY <1>1, DivMod
  <2>2. FREQ_LOW * m \in Int
    BY <1>1, <2>1
  <2> HIDE DEF m
  <2> QED
    BY <2>1, <2>2, Sizes
<1>3. r \in 0..FREQ_LOW - 1
  BY <1>1, DivMod
<1>4. high \in 0..m - 1
  OBVIOUS
<1> HIDE DEF m, r
<1>5. high \in Nat /\ high + 1 <= m
  BY <1>2, <1>4
<1>6. /\ FREQ_LOW * (m - (high + 1)) \in Nat /\ high * FREQ_LOW \in Nat
      /\ FREQ_LOW * m = FREQ_LOW * (m - (high + 1)) + (high * FREQ_LOW + FREQ_LOW)
  BY <1>1, <1>2, <1>5
<1>7. r \in Nat /\ r < FREQ_LOW
  BY <1>1, <1>3
<1>8. high * FREQ_LOW + r < FREQ_MOD /\ high * FREQ_LOW + r \in Nat
  BY <1>1, <1>2, <1>6, <1>7
<1> QED
  BY <1>1, <1>8 DEF r

LEMMA NoteStarted ==
    ASSUME NEW a, ApuOK(a), a.enabled, NEW c \in Channels,
           NEW high \in 0..(FREQ_MOD \div FREQ_LOW) - 1, NEW enable \in BOOLEAN, NEW triggered \in BOOLEAN
    PROVE  ApuOK(NRx4(a, c, high, enable, triggered))
<1> DEFINE ch == a.ch[c]
           f == (high * FREQ_LOW) + (ch.freq % FREQ_LOW)
           x == [ch EXCEPT !.freq = f, !.length.enable = enable]
           b == [a EXCEPT !.ch[c] = x]
<1>1. a \in ApuType /\ ch \in ChannelType /\ Audible(ch) /\ (ch.enabled => a.enabled)
      /\ ch.length \in LengthType /\ ch.freq \in 0..FREQ_MOD - 1
  BY DEF ApuOK, ApuType, ChannelType
<1>2. f \in 0..FREQ_MOD - 1
  BY <1>1, UpperBits
<1>3. b = [a EXCEPT !.ch[c].freq = (high * FREQ_LOW) + (@ % FREQ_LOW), !.ch[c].length.enable = enable]
  BY <1>1 DEF ApuType, ChannelType
<1> HIDE DEF f
<1>4. x \in ChannelType /\ x.length.counter = ch.length.counter /\ x.dac = ch.dac /\ x.enabled = ch.enabled
  BY <1>1, <1>2 DEF ChannelType, LengthType
<1> HIDE DEF x
<1>5. ApuOK(b) /\ b.enabled = a.enabled
  BY <1>1, <1>4, ChangedChannel DEF Audible, ApuType
<1> HIDE DEF b
<1>6. ApuOK(trigger(b, c))
  BY <1>5, TriggerKeeps
<1> QED
  BY <1>3, <1>5, <1>6 DEF NRx4

LEMMA SweepWritten == ASSUME NEW a, ApuOK(a), NEW w \in SWEEPS PROVE ApuOK(NR10(a, w.period, w.dir, w.shift))
<1>1. w \in [period : Nat, dir : BOOLEAN, shift : Nat]
  BY SoundAssumption
<1> DEFINE s == [a.sweep EXCEPT !.period = w.period, !.dir = w.dir, !.shift = w.shift]
<1>2. s \in SweepType
  BY <1>1 DEF ApuOK, ApuType, SweepType
<1>3. NR10(a, w.period, w.dir, w.shift) = [a EXCEPT !.sweep = s]
  BY DEF NR10, ApuOK, ApuType, SweepType
<1> HIDE DEF s
<1> QED
  BY <1>2, <1>3, ChangedSweep
-----------------------------------------------------------------------------
LEMMA InitInv == ASSUME Init PROVE SoundInv
<1>1. silent \in ChannelType /\ ~silent.enabled /\ Audible(silent)
  BY Sizes DEF silent, ChannelType, LengthType, Audible
<1>2. no_sweep \in SweepType
  BY DEF no_sweep, SweepType
<1>3. 0 \in 0..FRAME_SEQ_PERIOD - 1 /\ 0 \in 0..FRAME - 1 /\ 0 \in 0..7
  BY Sizes
<1>4. ApuOK(apu_init)
  BY <1>1, <1>2, <1>3 DEF apu_init, ApuOK, ApuType
<1> QED
  BY <1>3, <1>4 DEF Init, SoundInv

\* At any time that is left of the frame.
LEMMA TickedOK ==
    ASSUME SoundInv, NEW now \in clock..FRAME
    PROVE  ApuOK(Ticked(now)) /\ Ticked(now).enabled = apu.enabled
<1>1. now - clock \in Nat
  BY Sizes DEF SoundInv
<1> QED
  BY <1>1, TickKeeps DEF SoundInv, Ticked

LEMMA WriteInv == ASSUME SoundInv, apu_write PROVE SoundInv'
<1>1. PICK now \in clock..FRAME - 1 :
        /\ clock' = now /\ UNCHANGED used
        /\ \/ \E on \in BOOLEAN : apu' = NR52(Ticked(now), on)
           \/ /\ apu.enabled
              /\ \/ \E v \in 0..LENGTH[used] - 1 : apu' = NRx1(Ticked(now), used, v)
                 \/ \E on \in BOOLEAN : apu' = NRx2(Ticked(now), used, on)
                 \/ used # "ch4" /\ \E low \in 0..FREQ_LOW - 1 : apu' = NRx3(Ticked(now), used, low)
                 \/ \E high \in 0..(FREQ_MOD \div FREQ_LOW) - 1, enable, triggered \in BOOLEAN :
                       apu' = NRx4(Ticked(now), used, high, enable, triggered)
                 \/ used = "ch1" /\ \E w \in SWEEPS :
                       apu' = NR10(Ticked(now), w.period, w.dir, w.shift)
  BY DEF apu_write
<1>2. now \in 0..FRAME - 1 /\ now \in clock..FRAME
  BY Sizes DEF SoundInv
<1> DEFINE a == Ticked(now)
<1>3. ApuOK(a) /\ a.enabled = apu.enabled
  BY <1>2, TickedOK
<1>4. used \in CHANNEL /\ used \in Channels
  BY Sizes DEF SoundInv
<1> HIDE DEF a
<1>5. ApuOK(apu')
  <2>1. CASE \E on \in BOOLEAN : apu' = NR52(a, on)
    BY <1>3, <2>1, Switched
  <2>2. CASE \E v \in 0..LENGTH[used] - 1 : apu' = NRx1(a, used, v)
    BY <1>3, <1>4, <2>2, NoteWritten
  <2>3. CASE \E on \in BOOLEAN : apu' = NRx2(a, used, on)
    BY <1>3, <1>4, <2>3, NoteWritten
  <2>4. CASE \E low \in 0..FREQ_LOW - 1 : apu' = NRx3(a, used, low)
    BY <1>3, <1>4, <2>4, NoteWritten
  <2>5. CASE apu.enabled /\ \E high \in 0..(FREQ_MOD \div FREQ_LOW) - 1, enable, triggered \in BOOLEAN :
               apu' = NRx4(a, used, high, enable, triggered)
    BY <1>3, <1>4, <2>5, NoteStarted
  <2>6. CASE \E w \in SWEEPS : apu' = NR10(a, w.period, w.dir, w.shift)
    BY <1>3, <2>6, SweepWritten
  <2> QED
    BY <1>1, <2>1, <2>2, <2>3, <2>4, <2>5, <2>6 DEF a
<1> QED
  BY <1>1, <1>2, <1>4, <1>5 DEF SoundInv

LEMMA NextInv == ASSUME SoundInv, [Next]_vars PROVE SoundInv'
<1>1. CASE apu_read
  <2>1. PICK now \in clock..FRAME - 1 : apu' = Ticked(now) /\ clock' = now /\ UNCHANGED used
    BY <1>1 DEF apu_read
  <2>2. now \in 0..FRAME - 1 /\ now \in clock..FRAME
    BY Sizes DEF SoundInv
  <2> QED
    BY <2>1, <2>2, TickedOK DEF SoundInv
<1>2. CASE apu_write
  BY <1>2, WriteInv
<1>3. CASE gb_step
  <2>1. FRAME \in clock..FRAME /\ 0 \in 0..FRAME - 1
    BY Sizes DEF SoundInv
  <2> QED
    BY <1>3, <2>1, TickedOK DEF SoundInv, gb_step
<1>4. CASE UNCHANGED vars
  BY <1>4 DEF SoundInv, vars
<1> QED
  BY <1>1, <1>2, <1>3, <1>4 DEF Next

\* What plays can be heard and can end, whatever the order of writes, length clocks and
\* sweeps: in particular no frequency leaves its 11 bits, without which the loop of
\* apu.c's advance would not end.
THEOREM PlaysAlwaysSoundly == Spec => []PlaysSoundly
<1>1. Init => SoundInv
  BY InitInv
<1>2. SoundInv /\ [Next]_vars => SoundInv'
  BY NextInv
<1>3. SoundInv => PlaysSoundly
  BY DEF SoundInv, ApuOK, ApuType, ChannelType, Audible, PlaysSoundly
<1> QED
  BY <1>1, <1>2, <1>3, PTL DEF Spec
=============================================================================
