------------------------------ MODULE PitClock ------------------------------
(***************************************************************************)
(* The clock of the scheduler (sys/scheduler/x86/avalon.asm): the count of *)
(* PIT ticks in two words, the drift that the interrupt works off, the     *)
(* number of ticks per interrupt and the timer that changes it, and the    *)
(* system time that is computed from the count.  A word has Word values,   *)
(* a fixed-point word Frac values after the point (2^32 and 2^16 there).   *)
(*                                                                         *)
(* The PIT handler is one step: it runs with interrupts disabled.  The     *)
(* procedures that threads call leave them enabled: they read and write    *)
(* one word after the other, and the interrupt may come in between.        *)
(***************************************************************************)
EXTENDS Integers, Sequences, SequencesExt

CONSTANTS
  Word, Frac,     \* values of a word, and of its half after the point
  Drifts,         \* the 64-bit drifts given to correct_tick_drift
  Rates,          \* the rates given to set_tick_drift_correction_rate
  Resolutions,    \* the ticks given to set_timer_resolution_ticks
  FirstResolution,\* _RT_TIMER_RESOLUTION_
  Delays,         \* how far ahead of the count threads set a timer
  MaxTimers,      \* (bound) timers in the ring
  Times,          \* the times given to set_uuutime
  SetBefore,      \* (bound) the count at which they stop being given
  Scale           \* _PIT_ADJ_DIV_: Scale / (Word / 2) microseconds per tick

ASSUME ClockAssumption ==
  /\ Word \in Nat /\ Frac \in Nat \ {0, 1} /\ Word % Frac = 0 /\ Word % 2 = 0
  /\ Drifts \subseteq 0 .. Word * Word - 1 /\ Rates \subseteq 0 .. Word - 1
  /\ Times \subseteq 0 .. Word * Word - 1
  /\ Resolutions \subseteq Nat /\ FirstResolution \in 2 .. Word - 1
  /\ Delays \subseteq Nat \ {0} /\ Scale \in 0 .. Word - 1 /\ MaxTimers \in Nat /\ SetBefore \in Nat

VARIABLES
  ticks,        \* ticks_count
  drift,        \* tick_drift, in two's complement
  rate,         \* tick_drift_correction
  cumulated,    \* cummulated_drift_correction
  perIrq,       \* ticks_per_irq
  newPerIrq,    \* new_ticks_per_irq
  divisor,      \* (hardware) the ticks after which the PIT interrupts
  timers,       \* timer_ring: threads' timers as their times, and Change
  changeTime,   \* the execution time of __resolution_reprogram_timer
  adjustment,   \* system_time_adjustment
  call          \* the procedure the thread is in, and what it has read

clock_vars == <<ticks, drift, rate, cumulated, perIrq, newPerIrq, divisor, timers, changeTime, adjustment, call>>
clock == <<ticks, drift, cumulated>>

Long == Word * Word
NoCall == [at |-> "none"]
Hi(x) == x \div Word
Lo(x) == x % Word
Signed(w) == IF w >= Word \div 2 THEN w - Word ELSE w

(* __resolution_reprogram_timer, in the ring.                              *)
Change == -1
TimeOf(timer) == IF timer = Change THEN changeTime ELSE timer

(* __scheduler_init has asked for the first resolution: until the first    *)
(* interrupt fires its timer, no ticks are counted and the PIT runs as the *)
(* firmware left it (0).                                                   *)
ClockInit ==
  /\ ticks = 0 /\ drift = 0 /\ rate = 0 /\ cumulated = 0
  /\ perIrq = 0 /\ newPerIrq = FirstResolution /\ divisor = 0
  /\ timers = <<Change>> /\ changeTime = 0
  /\ adjustment = 0
  /\ call = NoCall

-----------------------------------------------------------------------------
(* The interrupt                                                           *)

(* The whole ticks to correct now.                                         *)
Whole == ((cumulated + rate) % Word) \div Frac

(* A correction of all there is.                                           *)
CorrectionAll == Lo(drift)

(* .correct_drift: the word edx that is taken from the drift and added to  *)
(* the count.  The comparisons with the drift's low word are signed.       *)
Correction ==
  LET step == IF Hi(drift) >= Word \div 2 THEN (Word - Whole) % Word ELSE Whole IN
  CASE Hi(drift) = 0        -> IF Signed(step) < Signed(Lo(drift)) THEN step ELSE Lo(drift)
    [] Hi(drift) = Word - 1 -> IF Signed(step) > Signed(Lo(drift)) THEN step ELSE Lo(drift)
    [] OTHER                -> step

(* A fraction that is not kept, and a drift that is not written back.      *)
CorrectDriftNoFraction ==
  /\ cumulated' = 0
  /\ IF drift # 0 /\ Whole # 0
     THEN drift' = (drift - Correction) % Long ELSE UNCHANGED drift
CorrectDriftKept ==
  /\ cumulated' = IF drift # 0 THEN ((cumulated + rate) % Word) % Frac ELSE cumulated
  /\ UNCHANGED drift

(* The drift's part of the interrupt.                                      *)
CorrectDrift ==
  /\ cumulated' = IF drift # 0 THEN ((cumulated + rate) % Word) % Frac ELSE cumulated
  /\ IF drift # 0 /\ Whole # 0
     THEN drift' = (drift - Correction) % Long ELSE UNCHANGED drift
Corrected == IF drift # 0 /\ Whole # 0 THEN Correction ELSE 0

(* How many timers, from the first one, are not later than t.              *)
DueCount(t) == CHOOSE n \in 0 .. Len(timers) :
  /\ \A i \in 1 .. n : TimeOf(timers[i]) <= t
  /\ n < Len(timers) => TimeOf(timers[n + 1]) > t

(* __set_timer keeps the lowest 15 bits of the divisor.                    *)
SetTimer(n) == n % (Word \div 2)

(* __pit_interrupt_handler: the count, then the timers of the ring up to   *)
(* the first that is not due.  The resolution's timer reprograms the PIT.  *)
Pit ==
  LET now == (ticks + Corrected + perIrq) % Long
      due == DueCount(now) IN
  /\ CorrectDrift
  /\ ticks' = now
  /\ IF \E i \in 1 .. due : timers[i] = Change
     THEN perIrq' = newPerIrq /\ divisor' = SetTimer(newPerIrq)
     ELSE UNCHANGED <<perIrq, divisor>>
  /\ timers' = SubSeq(timers, due + 1, Len(timers))
  /\ UNCHANGED <<rate, newPerIrq, changeTime, adjustment, call>>

-----------------------------------------------------------------------------
(* The procedures of threads                                               *)

Enter(f) == call = NoCall /\ call' = f
Leave == call' = NoCall

(* system_time.correct_tick_drift, word by word.                           *)
CorrectTickDrift(d) ==
  /\ Enter([at |-> "drift", value |-> d])
  /\ drift' = Hi(drift) * Word + Lo(d)
  /\ UNCHANGED <<ticks, rate, cumulated, perIrq, newPerIrq, divisor, timers, changeTime, adjustment>>
StoreDriftHigh ==
  /\ call.at = "drift"
  /\ drift' = Hi(call.value) * Word + Lo(drift)
  /\ Leave
  /\ UNCHANGED <<ticks, rate, cumulated, perIrq, newPerIrq, divisor, timers, changeTime, adjustment>>

(* system_time.set_tick_drift_correction_rate                              *)
SetRate(r) ==
  /\ call = NoCall
  /\ rate' = r
  /\ UNCHANGED <<clock, perIrq, newPerIrq, divisor, timers, changeTime, adjustment, call>>

(* system_time.set_timer_resolution_ticks stores the resolution, loads the *)
(* low word of the count twice, stores it twice, both times in the high    *)
(* word of the timer's time (its low word stays 0), and links the timer.   *)
SetResolution(n) ==
  /\ n \in 2 .. Word - 1
  /\ Enter([at |-> "load", loaded |-> <<>>])
  /\ newPerIrq' = n
  /\ UNCHANGED <<clock, rate, perIrq, divisor, timers, changeTime, adjustment>>
LoadTime ==
  /\ call.at = "load"
  /\ call' = [at |-> IF call.loaded = <<>> THEN "load" ELSE "store",
              loaded |-> Append(call.loaded, Lo(ticks))]
  /\ UNCHANGED <<clock, rate, perIrq, newPerIrq, divisor, timers, changeTime, adjustment>>
StoreTime ==
  /\ call.at = "store" /\ call.loaded # <<>>
  /\ changeTime' = Head(call.loaded) * Word
  /\ call' = [call EXCEPT !.loaded = Tail(@)]
  /\ UNCHANGED <<clock, rate, perIrq, newPerIrq, divisor, timers, adjustment>>

(* A timer that is refused for any other in the ring.                      *)
LinkChangeToEmpty ==
  /\ call.at = "store" /\ call.loaded = <<>>
  /\ timers' = IF timers # <<>> THEN timers ELSE <<Change>>
  /\ Leave
  /\ UNCHANGED <<clock, rate, perIrq, newPerIrq, divisor, changeTime, adjustment>>

(* insert_after puts the timer at the head of the ring, and refuses one    *)
(* that is still in the ring since an earlier call.                        *)
LinkChange ==
  /\ call.at = "store" /\ call.loaded = <<>>
  /\ timers' = IF Change \in ToSet(timers) THEN timers ELSE <<Change>> \o timers
  /\ Leave
  /\ UNCHANGED <<clock, rate, perIrq, newPerIrq, divisor, changeTime, adjustment>>

(* The timers of thread.schedule: link_ordered_64 puts one before the first*)
(* whose high word is greater or whose low word is not less.               *)
SetThreadTimer(d) ==
  LET t == (ticks + d) % Long
      i == CHOOSE i \in 1 .. Len(timers) + 1 :
             /\ \A j \in 1 .. i - 1 : ~(Hi(t) < Hi(TimeOf(timers[j])) \/ Lo(t) <= Lo(TimeOf(timers[j])))
             /\ i <= Len(timers) => Hi(t) < Hi(TimeOf(timers[i])) \/ Lo(t) <= Lo(TimeOf(timers[i])) IN
  /\ call = NoCall
  /\ Len(timers) < MaxTimers
  /\ timers' = InsertAt(timers, i, t)
  /\ UNCHANGED <<clock, rate, perIrq, newPerIrq, divisor, changeTime, adjustment, call>>

(* ticks2uuu: the count, shifted left by one, times Scale, without the last*)
(* word.                                                                   *)
TicksToUuu(t) ==
  LET u == (2 * t) % Long IN (Hi(u) * Scale + Hi(Lo(u) * Scale)) % Long

(* system_time.get_uuutime, for a low word that was loaded before the high *)
(* one.                                                                    *)
TimeGot(low) == (TicksToUuu(Hi(ticks) * Word + low) + adjustment) % Long

(* system_time.set_uuutime calls get_uuutime and moves the adjustment by   *)
(* the difference of the wanted time and the one it got.                   *)
SetTime(t) ==
  /\ ticks < SetBefore
  /\ Enter([at |-> "set", low |-> Lo(ticks), value |-> t])
  /\ UNCHANGED <<clock, rate, perIrq, newPerIrq, divisor, timers, changeTime, adjustment>>
Adjust ==
  /\ call.at = "set"
  /\ adjustment' = (adjustment + call.value - TimeGot(call.low)) % Long
  /\ Leave
  /\ UNCHANGED <<clock, rate, perIrq, newPerIrq, divisor, timers, changeTime>>

ClockNext ==
  \/ Pit
  \/ \E d \in Drifts : CorrectTickDrift(d)
  \/ StoreDriftHigh
  \/ \E r \in Rates : SetRate(r)
  \/ \E n \in Resolutions : SetResolution(n)
  \/ LoadTime \/ StoreTime \/ LinkChange
  \/ \E d \in Delays : SetThreadTimer(d)
  \/ \E t \in Times : SetTime(t)
  \/ Adjust

ClockSpec == ClockInit /\ [][ClockNext]_clock_vars
(* The PIT goes on interrupting.                                           *)
FairSpec == ClockSpec /\ WF_clock_vars(Pit)

-----------------------------------------------------------------------------
(* Properties                                                              *)

(* Words stay words, and calls and timers have their shapes.               *)
ClockTypeOK ==
  /\ ticks \in 0 .. Long - 1 /\ drift \in 0 .. Long - 1 /\ adjustment \in 0 .. Long - 1
  /\ rate \in 0 .. Word - 1 /\ cumulated \in 0 .. Frac - 1
  /\ perIrq \in 0 .. Word - 1 /\ newPerIrq \in 0 .. Word - 1 /\ divisor \in 0 .. Word - 1
  /\ timers \in Seq({Change} \cup 0 .. Long - 1) /\ changeTime \in 0 .. Long - 1
  /\ \/ call = NoCall
     \/ call \in [at : {"drift"}, value : Drifts]
     \/ call \in [at : {"load", "store"}, loaded : Seq(0 .. Word - 1)]
     \/ call \in [at : {"set"}, low : 0 .. Word - 1, value : Times]

(* What an interrupt takes from the drift it gives to the count, also when *)
(* it comes between the two stores of correct_tick_drift.                  *)
DriftConserved ==
  [][ticks' # ticks => (ticks' + drift') % Long = (ticks + drift + perIrq) % Long]_clock_vars

(* A drift to be worked off forwards.  The interrupt compares low words as *)
(* signed ones and takes one with the sign at once (Sudden); it does not   *)
(* extend the sign of the word by which it corrects a negative drift.      *)
Positive == drift < Long \div 2
Sudden == Hi(drift) = 0 /\ drift >= Word \div 2

(* While the drift is positive, however it was given and whatever mixture  *)
(* of two drifts the interrupt finds, the count moves beside the ticks of  *)
(* the PIT by the rate at most and the tick that fractions have summed up  *)
(* to, and the drift towards zero, never past it.                          *)
DriftIsProgressive ==
  [][Positive /\ ~Sudden =>
       /\ (ticks' - ticks - perIrq) % Long <= rate \div Frac + 1
       /\ drift' <= drift]_<<ticks>>

(* A positive drift is worked off, unless threads go on giving new ones:   *)
(* each rate, however small, adds up.                                      *)
DriftWorkedOff == []<>(drift = 0 \/ ~Positive \/ rate = 0 \/ call # NoCall)

(* set_uuutime returns when the time that get_uuutime gives is the one it  *)
(* was given.  It does not hold: the interrupt may come between the loads  *)
(* of the two words of the count.                                          *)
TimeIsSet ==
  [][call.at = "set" => (TicksToUuu(ticks) + adjustment') % Long = call.value]_<<adjustment, call>>

(* The resolution that was asked for last is the one in use, or the timer  *)
(* that changes it is in the ring or about to be put there: wherever in    *)
(* set_timer_resolution_ticks the interrupt fires the timer of an earlier  *)
(* call, it is not forgotten.                                              *)
ResolutionNotForgotten ==
  \/ perIrq = newPerIrq
  \/ Change \in ToSet(timers)
  \/ call.at \in {"load", "store"}
=============================================================================
