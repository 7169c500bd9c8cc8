----------------------------- MODULE AdcFilter -----------------------------
(***************************************************************************)
(* A sensorADC: the interrupt of a conversion (ADC_Handler) keeps the sum  *)
(* of the newest values in a ring, and vPumps takes their average (Read),  *)
(* with interrupts enabled.  At most one conversion falls into a Read,     *)
(* which takes microseconds, at ten conversions a second.                  *)
(***************************************************************************)
EXTENDS Naturals, Sequences

CONSTANTS FilterSize,   \* adc_filter_max + 1
          Raw           \* results of a conversion

ASSUME FilterBounds == FilterSize \in Nat \ {0} /\ Raw \subseteq Nat

VARIABLES
  adc_filter,   \* adc_filter
  adc_sum,      \* adc_sum
  adc_last,     \* adc_last
  adc_flagFull, \* adc_flagFull
  ADC_has_been_read,    \* ADC_has_been_read
  reads,        \* place of vPumps in Read, and the sum that it has loaded
  lastADC,      \* lastADC
  newest,       \* history: the newest FilterSize results
  since,        \* history: the newest results when the Read began; a conversion in it?
  torn_read     \* history: a conversion fell into a Read while the ring filled

adcVars == <<adc_filter, adc_sum, adc_last, adc_flagFull, ADC_has_been_read, reads, lastADC,
             newest, since, torn_read>>

\* The SAM3X divides by zero without a trap: the result is zero.
Quotient(a, b) == IF b = 0 THEN 0 ELSE a \div b
\* The sums of the first values of s.
SumsOf(s) == LET f[i \in 0 .. Len(s)] == IF i = 0 THEN 0 ELSE f[i - 1] + s[i] IN f
Average(s) == Quotient(SumsOf(s)[Len(s)], Len(s))

AdcInit ==
  /\ adc_filter = [i \in 0 .. FilterSize - 1 |-> 0] /\ adc_sum = 0 /\ adc_last = 0
  /\ adc_flagFull = FALSE /\ ADC_has_been_read = FALSE
  /\ reads = [at |-> "idle", sum |-> 0] /\ lastADC = 0
  /\ newest = <<>> /\ since = [was |-> <<>>, cut |-> FALSE] /\ torn_read = FALSE
-----------------------------------------------------------------------------
BrokenOldest == 0
OldestResult == adc_filter[adc_last]

ADC_Handler(v) ==
  /\ reads.at # "idle" => ~since.cut
  /\ adc_sum' = adc_sum + v - OldestResult
  /\ adc_filter' = [adc_filter EXCEPT ![adc_last] = v]
  /\ adc_last' = IF adc_last < FilterSize - 1 THEN adc_last + 1 ELSE 0
  /\ adc_flagFull' = (adc_flagFull \/ adc_last = FilterSize - 1)
  /\ ADC_has_been_read' = TRUE
  /\ newest' = Append(IF Len(newest) < FilterSize THEN newest ELSE Tail(newest), v)
  /\ since' = [since EXCEPT !.cut = (reads.at # "idle")]
  /\ torn_read' = (torn_read \/ (reads.at # "idle" /\ ~adc_flagFull))
  /\ UNCHANGED <<reads, lastADC>>

\* vPumps reads no oftener than there are conversions; it tests adc_flagFull.
ReadBegins ==
  /\ reads.at = "idle" /\ ADC_has_been_read
  /\ ADC_has_been_read' = FALSE
  /\ reads' = [at |-> IF adc_flagFull THEN "full" ELSE "sum", sum |-> 0]
  /\ since' = [was |-> newest, cut |-> FALSE]
  /\ UNCHANGED <<adc_filter, adc_sum, adc_last, adc_flagFull, lastADC, newest, torn_read>>

ReadsFull == /\ reads.at = "full"
             /\ lastADC' = Quotient(adc_sum, FilterSize)
             /\ reads' = [at |-> "done", sum |-> 0]
             /\ UNCHANGED <<adc_filter, adc_sum, adc_last, adc_flagFull, ADC_has_been_read,
                            newest, since, torn_read>>

ReadsSum == /\ reads.at = "sum"
            /\ reads' = [at |-> "last", sum |-> adc_sum]
            /\ UNCHANGED <<adc_filter, adc_sum, adc_last, adc_flagFull, ADC_has_been_read,
                           lastADC, newest, since, torn_read>>

ReadsLast == /\ reads.at = "last"
             /\ lastADC' = Quotient(reads.sum, adc_last)
             /\ reads' = [at |-> "done", sum |-> 0]
             /\ UNCHANGED <<adc_filter, adc_sum, adc_last, adc_flagFull, ADC_has_been_read,
                            newest, since, torn_read>>

ReadEnds == /\ reads.at = "done"
            /\ reads' = [at |-> "idle", sum |-> 0]
            /\ UNCHANGED <<adc_filter, adc_sum, adc_last, adc_flagFull, ADC_has_been_read,
                           lastADC, newest, since, torn_read>>

AdcNext == \/ (\E v \in Raw : ADC_Handler(v))
           \/ ReadBegins \/ ReadsFull \/ ReadsSum \/ ReadsLast \/ ReadEnds

AdcSpec == AdcInit /\ [][AdcNext]_adcVars
-----------------------------------------------------------------------------
\* What vPumps reads is the average of the newest results, as they were when the
\* read began or after the conversion that fell into it; unless one fell into a
\* read while the ring was filling.
AverageIsTrue == reads.at = "done" /\ ~torn_read =>
  \/ lastADC = Average(since.was)
  \/ since.cut /\ lastADC = Average(newest)
=============================================================================
