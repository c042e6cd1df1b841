-------------------------------- MODULE BitTiming --------------------------------
(***************************************************************************)
(* The arithmetic of can0_set_speed, can1_set_speed (can.c) and            *)
(* us0_set_baud_rate (uart.c): the divisors for a bit rate. The numbers    *)
(* stay below 2^32.                                                        *)
(***************************************************************************)
EXTENDS Integers, FiniteSetsExt

CanFrequency == 11000000
SamplePoint  == 6000  \* of 10000
Sjw          == 3

Distance(a, b) == IF a >= b THEN a - b ELSE b - a

\* temp_tbaud: the quanta of a bit with the prescaler brp, rounded, and the bit rate they give.
Quanta(brp, baudrate) ==
  LET tenths == ((CanFrequency * 10) \div brp) \div baudrate
      tbaud  == IF tenths % 10 > 5 THEN (tenths \div 10) + 1 ELSE tenths \div 10
  IN  IF tbaud > 0 THEN tbaud ELSE 1

RateOf(brp, baudrate) == ((CanFrequency * 10) \div brp) \div (Quanta(brp, baudrate) * 10)
RateError(brp, baudrate) == Distance(RateOf(brp, baudrate), baudrate)

Prescalers(baudrate) ==
  {b \in 1..64 : Quanta(b, baudrate) <= 20 /\ RateError(b, baudrate) < 10000}

\* The first that is near enough, or else the first of the nearest.
BestBrp(baudrate) ==
  LET near == {b \in Prescalers(baudrate) : RateError(b, baudrate) < 1000}
      e    == Min({RateError(b, baudrate) : b \in Prescalers(baudrate)})
  IN  IF near # {} THEN Min(near)
      ELSE Min({b \in Prescalers(baudrate) : RateError(b, baudrate) = e})

\* (Wrong: the synchronisation segment would be left out.)
Sample_NoSync(tseg1, tbaud) == (tseg1 * 10000) \div tbaud

Sample(tseg1, tbaud) == ((tseg1 + 1) * 10000) \div tbaud
SampleError(tseg1, tbaud) == Distance(Sample(tseg1, tbaud), SamplePoint)

\* From 64 downwards, until one samples too early; 1 if none is good enough.
Candidates(tbaud) ==
  {t \in 3..64 : SampleError(t, tbaud) < 10000
                 /\ \A u \in t+1..64 : Sample(u, tbaud) >= SamplePoint}

BestTseg1(tbaud) ==
  LET c == Candidates(tbaud)
  IN  IF c = {} THEN 1
      ELSE Max({t \in c : \A u \in c : SampleError(t, tbaud) <= SampleError(u, tbaud)})

\* The fields of NBTR hold each of these less one. Without a prescaler (below 8594 bit/s)
\* the code divides by best_tbaud = 0.
Timing(baudrate) ==
  LET brp   == BestBrp(baudrate)
      tbaud == Quanta(brp, baudrate)
      tseg1 == BestTseg1(tbaud)
  IN  [brp |-> brp, tseg1 |-> tseg1, tseg2 |-> tbaud - tseg1 - 1, sjw |-> Sjw]
-----------------------------------------------------------------------------
Clock        == 480000  \* peripheral_clock, in units of 100 Hz like the rate
Oversampling == 16

Pdiv(div, rate) == (Clock * div) \div (rate * Oversampling)

\* The last clock divider from 1023 downwards that leaves the smallest fraction, if it is
\* below that of the start values 1 and 1.
BaudDivider(baudrate) ==
  LET rate    == baudrate \div 100
      frac(d) == Pdiv(d, rate) % 1024
      fits    == {d \in 1..1023 : Pdiv(d, rate) \div 1024 < 1024 /\ frac(d) < 1023}
      best    == Max({d \in fits : \A e \in fits : frac(d) <= frac(e)})
  IN  IF fits = {} THEN [step |-> 1, pdiv |-> 1]
      ELSE [step |-> best, pdiv |-> Pdiv(best, rate) \div 1024]
=============================================================================
