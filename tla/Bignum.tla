---------------------------------- MODULE Bignum ----------------------------------
(***************************************************************************)
(* bignum.c: numbers of several digits, the lowest first, after Knuth,     *)
(* volume 2, chapter 4.3.1. A digit has DigitBits bits (32 in the code);   *)
(* what does not fit in a digit is lost, as in unsigned C.                 *)
(***************************************************************************)
EXTENDS Integers, Sequences, SequencesExt, FiniteSetsExt

CONSTANT DigitBits

Base     == 2^DigitBits
MAX_DIGIT == Base - 1
Wrap(x)  == x % Base
One(b)   == IF b THEN 1 ELSE 0

Digits(n)   == [1..n -> 0..MAX_DIGIT]
Upwards(n)  == [j \in 1..n |-> j]
mpSetZero(n)     == [j \in 1..n |-> 0]
mpSetDigit(d, n) == [j \in 1..n |-> IF j = 1 THEN d ELSE 0]
mpSetEqual(b, n) == [j \in 1..n |-> b[j]]

\* The number of digits up to the highest that is not 0.
mpSizeof(a) == Max({j \in 1..Len(a) : a[j] # 0} \cup {0})

mpAdd(u, v) ==
  LET step(s, j) == LET a == Wrap(u[j] + s.k)
                        w == Wrap(a + v[j])
                    IN  [w |-> Append(s.w, w), k |-> One(a < s.k) + One(w < v[j])]
  IN  FoldLeft(step, [w |-> << >>, k |-> 0], Upwards(Len(u)))

mpSubb(u, v) ==
  LET step(s, j) == LET a == Wrap(u[j] - s.k)
                        w == Wrap(a - v[j])
                    IN  [w |-> Append(s.w, w),
                         k |-> One(a > MAX_DIGIT - s.k) + One(w > MAX_DIGIT - v[j])]
  IN  FoldLeft(step, [w |-> << >>, k |-> 0], Upwards(Len(u)))

\* A product of two digits has two, and so has a dividend of spDivide.
spMultiply(x, y) == << (x * y) % Base, (x * y) \div Base >>

spDivide(u, v) ==
  LET uu == u[2] * Base + u[1]
  IN  [q |-> (uu \div v) % Base, r |-> uu % v, overflow |-> (uu \div v) \div Base]

\* For every digit of v, its product with u is added from there upwards.
mpMultiply(u, v) ==
  LET n == Len(u)
      add(w, j) ==
        LET mul(s, i) ==
              LET p == spMultiply(u[i], v[j])
                  a == Wrap(p[1] + s.k)
                  b == Wrap(a + s.w[i + j - 1])
              IN  [w |-> [s.w EXCEPT ![i + j - 1] = b],
                   k |-> Wrap(p[2] + One(a < s.k) + One(b < s.w[i + j - 1]))]
            s == FoldLeft(mul, [w |-> w, k |-> 0], Upwards(n))
        IN  IF v[j] = 0 THEN [w EXCEPT ![j + n] = 0] ELSE [s.w EXCEPT ![j + n] = s.k]
  IN  FoldLeft(add, mpSetZero(2 * n), Upwards(n))
-----------------------------------------------------------------------------
\* Whole digits first; `carry` is what leaves the number, with a digit that did so before the rest.
LeavesToo(s, digits, part) == IF digits = 0 THEN s ELSE [s EXCEPT !.carry = @ + part]

mpShiftLeft(b, shift) ==
  LET n     == Len(b)
      nw    == shift \div DigitBits
      bits  == shift % DigitBits
      whole == [i \in 1..n |-> IF i > nw THEN b[i - nw] ELSE 0]
      step(s, i) == [a |-> Append(s.a, Wrap(whole[i] * 2^bits) + s.carry),
                     carry |-> whole[i] \div 2^(DigitBits - bits)]
  IN  LeavesToo(FoldLeft(step, [a |-> << >>, carry |-> 0], Upwards(n)), nw,
                IF nw = 0 THEN 0 ELSE Wrap(b[n - nw + 1] * 2^bits))

mpShiftRight(b, shift) ==
  LET n     == Len(b)
      nw    == shift \div DigitBits
      bits  == shift % DigitBits
      whole == [i \in 1..n |-> IF i + nw <= n THEN b[i + nw] ELSE 0]
      step(s, i) == [a |-> << (whole[i] \div 2^bits) + s.carry >> \o s.a,
                     carry |-> Wrap(whole[i] * 2^(DigitBits - bits))]
  IN  LeavesToo(FoldLeft(step, [a |-> << >>, carry |-> 0], Reverse(Upwards(n))), nw,
                IF nw = 0 THEN 0 ELSE b[nw] \div 2^bits)

Sign(x, y) == IF x > y THEN 1 ELSE IF x < y THEN -1 ELSE 0

mpCompare(a, b) ==
  LET differ == {j \in 1..Len(a) : a[j] # b[j]}
  IN  IF differ = {} THEN 0 ELSE Sign(a[Max(differ)], b[Max(differ)])

mpShortCmp(a, d) ==
  IF a = << >> THEN Sign(0, d)
  ELSE IF \E j \in 2..Len(a) : a[j] # 0 THEN 1 ELSE Sign(a[1], d)
-----------------------------------------------------------------------------
\* The shift that sets the highest bit of v.
Normal(v) == Min({s \in 0..DigitBits-1 : v * 2^s >= Base \div 2} \cup {DigitBits})

\* The digits of l, shifted left like v, from the highest down, and the remainder shifted back.
ShortDivision(l, v, shift) ==
  LET step(s, d) == [q |-> << d.q >> \o s.q, r |-> d.r]
      next(s, j) == step(s, spDivide(<< l.a[j], s.r >>, v * 2^shift))
      back(s)    == [s EXCEPT !.r = @ \div 2^shift]
  IN  back(FoldLeft(next, [q |-> << >>, r |-> l.carry], Reverse(Upwards(Len(l.a)))))

mpShortDiv(u, v) ==
  IF u = << >> \/ v = 0 THEN [q |-> u, r |-> 0]
  ELSE ShortDivision(mpShiftLeft(u, Normal(v)), v, Normal(v))

QhatTooBig(qhat, rhat, vn2, ujn2) ==
  LET t == spMultiply(qhat, vn2)
  IN  t[2] > rhat \/ (t[2] = rhat /\ t[1] > ujn2)

\* w - q v, and wn less the borrow that is left.
mpMultSub(wn, w, v, q) ==
  LET step(s, i) ==
        LET t == spMultiply(q, v[i])
            a == Wrap(w[i] - s.k)
            b == Wrap(a - t[1])
        IN  [w |-> Append(s.w, b),
             k |-> Wrap(One(a > MAX_DIGIT - s.k) + One(b > MAX_DIGIT - t[1]) + t[2])]
      s == FoldLeft(step, [w |-> << >>, k |-> 0], Upwards(Len(w)))
  IN  IF q = 0 THEN [w |-> w, wn |-> wn] ELSE [w |-> s.w, wn |-> Wrap(wn - s.k)]

\* (Wrong: the second test of the estimate would be left out.)
Qhat_OneTest(u, v) ==
  LET d  == spDivide(<< u[2], u[3] >>, v[2])
      q0 == IF d.overflow # 0 THEN MAX_DIGIT ELSE d.q
      r0 == IF d.overflow # 0 THEN Wrap(u[2] + v[2]) ELSE d.r
  IN  IF q0 # 0 /\ QhatTooBig(q0, r0, v[1], u[1]) THEN q0 - 1 ELSE q0

\* Steps D3: the estimate from the three highest digits of u and the two of v (the lowest of
\* these first).
Qhat(u, v) ==
  LET d   == spDivide(<< u[2], u[3] >>, v[2])
      big == d.overflow # 0
      q0  == IF big THEN MAX_DIGIT ELSE d.q
      r0  == IF big THEN Wrap(u[2] + v[2]) ELSE d.r
      r1  == Wrap(r0 + v[2])
  IN  IF q0 = 0 \/ (big /\ r0 < v[2]) \/ ~QhatTooBig(q0, r0, v[1], u[1]) THEN q0
      ELSE IF r1 >= v[2] /\ QhatTooBig(q0 - 1, r1, v[1], u[1]) THEN q0 - 2
      ELSE q0 - 1

\* Steps D4 to D7 for the digit j of the quotient: d is the rest after the estimate qhat, and vv
\* is added back to a negative one.
Replaced(s, j, w, wn, qhat) ==
  LET n  == Len(w)
      uu == [i \in 1..Len(s.uu) |-> IF i \in j+1..j+n THEN w[i - j] ELSE s.uu[i]]
  IN  [uu |-> uu, q |-> << Wrap(qhat - One(wn # 0)) >> \o s.q, top |-> uu[j+n]]

AddedBack(s, j, d, vv, qhat) ==
  Replaced(s, j, IF d.wn # 0 THEN mpAdd(d.w, vv).w ELSE d.w, d.wn, qhat)

Divided(l, vv, n) ==
  LET rest(s, j, q) == AddedBack(s, j, mpMultSub(s.top, SubSeq(s.uu, j + 1, j + n), vv, q), vv, q)
      step(s, j)    == rest(s, j, Qhat(<< s.uu[j+n-1], s.uu[j+n], s.top >>, << vv[n-1], vv[n] >>))
      m == Len(l.a) - n
  IN  FoldLeft(step, [uu |-> l.a, q |-> << >>, top |-> l.carry], [i \in 1..m+1 |-> m + 1 - i])

\* Steps D1 to D8, for a divisor of n > 1 digits that is not above u.
LongDivision(u, v, n) ==
  LET m     == mpSizeof(u) - n
      shift == Normal(v[n])
      back(s) == [q |-> s.q \o mpSetZero(Len(u) - m - 1),
                  r |-> mpShiftRight(SubSeq(s.uu, 1, n), shift).a \o mpSetZero(Len(u) - n)]
  IN  back(Divided(mpShiftLeft(SubSeq(u, 1, n + m), shift), mpShiftLeft(SubSeq(v, 1, n), shift).a, n))

\* It returns -1, and clears q and r, for a divisor 0.
mpDivide(u, v) ==
  LET n == mpSizeof(v)
      m == mpSizeof(u) - n
      c == mpCompare(SubSeq(u, 1, n), SubSeq(v, 1, n))
      s == mpShortDiv(u, v[1])
      zero == mpSetZero(Len(u))
  IN  CASE n = 0            -> [q |-> zero, r |-> zero]
        [] n = 1            -> [q |-> s.q, r |-> mpSetDigit(s.r, Len(u))]
        [] n > 1 /\ (m < 0 \/ (m = 0 /\ c < 0)) -> [q |-> zero, r |-> u]
        [] n > 1 /\ m = 0 /\ c = 0              -> [q |-> mpSetDigit(1, Len(u)), r |-> zero]
        [] OTHER            -> LongDivision(u, v, n)

mpModulo(u, v) ==
  LET r == mpDivide(u, v).r
  IN  [j \in 1..Len(v) |-> IF j <= Len(u) THEN r[j] ELSE 0]
-----------------------------------------------------------------------------
\* Newton's steps from x downwards, y being the next.
NewtonStep(q, x) == mpShortDiv(mpAdd(mpAdd(q, x).w, x).w, 3).q
After(n, x)      == NewtonStep(mpDivide(mpDivide(n, x).q, x).q, x)

RECURSIVE Newton(_, _, _)
Newton(n, x, y) == IF mpCompare(y, x) >= 0 THEN x ELSE Newton(n, y, After(n, y))

mpCubeRoot(n) == IF mpShortCmp(n, 1) <= 0 THEN n ELSE Newton(n, n, After(n, n))

\* For x below 2^28 the numbers stay below 2^31.
icbrt1(x) ==
  LET step(s, e) ==
        LET y == 2 * s.y
            b == (3 * y * (y + 1) + 1) * 2^(30 - 3 * e)
        IN  IF s.x >= b THEN [x |-> s.x - b, y |-> y + 1] ELSE [x |-> s.x, y |-> y]
  IN  FoldLeft(step, [x |-> x, y |-> 0], [e \in 1..11 |-> e - 1]).y
-----------------------------------------------------------------------------
Val(a) == FoldLeft(LAMBDA s, j : s * Base + a[j], 0, Reverse(Upwards(Len(a))))
=============================================================================
