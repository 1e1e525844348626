--------------------------------- MODULE Crypto ---------------------------------
(***************************************************************************)
(* bench/macros/crypto.js: the big integers of jsbn and the RSA built on   *)
(* them, in a smaller base.  A number is an array, of which t digits count *)
(* and the rest are what earlier results left, and a sign s of 0 or -1 at  *)
(* the place t.  A slot never written reads as 0.  The padding of RSA's    *)
(* messages and the byte arrays are left out.                              *)
(***************************************************************************)
EXTENDS Integers, SequencesExt

CONSTANTS
    BI_DB,         \* bits of a digit: 28
    HalfBits,      \* of am's split of a digit: 14
    BI_FP,         \* bits of the quotient estimate: 52
    MontBits,      \* of Montgomery's split of mp: 15
    Cap,           \* the last slot any result reaches
    InvSteps,      \* bits of the inverse after each step of invDigit: <<4, 8, 16>>
    HexBits,       \* bits of a character of a parsed or printed number: 4
    Lefts, Rights,    \* operands of the arithmetic, ...
    Bases, Exponents, Moduli,            \* ... of the powers, and ...
    Primes, PublicExponents, Texts       \* ... the choices of RSA

VARIABLES
    operands,      \* of the operations under comparison
    power,         \* a power on its way
    rsa            \* a key, a text and its encryption and decryption

cryptoVars == <<operands, power, rsa>>

BI_DV == 2^BI_DB
BI_DM == BI_DV - 1
BI_F1 == BI_FP - BI_DB
BI_F2 == 2 * BI_DB - BI_FP

\* for(i = 0; i < n; ++i) and for(i = n - 1; i >= 0; --i).
Loop(step(_, _), base, n) ==
    LET after[i \in 0..n] == IF i = 0 THEN base ELSE step(after[i - 1], i - 1)
    IN  IF n <= 0 THEN base ELSE after[n]
LoopDown(step(_, _), base, n) == Loop(LAMBDA acc, i : step(acc, n - 1 - i), base, n)

Higher(a, b) == IF a > b THEN a ELSE b

nbi == [array |-> [i \in 0..Cap |-> 0], t |-> 0, s |-> 0]

\* From an integer, -1 <= v < DV; below that the code reads an undefined DV.
nbv(v) == [nbi EXCEPT !.array[0] = Higher(v, 0), !.t = IF v > 0 THEN 1 ELSE 0,
                      !.s = IF v < 0 THEN -1 ELSE 0]
ZERO == nbv(0)
ONE == nbv(1)

RECURSIVE Clamp(_)
Clamp(x) ==
    IF x.t > 0 /\ x.array[x.t - 1] = x.s % BI_DV THEN Clamp([x EXCEPT !.t = @ - 1])
    ELSE x

\* The length is compared before the digits whatever the sign.
CompareTo(x, y) ==
    LET differ == {i \in 0..(x.t - 1) : x.array[i] # y.array[i]}
        top == CHOOSE i \in differ : \A k \in differ : k <= i
    IN  IF x.s # y.s THEN x.s - y.s
        ELSE IF x.t # y.t THEN x.t - y.t
        ELSE IF differ = {} THEN 0
        ELSE x.array[top] - y.array[top]

Nbits(v) == CHOOSE n \in 1..31 : v < 2^n /\ (n = 1 \/ v >= 2^(n - 1))
BitLength(x) ==   \* of x >= 0
    IF x.t <= 0 THEN 0 ELSE BI_DB * (x.t - 1) + Nbits(x.array[x.t - 1])
IsEven(x) == (IF x.t > 0 THEN x.array[0] % 2 ELSE x.s) = 0
SigNum(x) ==
    IF x.s < 0 THEN -1
    ELSE IF x.t <= 0 \/ (x.t = 1 /\ x.array[0] <= 0) THEN 0 ELSE 1

DLShiftTo(x, n) ==
    [x EXCEPT !.array = [i \in 0..Cap |->
                            IF i \in n..(n + x.t - 1) THEN x.array[i - n] ELSE 0],
              !.t = @ + n]

DRShiftTo(x, n) ==
    [x EXCEPT !.array = [i \in 0..Cap |-> IF i + n < x.t THEN x.array[i + n] ELSE 0],
              !.t = Higher(@ - n, 0)]

\* The digit at i, with the sign at t.
Digit(x, i) == IF i < x.t THEN x.array[i] ELSE IF i = x.t THEN x.s ELSE 0

LShiftTo(x, n) ==
    LET bs == n % BI_DB
        ds == n \div BI_DB
        low(i) == (Digit(x, i) * 2^bs) % BI_DV
        carry(i) == IF i > 0 THEN Digit(x, i - 1) \div 2^(BI_DB - bs) ELSE 0
    IN  Clamp([array |-> [i \in 0..Cap |->
                             IF i \in ds..(ds + x.t) THEN carry(i - ds) + low(i - ds) ELSE 0],
               t |-> x.t + ds + 1, s |-> x.s])

RShiftTo(x, n) ==
    LET bs == n % BI_DB
        ds == n \div BI_DB
        high(i) == ((Digit(x, i + 1) % 2^bs) * 2^(BI_DB - bs)) % BI_DV
    IN  IF ds >= x.t THEN [x EXCEPT !.t = 0]
        ELSE Clamp([array |-> [i \in 0..Cap |->
                        IF i < x.t - ds
                        THEN Digit(x, i + ds) \div 2^bs + high(i + ds) ELSE 0],
                    t |-> x.t - ds, s |-> x.s])

\* addTo and subTo, over what r holds: digit by digit with a signed carry, each
\* sign entering once at its number's length.
Combine(x, y, sign, r) ==
    LET step(n) ==
            Loop(LAMBDA acc, i :
                        LET c == acc.c + Digit(x, i) + sign * Digit(y, i)
                        IN  [c |-> c \div BI_DV, array |-> [acc.array EXCEPT ![i] = c % BI_DV]],
                     [c |-> 0, array |-> r.array], n)
        last(array, n, c) ==
            Clamp([array |-> IF c \in {-1, 0} THEN array
                             ELSE [array EXCEPT ![n] = IF c > 0 THEN c ELSE BI_DV + c],
                   t |-> IF c \in {-1, 0} THEN n ELSE n + 1,
                   s |-> IF c < 0 THEN -1 ELSE 0])
        all(low, n) == last(low.array, n, low.c + Digit(x, n) + sign * Digit(y, n))
    IN  all(step(Higher(x.t, y.t)), Higher(x.t, y.t))

AddTo(x, y) == Combine(x, y, 1, nbi)
SubTo(x, y) == Combine(x, y, -1, nbi)
Negate(x) == SubTo(ZERO, x)
Signed(x, negative) == IF negative THEN Negate(x) ELSE x
Abs(x) == Signed(x, x.s < 0)

\* Fault: the middle products' high half is dropped.
DropsMiddle(m) == 0
HighHalf(m) == m \div 2^HalfBits

\* am3: w_j += d * x_i over n digits from the carry c; the final carry.
Am(x, i, d, w, j, c, n) ==
    LET half == 2^HalfBits
        xl == d % half
        xh == d \div half
        step(acc, k) ==
            LET l == x.array[i + k] % half
                h == x.array[i + k] \div half
                m == xh * l + h * xl
                sum == xl * l + (m % half) * half + acc.w[j + k] + acc.c
            IN  [w |-> [acc.w EXCEPT ![j + k] = sum % BI_DV],
                 c |-> sum \div BI_DV + HighHalf(m) + xh * h]
    IN  Loop(step, [w |-> w, c |-> c], n)

MultiplyTo(x, y) ==
    LET row(am, at) == [am.w EXCEPT ![at] = am.c]
        product(ax, ay) ==
            Clamp([array |-> Loop(LAMBDA w, i : row(Am(ax, 0, ay.array[i], w, i, 0, ax.t),
                                                        i + ax.t),
                                      nbi.array, ay.t),
                   t |-> ax.t + ay.t, s |-> 0])
    IN  Signed(product(Abs(x), Abs(y)), x.s # y.s)

SquareTo(x) ==
    LET carry(w, at, top) ==
            IF top >= BI_DV THEN [w EXCEPT ![at] = top - BI_DV, ![at + 1] = 1]
            ELSE [w EXCEPT ![at] = top]
        end(b, at) == carry(b.w, at, b.w[at] + b.c)
        row(ax, i, a) ==
            end(Am(ax, i + 1, 2 * ax.array[i], a.w, 2 * i + 1, a.c, ax.t - i - 1), i + ax.t)
        rows(ax) == Loop(LAMBDA w, i : row(ax, i, Am(ax, i, ax.array[i], w, 2 * i, 0, 1)),
                             nbi.array, ax.t - 1)
        last(am, t) == Clamp([array |-> [am.w EXCEPT ![t - 1] = @ + am.c], t |-> t, s |-> 0])
        square(ax) == last(Am(ax, ax.t - 1, ax.array[ax.t - 1], rows(ax), 2 * ax.t - 2, 0, 1),
                           2 * ax.t)
    IN  IF x.t = 0 /\ x.s = 0 THEN ZERO ELSE square(Abs(x))

-----------------------------------------------------------------------------
(* Division (HAC 14.20).  The estimate of a quotient digit is a fraction   *)
(* here and a rounded one in the code.                                     *)

RECURSIVE Correct(_, _, _, _)
Correct(r, shifted, i, qd) ==
    IF r.array[i] < qd - 1
    THEN Correct(Combine(r, shifted, -1, r), shifted, i, qd - 1) ELSE r

NoCorrection(r, shifted, i, qd) == r

Normalized(x, nsh) == IF nsh > 0 THEN LShiftTo(x, nsh) ELSE x

\* The first quotient digit, of the normalized numbers, is 0 or 1.
FirstDigit(r, first) ==
    LET with1 == [r EXCEPT !.array[r.t] = 1, !.t = @ + 1]
    IN  IF CompareTo(r, first) < 0 THEN r ELSE Combine(with1, first, -1, with1)

Estimate(r, i, y) ==
    LET ys == y.t
        y0 == y.array[ys - 1]
        yt == y0 * 2^BI_F1 + (IF ys > 1 THEN y.array[ys - 2] \div 2^BI_F2 ELSE 0)
    IN  IF r.array[i] = y0 THEN BI_DM
        ELSE (r.array[i] * 2^BI_FP + (r.array[i - 1] + 2^BI_F2) * 2^BI_F1) \div yt

\* Add qd times the negated y at j, then subtract while that was too much.
TryDigit(r, neg, i, j, qd) ==
    LET tried(am) == [r EXCEPT !.array = [am.w EXCEPT ![i] = @ + am.c]]
        kept(s, shifted) ==
            IF s.array[i] < qd THEN Correct(Combine(s, shifted, -1, s), shifted, i, qd) ELSE s
    IN  kept(tried(Am(neg, 0, qd, r.array, j, 0, i - j)), DLShiftTo(neg, j))

DivRemTo(x, m) ==
    LET digits(r0, y, neg) ==
            LoopDown(LAMBDA r, j : TryDigit(r, neg, j + y.t, j, Estimate(r, j + y.t, y)),
                     FirstDigit(r0, DLShiftTo(y, r0.t - y.t)), r0.t - y.t)
        result(r, ys, nsh) ==
            [q |-> Signed(DRShiftTo(r, ys), x.s # m.s),
             r |-> Signed(RShiftTo(Clamp([r EXCEPT !.t = ys]), nsh), x.s < 0)]
        \* 2^ys - y is padded to ys digits with zeros.
        scaled(pt, y, nsh) ==
            result(digits(Normalized(pt, nsh), y,
                          [SubTo(DLShiftTo(ONE, y.t), y) EXCEPT !.t = y.t]), y.t, nsh)
        divide(pt, pm, nsh) == scaled(pt, Normalized(pm, nsh), nsh)
        on(pt, pm) == IF pt.t < pm.t THEN [q |-> ZERO, r |-> x]
                      ELSE divide(pt, pm, BI_DB - Nbits(pm.array[pm.t - 1]))
    IN  on(Abs(x), Abs(m))

Subtracted(r, m, negative) ==
    IF negative /\ CompareTo(r, ZERO) > 0 THEN SubTo(m, r) ELSE r
Mod(x, m) == Subtracted(DivRemTo(Abs(x), m).r, m, x.s < 0)

-----------------------------------------------------------------------------
(* Text, and the bitwise operations.  A text is its sign and the values of *)
(* its characters, k bits each.                                            *)

FromText(text, k) ==
    LET step(acc, x) ==
            LET at == acc.t
                fits == 2^(BI_DB - acc.sh)
                next == (acc.sh + k) % BI_DB
            IN  IF acc.sh = 0
                THEN [array |-> [acc.array EXCEPT ![at] = x], t |-> at + 1, sh |-> next]
                ELSE IF acc.sh + k > BI_DB
                THEN [array |-> [acc.array EXCEPT ![at - 1] = @ + (x % fits) * 2^acc.sh,
                                                  ![at] = x \div fits],
                      t |-> at + 1, sh |-> next]
                ELSE [array |-> [acc.array EXCEPT ![at - 1] = @ + x * 2^acc.sh],
                      t |-> at, sh |-> next]
        all == FoldLeft(step, [array |-> nbi.array, t |-> 0, sh |-> 0],
                        Reverse(text.chars))
        x == Clamp([array |-> all.array, t |-> all.t, s |-> 0])
    IN  IF text.minus THEN Negate(x) ELSE x

\* From the top: p bits of digit i are still to come.
RECURSIVE Characters(_, _, _, _)
Characters(x, k, i, p) ==
    IF i < 0 THEN <<>>
    ELSE IF p < k
    THEN LET more == p + BI_DB - k
         IN  <<(x.array[i] % 2^p) * 2^(k - p) + x.array[i - 1] \div 2^more>>
             \o Characters(x, k, i - 1, more)
    ELSE <<(x.array[i] \div 2^(p - k)) % 2^k>>
         \o (IF p = k THEN Characters(x, k, i - 1, BI_DB)
             ELSE Characters(x, k, i, p - k))

ToText(x, k) ==
    LET ax == Abs(x)
        p == BI_DB - ((ax.t * BI_DB) % k)
        first == IF p < BI_DB /\ ax.t > 0 THEN <<ax.array[ax.t - 1] \div 2^p>> ELSE <<>>
        all == first \o Characters(ax, k, ax.t - 1, p)
        digits == {i \in DOMAIN all : all[i] > 0}
    IN  [minus |-> x.s < 0,
         chars |-> IF digits = {} THEN <<0>> ELSE SubSeq(all, Min(digits), Len(all))]

BitOp(op, a, b) ==
    CASE op = "and" -> a * b
      [] op = "or" -> a + b - a * b
      [] op = "xor" -> (a + b) % 2
      [] op = "andnot" -> a * (1 - b)
DigitOp(op, a, b) ==
    Loop(LAMBDA d, i : d + 2^i * BitOp(op, (a \div 2^i) % 2, (b \div 2^i) % 2),
             0, BI_DB)

\* The shorter number is extended with its sign.
BitwiseTo(x, y, op) ==
    LET n == Higher(x.t, y.t)
        at(z, i) == IF i < z.t THEN z.array[i] ELSE z.s % BI_DV
    IN  Clamp([array |-> [i \in 0..Cap |-> IF i < n THEN DigitOp(op, at(x, i), at(y, i))
                                           ELSE 0],
               t |-> n, s |-> -BitOp(op, -x.s, -y.s)])

Not(x) ==
    [array |-> [i \in 0..Cap |-> IF i < x.t THEN BI_DM - x.array[i] ELSE 0],
     t |-> x.t, s |-> -1 - x.s]

LowestSetBit(x) ==
    LET set == {i \in 0..(x.t - 1) : x.array[i] # 0}
        lbit(d) == CHOOSE b \in 0..(BI_DB - 1) : d % 2^(b + 1) = 2^b
    IN  IF set # {} THEN Min(set) * BI_DB + lbit(x.array[Min(set)])
        ELSE IF x.s < 0 THEN x.t * BI_DB ELSE -1
-----------------------------------------------------------------------------
(* The reducers: a record with the modulus and what its setup computes.    *)

Rem(a, b) ==    \* the sign of a, as in JS
    IF a < 0 THEN -((-a) % b) ELSE a % b

\* -1 / m mod DV by Newton's steps, for an odd m.
InvDigit(m) ==
    LET x == m.array[0]
        grown == FoldLeft(LAMBDA y, b : (y * (2 - (x % 2^b) * y)) % 2^b, x % 4, InvSteps)
        negated(y) == IF y > 0 THEN BI_DV - y ELSE -y
        last(y) == negated(Rem(y * (2 - Rem(x * y, BI_DV)), BI_DV))
    IN  last(grown)

Reducer(kind, m) ==
    CASE kind = "Classic" -> [kind |-> kind, m |-> m]
      [] kind = "Montgomery" ->
           [kind |-> kind, m |-> m, mpl |-> InvDigit(m) % 2^MontBits,
            mph |-> InvDigit(m) \div 2^MontBits, um |-> 2^(BI_DB - MontBits) - 1]
      [] kind = "Barrett" ->
           [kind |-> kind, m |-> m, mu |-> DivRemTo(DLShiftTo(ONE, 2 * m.t), m).q]

\* x[i] + carries from j up.
RECURSIVE Carry(_, _)
Carry(w, j) ==
    IF w[j] >= BI_DV THEN Carry([w EXCEPT ![j] = @ - BI_DV, ![j + 1] = @ + 1], j + 1)
    ELSE w

\* x / R mod m (HAC 14.32).
MontReduce(z, x) ==
    LET half == 2^MontBits
        m == z.m
        u0(d) == ((d % half) * z.mpl
                  + (((d % half) * z.mph + (d \div half) * z.mpl) % (z.um + 1)) * half) % BI_DV
        row(am, at) == Carry([am.w EXCEPT ![at] = @ + am.c], at)
        all == Loop(LAMBDA w, i : row(Am(m, 0, u0(w[i]), w, i, 0, m.t), i + m.t),
                        [i \in 0..Cap |-> IF i < x.t THEN x.array[i] ELSE 0], m.t)
        below(r) == IF CompareTo(r, m) >= 0 THEN SubTo(r, m) ELSE r
    IN  below(DRShiftTo(Clamp([array |-> all, t |-> Higher(x.t, 2 * m.t + 1), s |-> x.s]), m.t))

\* The n lowest digits of x * y, and the product without them.
MultiplyLowerTo(x, y, n) ==
    LET t == IF x.t + y.t < n THEN x.t + y.t ELSE n
        whole == Higher(t - x.t, 0)
        step(w, i) ==
            IF i < whole
            THEN LET am == Am(x, 0, y.array[i], w, i, 0, x.t)
                 IN  [am.w EXCEPT ![i + x.t] = am.c]
            ELSE Am(x, 0, y.array[i], w, i, 0, n - i).w
    IN  Clamp([array |-> Loop(step, nbi.array,
                                  Higher(whole, IF y.t < n THEN y.t ELSE n)),
               t |-> t, s |-> 0])

MultiplyUpperTo(x, y, n1) ==
    LET n == n1 - 1
        first == Higher(n - x.t, 0)
        step(w, k) ==
            LET i == first + k
                am == Am(x, n - i, y.array[i], w, 0, 0, x.t + i - n)
            IN  [am.w EXCEPT ![x.t + i - n] = am.c]
    IN  DRShiftTo(Clamp([array |-> Loop(step, nbi.array, Higher(y.t - first, 0)),
                         t |-> x.t + y.t - n, s |-> 0]), 1)

DAddOffset(x, n, w) ==
    LET padded == [i \in 0..Cap |-> IF i < x.t THEN x.array[i] ELSE 0]
        sum == Carry([padded EXCEPT ![w] = @ + n], w)
        top == Max({i \in 0..Cap : i = w \/ sum[i] # 0})
    IN  [array |-> sum, t |-> Higher(x.t, top + 1), s |-> x.s]

RECURSIVE AddUntil(_, _, _)
AddUntil(x, r2, w) == IF CompareTo(x, r2) < 0 THEN AddUntil(DAddOffset(x, 1, w), r2, w) ELSE x
RECURSIVE SubtractUntil(_, _)
SubtractUntil(x, m) == IF CompareTo(x, m) >= 0 THEN SubtractUntil(SubTo(x, m), m) ELSE x

\* x mod m (HAC 14.42).
BarrettReduce(z, x) ==
    LET n == z.m.t + 1
        less(low, r2) == SubtractUntil(SubTo(AddUntil(low, r2, n), r2), z.m)
    IN  less(IF x.t > n THEN Clamp([x EXCEPT !.t = n]) ELSE x,
             MultiplyLowerTo(z.m, MultiplyUpperTo(z.mu, DRShiftTo(x, z.m.t - 1), n), n))

Reduce(z, x) ==
    CASE z.kind = "Classic" -> DivRemTo(x, z.m).r
      [] z.kind = "Montgomery" -> MontReduce(z, x)
      [] z.kind = "Barrett" -> BarrettReduce(z, x)

Convert(z, x) ==
    CASE z.kind = "Classic" ->
           IF x.s < 0 \/ CompareTo(x, z.m) >= 0 THEN Mod(x, z.m) ELSE x
      [] z.kind = "Montgomery" ->
           Subtracted(DivRemTo(DLShiftTo(Abs(x), z.m.t), z.m).r, z.m, x.s < 0)
      [] z.kind = "Barrett" ->
           IF x.s < 0 \/ x.t > 2 * z.m.t THEN Mod(x, z.m)
           ELSE IF CompareTo(x, z.m) < 0 THEN x ELSE Reduce(z, x)

Revert(z, x) == IF z.kind = "Montgomery" THEN MontReduce(z, x) ELSE x
MulTo(z, x, y) == Reduce(z, MultiplyTo(x, y))
SqrTo(z, x) == Reduce(z, SquareTo(x))
-----------------------------------------------------------------------------
(* Number theory.                                                          *)

\* HAC 14.54, on two numbers with no common factor 2.
RECURSIVE OddGCD(_, _)
OddGCD(x, y) ==
    LET odd(z) == RShiftTo(z, Higher(LowestSetBit(z), 0))
        less(x1, y1) ==
            IF CompareTo(x1, y1) >= 0 THEN <<RShiftTo(SubTo(x1, y1), 1), y1>>
            ELSE <<x1, RShiftTo(SubTo(y1, x1), 1)>>
        next(both) == OddGCD(both[1], both[2])
    IN  IF SigNum(x) <= 0 THEN y ELSE next(less(odd(x), odd(y)))

GCD(a, b) ==
    LET ordered(x, y, g) ==
            IF LowestSetBit(y) < 0 THEN x
            ELSE LShiftTo(OddGCD(RShiftTo(x, g), RShiftTo(y, g)), g)
        lower(i, j) == IF i < j THEN i ELSE j
        common(x, y) ==
            IF CompareTo(x, y) < 0
            THEN ordered(y, x, lower(LowestSetBit(x), LowestSetBit(y)))
            ELSE ordered(x, y, lower(LowestSetBit(x), LowestSetBit(y)))
    IN  common(Abs(a), Abs(b))

ModInt(x, n) ==
    LET d == BI_DV % n
        first == IF x.s < 0 THEN n - 1 ELSE 0
    IN  IF x.t > 0 /\ d = 0 THEN x.array[0] % n
        ELSE LoopDown(LAMBDA r, i : (d * r + x.array[i]) % n, first, x.t)

\* Halve w while it is even, and with it the coefficients p and q of x and m.
RECURSIVE Halve(_, _, _, _, _)
Halve(w, p, q, x, m) ==
    LET both == IsEven(m) /\ (~IsEven(p) \/ ~IsEven(q))
        shorter(p1, q1) ==
            Halve(RShiftTo(w, 1), IF IsEven(m) THEN RShiftTo(p1, 1) ELSE p, RShiftTo(q1, 1), x, m)
    IN  IF ~IsEven(w) THEN <<w, p, q>>
        ELSE shorter(IF both THEN AddTo(p, x) ELSE p,
                     IF both \/ (~IsEven(m) /\ ~IsEven(q)) THEN SubTo(q, m) ELSE q)

\* u and v with their coefficients, until u is 0.
RECURSIVE Bezout(_, _, _, _)
Bezout(u, v, x, m) ==
    LET less(a, b) == <<SubTo(a[1], b[1]), IF IsEven(m) THEN SubTo(a[2], b[2]) ELSE a[2],
                        SubTo(a[3], b[3])>>
        next(h, k) == IF CompareTo(h[1], k[1]) >= 0 THEN <<less(h, k), k>>
                      ELSE <<h, less(k, h)>>
        on(both) == Bezout(both[1], both[2], x, m)
    IN  IF SigNum(u[1]) = 0 THEN v
        ELSE on(next(Halve(u[1], u[2], u[3], x, m), Halve(v[1], v[2], v[3], x, m)))

\* HAC 14.61; an x of 0 would never end.
ModInverse(x, m) ==
    LET inRange(d) == IF SigNum(d) < 0 THEN AddTo(d, m) ELSE d
        result(v) ==
            IF CompareTo(v[1], ONE) # 0 THEN ZERO
            ELSE IF CompareTo(v[3], m) >= 0 THEN SubTo(v[3], m)
            ELSE inRange(inRange(v[3]))
    IN  IF (IsEven(x) /\ IsEven(m)) \/ SigNum(m) = 0 THEN ZERO
        ELSE result(Bezout(<<m, ONE, ZERO>>, <<x, ZERO, ONE>>, x, m))

-----------------------------------------------------------------------------
(* Powers: an exponent that is an integer is read bit by bit, a big one by *)
(* windows of k bits, of which the odd ones are in the table g.  One       *)
(* product is one step.                                                    *)

NoPower == [phase |-> "none"]

\* this^e mod m by exp, through the reducer that modPowInt or modPow takes.
Raise(x, big, e, m) ==
    LET size == IF big THEN BitLength(e) ELSE e
        few == IF big THEN 8 ELSE 256
        kind == IF size < few \/ (~big /\ IsEven(m)) THEN "Classic"
                ELSE IF IsEven(m) THEN "Barrett" ELSE "Montgomery"
        window == IF ~big \/ size < 18 THEN 1 ELSE IF size < 48 THEN 3
                  ELSE IF size < 144 THEN 4 ELSE IF size < 768 THEN 5 ELSE 6
    IN  power' = [phase |-> IF size < 1 THEN "done" ELSE "convert", x |-> x, big |-> big,
                  e |-> e, z |-> Reducer(kind, m), k |-> window, r |-> ONE]

Owes(squares, w) == squares > 0 \/ w > 0

ConvertBase ==
    /\ power.phase = "convert"
    /\ power' = [power EXCEPT !.r = Convert(power.z, power.x), !.phase = "base"]

\* The top bit of the exponent needs no product.
BeginTable ==
    /\ power.phase = "base"
    /\ power' = [g |-> [n \in {i \in 1..(2^power.k - 1) : i % 2 = 1} |-> power.r],
                 first |-> power.big, n |-> 1, squares |-> 0, w |-> 0,
                 j |-> IF power.big THEN power.e.t - 1 ELSE 0,
                 i |-> Nbits(IF power.big THEN power.e.array[power.e.t - 1]
                             ELSE power.e) - 1]
                @@ [power EXCEPT !.phase = IF power.k > 1 THEN "table" ELSE "read"]

\* g[n] = g[n - 2] times the square of g[1], which r holds from the first step.
FillTable ==
    /\ power.phase = "table"
    /\ IF power.n = 1
         THEN power' = [power EXCEPT !.r = SqrTo(power.z, @), !.n = 3]
         ELSE power' = [power EXCEPT !.g[power.n] = MulTo(power.z, power.r, power.g[power.n - 2]),
                                     !.n = @ + 2,
                                     !.phase = IF power.n + 2 < 2^power.k THEN @ ELSE "read"]

Reads(big) == power.phase = "read" /\ power.big = big /\ ~Owes(power.squares, power.w)

\* exp: a square for each bit, and a product if it is set.
ReadBit ==
    /\ Reads(FALSE) /\ power.i > 0
    /\ power' = [power EXCEPT !.i = @ - 1, !.squares = 1,
                              !.w = (power.e \div 2^(power.i - 1)) % 2]

BitIsSet == (power.e.array[power.j] \div 2^power.i) % 2 = 1

\* The place n bits below.
Below(n) ==
    IF power.i >= n THEN [i |-> power.i - n, j |-> power.j]
    ELSE [i |-> power.i - n + BI_DB, j |-> power.j - 1]

\* The zeros between two windows square once each.
ReadZero ==
    /\ Reads(TRUE) /\ power.j >= 0 /\ ~BitIsSet
    /\ power' = [power EXCEPT !.squares = 1, !.i = Below(1).i, !.j = Below(1).j]

\* k bits from a set one, over two digits if need be, without the zeros at their
\* end.
Window ==
    LET digit(j) == IF j < 0 THEN 0 ELSE power.e.array[j]
        under == power.k - 1 - power.i
    IN  IF under <= 0 THEN (digit(power.j) \div 2^(-under)) % 2^power.k
        ELSE (digit(power.j) % 2^(power.i + 1)) * 2^under
             + digit(power.j - 1) \div 2^(BI_DB - under)

TrailingZeros(w) == CHOOSE b \in 0..(BI_DB - 1) : w % 2^(b + 1) = 2^b

ReadWindow ==
    /\ Reads(TRUE) /\ power.j >= 0 /\ BitIsSet
    /\ LET zeros == TrailingZeros(Window)
           n == power.k - zeros
           w == Window \div 2^zeros
       IN  power' = [power EXCEPT
                       !.i = Below(n).i, !.j = Below(n).j, !.first = FALSE,
                       !.r = IF power.first THEN power.g[w] ELSE @,
                       !.squares = IF power.first THEN 0 ELSE n,
                       !.w = IF power.first THEN 0 ELSE w]

Square ==
    /\ power.phase = "read" /\ power.squares > 0
    /\ power' = [power EXCEPT !.r = SqrTo(power.z, @), !.squares = @ - 1]

Multiply ==
    /\ power.phase = "read" /\ power.squares = 0 /\ power.w > 0
    /\ power' = [power EXCEPT !.r = MulTo(power.z, @, power.g[power.w]), !.w = 0]

EndPower ==
    /\ (Reads(FALSE) /\ power.i = 0) \/ (Reads(TRUE) /\ power.j < 0)
    /\ power' = [power EXCEPT !.r = Revert(power.z, @), !.phase = "done"]

PowerRuns ==
    \/ ConvertBase \/ BeginTable \/ FillTable \/ ReadBit \/ ReadZero \/ ReadWindow
    \/ Square \/ Multiply \/ EndPower

-----------------------------------------------------------------------------
(* RSA.                                                                    *)

\* The integer v as a number, as its digits are parsed.
RECURSIVE Digits(_)
Digits(v) == IF v < 2^HexBits THEN <<v>>
             ELSE Append(Digits(v \div 2^HexBits), v % 2^HexBits)
Magnitude(v) == IF v < 0 THEN -v ELSE v
Of(v) == FromText([minus |-> v < 0, chars |-> Digits(Magnitude(v))], HexBits)

CryptoInit ==
    /\ operands = [op |-> "none"]
    /\ power = NoPower
    /\ rsa = [stage |-> "none"]

Fresh == operands.op = "none" /\ rsa.stage = "none"

Arithmetic ==
    /\ Fresh
    /\ \E x \in Lefts, y \in Rights :
         operands' = [op |-> "arithmetic", x |-> x, y |-> y, a |-> Of(x), b |-> Of(y)]
    /\ UNCHANGED <<power, rsa>>

Powers ==
    /\ Fresh
    /\ \E x \in Bases, e \in Exponents, m \in Moduli :
         \/ Raise(Of(x), FALSE, e, Of(m))
         \/ Raise(Of(x), TRUE, Of(e), Of(m))
    /\ operands' = [op |-> "power"]
    /\ UNCHANGED rsa

\* A public exponent suits a prime r that has no factor of it in r - 1.
Suits(r, e) == CompareTo(GCD(SubTo(r, ONE), e), ONE) = 0

\* RSAGenerate, from the primes it found: p is the larger, or both are the
\* same, which it does not exclude.
GeneratePrimes ==
    /\ Fresh
    /\ \E p, q \in Primes, e \in PublicExponents :
         /\ CompareTo(Of(p), Of(q)) >= 0 /\ Suits(Of(p), Of(e)) /\ Suits(Of(q), Of(e))
         /\ rsa' = [stage |-> "primes", e |-> e, p |-> Of(p), q |-> Of(q),
                    n |-> MultiplyTo(Of(p), Of(q)),
                    p1 |-> SubTo(Of(p), ONE), q1 |-> SubTo(Of(q), ONE)]
    /\ UNCHANGED <<operands, power>>

GeneratePrivate ==
    /\ rsa.stage = "primes"
    /\ rsa' = [rsa EXCEPT !.stage = "private"] @@
              [d |-> ModInverse(Of(rsa.e), MultiplyTo(rsa.p1, rsa.q1)),
               coeff |-> ModInverse(rsa.q, rsa.p)]
    /\ UNCHANGED <<operands, power>>

Generate ==
    /\ rsa.stage = "private"
    /\ rsa' = [rsa EXCEPT !.stage = "key"] @@
              [dmp1 |-> Mod(rsa.d, rsa.p1), dmq1 |-> Mod(rsa.d, rsa.q1)]
    /\ UNCHANGED <<operands, power>>

DoPublic ==
    /\ rsa.stage = "key"
    /\ \E text \in Texts :
         /\ Raise(Of(text), FALSE, rsa.e, rsa.n)
         /\ rsa' = [rsa EXCEPT !.stage = "public"] @@ [text |-> text]
    /\ UNCHANGED operands

\* The hexadecimal text is made of an even length.
Encrypt ==
    /\ rsa.stage = "public" /\ power.phase = "done"
    /\ LET h == ToText(power.r, HexBits).chars
       IN  rsa' = [rsa EXCEPT !.stage = "encrypted"] @@
                  [encrypted |-> IF Len(h) % 2 = 0 THEN h ELSE <<0>> \o h]
    /\ power' = NoPower
    /\ UNCHANGED operands

\* By the remainders of both primes if the key has them.
DoPrivate ==
    /\ rsa.stage = "encrypted"
    /\ \E crt \in BOOLEAN :
         LET c == FromText([minus |-> FALSE, chars |-> rsa.encrypted], HexBits)
         IN  IF crt
             THEN /\ Raise(Mod(c, rsa.p), TRUE, rsa.dmp1, rsa.p)
                  /\ rsa' = [rsa EXCEPT !.stage = "xp"] @@ [c |-> c]
             ELSE /\ Raise(c, TRUE, rsa.d, rsa.n)
                  /\ rsa' = [rsa EXCEPT !.stage = "whole"]
    /\ UNCHANGED operands

OtherRemainder ==
    /\ rsa.stage = "xp" /\ power.phase = "done"
    /\ Raise(Mod(rsa.c, rsa.q), TRUE, rsa.dmq1, rsa.q)
    /\ rsa' = [rsa EXCEPT !.stage = "xq"] @@ [xp |-> power.r]
    /\ UNCHANGED operands

\* xp grows by p until no smaller than xq.
RaiseRemainder ==
    /\ rsa.stage = "xq" /\ power.phase = "done"
    /\ CompareTo(rsa.xp, power.r) < 0
    /\ rsa' = [rsa EXCEPT !.xp = AddTo(@, rsa.p)]
    /\ UNCHANGED <<operands, power>>

\* Fault: the parts are joined by the other prime.
JoinedByOther ==
    AddTo(MultiplyTo(Mod(MultiplyTo(SubTo(rsa.xp, power.r), rsa.coeff), rsa.q), rsa.p),
          power.r)

Joined ==
    AddTo(MultiplyTo(Mod(MultiplyTo(SubTo(rsa.xp, power.r), rsa.coeff), rsa.p), rsa.q),
          power.r)

Decrypt ==
    /\ power.phase = "done"
    /\ \/ /\ rsa.stage = "xq" /\ CompareTo(rsa.xp, power.r) >= 0
          /\ rsa' = [rsa EXCEPT !.stage = "decrypted"] @@ [decrypted |-> Joined]
       \/ /\ rsa.stage = "whole"
          /\ rsa' = [rsa EXCEPT !.stage = "decrypted"] @@ [decrypted |-> power.r]
    /\ power' = NoPower
    /\ UNCHANGED operands

CryptoNext ==
    \/ Arithmetic \/ Powers
    \/ PowerRuns /\ UNCHANGED <<operands, rsa>>
    \/ GeneratePrimes \/ GeneratePrivate \/ Generate
    \/ DoPublic \/ Encrypt \/ DoPrivate \/ OtherRemainder \/ RaiseRemainder \/ Decrypt

CryptoSpec == CryptoInit /\ [][CryptoNext]_cryptoVars
-----------------------------------------------------------------------------
(* Correctness, against the integers.                                      *)

Value(x) == Loop(LAMBDA v, i : v + Digit(x, i) * BI_DV^i, 0, x.t + 1)
\* The number is the integer v, with no digit too many.
Is(x, v) == Value(x) = v /\ Clamp(x) = x
Sign(v) == IF v < 0 THEN -1 ELSE IF v > 0 THEN 1 ELSE 0
Quotient(x, y) == Sign(x) * Sign(y) * (Magnitude(x) \div Magnitude(y))
Bit(v, i) == (v \div 2^i) % 2
RECURSIVE Power(_, _, _)
Power(x, e, m) ==
    IF e = 0 THEN 1 % m
    ELSE LET r == Power((x * x) % m, e \div 2, m)
         IN  IF e % 2 = 0 THEN r ELSE (r * x) % m
RECURSIVE Euclid(_, _)
Euclid(a, b) == IF b = 0 THEN a ELSE Euclid(b, a % b)

A == operands.a
B == operands.b

SumsAgree(x, y) ==
    /\ Is(AddTo(A, B), x + y) /\ Is(SubTo(A, B), x - y)
    /\ Is(MultiplyTo(A, B), x * y) /\ Is(SquareTo(A), x * x)
    /\ \A n \in 0..9 : Is(LShiftTo(A, n), x * 2^n) /\ Is(RShiftTo(A, n), x \div 2^n)

\* Two negative numbers of different lengths compare the wrong way round.
ComparisonAgrees(x, y) ==
    Sign(CompareTo(A, B)) = Sign(x - y) \/ (x < 0 /\ y < 0 /\ A.t # B.t)

DivisionAgrees(x, y) ==
    LET agrees(d) == Is(d.q, Quotient(x, y)) /\ Is(d.r, x - y * Quotient(x, y))
    IN  /\ y # 0 => agrees(DivRemTo(A, B))
        /\ y > 0 => Is(Mod(A, B), x % y) /\ ModInt(A, y) = x % y

BitsAgree(x, y) ==
    /\ \A op \in {"and", "or", "xor", "andnot"}, i \in 0..16 :
         Bit(Value(BitwiseTo(A, B, op)), i) = BitOp(op, Bit(x, i), Bit(y, i))
    /\ Is(Not(A), -x - 1)
    /\ \A k \in 1..3 : Is(FromText(ToText(A, k), k), x)

InverseAgrees(r, x, y) ==
    IF Euclid(x, y) > 1 THEN Is(r, 0)
    ELSE Is(r, Value(r)) /\ Value(r) \in 0..(y - 1) /\ (Value(r) * x) % y = 1

FactorsAgree(x, y) ==
    /\ Is(GCD(A, B), Euclid(Magnitude(x), Magnitude(y)))
    /\ x > 0 /\ y > 1 => InverseAgrees(ModInverse(A, B), x, y)

\* Carries, borrows, estimated quotient digits and every reduction give the
\* integers' results, whatever the signs and the lengths.
ArithmeticAgrees ==
    /\ operands.op = "arithmetic" =>
         /\ SumsAgree(operands.x, operands.y) /\ ComparisonAgrees(operands.x, operands.y)
         /\ DivisionAgrees(operands.x, operands.y) /\ BitsAgree(operands.x, operands.y)
         /\ FactorsAgree(operands.x, operands.y)
    /\ power.phase = "done" =>
         Is(power.r, Power(Value(power.x) % Value(power.z.m),
                           IF power.big THEN Value(power.e) ELSE power.e, Value(power.z.m)))

\* decrypt's own check, for both forms of the private operation and every key
\* the generator can make of two different primes.  A p equal to q, which it
\* does not draw again, has no inverse modulo p and a wrong d.
DecryptsText ==
    rsa.stage = "decrypted" /\ CompareTo(rsa.p, rsa.q) # 0 => Is(rsa.decrypted, rsa.text)
=============================================================================
