-------------------------------- MODULE Numbers --------------------------------
(***************************************************************************)
(* The arithmetic of the key exchanges (mtproto_utils.cpp): the checks of    *)
(* the parameters of Diffie-Hellman and of the other end's half of the key,  *)
(* and the factorization that proves the client's work to a data centre.     *)
(* Numbers of 2048 bits have Bits bits here, those of 64 bits Width.         *)
(***************************************************************************)
EXTENDS Integers

CONSTANTS
    Bits,           \* of the prime: 2048
    Slack,          \* what half a key may be shorter: 64 bits
    Width,          \* of an unsigned long long: 64
    Products,       \* the numbers that a data centre has factorized
    Random,         \* the random numbers of 4 bits
    Limit,          \* the iterations of the first round, and one: 2^18
    Iterations      \* the iterations in all before it gives up: 1000

ASSUME NumbersAssumption ==
    /\ Bits \in Nat /\ Slack \in Nat /\ Bits > 3 /\ Bits - Slack >= 3
    /\ \A what \in Products : what \in 4..(2^(Width - 1) - 1)

VARIABLES
    dh,             \* the parameters p and g, the half of the key g_a, and the
                    \* verdicts on both
    factor          \* what is factorized, the state of the loop, and p and q

NumBits(n) == IF n = 0 THEN 0 ELSE CHOOSE k \in 1..64 : 2^(k - 1) <= n /\ n < 2^k

\* BN_is_prime of the library, which errs once in a long while.
IsPrime(n) == n > 1 /\ \A d \in 2..(n - 1) : n % d # 0

-----------------------------------------------------------------------------
(* Diffie-Hellman                                                          *)

\* What p has to be modulo 4g for g to be a square.
Residue(x, g) ==
    CASE g = 2 -> x = 7
      [] g = 3 -> x % 3 = 2
      [] g = 4 -> TRUE
      [] g = 5 -> x % 5 \in {1, 4}
      [] g = 6 -> x \in {19, 23}
      [] g = 7 -> x % 7 \in {3, 5, 6}

\* Mutant of CheckDHParams: (p - 1) / 2 may be composite.
AnyPrime(p, g) == g \in 2..7 /\ NumBits(p) = Bits /\ Residue(p % (4 * g), g) /\ IsPrime(p)

\* tglmp_check_DH_params()
CheckDHParams(p, g) ==
    /\ g \in 2..7
    /\ NumBits(p) = Bits
    /\ Residue(p % (4 * g), g)
    /\ IsPrime(p) /\ IsPrime(p \div 2)

\* tglmp_check_g_a()
CheckGA(p, g_a) ==
    /\ NumBits(g_a) <= Bits
    /\ NumBits(g_a) >= Bits - Slack
    /\ g_a < p
    /\ NumBits(p - g_a) >= Bits - Slack

InitDH == dh \in [p : 1..(2^Bits - 1), g : 0..8, g_a : {0}, params : {"unchecked"}, half : {"unchecked"}]

CheckParams ==
    /\ dh.params = "unchecked"
    /\ dh' = [dh EXCEPT !.params = IF CheckDHParams(dh.p, dh.g) THEN "accepted" ELSE "refused"]

\* The half of the other end is checked when the parameters were accepted.
CheckHalf(g_a) ==
    /\ dh.params = "accepted" /\ dh.half = "unchecked"
    /\ dh' = [dh EXCEPT !.g_a = g_a,
                        !.half = IF CheckGA(dh.p, g_a) THEN "accepted" ELSE "refused"]

NextDH == CheckParams \/ \E g_a \in 0..(2^Bits - 1) : CheckHalf(g_a)

-----------------------------------------------------------------------------
(* bn_factorize()                                                          *)

Unsigned(n) == n % 2^Width

RECURSIVE Gcd(_, _)
Gcd(a, b) == IF b = 0 THEN a ELSE Gcd(b, a % b)

\* Mutant of Reduced: one too late.
ReducedLate(n, what) == IF n > what THEN n - what ELSE n

Reduced(n, what) == IF n >= what THEN n - what ELSE n

\* c + a * b modulo what, by doubling and adding.
RECURSIVE Product(_, _, _, _)
Product(a, b, c, what) ==
    IF b = 0 THEN c
    ELSE Product(Reduced(Unsigned(a + a), what), b \div 2,
                 IF b % 2 = 1 THEN Reduced(Unsigned(c + a), what) ELSE c, what)

PowerOfTwo(j) == \E k \in 0..30 : j = 2^k

InitFactor ==
    factor \in [what : Products, at : {"draw"}, i : {0}, j : {0}, it : {0}, c : {0}, x : {0},
                y : {0}, p : {0}, q : {0}]

\* A round begins with a random polynomial and a random start.
Draw(r, x) ==
    /\ factor.at = "draw"
    /\ factor' = [factor EXCEPT !.at = "iterate", !.j = 1, !.x = x, !.y = x,
                                !.c = (r + 17) % factor.what]

\* A round that found nothing is followed by another, unless there were enough;
\* then the assert after the loop fails.
NextRound(f) ==
    [f EXCEPT !.at = IF f.i + 1 < 3 \/ f.it < Iterations THEN "draw" ELSE "failed",
              !.i = @ + 1, !.j = 0, !.c = 0, !.x = 0, !.y = 0]

\* The divisor and its cofactor, the smaller first.
Split(f, g) ==
    LET h == f.what \div g
    IN  [f EXCEPT !.at = "done", !.p = IF g > h THEN h ELSE g, !.q = IF g > h THEN g ELSE h,
                  !.i = 0, !.j = 0, !.it = 0, !.c = 0, !.x = 0, !.y = 0]

\* One iteration of Pollard's rho; y is where it was at the last power of two.
Iterate ==
    LET x == Product(factor.x, factor.x, factor.c, factor.what)
        z == IF x < factor.y THEN factor.what + x - factor.y ELSE x - factor.y
        g == Gcd(z, factor.what)
        f == [factor EXCEPT !.it = @ + 1, !.x = x]
    IN  /\ factor.at = "iterate"
        /\ factor' =
             IF g > 1 /\ g < factor.what THEN Split(f, g)
             ELSE IF g # 1 \/ factor.j + 1 >= Limit * 2^factor.i THEN NextRound(f)
             ELSE [f EXCEPT !.j = @ + 1, !.y = IF PowerOfTwo(factor.j) THEN x ELSE @]

NextFactor ==
    \/ Iterate
    \/ \E r \in Random, x \in 1..(factor.what - 1) : Draw(r, x)

-----------------------------------------------------------------------------
(* Properties                                                              *)

\* b^e modulo p.
RECURSIVE Power(_, _, _)
Power(b, e, p) == IF e = 0 THEN 1 ELSE (b * Power(b, e - 1, p)) % p

\* Accepted parameters are a safe prime and a g that generates the subgroup of
\* order (p - 1) / 2, and an accepted half of a key generates that group or the
\* whole one: the checks of residues and of bits, which stand for that, are
\* tried on no other numbers than the server's.
Subgroup ==
    /\ dh.params = "accepted" =>
           /\ \E q \in 3..dh.p : IsPrime(q) /\ dh.p = 2 * q + 1 /\ Power(dh.g, q, dh.p) = 1
           /\ Power(dh.g, 1, dh.p) # 1
    /\ dh.half = "accepted" =>
           \A e \in 1..((dh.p - 1) \div 2 - 1) : Power(dh.g_a, e, dh.p) # 1

\* What is found are two factors of the number, the smaller first; and the
\* product that is computed by doubling and adding is the product.
Factorized ==
    /\ factor.at = "done" =>
           factor.p * factor.q = factor.what /\ 1 < factor.p /\ factor.p <= factor.q
    /\ factor.at = "iterate" =>
           Product(factor.x, factor.x, factor.c, factor.what)
               = (factor.x * factor.x + factor.c) % factor.what
=============================================================================
