--------------------------------- MODULE Numerals ---------------------------------
(***************************************************************************)
(* Numbers in digits, the least significant first: what limbs and bytes    *)
(* stand for.  A digit array is a function on 0..(k - 1).                  *)
(***************************************************************************)
EXTENDS Integers

\* f[1] + ... + f[n]
SumUpTo(f, n) ==
  LET total[i \in 0..n] == IF i = 0 THEN 0 ELSE total[i - 1] + f[i] IN total[n]

\* base^k; the provers know nothing of ^
Power(base, k) ==
  LET power[i \in Nat] == IF i = 0 THEN 1 ELSE base * power[i - 1] IN power[k]

\* the k lowest digits of n
DigitsOf(n, base, k) == [i \in 0..(k - 1) |-> (n \div Power(base, i)) % base]

\* the number that the k lowest digits of x stand for
LowValue(x, base, k) == SumUpTo([i \in 1..k |-> x[i - 1] * Power(base, i - 1)], k)

\* x - y with k digits, from the lowest: a negative difference borrows from the next
Minus(x, y, base, k) ==
  LET diff[i \in 0..k] ==
        IF i = 0 THEN 0 ELSE x[i - 1] - y[i - 1] - (IF diff[i - 1] < 0 THEN 1 ELSE 0)
  IN  [i \in 0..(k - 1) |-> diff[i + 1] % base]
=============================================================================
