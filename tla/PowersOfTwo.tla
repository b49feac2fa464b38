------------------------------ MODULE PowersOfTwo ------------------------------
\* 2 ** n, as a function that can be reasoned about.
EXTENDS Integers

PowerOfTwo[n \in Nat] == IF n = 0 THEN 1 ELSE 2 * PowerOfTwo[n - 1]
===============================================================================
