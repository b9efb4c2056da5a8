------------------------------ MODULE CInteger ------------------------------
(***************************************************************************)
(* The / and % of C++ on integers: division truncates, and the remainder   *)
(* has the sign of the dividend.  Divisors are positive here.              *)
(***************************************************************************)
EXTENDS Integers

Quotient(a, b) == IF a < 0 /\ a % b # 0 THEN (a \div b) + 1 ELSE a \div b

Remainder(a, b) == IF a < 0 /\ a % b # 0 THEN (a % b) - b ELSE a % b
=============================================================================
