---------------------------- MODULE PolynomialDivision ---------------------------
(***************************************************************************)
(* What a probe id is: CRC-16/IBM-3740, the remainder of a message's       *)
(* polynomial over GF(2), after a register of ones, by                     *)
(* x^16 + x^12 + x^5 + 1.  The register of the division takes a byte of    *)
(* the message at a time, bit by bit.  A byte or register is the set of    *)
(* the positions of its ones.                                              *)
(***************************************************************************)
EXTENDS Integers, Sequences

VARIABLES
  message, \* the bytes divided so far
  register

vars == <<message, register>>

Byte == SUBSET (0 .. 7)

\* x^16 = x^12 + x^5 + 1, modulo the divisor.
Reduced == {12, 5, 0}

Add(a, b) == (a \ b) \cup (b \ a)

\* The register times x.
Times(r) == {k \in 1 .. 15 : k - 1 \in r}

Shift(r) == IF 15 \in r THEN Add(Times(r), Reduced) ELSE Times(r)

ShiftTwice(r) == Shift(Shift(r))
ShiftFour(r) == ShiftTwice(ShiftTwice(r))

\* The byte enters at the upper end, most significant bit first.
Divide(r, byte) ==
  LET entered == Add(r, {k \in 8 .. 15 : k - 8 \in byte})
  IN  ShiftFour(ShiftFour(entered))

Init ==
  /\ message = <<>>
  /\ register = 0 .. 15

Take(byte) ==
  /\ message' = Append(message, byte)
  /\ register' = Divide(register, byte)

Next == \E byte \in Byte : Take(byte)

Spec == Init /\ [][Next]_vars

================================================================================
