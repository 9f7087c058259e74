--------------------------------- MODULE ProbeId ---------------------------------
(***************************************************************************)
(* A task's probe id and trace filter: probe_id_hash of                    *)
(* source/modality_probe_trace.c, which hashes a name byte by byte with    *)
(* shifts and narrow types, and the two fields the tracer packs into the   *)
(* kernel's uxTaskNumber with the macros of modality_probe_port.h.         *)
(*                                                                         *)
(* A value of any of C's types is the set of the positions of its ones.    *)
(* The names are spelled byte by byte: any short name over a set of bytes, *)
(* and every name the repository gives an id for.  The reference for the   *)
(* hash is PolynomialDivision.                                             *)
(***************************************************************************)
EXTENDS Integers, Sequences, SequencesExt

CONSTANTS
  Bytes,     \* bytes of the short names
  MaxLength, \* bound of the model: length of the short names
  Numbers,   \* values uxTaskNumber may have before the tracer writes to it
  Filters    \* values given to prvTraceSetTaskFilter

IntBits == 0 .. 31 \* of int and of UBaseType_t
Lower == 0 .. 15   \* of uint16_t, and of the lower half of uxTaskNumber
Upper == 16 .. 31

ASSUME BytesAssumption == Bytes \subseteq SUBSET (0 .. 7) /\ MaxLength \in Nat
ASSUME NumbersAssumption == Numbers \subseteq SUBSET IntBits /\ Filters \subseteq SUBSET Lower

VARIABLES
  name,   \* the bytes hashed so far
  crc,    \* the local variable of probe_id_hash
  number, \* uxTaskNumber
  set     \* history: the probe id and filter last set, none before

vars == <<name, crc, number, set>>

--------------------------------------------------------------------------------
\* C's operators

Xor(a, b) == (a \ b) \cup (b \ a)
ShiftLeft(a, n) == {k \in IntBits : k - n \in a}
ShiftRight(a, n) == {k \in IntBits : k + n \in a}

\* Conversion to a narrower unsigned type.
Truncate(a, bits) == a \cap 0 .. bits - 1

--------------------------------------------------------------------------------
\* The hash

\* A char is signed or not, as the compiler chooses: promoted to int, the upper bits of a
\* signed one repeat its sign.
Promoted(byte) == {byte, IF 7 \in byte THEN byte \cup 8 .. 31 ELSE byte}

\* The three shifted copies of x that change the register.
Folded(c, y) ==
  Truncate(Xor(Xor(ShiftLeft(c, 8), Truncate(ShiftLeft(y, 12), 16)),
               Xor(Truncate(ShiftLeft(y, 5), 16), y)), 16)

\* Mutant: x is an int.
StepUntruncated(c, char) ==
  LET x == Xor(ShiftRight(c, 8), char)
  IN  Folded(c, Xor(x, ShiftRight(x, 4)))

\* Mutant: x ^= x >> 4 is missing.
StepOneShift(c, char) == Folded(c, Truncate(Xor(ShiftRight(c, 8), char), 8))

\* The body of the loop; x is an unsigned char, crc a uint16_t.
Step(c, char) ==
  LET x == Truncate(Xor(ShiftRight(c, 8), char), 8)
  IN  Folded(c, Truncate(Xor(x, ShiftRight(x, 4)), 8))

--------------------------------------------------------------------------------
\* The task number

READ_LOWER(input) == input \cap Lower
READ_UPPER(input) == ShiftRight(input, 16) \cap Lower
WRITE_LOWER(output, input) == (output \cap Upper) \cup input

\* Mutant: the upper half is not cleared first.
WriteUpperUnmasked(output, input) == output \cup ShiftLeft(input, 16)

WRITE_UPPER(output, input) == (output \cap Lower) \cup ShiftLeft(input, 16)

--------------------------------------------------------------------------------
\* The names and ids in the test utilities and in the QEMU example's probe list.
KnownIds ==
  {<< <<65>>, 47381>>, << <<66>>, 35190>>, << <<67>>, 39255>>, << <<68>>, 59824>>,
   << <<73, 80, 45, 116, 97, 115, 107>>, 64172>>,     \* IP-task
   << <<82, 120>>, 35405>>, << <<84, 88>>, 1161>>,    \* Rx, TX
   << <<73, 68, 76, 69>>, 34950>>,                    \* IDLE
   << <<84, 109, 114, 32, 83, 118, 99>>, 23595>>,     \* Tmr Svc
   << <<69, 77, 65, 67>>, 20415>>}                    \* EMAC

Ones(n, bits) == {k \in 0 .. bits - 1 : (n \div 2 ^ k) % 2 = 1}

Spelled(known) == [i \in DOMAIN known[1] |-> Ones(known[1][i], 8)]

Init ==
  /\ name = <<>>
  /\ crc = Lower
  /\ number \in Numbers
  /\ set = [probe_id |-> {}, filter |-> {}]

Hash(byte, char) ==
  /\ set.probe_id = {}
  /\ \/ Len(name) < MaxLength /\ byte \in Bytes
     \/ \E known \in KnownIds : IsPrefix(Append(name, byte), Spelled(known))
  /\ name' = Append(name, byte)
  /\ crc' = Step(crc, char)
  /\ UNCHANGED <<number, set>>

prvTraceSetTaskProbeId ==
  /\ name # <<>>
  /\ number' = WRITE_LOWER(number, crc)
  /\ set' = [set EXCEPT !.probe_id = {crc}]
  /\ UNCHANGED <<name, crc>>

prvTraceSetTaskFilter(filter) ==
  /\ set.probe_id # {}
  /\ number' = WRITE_UPPER(number, filter)
  /\ set' = [set EXCEPT !.filter = {filter}]
  /\ UNCHANGED <<name, crc>>

Next ==
  \/ \E byte \in Bytes \cup UNION {Range(Spelled(known)) : known \in KnownIds} :
       \E char \in Promoted(byte) : Hash(byte, char)
  \/ prvTraceSetTaskProbeId
  \/ \E filter \in Filters : prvTraceSetTaskFilter(filter)

Spec == Init /\ [][Next]_vars

--------------------------------------------------------------------------------
\* Properties

Division == INSTANCE PolynomialDivision WITH message <- name, register <- crc

\* The loop of shifts and narrow types computes the remainder of every name, whether char
\* is signed or not (T 613: "CRC-16/IBM-3740").
HashIsRemainder == Division!Spec

\* The tools, the tests and the tracer give a task the same id.
IdsAgree == \A known \in KnownIds : name = Spelled(known) => crc = Ones(known[2], 16)

\* Neither field of the task number disturbs the other, whatever was there before.
FieldsApart ==
  /\ \A id \in set.probe_id : READ_LOWER(number) = id
  /\ \A filter \in set.filter : READ_UPPER(number) = filter

================================================================================
