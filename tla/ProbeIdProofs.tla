------------------------------ MODULE ProbeIdProofs ------------------------------
(* Theorems about ProbeId for all names, all task numbers and all filters.     *)
EXTENDS ProbeId, TLAPS

--------------------------------------------------------------------------------
\* The two halves of the task number

\* What the tracer writes to a half is what it reads there, and the other half stays.
LEMMA WriteLower ==
  ASSUME NEW n \in SUBSET IntBits, NEW id \in SUBSET Lower
  PROVE  /\ WRITE_LOWER(n, id) \in SUBSET IntBits
         /\ READ_LOWER(WRITE_LOWER(n, id)) = id
         /\ READ_UPPER(WRITE_LOWER(n, id)) = READ_UPPER(n)
<1> DEFINE w == WRITE_LOWER(n, id)
<1>1. w \in SUBSET IntBits
  BY DEF WRITE_LOWER, IntBits, Lower, Upper
<1>2. ASSUME NEW k \in Lower PROVE k \in w <=> k \in id
  BY DEF WRITE_LOWER, Lower, Upper
<1>3. ASSUME NEW k \in Lower PROVE k + 16 \in w <=> k + 16 \in n
  BY DEF WRITE_LOWER, Lower, Upper
<1>4. READ_LOWER(w) = id
  BY <1>2 DEF READ_LOWER
<1>5. READ_UPPER(w) = READ_UPPER(n)
  BY <1>3 DEF READ_UPPER, ShiftRight
<1> QED
  BY <1>1, <1>4, <1>5

LEMMA WriteUpper ==
  ASSUME NEW n \in SUBSET IntBits, NEW filter \in SUBSET Lower
  PROVE  /\ WRITE_UPPER(n, filter) \in SUBSET IntBits
         /\ READ_UPPER(WRITE_UPPER(n, filter)) = filter
         /\ READ_LOWER(WRITE_UPPER(n, filter)) = READ_LOWER(n)
<1> DEFINE w == WRITE_UPPER(n, filter)
<1>1. w \in SUBSET IntBits
  BY DEF WRITE_UPPER, ShiftLeft, IntBits, Lower
<1>2. ASSUME NEW k \in Lower PROVE k \in w <=> k \in n
  BY DEF WRITE_UPPER, ShiftLeft, IntBits, Lower
<1>3. ASSUME NEW k \in Lower PROVE k + 16 \in w <=> k \in filter
  <2>1. k + 16 \in IntBits /\ (k + 16) - 16 = k /\ k + 16 \notin Lower
    BY DEF IntBits, Lower
  <2> QED
    BY <2>1 DEF WRITE_UPPER, ShiftLeft
<1>4. READ_LOWER(w) = READ_LOWER(n)
  BY <1>2 DEF READ_LOWER
<1>5. Lower \subseteq IntBits
  BY DEF Lower, IntBits
<1>6. READ_UPPER(w) = filter
  BY <1>3, <1>5 DEF READ_UPPER, ShiftRight
<1> QED
  BY <1>1, <1>4, <1>6

--------------------------------------------------------------------------------
\* One byte

\* Exclusive or.
Either(a, b) == (a /\ ~b) \/ (~a /\ b)

\* One shift of the division's register, position by position.
LEMMA ShiftBits ==
  ASSUME NEW r, NEW k \in Lower
  PROVE  k \in Division!Shift(r) <=>
           Either(k # 0 /\ k - 1 \in r, k \in {0, 5, 12} /\ 15 \in r)
BY DEF Division!Shift, Division!Add, Division!Times, Division!Reduced, Lower, Either

\* Two shifts: the two upper ones are added at the divisor's three places.
LEMMA ShiftTwiceBits ==
  ASSUME NEW r, NEW k \in Lower
  PROVE  k \in Division!ShiftTwice(r) <=>
           Either(Either(k >= 2 /\ k - 2 \in r, k \in 0 .. 1 /\ k + 14 \in r),
                  Either(k \in 5 .. 6 /\ k + 9 \in r, k \in 12 .. 13 /\ k + 2 \in r))
<1> DEFINE s == Division!Shift(r)
<1>1. 15 \in s <=> 14 \in r
  BY ShiftBits DEF Lower, Either
<1>2. k # 0 => (k - 1 \in s <=> Either(k # 1 /\ k - 2 \in r, k \in {1, 6, 13} /\ 15 \in r))
  <2> SUFFICES ASSUME k # 0
               PROVE  k - 1 \in s <=> Either(k # 1 /\ k - 2 \in r, k \in {1, 6, 13} /\ 15 \in r)
    OBVIOUS
  <2>1. k - 1 \in Lower /\ (k - 1) - 1 = k - 2
    BY DEF Lower
  <2>2. k - 1 \in s <=> Either(k - 1 # 0 /\ (k - 1) - 1 \in r, k - 1 \in {0, 5, 12} /\ 15 \in r)
    BY <2>1, ShiftBits
  <2> QED
    BY <2>1, <2>2 DEF Lower
<1>3. k \in Division!Shift(s) <=>
        Either(k # 0 /\ k - 1 \in s, k \in {0, 5, 12} /\ 15 \in s)
  BY ShiftBits
<1> QED
  BY <1>1, <1>2, <1>3 DEF Division!ShiftTwice, Lower, Either

\* Four shifts.
LEMMA ShiftFourBits ==
  ASSUME NEW r, NEW k \in Lower
  PROVE  k \in Division!ShiftFour(r) <=>
           Either(Either(k >= 4 /\ k - 4 \in r, k \in 0 .. 3 /\ k + 12 \in r),
                  Either(k \in 5 .. 8 /\ k + 7 \in r, k \in 12 .. 15 /\ k \in r))
<1> DEFINE s == Division!ShiftTwice(r)
           Twice(q, j) == Either(Either(j >= 2 /\ j - 2 \in q, j \in 0 .. 1 /\ j + 14 \in q),
                                 Either(j \in 5 .. 6 /\ j + 9 \in q, j \in 12 .. 13 /\ j + 2 \in q))
<1>1. \A j \in Lower : j \in s <=> Twice(r, j)
  BY ShiftTwiceBits
<1>2. k \in Division!ShiftFour(r) <=> Twice(s, k)
  BY ShiftTwiceBits DEF Division!ShiftFour
<1>3. k >= 2 => (k - 2 \in s <=> Twice(r, k - 2))
  BY <1>1 DEF Lower
<1>4. k \in 0 .. 1 => (k + 14 \in s <=> Twice(r, k + 14))
  BY <1>1 DEF Lower
<1>5. k \in 5 .. 6 => (k + 9 \in s <=> Twice(r, k + 9))
  BY <1>1 DEF Lower
<1>6. k \in 12 .. 13 => (k + 2 \in s <=> Twice(r, k + 2))
  BY <1>1 DEF Lower
<1> HIDE DEF s
<1> QED
  BY <1>2, <1>3, <1>4, <1>5, <1>6 DEF Lower, Either

\* The bits of x after its first and after its second assignment.
First(c, byte, k) == Either(k + 8 \in c, k \in byte)
Second(c, byte, k) == Either(First(c, byte, k), k \in 0 .. 3 /\ First(c, byte, k + 4))

\* The bits of the register after the byte.
After(c, byte, k) ==
  Either(Either(k >= 8 /\ k - 8 \in c, k >= 12 /\ Second(c, byte, k - 12)),
         Either(k \in 5 .. 12 /\ Second(c, byte, k - 5), k \in 0 .. 7 /\ Second(c, byte, k)))

\* The division of a byte, position by position.
LEMMA DivideBits ==
  ASSUME NEW c \in SUBSET Lower, NEW byte \in SUBSET (0 .. 7), NEW k \in Lower
  PROVE  k \in Division!Divide(c, byte) <=> After(c, byte, k)
<1> DEFINE e == Division!Add(c, {j \in 8 .. 15 : j - 8 \in byte})
           s == Division!ShiftFour(e)
           Four(q, j) == Either(Either(j >= 4 /\ j - 4 \in q, j \in 0 .. 3 /\ j + 12 \in q),
                                Either(j \in 5 .. 8 /\ j + 7 \in q, j \in 12 .. 15 /\ j \in q))
<1>1. \A j \in Lower : j \in e <=> Either(j \in c, j >= 8 /\ j - 8 \in byte)
  BY DEF Division!Add, Lower, Either
<1>2. \A j \in Lower : j \in s <=> Four(e, j)
  BY ShiftFourBits
<1>3. k \in Division!Divide(c, byte) <=> Four(s, k)
  BY ShiftFourBits DEF Division!Divide
<1> HIDE DEF e, s
<1>4. k >= 4 => (k - 4 \in s <=> Four(e, k - 4))
  BY <1>2 DEF Lower
<1>5. k \in 0 .. 3 => (k + 12 \in s <=> Four(e, k + 12))
  BY <1>2 DEF Lower
<1>6. k \in 5 .. 8 => (k + 7 \in s <=> Four(e, k + 7))
  BY <1>2 DEF Lower
<1>7. k \in 12 .. 15 => (k \in s <=> Four(e, k))
  BY <1>2
<1> QED
  BY <1>1, <1>3, <1>4, <1>5, <1>6, <1>7 DEF After, Second, First, Either, Lower

\* The body of the loop, position by position, whatever the sign of the char.
LEMMA StepBits ==
  ASSUME NEW c \in SUBSET Lower, NEW byte \in SUBSET (0 .. 7), NEW char \in Promoted(byte),
         NEW k \in Lower
  PROVE  k \in Step(c, char) <=> After(c, byte, k)
<1> DEFINE x == Truncate(Xor(ShiftRight(c, 8), char), 8)
           y == Truncate(Xor(x, ShiftRight(x, 4)), 8)
<1>1. \A j \in 0 .. 7 : j \in char <=> j \in byte
  BY DEF Promoted
<1>2. \A j : j \in x <=> j \in 0 .. 7 /\ First(c, byte, j)
  BY <1>1 DEF Truncate, Xor, ShiftRight, IntBits, First, Either
<1>3. \A j : j \in y <=> j \in 0 .. 7 /\ Second(c, byte, j)
  BY <1>2 DEF Truncate, Xor, ShiftRight, IntBits, Second, Either
<1>4. k \in ShiftLeft(c, 8) <=> k >= 8 /\ k - 8 \in c
  BY DEF ShiftLeft, IntBits, Lower
<1>5. k \in Truncate(ShiftLeft(y, 12), 16) <=> k >= 12 /\ Second(c, byte, k - 12)
  BY <1>3 DEF ShiftLeft, Truncate, IntBits, Lower
<1>6. k \in Truncate(ShiftLeft(y, 5), 16) <=> k \in 5 .. 12 /\ Second(c, byte, k - 5)
  BY <1>3 DEF ShiftLeft, Truncate, IntBits, Lower
<1>7. k \in y <=> k \in 0 .. 7 /\ Second(c, byte, k)
  BY <1>3
<1>8. Step(c, char) = Folded(c, y)
  BY DEF Step
<1> HIDE DEF y
<1> QED
  BY <1>4, <1>5, <1>6, <1>7, <1>8 DEF Folded, Truncate, Xor, After, Either, Lower

\* The body of the loop divides the byte.
LEMMA StepDivides ==
  ASSUME NEW c \in SUBSET Lower, NEW byte \in SUBSET (0 .. 7), NEW char \in Promoted(byte)
  PROVE  Step(c, char) = Division!Divide(c, byte) /\ Step(c, char) \in SUBSET Lower
<1>1. Step(c, char) \in SUBSET Lower
  BY DEF Step, Folded, Truncate, Lower
<1>2. Division!Divide(c, byte) \in SUBSET Lower
  <2>1. \A r : Division!Shift(r) \in SUBSET Lower
    BY DEF Division!Shift, Division!Times, Division!Add, Division!Reduced, Lower
  <2> QED
    BY <2>1 DEF Division!Divide, Division!ShiftFour, Division!ShiftTwice
<1> QED
  BY <1>1, <1>2, StepBits, DivideBits

--------------------------------------------------------------------------------
\* The invariant

\* The id and filter the tracer set last, which are those that are read.
PInv ==
  /\ crc \in SUBSET Lower
  /\ number \in SUBSET IntBits
  /\ set \in [probe_id : SUBSET SUBSET Lower, filter : SUBSET SUBSET Lower]
  /\ FieldsApart

\* The names consist of bytes.
LEMMA NamesOfBytes ==
  ASSUME NEW byte \in Bytes \cup UNION {Range(Spelled(known)) : known \in KnownIds}
  PROVE  byte \in SUBSET (0 .. 7)
<1>1. CASE byte \in Bytes
  BY <1>1, BytesAssumption
<1>2. ASSUME NEW known \in KnownIds, byte \in Range(Spelled(known))
      PROVE  byte \in SUBSET (0 .. 7)
  <2>1. PICK n : byte = Ones(n, 8)
    BY <1>2 DEF Range, Spelled
  <2> QED
    BY <2>1 DEF Ones
<1> QED
  BY <1>1, <1>2

\* A byte of the name is hashed.
LEMMA HashStep ==
  ASSUME PInv, NEW byte \in Bytes \cup UNION {Range(Spelled(known)) : known \in KnownIds},
         NEW char \in Promoted(byte), Hash(byte, char)
  PROVE  PInv' /\ Division!Take(byte) /\ byte \in Division!Byte
<1>1. byte \in SUBSET (0 .. 7)
  BY NamesOfBytes
<1>2. Step(crc, char) = Division!Divide(crc, byte) /\ Step(crc, char) \in SUBSET Lower
  BY <1>1, StepDivides DEF PInv
<1>3. PInv'
  BY <1>2 DEF PInv, Hash, FieldsApart
<1> QED
  BY <1>1, <1>2, <1>3 DEF Hash, Division!Take, Division!Byte

\* The id is set: it is what is read, and so is the filter, if one was set before.
LEMMA SetIdStep ==
  ASSUME PInv, prvTraceSetTaskProbeId
  PROVE  PInv'
<1>1. /\ number' \in SUBSET IntBits /\ READ_LOWER(number') = crc
      /\ READ_UPPER(number') = READ_UPPER(number)
  BY WriteLower DEF PInv, prvTraceSetTaskProbeId
<1>2. /\ set' \in [probe_id : SUBSET SUBSET Lower, filter : SUBSET SUBSET Lower]
      /\ set'.probe_id = {crc} /\ set'.filter = set.filter
  BY DEF PInv, prvTraceSetTaskProbeId
<1>3. crc' = crc
  BY DEF prvTraceSetTaskProbeId
<1> QED
  BY <1>1, <1>2, <1>3 DEF PInv, FieldsApart

\* The filter is set.
LEMMA SetFilterStep ==
  ASSUME PInv, NEW filter \in Filters, prvTraceSetTaskFilter(filter)
  PROVE  PInv'
<1>1. filter \in SUBSET Lower
  BY NumbersAssumption
<1>2. /\ number' \in SUBSET IntBits /\ READ_UPPER(number') = filter
      /\ READ_LOWER(number') = READ_LOWER(number)
  BY <1>1, WriteUpper DEF PInv, prvTraceSetTaskFilter
<1>3. /\ set' \in [probe_id : SUBSET SUBSET Lower, filter : SUBSET SUBSET Lower]
      /\ set'.filter = {filter} /\ set'.probe_id = set.probe_id
  BY <1>1 DEF PInv, prvTraceSetTaskFilter
<1>4. crc' = crc
  BY DEF prvTraceSetTaskFilter
<1> QED
  BY <1>2, <1>3, <1>4 DEF PInv, FieldsApart

\* Every step keeps the invariant, and takes a byte into the division or leaves it alone.
LEMMA NextDivides ==
  ASSUME PInv, [Next]_vars
  PROVE  PInv' /\ [Division!Next]_(Division!vars)
<1>1. ASSUME NEW byte \in Bytes \cup UNION {Range(Spelled(known)) : known \in KnownIds},
             NEW char \in Promoted(byte), Hash(byte, char)
      PROVE  PInv' /\ Division!Next
  BY <1>1, HashStep DEF Division!Next
<1>2. ASSUME prvTraceSetTaskProbeId PROVE PInv' /\ UNCHANGED Division!vars
  BY <1>2, SetIdStep DEF prvTraceSetTaskProbeId, Division!vars
<1>3. ASSUME NEW filter \in Filters, prvTraceSetTaskFilter(filter)
      PROVE  PInv' /\ UNCHANGED Division!vars
  BY <1>3, SetFilterStep DEF prvTraceSetTaskFilter, Division!vars
<1>4. ASSUME UNCHANGED vars PROVE PInv' /\ UNCHANGED Division!vars
  BY <1>4 DEF vars, PInv, FieldsApart, Division!vars
<1> QED
  BY <1>1, <1>2, <1>3, <1>4 DEF Next

\* The state before the first byte.
LEMMA InitDivides == Init => PInv /\ Division!Init
<1> SUFFICES ASSUME Init PROVE PInv /\ Division!Init
  OBVIOUS
<1>1. number \in SUBSET IntBits
  BY NumbersAssumption DEF Init
<1>2. crc = Lower /\ name = <<>> /\ set = [probe_id |-> {}, filter |-> {}]
  BY DEF Init
<1>3. set \in [probe_id : SUBSET SUBSET Lower, filter : SUBSET SUBSET Lower]
      /\ FieldsApart
  BY <1>2 DEF FieldsApart
<1> QED
  BY <1>1, <1>2, <1>3 DEF PInv, Division!Init, Lower

\* The loop of probe_id_hash computes the CRC of every name of any length, whether char is
\* signed or not: narrowed and promoted as C does, its body divides one byte.
THEOREM HashDivides == Spec => HashIsRemainder
<1>1. Init => PInv /\ Division!Init
  BY InitDivides
<1>2. PInv /\ [Next]_vars => PInv' /\ [Division!Next]_(Division!vars)
  BY NextDivides
<1> QED
  BY <1>1, <1>2, PTL DEF Spec, HashIsRemainder, Division!Spec

\* The id and the filter in uxTaskNumber never disturb one another, for every id, every filter and
\* every number the kernel or the application left there.
THEOREM FieldsStayApart == Spec => []FieldsApart
<1>1. Init => PInv
  BY InitDivides
<1>2. PInv /\ [Next]_vars => PInv'
  BY NextDivides
<1>3. PInv => FieldsApart
  BY DEF PInv
<1> QED
  BY <1>1, <1>2, <1>3, PTL DEF Spec

================================================================================
