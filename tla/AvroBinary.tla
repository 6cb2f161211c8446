----------------------------- MODULE AvroBinary -----------------------------
(***************************************************************************)
(* io.py: the numbers and bytes of BinaryEncoder and BinaryDecoder.  Bytes *)
(* are scaled down: Group stands for 128, the values of the seven low bits *)
(* of a byte.  A float is an integer here, its bits are two's complement;  *)
(* by its size in bytes it has a Largest number, and above Exact no longer *)
(* all of them: there the even ones stand for the coarser grid.            *)
(* A read starts at a position and returns a value and the position after  *)
(* it, or raises.                                                          *)
(***************************************************************************)
EXTENDS Integers, Sequences, FiniteSetsExt

CONSTANTS Group, INT_MAX_VALUE, LONG_MAX_VALUE, Largest, Exact

ASSUME IOAssumption ==
    /\ Group \in Nat \ {0, 1} /\ INT_MAX_VALUE \in Nat /\ LONG_MAX_VALUE \in Nat
    /\ INT_MAX_VALUE <= LONG_MAX_VALUE

BYTE == 2 * Group

ASSUME FloatAssumption ==
    /\ Largest \in [{4, 8} -> Nat] /\ Exact \in [{4, 8} -> Nat]
    /\ Largest[4] <= Largest[8] /\ Exact[4] <= Exact[8]
    /\ \A size \in {4, 8} : Largest[size] < Group * BYTE ^ (size - 1)

(* n shifted right i times, for i up to k. *)
Shifts(n, base, k) ==
    LET rest[i \in 0 .. k] == IF i = 0 THEN n ELSE rest[i - 1] \div base IN rest

Zigzag(n) == IF n < 0 THEN -2 * n - 1 ELSE 2 * n
Unzigzag(n) == IF n % 2 = 0 THEN n \div 2 ELSE -(n \div 2) - 1

(* As many bytes as it takes until nothing is left.                          *)
WriteLong(n) ==
    LET rest == Shifts(Zigzag(n), Group, Zigzag(n) + 1)
        len == CHOOSE k \in 1 .. Zigzag(n) + 1 :
                  rest[k] = 0 /\ \A j \in 1 .. k - 1 : rest[j] # 0
    IN [i \in 1 .. len |-> (rest[i - 1] % Group) + IF i < len THEN Group ELSE 0]

(* What STRUCT_FLOAT.pack (4) and STRUCT_DOUBLE.pack (8) take, and what they *)
(* make of it: the nearest number they have, of two the one with an even     *)
(* mantissa.                                                                 *)
InRange(n, size) == -Largest[size] <= n /\ n <= Largest[size]
Nearest(n, size) ==
    IF n % 2 = 0 \/ (-Exact[size] <= n /\ n <= Exact[size]) THEN n ELSE 4 * ((n + 1) \div 4)

\* The bits of a float (4 bytes) or a double (8), the low byte first.
WriteBits(n, size) == [i \in 1 .. size |-> Shifts(n, BYTE, size)[i - 1] % BYTE]

WriteBytes(b) == WriteLong(Len(b)) \o b

Raised == [ok |-> FALSE]
Got(v, p) == [ok |-> TRUE, v |-> v, p |-> p]

(* The number whose digits are b[p] .. b[last], the low one first, and whose *)
(* last digit counts as top.                                                 *)
Number(b, p, last, base, top) ==
    LET bits[i \in p .. last] ==
            IF i = last THEN top ELSE (b[i] % base) + (base * bits[i + 1])
    IN bits[p]

ReadLong(b, p) ==
    LET lasts == {i \in p .. Len(b) : b[i] < Group} IN
    IF lasts = {} THEN Raised
    ELSE Got(Unzigzag(Number(b, p, Min(lasts), Group, b[Min(lasts)])), Min(lasts) + 1)

ReadBits(b, p, size) ==
    LET last == p + size - 1 IN
    IF last > Len(b) THEN Raised
    ELSE Got(Number(b, p, last, BYTE, IF b[last] < Group THEN b[last] ELSE b[last] - BYTE),
             last + 1)

\* reader.read(n): fewer bytes at the end of the input, all of them if n < 0.
EndOfRead(b, p, n) == IF n < 0 \/ p + n > Len(b) + 1 THEN Len(b) + 1 ELSE p + n
Read(b, p, n) == LET end == EndOfRead(b, p, n) IN Got(SubSeq(b, p, end - 1), end)

ReadBytes(b, p) ==
    LET n == ReadLong(b, p) IN IF n.ok THEN Read(b, n.p, n.v) ELSE Raised
=============================================================================
