-------------------------------- MODULE Half --------------------------------
(***************************************************************************)
(* The conversion of a component to half precision and back, at its real   *)
(* widths.  A float32 is the field of its exponent (8 bits) and that of    *)
(* its mantissa (23 bits); a half is the number its 15 bits spell.  The    *)
(* sign is copied either way and left out.                                 *)
(***************************************************************************)
EXTENDS Integers

CONSTANTS
  Mantissas,  \* the mantissas that are tried, with every exponent
  None, Overflow, NonFinite

VARIABLES
  x,     \* a component of the vector
  half,  \* what EncodeFP16 makes of it
  back   \* what the kernels read

vars == <<x, half, back>>

Float(field, mant) == [field |-> field, mant |-> mant]

Init ==
  /\ \E field \in 0..255, mant \in Mantissas : x = Float(field, mant)
  /\ half = None /\ back = None
-----------------------------------------------------------------------------
(* n / 2^shift, rounded to the nearest, and to the even one of two.        *)
RoundAwayFromZero(n, shift) == (n + 2^(shift - 1)) \div 2^shift

Round(n, shift) ==
  LET q   == n \div 2^shift
      rem == n % 2^shift
      mid == 2^(shift - 1)
  IN  IF rem > mid \/ (rem = mid /\ q % 2 = 1) THEN q + 1 ELSE q

(* A half below 2^-14 has no leading one; one that rounds up to 2^-14, or  *)
(* to the next power of two, carries into its exponent.                    *)
fp16FromFloat32(f) ==
  LET exp    == f.field - 127 + 15
      normal == Round(exp * 2^23 + f.mant, 13)
  IN  CASE exp >= 31  -> Overflow
        [] exp < -10  -> 0
        [] exp \in -10..0 -> Round(f.mant + 2^23, 14 - exp)
        [] exp \in 1..30  -> IF normal >= 31 * 2^10 THEN Overflow ELSE normal

EncodeFP16(f) == IF f.field = 255 THEN NonFinite ELSE fp16FromFloat32(f)

Encode ==
  /\ half = None /\ half' = EncodeFP16(x)
  /\ UNCHANGED <<x, back>>
-----------------------------------------------------------------------------
(* mant * 2^-24 as the processor multiplies.                               *)
Scaled(mant) ==
  IF mant = 0 THEN Float(0, 0)
  ELSE LET top == CHOOSE p \in 0..9 : 2^p <= mant /\ mant < 2^(p + 1)
       IN  Float(top - 24 + 127, (mant - 2^top) * 2^(23 - top))

(* A half that EncodeFP16 stored is finite: exponent 31 does not occur.    *)
fp16ToFloat32(h) ==
  IF h \div 2^10 = 0 THEN Scaled(h % 2^10)
                     ELSE Float(h \div 2^10 + 112, (h % 2^10) * 2^13)

Decode ==
  /\ half \notin {None, Overflow, NonFinite} /\ back = None
  /\ back' = fp16ToFloat32(half)
  /\ UNCHANGED <<x, half>>
-----------------------------------------------------------------------------
Next == Encode \/ Decode

Spec == Init /\ [][Next]_vars
-----------------------------------------------------------------------------
(* The reference: what the bits stand for, in units of the last bit of x.  *)

Unit == x.field - 150

X == 2^23 + x.mant

HalfValue(h) ==
  LET e == h \div 2^10
      m == h % 2^10
  IN  IF e = 0 THEN m * 2^(-24 - Unit) ELSE (2^10 + m) * 2^(e - 25 - Unit)

Distance(h) == IF HalfValue(h) > X THEN HalfValue(h) - X ELSE X - HalfValue(h)

(* No neighbour is nearer, and one as near is odd.                         *)
Nearest(h) ==
  \A other \in {h - 1, h + 1} \cap Nat :
    \/ Distance(h) < Distance(other)
    \/ Distance(h) = Distance(other) /\ h % 2 = 0

(* 65504, the largest half, and what a half can stand for.                 *)
Largest == Float(142, (2^10 - 1) * 2^13)

InRange == x.field < Largest.field \/ (x.field = Largest.field /\ x.mant <= Largest.mant)

(* EncodeFP16 stores every component up to the largest half as the half    *)
(* nearest to it, also among the subnormal ones and where rounding carries *)
(* into the exponent, zero only up to 2^-25, and refuses all from 2^16 on. *)
(* Nothing is said of what lies between: the code stores some of it, and   *)
(* the documents have all of it refused.                                   *)
NearestEven ==
  /\ half = Overflow => ~InRange
  /\ half \notin {None, Overflow, NonFinite} =>
       /\ x.field <= Largest.field
       /\ InRange => IF x.field < 102 THEN half = 0 ELSE Nearest(half)

(* What the kernels read back from a stored half is stored as the same     *)
(* half: a table that is written again from what was read does not drift.  *)
RoundTrip == back # None => EncodeFP16(back) = half
=============================================================================
