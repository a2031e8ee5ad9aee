-------------------------------- MODULE Levels --------------------------------
(***************************************************************************)
(* The levels between a command and an entity: light.py (brightness and    *)
(* colour temperature), fan.py (speed) and Trans.copy of codecs/models.py. *)
(*                                                                         *)
(* The code computes in floats and truncates. Here the quotients are exact *)
(* and the truncation is the floor, or one less when the quotient is a     *)
(* whole number, which a float may miss from below: 255 * (33 * (1 / 255)) *)
(* is below 33.                                                            *)
(***************************************************************************)
EXTENDS Integers

CONSTANT MinBrightness  \* the least brightness of the light, in percent

ASSUME MinBrightnessAssumption == MinBrightness \in 1 .. 100

Least(a, b) == IF a < b THEN a ELSE b
Most(a, b)  == IF a > b THEN a ELSE b

\* int(num / den), as floats may give it.
Truncated(num, den) ==
  {num \div den} \cup
  (IF num % den = 0 /\ num > 0 THEN {num \div den - 1} ELSE {})

\* DEFAULT_MIN_KELVIN and DEFAULT_MAX_KELVIN: full warm and full cold.
MinKelvin == 2000
MaxKelvin == 6535
KelvinRange == MaxKelvin - MinKelvin

\* _set_br: the brightnesses shown for a level of a command counted up to factor.
Shown(level, factor) ==
  IF 100 * level < MinBrightness * factor
  THEN Truncated(255 * MinBrightness, 100)
  ELSE {Least(255, b) : b \in Truncated(255 * level, factor)}

\* Trans.copy: the levels sent for a brightness.
Sent(br, factor) == Truncated(factor * br, 255)

\* Mutated form: what is received is not reversed, what is sent is.
KelvinsNotReversed(cold, warm, reversed) ==
  IF cold < warm
  THEN {MinKelvin + t : t \in Truncated(KelvinRange * cold, 2 * warm)}
  ELSE {MinKelvin + t : t \in Truncated(KelvinRange * (2 * cold - warm), 2 * cold)}

\* apply_attrs and _apply_ct: the colour temperatures shown for a cold and a warm
\* level, not both 0; the weaker of the two says how far from the middle it is.
Kelvins(cold, warm, reversed) ==
  LET top  == Most(cold, warm)
      part == IF (cold < warm) # reversed THEN Least(cold, warm)
              ELSE 2 * top - Least(cold, warm)
  IN  {MinKelvin + t : t \in Truncated(KelvinRange * part, 2 * top)}

\* get_attrs: the part of the cold and of the warm light, out of KelvinRange.
ColdPart(kelvin, reversed) ==
  Least(KelvinRange, 2 * (IF reversed THEN MaxKelvin - kelvin ELSE kelvin - MinKelvin))
WarmPart(kelvin, reversed) == ColdPart(kelvin, ~reversed)

\* The levels sent for a brightness and one of the two parts.
SentPart(br, part, factor) == Truncated(factor * br * part, 255 * KelvinRange)

-----------------------------------------------------------------------------
\* fan.py: the percentage shown for a speed, and the speed sent for a percentage.
Percentage(speed, speeds) == (100 * speed) \div speeds
Speed(percentage, speeds) == (speeds * percentage + 99) \div 100
=============================================================================
