------------------------------ MODULE MCDevice ------------------------------
EXTENDS Device

\* A light with a brightness and a colour temperature, and one that is only switched.
MCHas == <<Setting, {}>>

\* All enabled, values forced or not, an attribute sent again at the start or not;
\* the first or the second entity disabled; the event entity disabled.
MCConfigs ==
  [disabled : {{}}, mute : {FALSE}, forced : {{}, BOOLEAN}, refresh : {{}, {"colour"}}]
  \cup [disabled : {{1}, {2}}, mute : {FALSE}, forced : {{TRUE}}, refresh : {{"colour"}}]
  \cup [disabled : {{}}, mute : {TRUE}, forced : {{}}, refresh : {{}}]
=============================================================================
