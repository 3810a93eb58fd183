\* "u" and "U" differ in the case of a letter only; "bad" does not decode;
\* 1093 minutes is the shortest delay that does not fit its field.
SPECIFICATION Spec
CONSTANTS
  Uris = {"u", "U", "v", "bad"}
  Bad = {"bad"}
  Alike = {{"u", "U"}}
  Minutes = {5, 1093}
  Statuses = {1, 2, 4}
  DelayWrap = 65536
  MaxFail = 1
INVARIANT PointersFresh
INVARIANT DbThreadUsesLive
PROPERTY SettingsReach
CHECK_DEADLOCK FALSE
