------------------------------ MODULE MCKeyGen ------------------------------
EXTENDS KeyGenProperties

With(enable, num, time, memq, exit) ==
  [enable |-> enable, num |-> num, time |-> time, memq |-> memq, exit |-> exit]

MCOff == With(FALSE, 0, FALSE, FALSE, FALSE)
MCJob == With(TRUE, 0, FALSE, TRUE, TRUE)
MCConfigs == {MCOff, With(TRUE, 1, FALSE, FALSE, FALSE), With(TRUE, 0, TRUE, FALSE, TRUE),
              With(TRUE, 0, FALSE, TRUE, FALSE)}
=============================================================================
