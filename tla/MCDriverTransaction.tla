------------------------ MODULE MCDriverTransaction ------------------------
EXTENDS DriverTransaction, TLC

Documented == {{}}
Undocumented == {{"catches"}, {"iterating"}, {"catches", "iterating", "script"}}
AllPrograms == Documented \cup Undocumented

RowSymmetry == Permutations(Rows)
=============================================================================
