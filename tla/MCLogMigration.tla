--------------------------- MODULE MCLogMigration ---------------------------
(* Two directories: one whose second file raises, and the same repaired.    *)
EXTENDS LogMigration, TLC

CONSTANTS c1, c2

A == [chain |-> c1, block |-> 1, index |-> 0]
B == [chain |-> c1, block |-> 3, index |-> 0]
C == [chain |-> c2, block |-> 2, index |-> 0]

MCLogs == {A, B, C}

At(kind, l) == [kind |-> kind, log |-> l]

Long == <<At("log", B), At("malformed", A), At("log", A), At("null", A)>>

MCDirectories ==
  {<<Long, <<At("log", C), At("unusable", A), At("log", B)>> >>,
   <<Long, <<At("log", C), At("log", B)>> >>}
=============================================================================
