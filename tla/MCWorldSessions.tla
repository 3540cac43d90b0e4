--------------------------- MODULE MCWorldSessions ---------------------------
(* WorldSessions for TLC.                                                  *)
EXTENDS WorldSessions, TLC

\* Nothing tells one connection, or one character, from another.
Interchangeable == Permutations(Socket) \cup Permutations(Char)

==============================================================================
