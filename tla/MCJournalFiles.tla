--------------------------- MODULE MCJournalFiles ---------------------------
(* The step engine over write_file steps: one file in a directory the host *)
(* has, one in a directory apply has to make.                              *)
EXTENDS Journal

CONSTANTS vfioconf, moduleconf, etc, made

MCDirOf == [f \in {vfioconf, moduleconf} |-> IF f = vfioconf THEN etc ELSE made]

\* The whole list, and a later command that renders only its tail.
MCPlans == {<<vfioconf, moduleconf>>, <<moduleconf>>}
=============================================================================
