---------------------------- MODULE MCJournalCmds ----------------------------
(* The step engine over one of every kind of step, in the order of           *)
(* hostcfg.Steps: a file the initramfs is built from, in a directory apply   *)
(* has to make, tmpfiles-create (Input and CreatesPath, no undo), the        *)
(* command that builds the initramfs, a file-context rule and a unit; and    *)
(* vm-define (Input and an undo op).                                         *)
EXTENDS Journal

CONSTANTS vfioconf, tmpfiles, dracut, fcontext, vmdefine, persistenced, made

MCDirOf == [f \in Files |-> made]
MCPlans == {<<vfioconf, tmpfiles, dracut, fcontext, persistenced>>, <<vmdefine>>}
=============================================================================
