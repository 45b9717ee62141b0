---------------------------- MODULE MCReminderLease ----------------------------
(* Small instances of ReminderLease: the lease ids are interchangeable. *)
EXTENDS ReminderLease, TLC

WorkerSymmetry == Permutations(Workers)

=============================================================================
