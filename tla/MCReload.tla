------------------------------ MODULE MCReload ------------------------------
(* Instances of Reload for TLC. *)
EXTENDS Reload

\* Two of the eight probes that av_init hooks one after the other: the first
\* may be live when the second fails.
MCProbes == <<"kp_execve", "kp_renameat2">>

\* No probe, for what does not depend on the work that probes queue.
NoProbes == <<>>

\* Every table in use.  The operator may delete the seed and put another
\* signature in its place: then the seed that av_init adds fills the table.
MCStarts ==
    {[entries |-> {Seed} \cup Trusts \cup Protects, policy |-> "fail-closed"]}
=============================================================================
