----------------------------- MODULE MCBehavior -----------------------------
(* Instances of Behavior for TLC. *)
EXTENDS Behavior

\* Any file of a small set may be renamed to another with an extension added.
MCAppends == {<<f, g>> \in Files \X Files : f # g /\ f \notin Sensitive}
=============================================================================
