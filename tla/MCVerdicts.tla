----------------------------- MODULE MCVerdicts -----------------------------
(* An instance of Verdicts for TLC: one file for each way to a verdict. *)
EXTENDS Verdicts, TLC

CONSTANTS alice, bob, clean, packed, hinted, variant, hidden, strong, weak, other,
          k1, k2, bad, long

\* hinted matches two rules that convict only together; variant is like the
\* second corpus line; hidden is caught by TLSH alone, below a malformed line;
\* packed is too big for both corpora.
MCOwner == (clean :> bob) @@ (packed :> alice) @@ (hinted :> bob) @@ (variant :> alice)
             @@ (hidden :> bob)
MCMatches == (clean :> {weak}) @@ (packed :> {strong}) @@ (hinted :> {weak, other})
               @@ (variant :> {}) @@ (hidden :> {weak})
MCWeight == (strong :> 1) @@ (weak :> 2) @@ (other :> 2)
MCFuzzyFile == <<bad, k1, k2>>
MCTlshFile == <<long, k1, bad, k2>>
MCSimilarity == [f \in Files |-> [l \in {bad, k1, k2, long} |->
                   CASE f = variant /\ l = k2 -> 60
                     [] f = hidden /\ l = k1 -> 59
                     [] l = k1 -> 0
                     [] OTHER -> -1]]
MCDistance == [f \in Files |-> [l \in {bad, k1, k2, long} |->
                 CASE f = hidden /\ l = k2 -> 30
                   [] f = hidden /\ l = k1 -> 31
                   [] f = variant /\ l = k1 -> -1
                   [] OTHER -> 40]]
\* Two known-bad files of different users, or one file.
MCStarts == {{hinted, variant}, {clean}, {hidden}, {packed}}
=============================================================================
