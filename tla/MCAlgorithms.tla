---------------------------- MODULE MCAlgorithms ----------------------------
(***************************************************************************)
(* The algorithms for TLC: one call of a pure function, or a sequence of   *)
(* calls of sliding_window_note().  They share no variable; the ring moves *)
(* while a call of sha256_fd() stands where it began.                      *)
(***************************************************************************)
EXTENDS Algorithms, SlidingWindow

\* Only the order of the limits matters: the real table has 170.
MCTopVal == [i \in 1 .. 9 |-> 2 * i - 1]

Pieces == {"", ".", "..", "a", "b"}
Bases == {<<"", "">>, <<"", "a">>, <<"", "a", "b">>}
GivenPaths == UNION {[1 .. n -> Pieces] : n \in 1 .. 4}

\* Lengths and ratios at the ends of their ranges and in the middle.
Digests == [checksum : {<<0, 0>>, <<0, 1>>}, Lvalue : {<<0, 0>>, <<0, 1>>, <<8, 0>>, <<15, 15>>},
            Q1ratio : {0, 1, 8, 15}, Q2ratio : {0, 15},
            code : {<<<<0, 0>>, <<0, 0>>>>, <<<<1, 0>>, <<0, 12>>>>}]

MCJobs ==
    {[kind |-> "sha"], [kind |-> "tlsh"]}
      \cup {[kind |-> "quartiles", bucket |-> b] : b \in [0 .. EffBuckets - 1 -> 0 .. 2]}
      \cup {[kind |-> "length", len |-> l] : l \in 0 .. 19}
      \cup {[kind |-> "diff", a |-> a, b |-> b] : a, b \in Digests}
      \cup {[kind |-> "path", path |-> p, base |-> b] : p \in GivenPaths, b \in Bases}

\* Four files, the last two of which have the same hash.
MCPaths == 1 .. 4
MCColliding == [p \in MCPaths |-> IF p = 4 THEN 3 ELSE p]

MCNext ==
    \/ Next /\ RingInit /\ UNCHANGED windowVars
    \/ RingNext /\ job.kind = "sha" /\ total = 0 /\ ~done /\ UNCHANGED vars

MCInit ==
    /\ Init
    /\ RingInit

MCSpec == MCInit /\ [][MCNext]_<<vars, windowVars>>
=============================================================================
