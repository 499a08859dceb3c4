---------------------------- MODULE MCDeviceScan ----------------------------
(***************************************************************************)
(* DeviceScan for TLC: warps of four threads, blocks of two warps, the     *)
(* three ratios of the templates.  What scan_ computes is linear in the    *)
(* counts, so vectors with one count that is not zero show all there is;   *)
(* one with many counts goes with them.  The blocks of breduce and gexscan *)
(* share nothing: TLC runs them one after the other.                       *)
(***************************************************************************)
EXTENDS DeviceScan

CONSTANT Few    \* the instances all vectors of one count are taken for

\* <<rt, raw_size>>: less than a thread, a whole block, a block and a part of a
\* thread, and more blocks than bexscan has threads.
Sizes == Few \cup {<<1, 300>>, <<2, 140>>, <<4, 130>>}

Hot(n, h)  == [i \in 0 .. n - 1 |-> IF i = h THEN 1 ELSE 0]
Many(n)    == [i \in 0 .. n - 1 |-> (i * i) % 2]
Vectors(s) == {Many(s[2])} \cup
  {Hot(s[2], h) : h \in IF s \in Few THEN 0 .. s[2] - 1 ELSE {0, s[2] - 8}}

MCInit ==
  /\ \E s \in Sizes : rt = s[1] /\ counts \in Vectors(s)
  /\ ScanInit

OneBlockAtATime ==
  running \in {"breduce", "gexscan"} /\ running' = running =>
    \A b \in Blocks : at'[b] # at[b] \/ waiting'[b] # waiting[b] =>
      \A a \in 0 .. b - 1 : at[a] = LastPhase /\ Active(a, at[a]) \subseteq waiting[a]

MCNext == ScanNext /\ OneBlockAtATime
MCSpec == MCInit /\ [][MCNext]_scan_vars /\ WF_scan_vars(MCNext)

\* The counters of the loops, up to half a block of two warps of four.
UpToBDIM == <<1, 2, 4>>
SmallSizes == {<<1, 3>>, <<1, 34>>, <<2, 9>>, <<4, 21>>}
=============================================================================
