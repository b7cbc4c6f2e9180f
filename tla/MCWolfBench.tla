---------------------------- MODULE MCWolfBench ----------------------------
(* Two configs, two tasks and the kinds of results that matter.             *)
EXTENDS WolfBench, TLC

CONSTANTS A, B, t1, t2

Tokens == [uncached |-> 2, write |-> 1, read |-> 4, out |-> 1]
Kind(rewards, stamped, summary) ==
    [readable |-> TRUE, stamped |-> stamped, rewards |-> rewards, summary |-> summary,
     usage |-> Tokens]
Torn == [readable |-> FALSE, stamped |-> FALSE, rewards |-> <<>>, summary |-> "split",
         usage |-> Tokens]

\* Passed by its canonical reward, failed by the mean of the others, died
\* unverified, unreadable.
MCResults ==
    { Kind([reward |-> 1, style |-> 0], TRUE, "split"),
      Kind([tests |-> 1, style |-> 0], TRUE, "old"),
      Kind(<<>>, FALSE, "none"),
      Torn }

Alike == Permutations({A, B}) \cup Permutations({t1, t2})
=============================================================================
