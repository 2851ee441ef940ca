------------------------------- MODULE RunLog -------------------------------
(***************************************************************************)
(* What RunBlockSink promises of its output (runblock.go:114-116 and       *)
(* 210-217), without calls, locks or time: the items of a run are kept and *)
(* printed together, as one block or several, until the run is truncated;  *)
(* then its warning is printed, once, and each of its later items by       *)
(* itself.  An item is dealt with at most once.                            *)
(***************************************************************************)
EXTENDS Naturals, Sequences, Functions

CONSTANTS
  Runs,      \* the runs
  NoRun,     \* the run of an item that has none
  MaxItems,  \* how many items of a run are kept
  MayFail    \* TRUE: a print may show only a part

VARIABLES
  offered,   \* the items handed over so far
  dealt,     \* those that were kept, printed or dropped
  held,      \* the items kept for each run, in order
  closed,    \* the runs truncated
  log        \* what was printed

logVars == <<offered, dealt, held, closed, log>>

Prints(r, kind, S, shown) ==
  /\ shown \subseteq S
  /\ MayFail \/ shown = S
  /\ log' = Append(log, [run |-> r, kind |-> kind, items |-> shown])

Fresh == offered \ dealt

LogInit ==
  /\ offered = {}
  /\ dealt = {}
  /\ held = [r \in Runs |-> <<>>]
  /\ closed = {}
  /\ log = <<>>

Offer == offered \subseteq offered' /\ UNCHANGED <<dealt, held, closed, log>>

\* Item i is kept.
Hold(r, i) ==
  /\ r \notin closed
  /\ Len(held[r]) < MaxItems
  /\ dealt' = dealt \cup {i}
  /\ held' = [held EXCEPT ![r] = Append(@, i)]
  /\ UNCHANGED <<offered, closed, log>>

\* What was kept for a run is printed.
Flush(r, shown) ==
  /\ held[r] # <<>>
  /\ Prints(r, "block", Range(held[r]), shown)
  /\ held' = [held EXCEPT ![r] = <<>>]
  /\ UNCHANGED <<offered, dealt, closed>>

\* So is the last item of a run, together with what was kept.
End(r, i, shown) ==
  /\ r \notin closed
  /\ Len(held[r]) < MaxItems
  /\ Prints(r, "block", Range(held[r]) \cup {i}, shown)
  /\ dealt' = dealt \cup {i}
  /\ held' = [held EXCEPT ![r] = <<>>]
  /\ UNCHANGED <<offered, closed>>

\* Its buffer is full: what was kept is printed with a warning.
Truncate(r, shown) ==
  /\ r \notin closed
  /\ Len(held[r]) = MaxItems
  /\ Prints(r, "warning", Range(held[r]), shown)
  /\ held' = [held EXCEPT ![r] = <<>>]
  /\ closed' = closed \cup {r}
  /\ UNCHANGED <<offered, dealt>>

\* A later item of the run is printed by itself.
Stream(r, i, shown) ==
  /\ r \in closed
  /\ Prints(r, "lines", {i}, shown)
  /\ dealt' = dealt \cup {i}
  /\ UNCHANGED <<offered, held, closed>>

\* Or it is dropped, because the context of its call has ended.
Drop(i) ==
  /\ closed # {}
  /\ dealt' = dealt \cup {i}
  /\ UNCHANGED <<offered, held, closed, log>>

\* Items of no run are printed at once.
Pass(shown) ==
  /\ Prints(NoRun, "lines", shown, shown)
  /\ dealt' = dealt \cup shown
  /\ UNCHANGED <<offered, held, closed>>

LogNext ==
  \/ Offer
  \/ \E r \in Runs : \E shown \in SUBSET Range(held[r]) : Flush(r, shown) \/ Truncate(r, shown)
  \/ \E i \in Fresh :
       \/ Drop(i)
       \/ \E r \in Runs :
            \/ Hold(r, i)
            \/ \E shown \in SUBSET {i} : Stream(r, i, shown)
            \/ \E shown \in SUBSET (Range(held[r]) \cup {i}) : End(r, i, shown)
  \/ \E shown \in SUBSET Fresh : Pass(shown)

LogSpec == LogInit /\ [][LogNext]_logVars

=============================================================================
