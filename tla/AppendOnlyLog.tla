---------------------------- MODULE AppendOnlyLog ----------------------------
(***************************************************************************)
(* What a hash-chained ledger promises: its entries form one sequence,     *)
(* each names the entry before it, and the only step is to add an entry at *)
(* the end.  Nothing is rewritten, reordered or removed.                   *)
(***************************************************************************)
EXTENDS Sequences, Naturals

CONSTANTS
    Entry,    \* entry hashes
    Genesis   \* what the first entry names in place of a predecessor

VARIABLE entries

TailOf(s) == IF s = <<>> THEN Genesis ELSE s[Len(s)].hash

Init == entries = <<>>

AppendEntry(e) ==
    entries' = Append(entries, [hash |-> e, prev |-> TailOf(entries)])

Next == \E e \in Entry : AppendEntry(e)

Spec == Init /\ [][Next]_entries
=============================================================================
