----------------------------- MODULE Allocator -----------------------------
(***************************************************************************)
(* What an allocator promises: a piece of memory it gives out lies in the    *)
(* heap and shares no byte with any other piece that is given out.           *)
(***************************************************************************)
EXTENDS Naturals

CONSTANTS
  HeapSize,
  Sizes,    \* bytes that may be asked for
  Nothing   \* the answer to a request that is refused

VARIABLES
  pieces,   \* pieces[p]: bytes of the piece at address p
  answer    \* address the last call returned

Init == pieces = [p \in {} |-> 0] /\ answer = Nothing

Apart(p, n, q, m) == p + n <= q \/ q + m <= p

Grant(n, p) ==
  /\ p + n <= HeapSize
  /\ \A q \in DOMAIN pieces : Apart(p, n, q, pieces[q])
  /\ pieces' = [q \in DOMAIN pieces \cup {p} |-> IF q = p THEN n ELSE pieces[q]]
  /\ answer' = p

Refuse == answer' = Nothing /\ UNCHANGED pieces

Release(p) ==
  /\ pieces' = [q \in DOMAIN pieces \ {p} |-> pieces[q]]
  /\ answer' = Nothing

Next ==
  \/ \E n \in Sizes \ {0}, p \in 0 .. HeapSize : Grant(n, p)
  \/ Refuse
  \/ \E p \in DOMAIN pieces : Release(p)

Spec == Init /\ [][Next]_<<pieces, answer>>
=============================================================================
