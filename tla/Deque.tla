------------------------------- MODULE Deque -------------------------------
(***************************************************************************)
(* The std::deque and std::vector operations the sources use, as sequence  *)
(* operators.  They are defined on the standard modules alone: the proofs  *)
(* reason about these definitions, and a large library in their context    *)
(* makes the prover many times slower.                                     *)
(***************************************************************************)
EXTENDS Integers, Sequences

\* std::find(s, e) finds something.
Has(s, e) == \E i \in DOMAIN s : s[i] = e

\* s.back()
Back(s) == s[Len(s)]

\* s.pop_back()
PopBack(s) == SubSeq(s, 1, Len(s) - 1)

\* s.erase(position k)
EraseAt(s, k) == SubSeq(s, 1, k - 1) \o SubSeq(s, k + 1, Len(s))

\* s.erase(std::find(s, e)), for an e that s has once.
Erase(s, e) == EraseAt(s, CHOOSE i \in DOMAIN s : s[i] = e)
============================================================================
