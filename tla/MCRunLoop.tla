----------------------------- MODULE MCRunLoop -----------------------------
(* Small instances of RunLoop for TLC. *)
EXTENDS RunLoop, TLC

CONSTANTS pay, post, note, ping

\* `pay` is effectful and needs approval, `post` only needs approval, `note` is keyed and
\* runs alone, `ping` declares nothing but that it may be repeated.
BatchCalls == {pay, note, ping}
Batches == {<<pay, note>>, <<ping, pay>>}
GatedCalls == {pay, post}
Singles == {<<pay>>, <<post>>}
Pairs == {<<pay, post>>}
Symmetric == Permutations(Workers)
=============================================================================
