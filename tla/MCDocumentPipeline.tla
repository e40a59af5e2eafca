------------------------- MODULE MCDocumentPipeline -------------------------
(* Small instances of DocumentPipeline for TLC. *)
EXTENDS DocumentPipeline, TLC

CONSTANTS d1, d2, d3, r1, r2, w1, w2, alpha, beta

OneDoc == {d1}
TwoDocs == {d1, d3}
OneRelay == {r1}
TwoRelays == {r1, r2}
OneWorker == {w1}
TwoWorkers == {w1, w2}

\* d1 and d2 share a chunk's content, so that one may find the other's vector.
SharedText == (d1 :> <<alpha, beta>>) @@ (d2 :> <<beta>>) @@ (d3 :> <<alpha>>)

Symmetry == Permutations(TwoRelays) \cup Permutations(TwoWorkers)
=============================================================================
