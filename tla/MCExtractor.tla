----------------------------- MODULE MCExtractor -----------------------------
(***************************************************************************)
(* An instance of Extractor: a reload of two pulses, of which the second   *)
(* comes in several portions, beside the main thread.                      *)
(***************************************************************************)
EXTENDS Extractor

CONSTANTS main, reload

Amounts == <<0, 0, 2>>
MCFrom == [t \in Thread |-> IF t = main THEN 0 ELSE 1]
MCUntil == [t \in Thread |-> IF t = main THEN 0 ELSE 3]
=============================================================================
