--------------------------- MODULE MCAapFraming ---------------------------
(* AapFraming for model checking, with packets of a few bytes.              *)
EXTENDS AapFraming
=============================================================================
