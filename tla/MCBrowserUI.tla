----------------------------- MODULE MCBrowserUI -----------------------------
(* Model-checking instance of BrowserUI.  No symmetry: the first request of *)
(* a page is placed by CHOOSE.                                              *)
EXTENDS BrowserUI
=============================================================================
