--------------------------- MODULE MCBrowserPool ----------------------------
(* Model-checking instance of BrowserPool: two or three threads, given by the
   configurations.  Liveness is checked, so no symmetry is declared.  *)
EXTENDS BrowserPool
=============================================================================
