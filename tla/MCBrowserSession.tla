--------------------------- MODULE MCBrowserSession ---------------------------
(* Small instances of BrowserSession for TLC. *)
EXTENDS BrowserSession, TLC

\* Tabs and accounts are interchangeable.
Symmetry == Permutations(Tabs) \union Permutations(Users)
=============================================================================
