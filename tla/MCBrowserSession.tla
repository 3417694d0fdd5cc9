-------------------------- MODULE MCBrowserSession --------------------------
(* Small instances of BrowserSession. *)
EXTENDS BrowserSession

CONSTANTS t1, t2, k1, k2

OneTab == {t1}
TwoTabs == {t1, t2}
OneToken == {k1}
TwoTokens == {k1, k2}
=============================================================================
