---------------------------- MODULE MCWebClient -----------------------------
EXTENDS WebClient

CONSTANTS t1, t2, e1, e2
TwoTabs == {t1, t2}
OneTab == {t1}
TwoEmails == {e1, e2}
=============================================================================
