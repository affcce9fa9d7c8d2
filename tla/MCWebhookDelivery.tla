------------------------- MODULE MCWebhookDelivery -------------------------
EXTENDS WebhookDelivery
CONSTANTS d1, u1, u2
OneAlert == {d1}
AllUrls == {u1, u2}
EveryQuery == {"publish", "load", "loadMonitor", "skip", "settle", "record"}
=============================================================================
