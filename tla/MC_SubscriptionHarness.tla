----------------------- MODULE MC_SubscriptionHarness -----------------------
EXTENDS SubscriptionHarness, TLC

CONSTANTS s1, s2

MCSubs == {s1, s2}

=============================================================================
