---------------------------- MODULE MCLifecycle ----------------------------
EXTENDS ServerLifecycle, TLC

CONSTANTS s1, s2

OneAtBoot == <<s1>>
=============================================================================
