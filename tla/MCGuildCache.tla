---------------------------- MODULE MCGuildCache ----------------------------
EXTENDS GuildCache, TLC

CONSTANTS g1, u1, c1, t1, t2
=============================================================================
