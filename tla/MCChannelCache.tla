--------------------------- MODULE MCChannelCache ---------------------------
EXTENDS ChannelCache, TLC

\* Channels are interchangeable, and so are administrators.
ChannelSymmetry == Permutations(Channels) \union Permutations(Admins)
=============================================================================
